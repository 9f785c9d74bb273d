---- MODULE MCTextService ----
EXTENDS TextService, TLC
CONSTANTS a, b
TwoContexts == {a, b}
====
