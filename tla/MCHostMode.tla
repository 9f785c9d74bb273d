---- MODULE MCHostMode ----
EXTENDS HostMode, TLC
CONSTANTS a, b
OneField == {a}
TwoFields == {a, b}
====
