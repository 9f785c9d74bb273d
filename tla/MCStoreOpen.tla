---------------------------- MODULE MCStoreOpen ----------------------------
(* Three processes open one path, whatever is there, and save to it.        *)
EXTENDS StoreOpen, TLC

MCSymmetry == Permutations(Processes)
=============================================================================
