---------------------------- MODULE UserDatabase ----------------------------
(***************************************************************************)
(* What the user database promises its clients: one snapshot, replaced     *)
(* whole by the preview of a client's changes on the snapshot it replaces. *)
(* A change list is there completely or not at all, and no other list is   *)
(* lost to it.  UserStore implements this over SQL tables, and the         *)
(* sessions of LearningSession are written against it.                     *)
(***************************************************************************)
CONSTANTS
  EmptySnapshot,      \* what a new database holds
  Preview(_, _),      \* a snapshot with a list of changes applied
  Lists               \* the lists clients save, none of them empty

VARIABLE saved        \* the committed snapshot

Init == saved = EmptySnapshot

Commit(changes) == saved' = Preview(saved, changes)

Next == \E changes \in Lists : Commit(changes)

Spec == Init /\ [][Next]_saved
=============================================================================
