------------------------------ MODULE StoreOpen ------------------------------
(***************************************************************************)
(* UserStore::open in user_store.rs: several processes open one path, and  *)
(* the sessions they get save to it.  The path holds what fs and SQLite    *)
(* see there: pages, and the rollback journal that SQLite keeps beside the *)
(* pages from the moment a COMMIT writes over them to its end.  A process  *)
(* that dies in between leaves both, and the next connection that may      *)
(* write puts the journal's pages back.  Only UserStore is at the path.    *)
(***************************************************************************)
EXTENDS Naturals

CONSTANTS
  Processes,    \* each opens one session at a time
  NoProcess,    \* the write lock is free
  MaxSaves      \* bound: the largest revision

ASSUME MaxSavesAssumption == MaxSaves \in Nat
ASSUME NoProcessAssumption == NoProcess \notin Processes

VARIABLES
  pages,      \* what the path holds
  journal,    \* the pages before the COMMIT in progress, or none
  writer,       \* the process in an immediate transaction
  pc,         \* the step each process is at
  exists,     \* the local variable of open: there was something at the path
  created     \* history: open put the file there

openVars == <<pages, journal, writer, pc, exists, created>>

(* A dangling link, the shared model or a link to it, a directory, a file   *)
(* with some other content, an empty file, a user database.                 *)
Kinds == {"none", "dangling", "model", "directory", "other", "empty", "store"}
Image == [kind : Kinds, revision : 0..MaxSaves]
NoImage == [kind |-> "none", revision |-> 0]
Store(revision) == [kind |-> "store", revision |-> revision]

Hot == journal # NoImage
Recovered == IF Hot THEN journal ELSE pages

(* The steps in an immediate transaction, and those at which a process has  *)
(* a connection that may write.                                             *)
InTransaction == {"initializing", "initialized", "saving", "saved"}
Connected == {"begin", "validate", "open"} \cup InTransaction

-----------------------------------------------------------------------------
OpenInit ==
  /\ pages \in [kind : Kinds, revision : {0}]
  /\ journal = NoImage
  /\ writer = NoProcess
  /\ pc = [p \in Processes |-> "closed"]
  /\ exists = [p \in Processes |-> FALSE]
  /\ created = FALSE

At(p, step) == pc[p] = step
GoTo(p, step) == pc' = [pc EXCEPT ![p] = step]

(* The model is refused by reject_same_file, a dangling link and a          *)
(* directory by fs::metadata; symlink_metadata tells whether to create.     *)
Look(p) ==
  /\ At(p, "closed")
  /\ exists' = [exists EXCEPT ![p] = pages.kind # "none"]
  /\ GoTo(p, CASE pages.kind = "none" -> "reserve"
               [] pages.kind \in {"other", "empty", "store"} -> "probe"
               [] OTHER -> "closed")
  /\ UNCHANGED <<pages, journal, writer, created>>

(* The read-only connection has no busy timeout and may not write: it can   *)
(* neither wait for a COMMIT to end nor put back what one left behind.      *)
CanProbeAndRecover == ~Hot \/ writer = NoProcess
CanProbe == ~Hot

ProbeAcceptsEmpty(p) ==
  /\ At(p, "probe")
  /\ CanProbe /\ Recovered.kind \in {"store", "empty"}
  /\ exists' = [exists EXCEPT ![p] = Recovered.kind = "store"]
  /\ GoTo(p, "connect")
  /\ UNCHANGED <<pages, journal, writer, created>>

ProbeAccepts(p) ==
  /\ At(p, "probe")
  /\ CanProbe /\ Recovered.kind = "store"
  /\ GoTo(p, "connect")
  /\ UNCHANGED <<pages, journal, writer, exists, created>>

ProbeRefuses(p) ==
  /\ At(p, "probe")
  /\ ~(CanProbe /\ Recovered.kind = "store")
  /\ GoTo(p, "closed")
  /\ UNCHANGED <<pages, journal, writer, exists, created>>

(* create_new: fails if there is anything at the path by now.               *)
ReserveTruncating(p) ==
  /\ At(p, "reserve")
  /\ pages' = [kind |-> "empty", revision |-> 0]
  /\ created' = TRUE
  /\ GoTo(p, "connect")
  /\ UNCHANGED <<journal, writer, exists>>

Reserve(p) ==
  /\ At(p, "reserve")
  /\ pages.kind = "none"
  /\ pages' = [kind |-> "empty", revision |-> 0]
  /\ created' = TRUE
  /\ GoTo(p, "connect")
  /\ UNCHANGED <<journal, writer, exists>>

ReserveFails(p) ==
  /\ At(p, "reserve")
  /\ pages.kind # "none"
  /\ GoTo(p, "closed")
  /\ UNCHANGED <<pages, journal, writer, exists, created>>

ConnectUninitialised(p) ==
  /\ At(p, "connect")
  /\ GoTo(p, IF exists[p] THEN "validate" ELSE "open")
  /\ UNCHANGED <<pages, journal, writer, exists, created>>

Connect(p) ==
  /\ At(p, "connect")
  /\ GoTo(p, IF exists[p] THEN "validate" ELSE "begin")
  /\ UNCHANGED <<pages, journal, writer, exists, created>>

(* A connection that may write puts a journal back before anything else.    *)
Recover == pages' = Recovered /\ journal' = NoImage

(* BEGIN IMMEDIATE, of initialize or of a session's save.                   *)
Begin(p) ==
  /\ writer = NoProcess
  /\ \/ At(p, "begin") /\ GoTo(p, "initializing")
     \/ At(p, "open") /\ Recovered.revision < MaxSaves /\ GoTo(p, "saving")
  /\ Recover
  /\ writer' = p
  /\ UNCHANGED <<exists, created>>

(* SCHEMA creates its tables in an empty file, and in no other.             *)
Write(p) ==
  /\ \/ /\ At(p, "initializing") /\ pages.kind = "empty"
        /\ pages' = Store(0)
        /\ GoTo(p, "initialized")
     \/ /\ At(p, "saving")
        /\ pages' = Store(pages.revision + 1)
        /\ GoTo(p, "saved")
  /\ journal' = pages
  /\ UNCHANGED <<writer, exists, created>>

Commit(p) ==
  /\ \/ At(p, "initialized") /\ GoTo(p, "validate")
     \/ At(p, "saved") /\ GoTo(p, "open")
  /\ journal' = NoImage
  /\ writer' = NoProcess
  /\ UNCHANGED <<pages, exists, created>>

(* validate_schema and load_snapshot at the end of open.  They wait for a   *)
(* COMMIT in progress.                                                      *)
Validate(p) ==
  /\ At(p, "validate")
  /\ Hot => writer = NoProcess
  /\ Recover
  /\ GoTo(p, IF Recovered.kind = "store" THEN "open" ELSE "closed")
  /\ UNCHANGED <<writer, exists, created>>

(* An open session reads.                                                   *)
Read(p) ==
  /\ At(p, "open") /\ Hot /\ writer = NoProcess
  /\ Recover
  /\ UNCHANGED <<writer, pc, exists, created>>

(* A statement, a COMMIT or the wait for the lock fails.  A transaction is  *)
(* rolled back; open drops its connection, a session keeps it.              *)
FailKeepsTransaction(p) ==
  /\ pc[p] \notin {"closed", "open"}
  /\ GoTo(p, IF pc[p] \in {"saving", "saved"} THEN "open" ELSE "closed")
  /\ UNCHANGED <<pages, journal, writer, exists, created>>

Fail(p) ==
  /\ pc[p] \notin {"closed", "open"}
  /\ GoTo(p, IF pc[p] \in {"saving", "saved"} THEN "open" ELSE "closed")
  /\ IF writer = p THEN Recover /\ writer' = NoProcess
                 ELSE UNCHANGED <<pages, journal, writer>>
  /\ UNCHANGED <<exists, created>>

(* The process ends, or closes its session.                                 *)
Die(p) ==
  /\ ~At(p, "closed")
  /\ GoTo(p, "closed")
  /\ writer' = IF writer = p THEN NoProcess ELSE writer
  /\ UNCHANGED <<pages, journal, exists, created>>

OpenNext ==
  \E p \in Processes :
    \/ Look(p) \/ ProbeAccepts(p) \/ ProbeRefuses(p) \/ Reserve(p) \/ ReserveFails(p)
    \/ Connect(p) \/ Begin(p) \/ Write(p) \/ Commit(p) \/ Validate(p)
    \/ Read(p) \/ Fail(p) \/ Die(p)

OpenSpec == OpenInit /\ [][OpenNext]_openVars

-----------------------------------------------------------------------------
OpenSteps == {"closed", "probe", "reserve", "connect"} \cup Connected

(* The lock is with the process that is in a transaction.                   *)
OpenTypeOK ==
  /\ pages \in Image /\ journal \in Image
  /\ writer \in Processes \cup {NoProcess}
  /\ pc \in [Processes -> OpenSteps]
  /\ \A p \in Processes : pc[p] \in InTransaction <=> writer = p
  /\ exists \in [Processes -> BOOLEAN]
  /\ created \in BOOLEAN

(* A committed store stays one, with all its revisions, whatever other      *)
(* processes do at the path: nobody creates it anew, and what a crash or a  *)
(* failure interrupts leaves what was committed before.                     *)
CommittedStays ==
  [][Recovered.kind = "store" =>
       Recovered'.kind = "store" /\ Recovered'.revision >= Recovered.revision]_openVars

(* What open did not put there, and is not a user database, is never        *)
(* changed: neither initialised because it is empty, nor by a process that  *)
(* saw nothing at the path.                                                 *)
OthersFilesUntouched ==
  [][~created /\ pages.kind \notin {"none", "store"} => pages' = pages]_openVars

(* A session that open returned has a user database at its path.            *)
OpenOnlyOnStores ==
  \A p \in Processes : At(p, "open") => Recovered.kind = "store"

(* Nobody is connected, and the file was left empty by an interrupted first *)
(* open or with the journal of an interrupted COMMIT.                       *)
Interrupted ==
  /\ \A p \in Processes : pc[p] \notin Connected \cup {"connect"}
  /\ Hot \/ pages.kind = "empty"

(* Such a file is refused for good: the probe comes before any connection   *)
(* that could put it right.                                                 *)
InterruptedIsRefused == [][Interrupted => Interrupted']_openVars

(* A process at the steps from create_new to the commit of the schema.      *)
Initialising(p) ==
  \/ At(p, "connect") /\ ~exists[p]
  \/ pc[p] \in {"begin", "initializing", "initialized"}

(* However many processes open a new path at once, whoever initialises the  *)
(* file has it for itself: nobody else passes create_new or the probe until *)
(* the schema is committed, and what is there is empty until then.          *)
FirstOpenIsAlone ==
  \A p \in Processes : Initialising(p) =>
    /\ Recovered.kind = "empty"
    /\ \A q \in Processes \ {p} : pc[q] \notin Connected \cup {"connect"}
=============================================================================
