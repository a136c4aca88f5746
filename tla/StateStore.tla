------------------------------ MODULE StateStore ------------------------------
(***************************************************************************)
(* StateStore (server/stateStore.ts): every hub's JSON state in two copies,*)
(* the file written synchronously and the app_state row behind it.         *)
(* writeJson() queues an upsert, flush() drains the queue, deleteJson()    *)
(* leaves a tombstone that flushTombstones() sweeps, and reconcile()       *)
(* brings the copies together when the process starts.                     *)
(*                                                                         *)
(* A value is a version number: the n-th value written under its key.      *)
(* flush() and every flushTombstones() hold one statement each at a time,  *)
(* on connections of a pool: the server executes them in any order.        *)
(***************************************************************************)
EXTENDS Integers, FiniteSets

CONSTANTS
    Keys, NoKey, \* keys, and a value that is none
    Deletable,   \* keys of the hubs that call deleteJson()
    InPlace,     \* keys whose hub mutates one object and passes it to every writeJson()
    MaxVersions, \* bound: values written under a key
    MaxSweeps,   \* bound: flushTombstones() under way at once
    MaxCrashes   \* bound: ends of the process

ASSUME StateConstants ==
    /\ NoKey \notin Keys /\ Deletable \subseteq Keys /\ InPlace \subseteq Keys /\ IsFiniteSet(Keys)
    /\ MaxVersions \in Nat \ {0} /\ MaxSweeps \in Nat \ {0} /\ MaxCrashes \in Nat

Version == 0..MaxVersions   \* 0: no file, no row
Sweeps  == 1..MaxSweeps

\* A queued value: its version, and whether it is a hub's object or one reconcile() parsed.
Nothing == [val |-> 0, obj |-> "none"]
Queued  == [val : 1..MaxVersions, obj : {"hub", "disk"}] \union {Nothing}

NoInsert == [key |-> NoKey, val |-> 0, obj |-> "none", applied |-> FALSE]
NoSweep  == [key |-> NoKey, todo |-> {}, applied |-> FALSE]

\* "sure": no DELETE of the key was exposed since it was written or deleted.  "raced": one
\* was, to an upsert of the key in flight, to a write before it was confirmed, or to a
\* start() whose SELECT may hold the row.  "lost": the process ended before the DELETE was
\* confirmed, and remembers nothing of it.
Fates == {"sure", "raced", "lost"}

VARIABLES
    file, row,        \* the two copies
    versions,         \* versions written so far
    db,               \* where start() is: "new", "migrating", "reading", "importing", "on", "off"
    dbError,          \* what status() reports
    stored,           \* reconcile(): the rows its SELECT returned, <<>> before
    queue, flushing, ins,   \* flush(): what it has to send, whether it runs, its statement
    tombstones, sweep,      \* deletes to confirm; the flushTombstones() under way
    crashes,
    last,             \* ghost: the version each hub last wrote, 0 after a delete
    delete            \* ghost: what became of a key's last delete, see Fates

process == <<db, dbError, stored, queue, flushing, ins, tombstones, sweep>>
vars == <<file, row, versions, process, crashes, last, delete>>

Connected == db \in {"migrating", "reading", "importing", "on"}

Init ==
    /\ file = [k \in Keys |-> 0] /\ row = [k \in Keys |-> 0]
    /\ versions = [k \in Keys |-> 0] /\ last = [k \in Keys |-> 0]
    /\ db = "new" /\ dbError = FALSE /\ stored = <<>>
    /\ queue = [k \in Keys |-> Nothing] /\ flushing = FALSE /\ ins = NoInsert
    /\ tombstones = {} /\ sweep = [s \in Sweeps |-> NoSweep]
    /\ crashes = 0 /\ delete = [k \in Keys |-> "sure"]

-----------------------------------------------------------------------------
Sweeping(s) == sweep[s].key # NoKey

\* The deletion of k is not confirmed, or some sweep still has it before it.
Pending(k) == k \in tombstones \/ \E s \in Sweeps : sweep[s].key = k \/ k \in sweep[s].todo

\* flushTombstones() up to its first await, for the tombstones of the next state.
StartSweep ==
    IF ~Connected \/ tombstones' = {} THEN UNCHANGED sweep
    ELSE \E s \in Sweeps, k \in tombstones' :
           /\ ~Sweeping(s) /\ \A t \in 1..(s - 1) : Sweeping(t)
           /\ sweep' = [sweep EXCEPT ![s] = [key |-> k, todo |-> tombstones' \ {k},
                                             applied |-> FALSE]]

SendFrom(q) ==
    \E k \in Keys : /\ q[k] # Nothing
                    /\ ins' = [key |-> k, val |-> q[k].val, obj |-> q[k].obj, applied |-> FALSE]

\* flush() up to its first await.
Flush ==
    /\ StartSweep
    /\ IF Connected /\ ~flushing /\ \E k \in Keys : queue'[k] # Nothing
       THEN flushing' = TRUE /\ SendFrom(queue')
       ELSE UNCHANGED <<flushing, ins>>

\* Mutant: flush() is not called.
WriteOnly(k) ==
    /\ versions[k] < MaxVersions
    /\ versions' = [versions EXCEPT ![k] = @ + 1]
    /\ last' = [last EXCEPT ![k] = versions[k] + 1]
    /\ file' = [file EXCEPT ![k] = versions[k] + 1]
    /\ queue' = [queue EXCEPT ![k] = [val |-> versions[k] + 1, obj |-> "hub"]]
    /\ delete' = [delete EXCEPT ![k] = IF Pending(k) THEN "raced" ELSE "sure"]
    /\ UNCHANGED <<row, db, dbError, stored, flushing, ins, tombstones, sweep, crashes>>

\* writeJson()
Write(k) ==
    /\ versions[k] < MaxVersions
    /\ versions' = [versions EXCEPT ![k] = @ + 1]
    /\ last' = [last EXCEPT ![k] = versions[k] + 1]
    /\ file' = [file EXCEPT ![k] = versions[k] + 1]
    /\ queue' = [queue EXCEPT ![k] = [val |-> versions[k] + 1, obj |-> "hub"]]
    /\ delete' = [delete EXCEPT ![k] = IF Pending(k) THEN "raced" ELSE "sure"]
    /\ UNCHANGED tombstones
    /\ Flush
    /\ UNCHANGED <<row, db, dbError, stored, crashes>>

\* An upsert of k is under way, or start() has not yet written the files.
Exposed(k) == ins.key = k \/ db \in {"new", "migrating", "reading"}

\* deleteJson()
Delete(k) ==
    /\ k \in Deletable
    /\ last' = [last EXCEPT ![k] = 0]
    /\ file' = [file EXCEPT ![k] = 0]
    /\ queue' = [queue EXCEPT ![k] = Nothing]
    /\ delete' = [delete EXCEPT ![k] =
                    IF Exposed(k) \/ (@ = "raced" /\ Pending(k)) THEN "raced" ELSE "sure"]
    /\ tombstones' = tombstones \union {k}
    /\ StartSweep
    /\ UNCHANGED <<row, versions, db, dbError, stored, flushing, ins, crashes>>

-----------------------------------------------------------------------------
\* The server executes the upsert that is under way.
Insert ==
    /\ ins # NoInsert /\ ~ins.applied
    /\ ins' = [ins EXCEPT !.applied = TRUE]
    /\ row' = [row EXCEPT ![ins.key] = ins.val]
    /\ UNCHANGED <<file, versions, db, dbError, stored, queue, flushing, tombstones, sweep, crashes, last, delete>>

\* Mutant: whatever is queued under the key is taken for sent.
SameKey == TRUE

\* queue.get(key) === value: the same object, not the same content.
SameObject == queue[ins.key].obj = ins.obj
              /\ (ins.key \in InPlace \/ queue[ins.key].val = ins.val)

\* Its answer arrives, and the next one is sent.
InsertOk ==
    /\ ins # NoInsert /\ ins.applied
    /\ queue' = IF SameObject THEN [queue EXCEPT ![ins.key] = Nothing] ELSE queue
    /\ IF Connected /\ \E k \in Keys : queue'[k] # Nothing
       THEN UNCHANGED <<flushing, dbError>> /\ SendFrom(queue')
       ELSE flushing' = FALSE /\ ins' = NoInsert /\ dbError' = \E k \in Keys : queue'[k] # Nothing
    /\ UNCHANGED <<file, row, versions, db, stored, tombstones, sweep, crashes, last, delete>>

\* It fails, applied or not; the value stays queued.
InsertFails ==
    /\ flushing
    /\ flushing' = FALSE /\ ins' = NoInsert /\ dbError' = TRUE
    /\ UNCHANGED <<file, row, versions, db, stored, queue, tombstones, sweep, crashes, last, delete>>

\* The server executes the DELETE of sweep s.
SweepDelete(s) ==
    /\ Sweeping(s) /\ ~sweep[s].applied
    /\ sweep' = [sweep EXCEPT ![s].applied = TRUE]
    /\ row' = [row EXCEPT ![sweep[s].key] = 0]
    /\ UNCHANGED <<file, versions, db, dbError, stored, queue, flushing, ins, tombstones, crashes, last, delete>>

\* Its answer arrives, and the next one is sent.
SweepOk(s) ==
    /\ Sweeping(s) /\ sweep[s].applied
    /\ tombstones' = tombstones \ {sweep[s].key}
    /\ \/ /\ sweep[s].todo # {} /\ Connected
          /\ \E k \in sweep[s].todo :
               sweep' = [sweep EXCEPT ![s] = [key |-> k, todo |-> sweep[s].todo \ {k},
                                              applied |-> FALSE]]
       \/ /\ sweep[s].todo = {} \/ ~Connected
          /\ sweep' = [sweep EXCEPT ![s] = NoSweep]
    /\ UNCHANGED <<file, row, versions, db, dbError, stored, queue, flushing, ins, crashes, last, delete>>

\* It fails, applied or not: this sweep ends, the tombstones stay.
SweepFails(s) ==
    /\ Sweeping(s)
    /\ sweep' = [sweep EXCEPT ![s] = NoSweep]
    /\ UNCHANGED <<file, row, versions, db, dbError, stored, queue, flushing, ins, tombstones,
                   crashes, last, delete>>

-----------------------------------------------------------------------------
StartDb ==
    /\ db = "new" /\ db' = "migrating"
    /\ UNCHANGED <<file, row, versions, dbError, stored, queue, flushing, ins, tombstones, sweep,
                   crashes, last, delete>>

\* The migrations are done and reconcile() sends its SELECT.
Migrated ==
    /\ db = "migrating" /\ db' = "reading" /\ dbError' = FALSE
    /\ UNCHANGED <<file, row, versions, stored, queue, flushing, ins, tombstones, sweep,
                   crashes, last, delete>>

\* The server answers it.
ReadRows ==
    /\ db = "reading" /\ stored = <<>>
    /\ stored' = row
    /\ UNCHANGED <<file, row, versions, db, dbError, queue, flushing, ins, tombstones, sweep,
                   crashes, last, delete>>

\* What reconcile() pushes up for k, or 0: a file without a row, or one that disagrees with it.
ToPush(k) == IF file[k] # 0 /\ stored[k] # file[k] THEN file[k] ELSE 0

\* Mutant: a file that disagrees with its row is overwritten.
FileAfterRow(k) == IF stored[k] # 0 THEN stored[k] ELSE file[k]

\* The file of k after reconcile(): the row of a key without a file is written out.
FileAfter(k) == IF file[k] = 0 THEN stored[k] ELSE file[k]

\* reconcile() after its await: rows without a file are written out, then the files win.
Reconcile ==
    /\ db = "reading" /\ stored # <<>>
    /\ db' = "importing" /\ stored' = <<>>
    /\ file' = [k \in Keys |-> FileAfter(k)]
    /\ queue' = [k \in Keys |-> IF ToPush(k) # 0 THEN [val |-> ToPush(k), obj |-> "disk"]
                                ELSE queue[k]]
    /\ UNCHANGED tombstones
    /\ Flush
    /\ UNCHANGED <<row, versions, dbError, crashes, last, delete>>

\* The ledgers, which have tables of their own, are imported.
Imported ==
    /\ db = "importing" /\ db' = "on"
    /\ UNCHANGED <<file, row, versions, dbError, stored, queue, flushing, ins, tombstones, sweep,
                   crashes, last, delete>>

\* Connecting, migrating, reading or importing failed: file-only until the next start.
StartFails ==
    /\ db \in {"migrating", "reading", "importing"}
    /\ db' = "off" /\ dbError' = TRUE /\ stored' = <<>>
    /\ UNCHANGED <<file, row, versions, queue, flushing, ins, tombstones, sweep, crashes, last, delete>>

\* The process ends: killed, or through stop(), whose last sweep of the tombstones may fail.
Crash ==
    /\ crashes < MaxCrashes /\ crashes' = crashes + 1
    /\ delete' = [k \in Keys |-> IF last[k] = 0 /\ (Pending(k) \/ delete[k] # "sure")
                                 THEN "lost" ELSE "sure"]
    /\ db' = "new" /\ dbError' = FALSE /\ stored' = <<>>
    /\ queue' = [k \in Keys |-> Nothing] /\ flushing' = FALSE /\ ins' = NoInsert
    /\ tombstones' = {} /\ sweep' = [s \in Sweeps |-> NoSweep]
    /\ UNCHANGED <<file, row, versions, last>>

-----------------------------------------------------------------------------
StartStep == StartDb \/ Migrated \/ ReadRows \/ Reconcile \/ Imported
UpsertStep == Insert \/ InsertOk
SweepStep(s) == SweepDelete(s) \/ SweepOk(s)

Next ==
    \/ \E k \in Keys : Write(k) \/ Delete(k)
    \/ InsertFails \/ StartFails \/ \E s \in Sweeps : SweepFails(s)
    \/ Crash
    \/ StartStep \/ UpsertStep \/ \E s \in Sweeps : SweepStep(s)

Spec == Init /\ [][Next]_vars

(***************************************************************************)
(* Fairness: statements are executed and answered, if they do not fail     *)
(* first, each connection on its own, and start() goes on with the answers *)
(* (strong fairness, as the bound on sweeps may hold reconcile() back).    *)
(***************************************************************************)
FairSpec == Spec /\ SF_vars(StartStep) /\ WF_vars(UpsertStep) /\ \A s \in Sweeps : WF_vars(SweepStep(s))

-----------------------------------------------------------------------------
\* Every variable has its type, and flush() runs exactly while it awaits a statement.
TypeOK ==
    /\ file \in [Keys -> Version] /\ row \in [Keys -> Version]
    /\ versions \in [Keys -> Version] /\ last \in [Keys -> Version]
    /\ db \in {"new", "migrating", "reading", "importing", "on", "off"} /\ dbError \in BOOLEAN
    /\ stored \in [Keys -> Version] \union {<<>>}
    /\ queue \in [Keys -> Queued] /\ flushing = (ins # NoInsert)
    /\ delete \in [Keys -> Fates]
    /\ tombstones \subseteq Deletable /\ crashes \in 0..MaxCrashes

Settled == db = "on" /\ ~flushing /\ tombstones = {}
           /\ (\A k \in Keys : queue[k] = Nothing) /\ \A s \in Sweeps : ~Sweeping(s)

\* "Both copies are written on every change, so neither drifts": once nothing is queued
\* or awaited after reconcile(), each row holds what its file holds, but for a key whose
\* DELETE raced an upsert, a write or start(), and for an object mutated while it was sent.
NeitherDrifts == Settled => \A k \in Keys \ InPlace : row[k] = file[k] \/ delete[k] = "raced"

\* The file, which the next boot reads, is what the hub last wrote or deleted, through
\* every restart: nothing that reconcile() writes brings an older value back, nor a deleted
\* one whose DELETE did not race and was confirmed before the process ended.
DiskIsLast == \A k \in Keys : file[k] = last[k] \/ (last[k] = 0 /\ delete[k] # "sure")

\* Liveness: every row catches up with its file, or status() shows the outage that keeps
\* it behind.  (A failed delete is only logged.)
Reported == dbError \/ db = "off"
RowsCatchUp == \A k \in Keys \ (Deletable \union InPlace) :
                   row[k] # file[k] ~> (row[k] = file[k] \/ Reported)
=============================================================================
