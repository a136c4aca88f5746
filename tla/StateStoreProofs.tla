---------------------------- MODULE StateStoreProofs ----------------------------
(***************************************************************************)
(* Proofs about StateStore, for any number of keys, versions, sweeps and   *)
(* restarts, whatever a delete meets and whenever the process ends: no     *)
(* restart brings back an older value, nor a deleted one whose DELETE did  *)
(* not race and was confirmed, and neither copy drifts but where one did.  *)
(***************************************************************************)
EXTENDS StateStore, TLAPS

------------------------------------------------------------------------------
\* The types of the statements under way, which TypeOK leaves open.
Types ==
    /\ TypeOK /\ IsFiniteSet(Keys)
    /\ ins \in [key : Keys, val : 1..MaxVersions, obj : {"hub", "disk"}, applied : BOOLEAN] \cup {NoInsert}
    /\ sweep \in [Sweeps -> [key : Keys, todo : SUBSET Keys, applied : BOOLEAN] \cup {NoSweep}]

Booting == db \in {"new", "migrating", "reading"}
Raced(k) == delete[k] = "raced"

\* No copy and no statement holds a value that was not written yet.
Written ==
    /\ \A k \in Keys : file[k] <= versions[k] /\ row[k] <= versions[k]
    /\ stored # <<>> => \A k \in Keys : stored[k] <= versions[k]
    /\ ins # NoInsert => ins.val <= versions[ins.key]

\* What is queued is what the file holds.
QueueIsFile == \A k \in Keys : queue[k] # Nothing => file[k] # 0 /\ queue[k].val = file[k]

\* What is in flight is queued, and in the row once it was executed, unless a newer value waits.
InFlight ==
    ins # NoInsert =>
        \/ Raced(ins.key)
        \/ /\ queue[ins.key] # Nothing
           /\ ins.applied => row[ins.key] = ins.val \/ queue[ins.key].val # ins.val

\* A key whose deletion is pending has no file, and no row once its DELETE was executed;
\* before reconcile() every pending deletion counts as raced.
Deleted ==
    /\ \A k \in Keys : Pending(k) => Raced(k) \/ (file[k] = 0 /\ ~Booting)
    /\ \A s \in Sweeps : Sweeping(s) /\ sweep[s].applied =>
            Raced(sweep[s].key) \/ row[sweep[s].key] = 0

\* A row without a file has a tombstone.
Orphans == \A k \in Keys : row[k] # 0 /\ file[k] = 0 => k \in tombstones \/ delete[k] # "sure"

\* The rows that reconcile() goes on with: none lacks a file, and one that will agree with
\* its file still does or is about to.
Answer ==
    stored # <<>> =>
        /\ db = "reading"
        /\ \A k \in Keys :
             /\ stored[k] # 0 => file[k] # 0 \/ delete[k] # "sure"
             /\ stored[k] = FileAfter(k) =>
                    row[k] = stored[k] \/ queue[k] # Nothing \/ Raced(k) \/ k \in InPlace

\* After reconcile() a row is its file's, or will be.
Behind ==
    db \in {"importing", "on"} =>
        \A k \in Keys : \/ row[k] = file[k] \/ queue[k] # Nothing \/ k \in tombstones
                        \/ Raced(k) \/ k \in InPlace

IInv == Types /\ Written /\ QueueIsFile /\ InFlight /\ Deleted /\ Orphans /\ Answer /\ Behind
        /\ DiskIsLast

------------------------------------------------------------------------------
\* Operators.

InsTypes == [key : Keys, val : 1..MaxVersions, obj : {"hub", "disk"}, applied : BOOLEAN]
SweepTypes == [key : Keys, todo : SUBSET Keys, applied : BOOLEAN]

LEMMA KeysOfStatements ==
    ASSUME Types
    PROVE  /\ ins # NoInsert <=> ins.key \in Keys
           /\ ins # NoInsert => ins \in InsTypes
           /\ \A s \in Sweeps : Sweeping(s) <=> sweep[s].key \in Keys
           /\ \A s \in Sweeps : Sweeping(s) => sweep[s] \in SweepTypes
BY StateConstants DEF Types, InsTypes, SweepTypes, Sweeping, NoInsert, NoSweep

\* What a sweep that starts with the next state's tombstones takes on.
NewSweeps ==
    /\ sweep' \in [Sweeps -> SweepTypes \cup {NoSweep}]
    /\ \A s \in Sweeps : sweep'[s] # sweep[s] =>
          sweep'[s].key \in tombstones' /\ sweep'[s].todo \subseteq tombstones' /\ ~sweep'[s].applied

LEMMA SweepStarts ==
    ASSUME Types, tombstones' \subseteq Keys, StartSweep
    PROVE  NewSweeps
<1>1. sweep \in [Sweeps -> SweepTypes \cup {NoSweep}]
  BY DEF Types, SweepTypes
<1>2. CASE UNCHANGED sweep
  BY <1>1, <1>2 DEF NewSweeps
<1>3. CASE ~UNCHANGED sweep
  <2>1. PICK s \in Sweeps, k \in tombstones' :
           sweep' = [sweep EXCEPT ![s] = [key |-> k, todo |-> tombstones' \ {k}, applied |-> FALSE]]
    BY <1>3 DEF StartSweep
  <2>2. [key |-> k, todo |-> tombstones' \ {k}, applied |-> FALSE] \in SweepTypes
    BY DEF SweepTypes
  <2>. QED
    BY <1>1, <2>1, <2>2 DEF NewSweeps
<1>. QED
  BY <1>2, <1>3

\* Nothing is pending that was not, but for the next state's tombstones.
LEMMA PendingBefore ==
    ASSUME NewSweeps, NEW k, Pending(k)'
    PROVE  Pending(k) \/ k \in tombstones'
<1>1. CASE k \in tombstones'
  BY <1>1
<1>2. CASE \E s \in Sweeps : sweep'[s].key = k \/ k \in sweep'[s].todo
  <2>1. PICK s \in Sweeps : sweep'[s].key = k \/ k \in sweep'[s].todo
    BY <1>2
  <2>. QED
    BY <2>1 DEF NewSweeps, Pending
<1>. QED
  BY <1>1, <1>2 DEF Pending

\* The statement that flush() sends next.
NewIns == /\ ins' \in InsTypes /\ queue'[ins'.key] # Nothing /\ ~ins'.applied
          /\ ins'.val = queue'[ins'.key].val

LEMMA Sends ==
    ASSUME queue' \in [Keys -> Queued], SendFrom(queue')
    PROVE  NewIns /\ ins' # NoInsert
<1>1. PICK k \in Keys : /\ queue'[k] # Nothing
                        /\ ins' = [key |-> k, val |-> queue'[k].val, obj |-> queue'[k].obj, applied |-> FALSE]
  BY DEF SendFrom
<1>2. queue'[k].val \in 1..MaxVersions /\ queue'[k].obj \in {"hub", "disk"}
  BY <1>1 DEF Queued
<1>3. ins' \in InsTypes /\ ins'.key = k /\ ~ins'.applied /\ ins'.val = queue'[k].val
  BY <1>1, <1>2 DEF InsTypes
<1>4. ins' # NoInsert
  BY <1>3, StateConstants DEF NoInsert
<1>. QED
  BY <1>1, <1>3, <1>4 DEF NewIns

LEMMA FlushStarts ==
    ASSUME Types, queue' \in [Keys -> Queued], tombstones' \subseteq Keys, Flush
    PROVE  NewSweeps /\ flushing' = (ins' # NoInsert) /\ (ins' = ins \/ NewIns)
<1>1. NewSweeps
  BY SweepStarts DEF Flush
<1>2. CASE Connected /\ ~flushing /\ \E k \in Keys : queue'[k] # Nothing
  <2>1. flushing' = TRUE /\ SendFrom(queue')
    BY <1>2 DEF Flush
  <2>. QED
    BY <1>1, <2>1, Sends
<1>3. CASE ~(Connected /\ ~flushing /\ \E k \in Keys : queue'[k] # Nothing)
  <2>1. UNCHANGED <<flushing, ins>>
    BY <1>3 DEF Flush
  <2>. QED
    BY <1>1, <2>1 DEF Types, TypeOK
<1>. QED
  BY <1>2, <1>3

------------------------------------------------------------------------------
\* The steps.

LEMMA Initially == Init => IInv
<1>. SUFFICES ASSUME Init PROVE IInv
  OBVIOUS
<1>. USE StateConstants
<1>1. Types
  <2>1. file \in [Keys -> Version] /\ row \in [Keys -> Version] /\ versions \in [Keys -> Version]
        /\ last \in [Keys -> Version] /\ crashes \in 0..MaxCrashes /\ delete \in [Keys -> Fates]
    BY DEF Init, Version, Fates
  <2>2. queue \in [Keys -> Queued]
    BY DEF Init, Queued
  <2>3. sweep \in [Sweeps -> SweepTypes \cup {NoSweep}]
    BY DEF Init
  <2>. QED
    BY <2>1, <2>2, <2>3 DEF Init, Types, TypeOK, SweepTypes
<1>2. \A s \in Sweeps : ~Sweeping(s) /\ sweep[s].key = NoKey /\ sweep[s].todo = {}
  BY DEF Init, Sweeping, NoSweep
<1>3. Written /\ QueueIsFile /\ InFlight /\ Orphans /\ Answer /\ Behind /\ DiskIsLast
  BY <1>2 DEF Init, Written, QueueIsFile, InFlight, Orphans, Answer, Behind, DiskIsLast
<1>4. Deleted
  BY <1>2 DEF Init, Deleted, Pending
<1>. QED
  BY <1>1, <1>3, <1>4 DEF IInv

LEMMA WriteKeeps ==
    ASSUME IInv, NEW k \in Keys, Write(k)
    PROVE  IInv'
<1>. USE StateConstants
<1>. DEFINE v == versions[k] + 1
<1>1. /\ versions' = [versions EXCEPT ![k] = v] /\ last' = [last EXCEPT ![k] = v]
      /\ file' = [file EXCEPT ![k] = v]
      /\ queue' = [queue EXCEPT ![k] = [val |-> v, obj |-> "hub"]]
      /\ delete' = [delete EXCEPT ![k] = IF Pending(k) THEN "raced" ELSE "sure"]
      /\ UNCHANGED <<row, db, dbError, stored, crashes, tombstones>> /\ Flush
  BY DEF Write
<1>2. /\ file \in [Keys -> Version] /\ row \in [Keys -> Version] /\ versions \in [Keys -> Version]
      /\ last \in [Keys -> Version] /\ queue \in [Keys -> Queued] /\ delete \in [Keys -> Fates]
      /\ ins \in InsTypes \cup {NoInsert} /\ tombstones \subseteq Keys
      /\ stored \in [Keys -> Version] \union {<<>>}
  BY DEF IInv, Types, TypeOK, InsTypes
<1>3. versions[k] \in 0..MaxVersions /\ v \in 1..MaxVersions
  BY <1>2 DEF Write, Version
<1>. HIDE DEF v
<1>4. [val |-> v, obj |-> "hub"] \in Queued /\ [val |-> v, obj |-> "hub"] # Nothing
  BY <1>3 DEF Queued, Nothing
<1>5. queue' \in [Keys -> Queued] /\ delete' \in [Keys -> Fates]
  BY <1>1, <1>2, <1>4 DEF Fates
<1>6. NewSweeps /\ flushing' = (ins' # NoInsert) /\ (ins' = ins \/ NewIns)
  BY <1>1, <1>2, <1>5, FlushStarts DEF IInv
<1>7. file' \in [Keys -> Version] /\ versions' \in [Keys -> Version] /\ last' \in [Keys -> Version]
  BY <1>1, <1>2, <1>3 DEF Version
<1>8. ins' \in InsTypes \cup {NoInsert}
  BY <1>2, <1>6 DEF NewIns
<1>9. Types'
  BY <1>1, <1>5, <1>6, <1>7, <1>8 DEF IInv, Types, TypeOK, NewSweeps, InsTypes, SweepTypes
<1>10. \A j \in Keys \ {k} : /\ file'[j] = file[j] /\ queue'[j] = queue[j] /\ versions'[j] = versions[j]
                             /\ delete'[j] = delete[j] /\ last'[j] = last[j]
  BY <1>1, <1>2
<1>11. /\ file'[k] = v /\ queue'[k] = [val |-> v, obj |-> "hub"] /\ versions'[k] = v /\ last'[k] = v
       /\ versions[k] < v /\ delete'[k] = IF Pending(k) THEN "raced" ELSE "sure"
  BY <1>1, <1>2, <1>3 DEF v
<1>12. Written'
  <2>1. \A j \in Keys : file'[j] <= versions'[j] /\ row'[j] <= versions'[j]
    <3>1. row[k] <= v
      BY <1>2, <1>3, <1>11 DEF IInv, Written, Version
    <3>. QED
      BY <1>1, <1>3, <1>10, <1>11, <3>1 DEF IInv, Written
  <2>2. ASSUME stored # <<>>, NEW j \in Keys PROVE stored[j] <= versions'[j]
    <3>1. stored[j] <= versions[j] /\ stored[j] \in Int /\ versions[j] \in Int
      BY <1>2, <2>2 DEF IInv, Written, Version
    <3>. QED
      BY <1>3, <1>10, <1>11, <3>1
  <2>3. ASSUME ins' # NoInsert PROVE ins'.val <= versions'[ins'.key]
    <3>1. CASE ins' = ins
      <4>1. ins.key \in Keys /\ ins.val <= versions[ins.key] /\ ins.val \in Int /\ versions[ins.key] \in Int
        BY <1>2, <2>3, <3>1, KeysOfStatements DEF IInv, Written, InsTypes, Version
      <4>. QED
        BY <1>3, <1>10, <1>11, <3>1, <4>1
    <3>2. CASE NewIns
      <4>1. PICK j \in Keys : ins'.key = j /\ ins'.val = queue'[j].val /\ queue'[j] # Nothing
        BY <3>2, <2>3 DEF NewIns, InsTypes
      <4>2. CASE j = k
        BY <1>3, <1>11, <4>1, <4>2
      <4>3. CASE j # k
        <5>1. queue[j] # Nothing /\ queue[j].val = file[j] /\ file[j] <= versions[j]
          BY <1>10, <4>1, <4>3 DEF IInv, QueueIsFile, Written
        <5>. QED
          BY <1>10, <4>1, <4>3, <5>1
      <4>. QED
        BY <4>2, <4>3
    <3>. QED
      BY <1>6, <3>1, <3>2
  <2>. QED
    BY <1>1, <2>1, <2>2, <2>3 DEF Written
<1>13. QueueIsFile'
  BY <1>3, <1>10, <1>11 DEF IInv, QueueIsFile
<1>14. InFlight'
  <2>1. CASE ins' = ins
    <3>1. ASSUME ins # NoInsert, ins.key = k PROVE queue'[k] # Nothing /\ queue'[k].val # ins.val
      <4>1. ins.val <= versions[k] /\ ins.val \in Int
        BY <1>2, <3>1 DEF IInv, Written, InsTypes
      <4>. QED
        BY <1>3, <1>4, <1>11, <1>2, <4>1 DEF Version
    <3>2. ASSUME ins # NoInsert PROVE ins.key \in Keys
      BY <3>2, KeysOfStatements DEF IInv
    <3>. QED
      BY <1>1, <1>10, <2>1, <3>1, <3>2 DEF IInv, InFlight, Raced
  <2>2. CASE NewIns
    BY <2>2 DEF NewIns, InFlight
  <2>. QED
    BY <1>6, <2>1, <2>2
<1>15. Deleted'
  <2>1. ASSUME NEW j \in Keys, Pending(j)' PROVE Raced(j)' \/ (file'[j] = 0 /\ ~Booting')
    <3>1. Pending(j)
      BY <1>1, <1>6, <2>1, PendingBefore DEF Pending
    <3>. QED
      BY <1>1, <1>10, <1>11, <3>1 DEF IInv, Deleted, Raced, Booting
  <2>2. ASSUME NEW s \in Sweeps, Sweeping(s)', sweep'[s].applied
        PROVE  delete'[sweep'[s].key] = "raced" \/ row'[sweep'[s].key] = 0
    <3>1. sweep'[s] = sweep[s] /\ Sweeping(s)
      BY <1>6, <2>2 DEF NewSweeps, Sweeping
    <3>2. sweep[s].key \in Keys /\ Pending(sweep[s].key)
      BY <3>1, KeysOfStatements DEF IInv, Pending
    <3>. QED
      BY <1>1, <1>10, <1>11, <2>2, <3>1, <3>2 DEF IInv, Deleted, Raced
  <2>. QED
    BY <2>1, <2>2 DEF Deleted, Raced, Booting
<1>16. Orphans'
  BY <1>1, <1>3, <1>10, <1>11 DEF IInv, Orphans
<1>17. Answer'
  <2>1. ASSUME stored # <<>>, NEW j \in Keys
        PROVE  /\ stored[j] # 0 => file'[j] # 0 \/ delete'[j] # "sure"
               /\ stored[j] = FileAfter(j)' =>
                     row[j] = stored[j] \/ queue'[j] # Nothing \/ Raced(j)' \/ j \in InPlace
    BY <1>1, <2>1, <1>3, <1>4, <1>10, <1>11 DEF IInv, Answer, FileAfter, Raced
  <2>2. stored # <<>> => db = "reading"
    BY DEF IInv, Answer
  <2>. QED
    BY <1>1, <2>1, <2>2 DEF Answer
<1>18. Behind'
  BY <1>1, <1>4, <1>10, <1>11 DEF IInv, Behind, Raced
<1>19. DiskIsLast'
  BY <1>10, <1>11 DEF IInv, DiskIsLast
<1>. QED
  BY <1>9, <1>12, <1>13, <1>14, <1>15, <1>16, <1>17, <1>18, <1>19 DEF IInv

LEMMA DeleteKeeps ==
    ASSUME IInv, NEW k \in Keys, Delete(k)
    PROVE  IInv'
<1>. USE StateConstants
<1>1. /\ last' = [last EXCEPT ![k] = 0] /\ file' = [file EXCEPT ![k] = 0]
      /\ queue' = [queue EXCEPT ![k] = Nothing] /\ tombstones' = tombstones \cup {k} /\ StartSweep
      /\ delete' = [delete EXCEPT ![k] =
                       IF Exposed(k) \/ (@ = "raced" /\ Pending(k)) THEN "raced" ELSE "sure"]
      /\ UNCHANGED <<row, versions, db, dbError, stored, flushing, ins, crashes>> /\ k \in Deletable
  BY DEF Delete
<1>2. /\ file \in [Keys -> Version] /\ row \in [Keys -> Version] /\ last \in [Keys -> Version]
      /\ queue \in [Keys -> Queued] /\ tombstones \subseteq Deletable /\ Types
      /\ delete \in [Keys -> Fates] /\ versions \in [Keys -> Version]
  BY DEF IInv, Types, TypeOK
<1>3. NewSweeps
  BY <1>1, <1>2, SweepStarts
<1>4. file' \in [Keys -> Version] /\ last' \in [Keys -> Version] /\ queue' \in [Keys -> Queued]
      /\ delete' \in [Keys -> Fates]
  BY <1>1, <1>2 DEF Version, Queued, Fates
<1>5. Types'
  BY <1>1, <1>2, <1>3, <1>4 DEF Types, TypeOK, NewSweeps, SweepTypes
<1>6. \A j \in Keys \ {k} : /\ file'[j] = file[j] /\ queue'[j] = queue[j] /\ delete'[j] = delete[j]
                            /\ last'[j] = last[j]
  BY <1>1, <1>2
<1>7. /\ file'[k] = 0 /\ queue'[k] = Nothing /\ last'[k] = 0
      /\ Exposed(k) => Raced(k)'
      /\ Raced(k) /\ Pending(k) => Raced(k)'
  BY <1>1, <1>2 DEF Raced
<1>8. Answer'
  <2>1. stored # <<>> => Exposed(k)
    BY DEF IInv, Answer, Exposed
  <2>2. ASSUME stored # <<>>, NEW j \in Keys
        PROVE  /\ stored[j] # 0 => file'[j] # 0 \/ delete'[j] # "sure"
               /\ stored[j] = FileAfter(j)' =>
                     row[j] = stored[j] \/ queue'[j] # Nothing \/ Raced(j)' \/ j \in InPlace
    BY <1>1, <1>6, <1>7, <2>1, <2>2 DEF IInv, Answer, FileAfter, Raced
  <2>. QED
    BY <1>1, <2>2 DEF IInv, Answer
<1>9. QueueIsFile' /\ Written'
  <2>1. QueueIsFile'
    BY <1>6, <1>7 DEF IInv, QueueIsFile
  <2>2. \A j \in Keys : file'[j] <= versions[j]
    <3>1. versions[k] \in 0..MaxVersions
      BY <1>2 DEF Version
    <3>2. 0 <= versions[k]
      BY <3>1
    <3>. QED
      BY <1>6, <1>7, <3>2 DEF IInv, Written
  <2>. QED
    BY <1>1, <2>1, <2>2 DEF IInv, Written
<1>10. InFlight'
  <2>1. ins # NoInsert => ins.key \in Keys
    BY KeysOfStatements DEF IInv
  <2>2. ins.key = k => Raced(k)'
    BY <1>7 DEF Exposed
  <2>. QED
    BY <1>1, <1>6, <2>1, <2>2 DEF IInv, InFlight, Raced
<1>11. Deleted'
  <2>1. ASSUME NEW j \in Keys, Pending(j)' PROVE Raced(j)' \/ (file'[j] = 0 /\ ~Booting')
    <3>1. CASE j = k
      BY <1>1, <1>7, <3>1 DEF Exposed, Booting
    <3>2. CASE j # k
      <4>1. Pending(j)
        BY <1>1, <1>3, <2>1, <3>2, PendingBefore DEF Pending
      <4>. QED
        BY <1>1, <1>6, <3>2, <4>1 DEF IInv, Deleted, Raced, Booting
    <3>. QED
      BY <3>1, <3>2
  <2>2. ASSUME NEW s \in Sweeps, Sweeping(s)', sweep'[s].applied
        PROVE  delete'[sweep'[s].key] = "raced" \/ row'[sweep'[s].key] = 0
    <3>1. sweep'[s] = sweep[s] /\ Sweeping(s)
      BY <1>3, <2>2 DEF NewSweeps, Sweeping
    <3>2. sweep[s].key \in Keys /\ Pending(sweep[s].key)
      BY <3>1, KeysOfStatements DEF IInv, Pending
    <3>. QED
      BY <1>1, <1>6, <1>7, <2>2, <3>1, <3>2 DEF IInv, Deleted, Raced
  <2>. QED
    BY <2>1, <2>2 DEF Deleted, Raced, Booting
<1>12. Orphans'
  BY <1>1, <1>6 DEF IInv, Orphans
<1>13. Behind'
  BY <1>1, <1>6 DEF IInv, Behind, Raced
<1>14. DiskIsLast'
  BY <1>6, <1>7 DEF IInv, DiskIsLast
<1>. QED
  BY <1>5, <1>8, <1>9, <1>10, <1>11, <1>12, <1>13, <1>14 DEF IInv

LEMMA InsertKeeps ==
    ASSUME IInv, Insert
    PROVE  IInv'
<1>. USE StateConstants
<1>1. /\ ins # NoInsert /\ ins' = [ins EXCEPT !.applied = TRUE] /\ row' = [row EXCEPT ![ins.key] = ins.val]
      /\ UNCHANGED <<file, versions, db, dbError, stored, queue, flushing, tombstones, sweep, crashes, last, delete>>
  BY DEF Insert
<1>2. ins \in InsTypes /\ ins.key \in Keys /\ ins.val \in Version
  BY <1>1, KeysOfStatements DEF IInv, InsTypes, Version
<1>3. ins' \in InsTypes /\ ins'.key = ins.key /\ ins'.val = ins.val
  BY <1>1, <1>2 DEF InsTypes
<1>4. ins' # NoInsert
  BY <1>2, <1>3 DEF NoInsert
<1>5. row \in [Keys -> Version] /\ row' \in [Keys -> Version]
  BY <1>1, <1>2 DEF IInv, Types, TypeOK
<1>6. row'[ins.key] = ins.val /\ \A j \in Keys \ {ins.key} : row'[j] = row[j]
  BY <1>1, <1>2, <1>5
<1>7. Raced(ins.key) \/ (queue[ins.key] # Nothing /\ file[ins.key] # 0)
  BY <1>1, <1>2 DEF IInv, InFlight, QueueIsFile
<1>8. Types'
  BY <1>1, <1>3, <1>4, <1>5 DEF IInv, Types, TypeOK, InsTypes
<1>9. Written' /\ QueueIsFile' /\ DiskIsLast'
  BY <1>1, <1>3, <1>6 DEF IInv, Written, QueueIsFile, DiskIsLast
<1>10. InFlight'
  BY <1>1, <1>3, <1>6, <1>7 DEF InFlight, Raced
<1>11. Deleted'
  <2>1. \A j \in Keys : Pending(j)' => Raced(j)' \/ (file'[j] = 0 /\ ~Booting')
    BY <1>1 DEF IInv, Deleted, Pending, Raced, Booting
  <2>2. ASSUME NEW s \in Sweeps, Sweeping(s), sweep[s].applied
        PROVE  Raced(sweep[s].key) \/ row'[sweep[s].key] = 0
    <3>1. sweep[s].key \in Keys /\ (Raced(sweep[s].key) \/ row[sweep[s].key] = 0)
      BY <2>2, KeysOfStatements DEF IInv, Deleted
    <3>2. Raced(sweep[s].key) \/ file[sweep[s].key] = 0
      BY <3>1 DEF IInv, Deleted, Pending
    <3>. QED
      BY <1>6, <1>7, <3>1, <3>2
  <2>. QED
    BY <1>1, <2>1, <2>2 DEF Deleted, Sweeping, Raced
<1>12. Orphans'
  BY <1>1, <1>6, <1>7 DEF IInv, Orphans, Raced
<1>13. Answer' /\ Behind'
  BY <1>1, <1>6, <1>7 DEF IInv, Answer, Behind, FileAfter, Raced
<1>. QED
  BY <1>8, <1>9, <1>10, <1>11, <1>12, <1>13 DEF IInv

\* An answer finds the row as the file has it, if it takes the value off the queue.
LEMMA InsertOkKeeps ==
    ASSUME IInv, InsertOk
    PROVE  IInv'
<1>. USE StateConstants
<1>1. /\ ins # NoInsert /\ ins.applied
      /\ queue' = IF SameObject THEN [queue EXCEPT ![ins.key] = Nothing] ELSE queue
      /\ UNCHANGED <<file, row, versions, db, stored, tombstones, sweep, crashes, last, delete>>
  BY DEF InsertOk
<1>2. ins.key \in Keys /\ queue \in [Keys -> Queued]
  BY <1>1, KeysOfStatements DEF IInv, Types, TypeOK
<1>3. queue' \in [Keys -> Queued]
  BY <1>1, <1>2 DEF Queued
<1>4. \A j \in Keys :
         \/ queue'[j] = queue[j]
         \/ /\ queue'[j] = Nothing
            /\ Raced(j) \/ j \in InPlace \/ (row[j] = file[j] /\ file[j] # 0)
  <2>1. CASE queue' = queue
    BY <2>1
  <2>2. CASE SameObject /\ queue' = [queue EXCEPT ![ins.key] = Nothing]
    <3>1. CASE ins.key \in InPlace \/ Raced(ins.key)
      BY <1>2, <2>2, <3>1
    <3>2. CASE ~(ins.key \in InPlace \/ Raced(ins.key))
      <4>1. queue[ins.key].val = ins.val
        BY <2>2, <3>2 DEF SameObject
      <4>2. row[ins.key] = file[ins.key] /\ file[ins.key] # 0
        BY <1>1, <1>2, <3>2, <4>1 DEF IInv, InFlight, QueueIsFile
      <4>. QED
        BY <1>2, <2>2, <4>2
    <3>. QED
      BY <3>1, <3>2
  <2>. QED
    BY <1>1, <2>1, <2>2
<1>5. flushing' = (ins' # NoInsert) /\ dbError' \in BOOLEAN /\ (ins' = NoInsert \/ NewIns)
      /\ (ins' # NoInsert => ins'.val = queue'[ins'.key].val)
  <2>1. CASE Connected /\ \E k \in Keys : queue'[k] # Nothing
    <3>1. UNCHANGED <<flushing, dbError>> /\ SendFrom(queue')
      BY <2>1 DEF InsertOk
    <3>. QED
      BY <1>1, <1>3, <3>1, Sends DEF IInv, Types, TypeOK, NewIns
  <2>2. CASE ~(Connected /\ \E k \in Keys : queue'[k] # Nothing)
    <3>1. flushing' = FALSE /\ ins' = NoInsert /\ dbError' = \E k \in Keys : queue'[k] # Nothing
      BY <2>2 DEF InsertOk
    <3>. QED
      BY <3>1
  <2>. QED
    BY <2>1, <2>2
<1>6. ins' \in InsTypes \cup {NoInsert}
  BY <1>5 DEF NewIns
<1>7. Types'
  BY <1>1, <1>3, <1>5, <1>6 DEF IInv, Types, TypeOK, InsTypes
<1>8. DiskIsLast' /\ Deleted' /\ Orphans'
  BY <1>1 DEF IInv, Booting, Sweeping, DiskIsLast, Deleted, Pending, Orphans, Raced
<1>9. QueueIsFile'
  BY <1>1, <1>4 DEF IInv, QueueIsFile
<1>10. Written'
  <2>1. ASSUME ins' # NoInsert PROVE ins'.val <= versions[ins'.key]
    <3>1. ins'.key \in Keys /\ queue'[ins'.key] # Nothing /\ ins'.val = queue'[ins'.key].val
      BY <1>5, <2>1 DEF NewIns, InsTypes
    <3>2. queue'[ins'.key].val = file[ins'.key]
      BY <1>1, <1>9, <3>1 DEF QueueIsFile
    <3>. QED
      BY <3>1, <3>2 DEF IInv, Written
  <2>. QED
    BY <1>1, <2>1 DEF IInv, Written
<1>11. InFlight'
  BY <1>5 DEF InFlight, NewIns
<1>12. Answer'
  BY <1>1, <1>4 DEF IInv, Answer, FileAfter, Raced
<1>13. Behind'
  BY <1>1, <1>4 DEF IInv, Behind, Raced
<1>. QED
  BY <1>7, <1>8, <1>9, <1>10, <1>11, <1>12, <1>13 DEF IInv

LEMMA InsertFailsKeeps ==
    ASSUME IInv, InsertFails
    PROVE  IInv'
<1>1. /\ flushing' = FALSE /\ ins' = NoInsert /\ dbError' = TRUE
      /\ UNCHANGED <<file, row, versions, db, stored, queue, tombstones, sweep, crashes, last, delete>>
  BY DEF InsertFails
<1>2. Types'
  BY <1>1 DEF IInv, Types, TypeOK
<1>3. Written' /\ DiskIsLast' /\ Deleted' /\ Orphans' /\ QueueIsFile'
  BY <1>1 DEF IInv, Written, Booting, Sweeping, DiskIsLast, Deleted, Pending, Orphans, QueueIsFile, Raced
<1>4. InFlight' /\ Answer' /\ Behind'
  BY <1>1 DEF IInv, InFlight, Answer, Behind, FileAfter, Raced
<1>. QED
  BY <1>2, <1>3, <1>4 DEF IInv

LEMMA SweepDeleteKeeps ==
    ASSUME IInv, NEW s \in Sweeps, SweepDelete(s)
    PROVE  IInv'
<1>. USE StateConstants
<1>. DEFINE k == sweep[s].key
<1>1. /\ Sweeping(s) /\ sweep' = [sweep EXCEPT ![s].applied = TRUE] /\ row' = [row EXCEPT ![k] = 0]
      /\ UNCHANGED <<file, versions, db, dbError, stored, queue, flushing, ins, tombstones, crashes, last, delete>>
  BY DEF SweepDelete
<1>2. k \in Keys /\ sweep[s] \in SweepTypes /\ (Raced(k) \/ (file[k] = 0 /\ ~Booting))
  BY <1>1, KeysOfStatements DEF IInv, Deleted, Pending
<1>3. sweep \in [Sweeps -> SweepTypes \cup {NoSweep}] /\ row \in [Keys -> Version]
  BY DEF IInv, Types, TypeOK, SweepTypes
<1>4. [sweep[s] EXCEPT !.applied = TRUE] \in SweepTypes
  BY <1>2 DEF SweepTypes
<1>5. sweep' = [sweep EXCEPT ![s] = [sweep[s] EXCEPT !.applied = TRUE]]
  BY <1>1
<1>6. sweep' \in [Sweeps -> SweepTypes \cup {NoSweep}]
  BY <1>3, <1>4, <1>5
<1>7. \A t \in Sweeps : sweep'[t].key = sweep[t].key /\ sweep'[t].todo = sweep[t].todo
                        /\ (t # s => sweep'[t] = sweep[t])
  BY <1>2, <1>3, <1>5 DEF SweepTypes
<1>8. row' \in [Keys -> Version] /\ row'[k] = 0 /\ \A j \in Keys \ {k} : row'[j] = row[j]
  BY <1>1, <1>2, <1>3 DEF Version
<1>10. Types'
  BY <1>1, <1>6, <1>8 DEF IInv, Types, TypeOK, SweepTypes
<1>11. QueueIsFile' /\ DiskIsLast' /\ Written'
  <2>1. \A j \in Keys : row'[j] <= versions[j]
    <3>1. versions[k] \in 0..MaxVersions
      BY <1>2 DEF IInv, Types, TypeOK, Version
    <3>2. 0 <= versions[k]
      BY <3>1
    <3>. QED
      BY <1>8, <3>2 DEF IInv, Written
  <2>. QED
    BY <1>1, <2>1 DEF IInv, QueueIsFile, DiskIsLast, Written
<1>12. InFlight'
  <2>1. ASSUME ins # NoInsert, ~Raced(ins.key) PROVE ins.key \in Keys \ {k} /\ queue[ins.key] # Nothing
    BY <1>2, <2>1, KeysOfStatements DEF IInv, InFlight, QueueIsFile
  <2>. QED
    BY <1>1, <1>8, <2>1 DEF IInv, InFlight, Raced
<1>13. Deleted'
  <2>1. \A j \in Keys : Pending(j)' => Raced(j)' \/ (file'[j] = 0 /\ ~Booting')
    BY <1>1, <1>7 DEF IInv, Deleted, Pending, Raced, Booting
  <2>2. ASSUME NEW t \in Sweeps, Sweeping(t)', sweep'[t].applied
        PROVE  delete'[sweep'[t].key] = "raced" \/ row'[sweep'[t].key] = 0
    <3>1. CASE sweep[t].key = k
      BY <1>7, <1>8, <3>1
    <3>2. CASE sweep[t].key # k
      <4>1. t # s /\ Sweeping(t) /\ sweep[t].applied
        BY <1>7, <2>2, <3>2 DEF Sweeping
      <4>2. sweep[t].key \in Keys /\ (Raced(sweep[t].key) \/ row[sweep[t].key] = 0)
        BY <4>1, KeysOfStatements DEF IInv, Deleted
      <4>. QED
        BY <1>1, <1>7, <1>8, <3>2, <4>2 DEF Raced
    <3>. QED
      BY <3>1, <3>2
  <2>. QED
    BY <2>1, <2>2 DEF Deleted, Raced, Booting
<1>14. Orphans'
  BY <1>1, <1>8 DEF IInv, Orphans
<1>15. Answer'
  <2>1. stored # <<>> => Raced(k)
    BY <1>2 DEF IInv, Answer, Booting
  <2>. QED
    BY <1>1, <1>2, <1>8, <2>1 DEF IInv, Answer, FileAfter, Raced
<1>16. Behind'
  BY <1>1, <1>2, <1>8 DEF IInv, Behind, Raced
<1>. QED
  BY <1>10, <1>11, <1>12, <1>13, <1>14, <1>15, <1>16 DEF IInv

LEMMA SweepOkKeeps ==
    ASSUME IInv, NEW s \in Sweeps, SweepOk(s)
    PROVE  IInv'
<1>. USE StateConstants
<1>. DEFINE k == sweep[s].key
<1>1. /\ Sweeping(s) /\ sweep[s].applied /\ tombstones' = tombstones \ {k}
      /\ UNCHANGED <<file, row, versions, db, dbError, stored, queue, flushing, ins, crashes, last, delete>>
  BY DEF SweepOk
<1>2. k \in Keys /\ sweep[s] \in SweepTypes /\ (Raced(k) \/ (file[k] = 0 /\ row[k] = 0))
  BY <1>1, KeysOfStatements DEF IInv, Deleted, Pending
<1>3. sweep \in [Sweeps -> SweepTypes \cup {NoSweep}]
  BY DEF IInv, Types, SweepTypes
<1>4. PICK new \in SweepTypes \cup {NoSweep} :
         /\ sweep' = [sweep EXCEPT ![s] = new] /\ ~new.applied
         /\ new = NoSweep \/ (new.key \in sweep[s].todo /\ new.todo \subseteq sweep[s].todo)
  <2>1. CASE sweep' = [sweep EXCEPT ![s] = NoSweep]
    BY <2>1 DEF NoSweep
  <2>2. CASE \E j \in sweep[s].todo :
               sweep' = [sweep EXCEPT ![s] = [key |-> j, todo |-> sweep[s].todo \ {j}, applied |-> FALSE]]
    <3>1. PICK j \in sweep[s].todo :
               sweep' = [sweep EXCEPT ![s] = [key |-> j, todo |-> sweep[s].todo \ {j}, applied |-> FALSE]]
      BY <2>2
    <3>. DEFINE n == [key |-> j, todo |-> sweep[s].todo \ {j}, applied |-> FALSE]
    <3>2. n \in SweepTypes
      BY <1>2 DEF SweepTypes
    <3>3. ~n.applied /\ n.key \in sweep[s].todo /\ n.todo \subseteq sweep[s].todo
      OBVIOUS
    <3>4. sweep' = [sweep EXCEPT ![s] = n]
      BY <3>1
    <3>. HIDE DEF n
    <3>. QED
      BY <3>2, <3>3, <3>4
  <2>. QED
    BY <2>1, <2>2 DEF SweepOk
<1>5. sweep' \in [Sweeps -> SweepTypes \cup {NoSweep}]
  BY <1>3, <1>4
<1>6. sweep'[s] = new /\ \A t \in Sweeps \ {s} : sweep'[t] = sweep[t]
  BY <1>3, <1>4
<1>8. Types'
  BY <1>1, <1>5 DEF IInv, Types, TypeOK, SweepTypes
<1>9. Written' /\ QueueIsFile' /\ DiskIsLast' /\ InFlight'
  BY <1>1 DEF IInv, Written, QueueIsFile, DiskIsLast, InFlight, Raced
<1>10. Deleted'
  <2>1. ASSUME NEW j \in Keys, Pending(j)' PROVE Raced(j)' \/ (file'[j] = 0 /\ ~Booting')
    <3>1. Pending(j)
      BY <1>1, <1>4, <1>6, <2>1 DEF Pending, NoSweep
    <3>. QED
      BY <1>1, <3>1 DEF IInv, Deleted, Raced, Booting
  <2>2. ASSUME NEW t \in Sweeps, Sweeping(t)', sweep'[t].applied
        PROVE  delete'[sweep'[t].key] = "raced" \/ row'[sweep'[t].key] = 0
    <3>1. t # s
      BY <1>4, <1>6, <2>2
    <3>. QED
      BY <1>1, <1>6, <2>2, <3>1 DEF IInv, Deleted, Sweeping, Raced
  <2>. QED
    BY <2>1, <2>2 DEF Deleted, Raced, Booting
<1>11. Orphans' /\ Behind'
  BY <1>1, <1>2 DEF IInv, Orphans, Behind, Raced
<1>12. Answer'
  BY <1>1 DEF IInv, Answer, FileAfter, Raced
<1>. QED
  BY <1>8, <1>9, <1>10, <1>11, <1>12 DEF IInv

LEMMA SweepFailsKeeps ==
    ASSUME IInv, NEW s \in Sweeps, SweepFails(s)
    PROVE  IInv'
<1>1. /\ Sweeping(s) /\ sweep' = [sweep EXCEPT ![s] = NoSweep]
      /\ UNCHANGED <<file, row, versions, db, dbError, stored, queue, flushing, ins, tombstones, crashes, last, delete>>
  BY DEF SweepFails
<1>2. sweep \in [Sweeps -> SweepTypes \cup {NoSweep}]
  BY DEF IInv, Types, SweepTypes
<1>3. sweep' \in [Sweeps -> SweepTypes \cup {NoSweep}]
      /\ \A t \in Sweeps : sweep'[t] = sweep[t] \/ sweep'[t] = NoSweep
  BY <1>1, <1>2
<1>4. \A t \in Sweeps : /\ Sweeping(t)' => Sweeping(t) /\ sweep'[t] = sweep[t]
                        /\ sweep'[t].todo \subseteq sweep[t].todo
  BY <1>3 DEF Sweeping, NoSweep
<1>5. Types'
  BY <1>1, <1>3 DEF IInv, Types, TypeOK, SweepTypes
<1>6. Written' /\ QueueIsFile' /\ DiskIsLast' /\ InFlight'
  BY <1>1 DEF IInv, Written, QueueIsFile, DiskIsLast, InFlight, Raced
<1>7. Deleted'
  <2>1. ASSUME NEW j \in Keys, Pending(j)' PROVE Raced(j)' \/ (file'[j] = 0 /\ ~Booting')
    <3>1. Pending(j)
      BY <1>1, <1>3, <2>1, StateConstants DEF Pending, NoSweep
    <3>. QED
      BY <1>1, <3>1 DEF IInv, Deleted, Raced, Booting
  <2>2. ASSUME NEW t \in Sweeps, Sweeping(t)', sweep'[t].applied
        PROVE  delete'[sweep'[t].key] = "raced" \/ row'[sweep'[t].key] = 0
    BY <1>1, <1>4, <2>2 DEF IInv, Deleted, Raced
  <2>. QED
    BY <2>1, <2>2 DEF Deleted, Raced, Booting
<1>8. Orphans' /\ Behind' /\ Answer'
  BY <1>1 DEF IInv, Orphans, Behind, Answer, FileAfter, Raced
<1>. QED
  BY <1>5, <1>6, <1>7, <1>8 DEF IInv

\* A step of start() that only moves db on.
LEMMA StartMoves ==
    ASSUME IInv, StartDb \/ Migrated \/ Imported \/ StartFails
    PROVE  IInv'
<1>1. /\ UNCHANGED <<file, row, versions, queue, flushing, ins, tombstones, sweep, crashes, last, delete>>
      /\ stored' = stored \/ stored' = <<>>
      /\ db' \in {"migrating", "reading", "on", "off"} /\ dbError' \in BOOLEAN
  BY DEF IInv, Types, TypeOK, StartDb, Migrated, Imported, StartFails
<1>2. Booting' => Booting
  BY DEF StartDb, Migrated, Imported, StartFails, Booting
<1>3. Types'
  BY <1>1 DEF IInv, Types, TypeOK
<1>4. Written' /\ DiskIsLast' /\ Deleted' /\ Orphans' /\ QueueIsFile' /\ InFlight'
  BY <1>1, <1>2 DEF IInv, Written, Sweeping, DiskIsLast, Deleted, Pending, Orphans, QueueIsFile, InFlight, Raced
<1>5. Answer'
  BY <1>1 DEF IInv, Answer, FileAfter, Raced, StartDb, Migrated, Imported, StartFails
<1>6. Behind'
  BY <1>1 DEF IInv, Behind, Raced, StartDb, Migrated, Imported, StartFails
<1>. QED
  BY <1>3, <1>4, <1>5, <1>6 DEF IInv

LEMMA ReadRowsKeeps ==
    ASSUME IInv, ReadRows
    PROVE  IInv'
<1>1. /\ db = "reading" /\ stored' = row
      /\ UNCHANGED <<file, row, versions, db, dbError, queue, flushing, ins, tombstones, sweep, crashes, last, delete>>
  BY DEF ReadRows
<1>2. Types'
  BY <1>1 DEF IInv, Types, TypeOK
<1>3. Written' /\ DiskIsLast' /\ Deleted' /\ Orphans' /\ QueueIsFile' /\ InFlight' /\ Behind'
  BY <1>1 DEF IInv, Written, Booting, Sweeping, DiskIsLast, Deleted, Pending, Orphans, QueueIsFile,
              InFlight, Behind, Raced
<1>4. Answer'
  BY <1>1 DEF IInv, Deleted, Pending, Booting, Orphans, Answer, Raced
<1>. QED
  BY <1>2, <1>3, <1>4 DEF IInv

\* reconcile() finds no row without a file, so it writes no file.
LEMMA ReconcileKeeps ==
    ASSUME IInv, Reconcile
    PROVE  IInv'
<1>. USE StateConstants
<1>1. /\ db = "reading" /\ stored # <<>> /\ db' = "importing" /\ stored' = <<>>
      /\ file' = [k \in Keys |-> FileAfter(k)]
      /\ queue' = [k \in Keys |-> IF ToPush(k) # 0 THEN [val |-> ToPush(k), obj |-> "disk"] ELSE queue[k]]
      /\ Flush /\ UNCHANGED <<row, versions, dbError, crashes, last, delete, tombstones>>
  BY DEF Reconcile
<1>2. /\ file \in [Keys -> Version] /\ row \in [Keys -> Version] /\ queue \in [Keys -> Queued]
      /\ stored \in [Keys -> Version] /\ tombstones \subseteq Keys /\ ins \in InsTypes \cup {NoInsert}
  BY <1>1 DEF IInv, Types, TypeOK, InsTypes
<1>3. \A k \in Keys : /\ stored[k] # 0 => file[k] # 0 \/ delete[k] # "sure"
                      /\ stored[k] = FileAfter(k) =>
                            row[k] = stored[k] \/ queue[k] # Nothing \/ Raced(k) \/ k \in InPlace
  BY <1>1 DEF IInv, Answer
<1>4. \A k \in Keys : /\ file'[k] = IF file[k] = 0 THEN stored[k] ELSE file[k]
                      /\ file'[k] # file[k] => file[k] = 0 /\ delete[k] # "sure"
  BY <1>1, <1>2, <1>3 DEF FileAfter
<1>5. \A k \in Keys : ToPush(k) # 0 => ToPush(k) = file[k] /\ file[k] \in 1..MaxVersions
  BY <1>2 DEF ToPush, Version
<1>6. ASSUME NEW k \in Keys, ToPush(k) # 0
      PROVE  [val |-> ToPush(k), obj |-> "disk"] \in Queued /\ [val |-> ToPush(k), obj |-> "disk"] # Nothing
  BY <1>5, <1>6 DEF Queued, Nothing
<1>7. queue' \in [Keys -> Queued] /\ file' \in [Keys -> Version]
  BY <1>1, <1>2, <1>6 DEF FileAfter
<1>8. ASSUME NEW k \in Keys
      PROVE  \/ queue'[k] = queue[k]
             \/ queue'[k] # Nothing /\ queue'[k].val = file[k] /\ file[k] # 0
  BY <1>1, <1>5, <1>6
<1>9. ASSUME NEW k \in Keys PROVE row[k] = file'[k] \/ queue'[k] # Nothing \/ Raced(k) \/ k \in InPlace
  <2>1. CASE stored[k] = FileAfter(k)
    BY <1>1, <1>3, <1>8, <2>1
  <2>2. CASE stored[k] # FileAfter(k)
    <3>1. ToPush(k) # 0
      BY <1>2, <2>2 DEF ToPush, FileAfter
    <3>. QED
      BY <1>1, <1>6, <3>1
  <2>. QED
    BY <2>1, <2>2
<1>10. NewSweeps /\ flushing' = (ins' # NoInsert) /\ (ins' = ins \/ NewIns)
  BY <1>1, <1>2, <1>7, FlushStarts DEF IInv
<1>11. ins' \in InsTypes \cup {NoInsert}
  BY <1>2, <1>10 DEF NewIns
<1>12. Types'
  BY <1>1, <1>7, <1>10, <1>11 DEF IInv, Types, TypeOK, NewSweeps, InsTypes, SweepTypes
<1>13. Answer' /\ Orphans'
  BY <1>1, <1>4 DEF IInv, Answer, Orphans
<1>14. QueueIsFile'
  BY <1>4, <1>8 DEF IInv, QueueIsFile
<1>15. InFlight'
  <2>1. CASE ins' = ins
    <3>1. ASSUME ins # NoInsert, ~Raced(ins.key)
          PROVE  /\ queue'[ins.key] # Nothing
                 /\ queue[ins.key] # Nothing /\ queue'[ins.key].val = queue[ins.key].val
      <4>1. ins.key \in Keys /\ queue[ins.key] # Nothing
        BY <3>1, KeysOfStatements DEF IInv, InFlight
      <4>. QED
        BY <4>1, <1>8 DEF IInv, QueueIsFile
    <3>. QED
      BY <1>1, <2>1, <3>1 DEF IInv, InFlight, Raced
  <2>2. CASE NewIns
    BY <2>2 DEF NewIns, InFlight
  <2>. QED
    BY <1>10, <2>1, <2>2
<1>16. Deleted'
  <2>1. ASSUME NEW k \in Keys, Pending(k)' PROVE Raced(k)'
    <3>1. Pending(k)
      BY <1>1, <1>10, <2>1, PendingBefore DEF Pending
    <3>. QED
      BY <1>1, <3>1 DEF IInv, Deleted, Raced, Booting
  <2>2. ASSUME NEW s \in Sweeps, Sweeping(s)', sweep'[s].applied
        PROVE  delete'[sweep'[s].key] = "raced" \/ row'[sweep'[s].key] = 0
    <3>1. sweep'[s] = sweep[s] /\ Sweeping(s)
      BY <1>10, <2>2 DEF NewSweeps, Sweeping
    <3>. QED
      BY <1>1, <2>2, <3>1 DEF IInv, Deleted, Raced
  <2>. QED
    BY <2>1, <2>2 DEF Deleted, Raced, Booting
<1>17. Behind'
  BY <1>1, <1>9 DEF Behind, Raced
<1>18. DiskIsLast'
  <2>1. ASSUME NEW k \in Keys PROVE file'[k] = last[k] \/ (last[k] = 0 /\ delete[k] # "sure")
    <3>1. file[k] = last[k] \/ (last[k] = 0 /\ delete[k] # "sure")
      BY DEF IInv, DiskIsLast
    <3>. QED
      BY <1>4, <3>1
  <2>. QED
    BY <1>1, <2>1 DEF DiskIsLast
<1>19. Written'
  <2>1. \A k \in Keys : file'[k] <= versions[k]
    BY <1>1, <1>4 DEF IInv, Written
  <2>2. ASSUME ins' # NoInsert PROVE ins'.val <= versions[ins'.key]
    <3>1. CASE ins' = ins
      BY <2>2, <3>1 DEF IInv, Written
    <3>2. CASE NewIns
      <4>1. ins'.key \in Keys /\ ins'.val = file'[ins'.key]
        BY <3>2, <1>14 DEF NewIns, InsTypes, QueueIsFile
      <4>. QED
        BY <2>1, <4>1
    <3>. QED
      BY <1>10, <3>1, <3>2
  <2>. QED
    BY <1>1, <2>1, <2>2 DEF IInv, Written
<1>. QED
  BY <1>12, <1>13, <1>14, <1>15, <1>16, <1>17, <1>18, <1>19 DEF IInv

LEMMA CrashKeeps ==
    ASSUME IInv, Crash
    PROVE  IInv'
<1>. USE StateConstants
<1>1. /\ crashes < MaxCrashes /\ crashes' = crashes + 1
      /\ db' = "new" /\ dbError' = FALSE /\ stored' = <<>>
      /\ queue' = [k \in Keys |-> Nothing] /\ flushing' = FALSE /\ ins' = NoInsert
      /\ tombstones' = {} /\ sweep' = [s \in Sweeps |-> NoSweep]
      /\ delete' = [k \in Keys |-> IF last[k] = 0 /\ (Pending(k) \/ delete[k] # "sure")
                                   THEN "lost" ELSE "sure"]
      /\ UNCHANGED <<file, row, versions, last>>
  BY DEF Crash
<1>2. \A s \in Sweeps : sweep'[s].key = NoKey /\ sweep'[s].todo = {} /\ ~Sweeping(s)'
  BY <1>1 DEF NoSweep, Sweeping
<1>3. Types'
  <2>1. queue' \in [Keys -> Queued] /\ delete' \in [Keys -> Fates]
    BY <1>1 DEF Queued, Fates
  <2>2. crashes' \in 0..MaxCrashes
    BY <1>1 DEF IInv, Types, TypeOK
  <2>3. sweep' \in [Sweeps -> SweepTypes \cup {NoSweep}]
    BY <1>1
  <2>. QED
    BY <1>1, <2>1, <2>2, <2>3 DEF IInv, Types, TypeOK, SweepTypes
<1>4. Written' /\ QueueIsFile' /\ InFlight' /\ Answer' /\ Behind'
  BY <1>1, <1>2 DEF IInv, Written, QueueIsFile, InFlight, Answer, Behind
<1>5. Deleted'
  BY <1>1, <1>2 DEF Deleted, Pending
<1>6. DiskIsLast'
  BY <1>1 DEF IInv, DiskIsLast
<1>7. Orphans'
  <2>1. ASSUME NEW k \in Keys, row[k] # 0, file[k] = 0 PROVE delete'[k] # "sure"
    <3>1. Pending(k) \/ delete[k] # "sure"
      BY <2>1 DEF IInv, Orphans, Pending
    <3>2. last[k] = 0
      BY <2>1 DEF IInv, DiskIsLast
    <3>. QED
      BY <1>1, <3>1, <3>2
  <2>. QED
    BY <1>1, <2>1 DEF Orphans
<1>. QED
  BY <1>3, <1>4, <1>5, <1>6, <1>7 DEF IInv

------------------------------------------------------------------------------
\* The theorems.

LEMMA Inductive ==
    ASSUME IInv, [Next]_vars
    PROVE  IInv'
<1>1. ASSUME NEW k \in Keys, Write(k) PROVE IInv'
  BY <1>1, WriteKeeps
<1>2. ASSUME NEW k \in Keys, Delete(k) PROVE IInv'
  BY <1>2, DeleteKeeps
<1>3. CASE Insert
  BY <1>3, InsertKeeps
<1>4. CASE InsertOk
  BY <1>4, InsertOkKeeps
<1>5. CASE InsertFails
  BY <1>5, InsertFailsKeeps
<1>6. ASSUME NEW s \in Sweeps, SweepDelete(s) PROVE IInv'
  BY <1>6, SweepDeleteKeeps
<1>7. ASSUME NEW s \in Sweeps, SweepOk(s) PROVE IInv'
  BY <1>7, SweepOkKeeps
<1>8. ASSUME NEW s \in Sweeps, SweepFails(s) PROVE IInv'
  BY <1>8, SweepFailsKeeps
<1>9. CASE StartDb \/ Migrated \/ Imported \/ StartFails
  BY <1>9, StartMoves
<1>10. CASE ReadRows
  BY <1>10, ReadRowsKeeps
<1>11. CASE Reconcile
  BY <1>11, ReconcileKeeps
<1>12. CASE Crash
  BY <1>12, CrashKeeps
<1>13. CASE UNCHANGED vars
  BY <1>13 DEF vars, process, IInv, Types, TypeOK, Written, Booting, Sweeping, QueueIsFile, InFlight, Raced,
               Deleted, Pending, Orphans, Answer, FileAfter, Behind, DiskIsLast
<1>. QED
  BY <1>1, <1>2, <1>3, <1>4, <1>5, <1>6, <1>7, <1>8, <1>9, <1>10, <1>11, <1>12, <1>13
     DEF Next, StartStep, UpsertStep, SweepStep

LEMMA Always == Spec => []IInv
<1>1. IInv /\ [Next]_vars => IInv'
  BY Inductive
<1>. QED
  BY <1>1, Initially, PTL DEF Spec

\* Every variable of the store keeps its type, and flush() runs exactly while it awaits a statement.
THEOREM TypeCorrect == Spec => []TypeOK
<1>1. IInv => TypeOK
  BY DEF IInv, Types
<1>. QED
  BY <1>1, Always, PTL

\* However many restarts, failed statements and outages: the file a hub finds when it starts is
\* what it last wrote or deleted.  Only a deleted file comes back, and only one whose DELETE
\* raced or was not confirmed before the process ended.
THEOREM RestartsKeepTheDisk == Spec => []DiskIsLast
<1>1. IInv => DiskIsLast
  BY DEF IInv
<1>. QED
  BY <1>1, Always, PTL

\* Whenever the store has nothing left to send after reconcile(), each row is its file, but
\* for a key whose DELETE raced or whose hub mutates the object it has written.
THEOREM CopiesAgree == Spec => []NeitherDrifts
<1>1. IInv => NeitherDrifts
  BY DEF IInv, Behind, Settled, NeitherDrifts, Raced
<1>. QED
  BY <1>1, Always, PTL
=============================================================================
