---------------------------- MODULE PeerSyncProofs ----------------------------
(***************************************************************************)
(* Proofs about PeerSync for any nodes, peers, clocks, paths, runs at once *)
(* and late pushes: its types, that a time travels with its bytes, that a  *)
(* clean report is true, and that the newest version of a file survives,   *)
(* for the files that no manifest left out and nobody else changed.        *)
(***************************************************************************)
EXTENDS PeerSync, TLAPS

InTransit == {"pulling", "read", "pushing"}

------------------------------------------------------------------------------
\* The inductive invariant.  The files of run r, whose record is R, that its manifests had and
\* nobody else has changed since (m is "moved"):
Calm(r, R, m) == {p \in Paths : p \notin R.unseen /\ <<r, p>> \notin m}

\* What a transfer still to be made would do to the files of the two ends, were it made now.
Due(t, mine, theirs) ==
    IF t.push THEN Newer(mine[t.path], theirs[t.path]) ELSE Newer(theirs[t.path], mine[t.path])

\* Of the files in S, every transfer of the plan is due, and while none has failed the two
\* ends differ just where one is due or a conflict was found.
Ready(plan, R, S, mine, theirs) ==
    /\ \A t \in plan : t.path \in S => Due(t, mine, theirs)
    /\ ~R.failed =>
         \A p \in S : mine[p].val # theirs[p].val
                      <=> (p \in R.conflicts \/ \E t \in plan : t.path = p)

\* The record R of a run is true of the files of its ends, as far as the files in S go.
Sound(R, S, mine, theirs) ==
    /\ R.pc = "listed" => \A p \in S : R.list[p] = theirs[p]
    /\ R.pc \in InTransit => Ready(R.plan \union R.now, R, S, mine, theirs)
    /\ R.pc = "written" => Ready(R.plan, R, S, mine, theirs)
    /\ R.pc = "read" => \A t \in R.now : t.path \in S => R.file = theirs[t.path]
    /\ R.pc = "pushing" => \A t \in R.now : t.path \in S => R.file = mine[t.path]

\* What a record is whoever disturbs its run: one transfer at a time, each path once.
Tidy(plan, R) ==
    /\ \A t, u \in plan : t.path = u.path => t = u
    /\ \A t \in plan : t.path \notin R.conflicts
Orderly(R) ==
    /\ R.pc \notin Transferring => R.plan = {} /\ R.now = {}
    /\ Tidy(R.plan \union R.now, R) /\ R.plan \cap R.now = {}
    /\ \A t, u \in R.now : t = u
    /\ \A t \in R.now : t.push <=> R.pc \in {"pushing", "written"}

Waiting(R) == R.pc \in {"idle", "asking"}
SoundRun(r) ==
    Waiting(run[r]) \/ Sound(run[r], Calm(r, run[r], moved), file[run[r].node], file[run[r].peer])

AllOrderly == \A r \in Runs : Orderly(run[r])
AllSound   == \A r \in Runs : SoundRun(r)
IInv == TypeOK /\ AllOrderly /\ AllSound

------------------------------------------------------------------------------
\* The rules of diffManifests(): at most one of the two ends is newer, and never one of a
\* conflict; ends that differ without a conflict have a newer one.
LEMMA OneIsNewer ==
    ASSUME NEW f \in File, NEW g \in File
    PROVE  /\ ~(Newer(f, g) /\ Newer(g, f))
           /\ ~(Newer(f, g) /\ Conflict(f, g)) /\ ~(Newer(g, f) /\ Conflict(f, g))
           /\ f.val # g.val <=> (Newer(f, g) \/ Newer(g, f) \/ Conflict(f, g))
<1>1. f.mtime \in Int /\ g.mtime \in Int /\ Tolerance \in Nat
  BY SyncConstants DEF File, NoFile, Times
<1>2. f = NoFile <=> f.val = NoVersion
  BY SyncConstants DEF File, NoFile
<1>3. g = NoFile <=> g.val = NoVersion
  BY SyncConstants DEF File, NoFile
<1>. QED
  BY <1>1, <1>2, <1>3 DEF Newer, Conflict, Close

LEMMA NewerIsLater ==
    ASSUME NEW f \in File, NEW g \in File, Newer(f, g)
    PROVE  f # NoFile /\ f.mtime > g.mtime /\ f.mtime >= g.mtime
<1>1. f.mtime \in Int /\ g.mtime \in Int
  BY SyncConstants DEF File, NoFile, Times
<1>2. f # NoFile => f.mtime > 0
  BY SyncConstants DEF File, NoFile, Times
<1>. QED
  BY <1>1, <1>2 DEF Newer, NoFile

LEMMA FileTypes == NoFile \in File /\ \A f \in File : f.mtime \in Times \union {0}
  BY DEF File, NoFile

LEMMA IdleType == Idle \in RunRec /\ Idle.pc = "idle" /\ Orderly(Idle)
<1>1. NoFile \in File /\ <<>> \in Seq(Nodes)
  BY DEF File
<1>2. Idle \in RunRec
  BY <1>1 DEF Idle, RunRec
<1>. QED
  BY <1>2 DEF Idle, Orderly, Tidy, Transferring

\* What runSync() goes on with: the next peer, or the end.
LEMMA AskingType ==
    ASSUME NEW n \in Nodes, NEW ps \in Seq(Nodes)
    PROVE  LET R == Asking(n, ps) IN
           /\ R \in RunRec /\ Waiting(R) /\ Orderly(R) /\ R.file = NoFile /\ R.now = {}
           /\ R.pc = "asking" => R.node = n /\ R.peer \in Nodes
<1>1. CASE ps = <<>>
  <2>1. Asking(n, ps) = Idle
    BY <1>1 DEF Asking
  <2>. QED
    BY <2>1, IdleType DEF Waiting, Idle
<1>2. CASE ps # <<>>
  <2> DEFINE R == [pc |-> "asking", node |-> n, left |-> Tail(ps), peer |-> Head(ps), list |-> <<>>,
                   plan |-> {}, now |-> {}, file |-> NoFile, failed |-> FALSE, conflicts |-> {},
                   unseen |-> {}]
  <2>1. Asking(n, ps) = R
    BY <1>2 DEF Asking, Idle
  <2>2. Head(ps) \in Nodes /\ Tail(ps) \in Seq(Nodes)
    BY <1>2
  <2>3. NoFile \in File
    BY DEF File
  <2>4. R \in RunRec
    BY <2>2, <2>3 DEF RunRec
  <2>5. Waiting(R) /\ Orderly(R)
    BY DEF Waiting, Orderly, Tidy, Transferring
  <2>. QED
    BY <2>1, <2>2, <2>4, <2>5
<1>. QED
  BY <1>1, <1>2

\* The next transfer of a run.
LEMMA SendingShape ==
    ASSUME NEW R \in RunRec, NEW mine \in Listing, NEW X \in Sending(R, mine)
    PROVE  \E t \in R.plan :
             /\ X.plan = R.plan \ {t} /\ X.now = {t}
             /\ X.node = R.node /\ X.peer = R.peer /\ X.failed = R.failed /\ X.conflicts = R.conflicts
             /\ X.unseen = R.unseen
             /\ \/ ~t.push /\ X.pc = "pulling" /\ X.file = NoFile
                \/ t.push /\ X.pc = "pushing" /\ X.file = mine[t.path]
             /\ X \in RunRec
<1> DEFINE pulls == {t \in R.plan : ~t.push}
           ready == {t \in R.plan : t.push /\ mine[t.path] # NoFile}
<1>1. R.plan \subseteq Transfer /\ NoFile \in File
  BY DEF RunRec, File
<1>2. \A t \in R.plan : mine[t.path] \in File
  BY <1>1 DEF Transfer, Listing
<1>3. CASE pulls # {}
  <2>1. PICK t \in pulls : X = [R EXCEPT !.pc = "pulling", !.now = {t}, !.plan = @ \ {t}, !.file = NoFile]
    BY <1>3 DEF Sending
  <2>2. X.plan = R.plan \ {t} /\ X.now = {t} /\ X.node = R.node /\ X.peer = R.peer
        /\ X.failed = R.failed /\ X.conflicts = R.conflicts /\ X.unseen = R.unseen /\ X.pc = "pulling" /\ X.file = NoFile
    BY <2>1 DEF RunRec
  <2>3. X \in RunRec
    BY <2>1, <1>1 DEF RunRec, Transferring
  <2>. QED
    BY <2>2, <2>3
<1>4. CASE pulls = {}
  <2>1. PICK t \in ready : X = [R EXCEPT !.pc = "pushing", !.now = {t}, !.plan = @ \ {t}, !.file = mine[t.path]]
    BY <1>4 DEF Sending
  <2>2. X.plan = R.plan \ {t} /\ X.now = {t} /\ X.node = R.node /\ X.peer = R.peer
        /\ X.failed = R.failed /\ X.conflicts = R.conflicts /\ X.unseen = R.unseen /\ X.pc = "pushing" /\ X.file = mine[t.path]
    BY <2>1 DEF RunRec
  <2>3. X \in RunRec
    BY <2>1, <1>1, <1>2 DEF RunRec, Transferring
  <2>. QED
    BY <2>2, <2>3
<1>. QED
  BY <1>3, <1>4

LEMMA SendingSound ==
    ASSUME NEW R \in RunRec, NEW mine \in Listing, NEW theirs, NEW S, NEW X \in Sending(R, mine),
           Ready(R.plan, R, S, mine, theirs)
    PROVE  Sound(X, S, mine, theirs)
<1>1. PICK t \in R.plan :
             /\ X.plan = R.plan \ {t} /\ X.now = {t}
             /\ X.failed = R.failed /\ X.conflicts = R.conflicts
             /\ \/ ~t.push /\ X.pc = "pulling" /\ X.file = NoFile
                \/ t.push /\ X.pc = "pushing" /\ X.file = mine[t.path]
  BY SendingShape
<1>2. X.plan \union X.now = R.plan
  BY <1>1
<1>3. Ready(X.plan \union X.now, X, S, mine, theirs)
  BY <1>1, <1>2 DEF Ready
<1>4. X.pc \in {"pulling", "pushing"} /\ (X.pc = "pushing" => \A u \in X.now : X.file = mine[u.path])
  BY <1>1
<1>. QED
  BY <1>3, <1>4 DEF Sound, InTransit

LEMMA SendingOrderly ==
    ASSUME NEW R \in RunRec, NEW mine \in Listing, NEW X \in Sending(R, mine), Tidy(R.plan, R)
    PROVE  Orderly(X)
<1>1. PICK t \in R.plan :
             /\ X.plan = R.plan \ {t} /\ X.now = {t} /\ X.conflicts = R.conflicts
             /\ \/ ~t.push /\ X.pc = "pulling"
                \/ t.push /\ X.pc = "pushing"
  BY SendingShape
<1>2. X.plan \union X.now = R.plan
  BY <1>1
<1>3. Tidy(X.plan \union X.now, X)
  BY <1>1, <1>2 DEF Tidy
<1>4. X.pc \in Transferring
  BY <1>1 DEF Transferring
<1>. QED
  BY <1>1, <1>3, <1>4 DEF Orderly

\* The plan made of two manifests is tidy, and due for the files that both had.
LEMMA PlanReady ==
    ASSUME NEW mine \in Listing, NEW theirs \in Listing, NEW R,
           R.plan = PlanFor(mine, theirs), R.conflicts = {p \in Paths : Conflict(mine[p], theirs[p])},
           NEW S \in SUBSET Paths, NEW here, NEW there,
           \A p \in S : mine[p] = here[p] /\ theirs[p] = there[p]
    PROVE  Ready(R.plan, R, S, here, there) /\ Tidy(R.plan, R) /\ R.plan \subseteq Transfer
<1>1. \A p \in Paths : mine[p] \in File /\ theirs[p] \in File
  BY DEF Listing
<1>2. \A t \in R.plan : /\ t \in Transfer /\ Due(t, mine, theirs)
                        /\ t.listed = IF t.push THEN 0 ELSE theirs[t.path].mtime
  BY DEF PlanFor, Due
<1>3. \A t \in Transfer : t.path \in Paths /\ t.push \in BOOLEAN /\ t = [path |-> t.path, push |-> t.push, listed |-> t.listed]
  BY DEF Transfer
<1>4. ASSUME NEW t \in R.plan, NEW u \in R.plan, t.path = u.path
      PROVE  t = u
  <2>1. t.push = u.push
    BY <1>1, <1>2, <1>3, <1>4, OneIsNewer DEF Due
  <2>. QED
    BY <2>1, <1>2, <1>3, <1>4
<1>5. ASSUME NEW t \in R.plan
      PROVE  t.path \notin R.conflicts
  BY <1>1, <1>2, <1>3, OneIsNewer DEF Due
<1>6. ASSUME NEW p \in Paths
      PROVE  (\E t \in R.plan : t.path = p) <=> (Newer(mine[p], theirs[p]) \/ Newer(theirs[p], mine[p]))
  <2>1. ASSUME NEW t \in R.plan, t.path = p
        PROVE  Newer(mine[p], theirs[p]) \/ Newer(theirs[p], mine[p])
    BY <2>1, <1>2 DEF Due
  <2>2. ASSUME NEW b \in BOOLEAN, IF b THEN Newer(mine[p], theirs[p]) ELSE Newer(theirs[p], mine[p])
        PROVE  \E t \in R.plan : t.path = p
    <3> DEFINE l == IF b THEN 0 ELSE theirs[p].mtime
               t == [path |-> p, push |-> b, listed |-> l]
    <3>1. l \in Times \union {0}
      BY <1>1, FileTypes
    <3>2. t \in Transfer /\ t.path = p /\ t.push = b /\ t.listed = l
      BY <3>1 DEF Transfer
    <3>3. t \in PlanFor(mine, theirs)
      BY <2>2, <3>2 DEF PlanFor
    <3>. QED
      BY <3>2, <3>3
  <2>3. Newer(mine[p], theirs[p]) => \E t \in R.plan : t.path = p
    BY <2>2
  <2>4. Newer(theirs[p], mine[p]) => \E t \in R.plan : t.path = p
    BY <2>2
  <2>. QED
    BY <2>1, <2>3, <2>4
<1>7. \A p \in Paths : mine[p].val # theirs[p].val <=> (p \in R.conflicts \/ \E t \in R.plan : t.path = p)
  BY <1>1, <1>6, OneIsNewer
<1>8. \A t \in R.plan : t.path \in S => Due(t, here, there)
  BY <1>2 DEF Due
<1>9. \A p \in S : here[p].val # there[p].val <=> (p \in R.conflicts \/ \E t \in R.plan : t.path = p)
  BY <1>7
<1>. QED
  BY <1>2, <1>4, <1>5, <1>8, <1>9 DEF Ready, Tidy

\* Once a transfer of the plan has been made, and nothing else, the rest of the plan is due.
LEMMA Settled ==
    ASSUME NEW plan \in SUBSET Transfer, NEW t \in Transfer \ plan, NEW R,
           NEW S \in SUBSET Paths,
           NEW mine, NEW theirs, NEW mine2, NEW theirs2,
           Ready(plan \union {t}, R, S, mine, theirs), Tidy(plan \union {t}, R),
           \A p \in Paths \ {t.path} : mine2[p] = mine[p] /\ theirs2[p] = theirs[p],
           t.path \in S => mine2[t.path].val = theirs2[t.path].val
    PROVE  Ready(plan, R, S, mine2, theirs2)
<1>1. \A u \in plan : u.path \in Paths \ {t.path}
  BY DEF Tidy, Transfer
<1>2. \A u \in plan : u.path \in S => Due(u, mine2, theirs2)
  BY <1>1 DEF Ready, Due
<1>3. t.path \in Paths /\ t.path \notin R.conflicts
  BY DEF Tidy, Transfer
<1>4. ASSUME NEW p \in S, ~R.failed
      PROVE  mine2[p].val # theirs2[p].val <=> (p \in R.conflicts \/ \E u \in plan : u.path = p)
  <2>1. CASE p = t.path
    BY <2>1, <1>1, <1>3
  <2>2. CASE p # t.path
    BY <2>2, <1>4 DEF Ready
  <2>. QED
    BY <2>1, <2>2
<1>. QED
  BY <1>2, <1>4 DEF Ready

------------------------------------------------------------------------------
\* A record stays true of fewer files, if those have not changed.
LEMMA Bystander ==
    ASSUME NEW R, NEW S, NEW T \in SUBSET S, NEW mine, NEW theirs, NEW mine2, NEW theirs2,
           Sound(R, S, mine, theirs), \A p \in T : mine2[p] = mine[p] /\ theirs2[p] = theirs[p]
    PROVE  Sound(R, T, mine2, theirs2)
<1>1. ASSUME NEW plan, Ready(plan, R, S, mine, theirs)
      PROVE  Ready(plan, R, T, mine2, theirs2)
  BY <1>1 DEF Ready, Due
<1>. QED
  BY <1>1 DEF Sound

\* A step that changes files under the runs of others, and says so.
LEMMA Bystanders ==
    ASSUME IInv, NEW own \in SUBSET Runs, \A r \in Runs \ own : run'[r] = run[r],
           \A r \in Runs \ own, p \in Paths : <<r, p>> \in moved => <<r, p>> \in moved',
           \A n \in Nodes, p \in Paths : file'[n][p] # file[n][p] => Moves(n, p, own) \subseteq moved'
    PROVE  \A r \in Runs \ own : SoundRun(r)'
<1> SUFFICES ASSUME NEW r \in Runs \ own
             PROVE  SoundRun(r)'
  OBVIOUS
<1>1. SoundRun(r) /\ run'[r] = run[r]
  BY DEF IInv, AllSound
<1>2. CASE Waiting(run[r])
  BY <1>1, <1>2 DEF SoundRun
<1>3. CASE ~Waiting(run[r])
  <2> DEFINE S == Calm(r, run[r], moved)
             T == Calm(r, run[r], moved')
  <2>1. run[r].pc \notin {"idle", "asking"} /\ Busy(r)
    BY <1>3 DEF Waiting, Busy
  <2>2. run[r].node \in Nodes /\ run[r].peer \in Nodes
    BY <2>1 DEF IInv, TypeOK
  <2>3. T \subseteq S
    BY <1>1 DEF Calm
  <2>4. ASSUME NEW p \in T, NEW n \in Ends(r)
        PROVE  file'[n][p] = file[n][p]
    <3>1. n \in Nodes /\ p \in Paths
      BY <2>2, <2>4 DEF Ends, Calm
    <3>2. <<r, p>> \in Moves(n, p, own)
      BY <2>1, <2>4 DEF Moves
    <3>3. <<r, p>> \notin moved'
      BY <2>4 DEF Calm
    <3>. QED
      BY <3>1, <3>2, <3>3
  <2>5. Sound(run[r], S, file[run[r].node], file[run[r].peer])
    BY <1>1, <1>3 DEF SoundRun
  <2>6. \A p \in T : /\ file'[run[r].node][p] = file[run[r].node][p]
                     /\ file'[run[r].peer][p] = file[run[r].peer][p]
    BY <2>4 DEF Ends
  <2>7. Sound(run[r], T, file'[run[r].node], file'[run[r].peer])
    <3> HIDE DEF S, T
    <3>. QED
      BY <2>3, <2>5, <2>6, Bystander
  <2>. QED
    BY <1>1, <2>7 DEF SoundRun
<1>. QED
  BY <1>2, <1>3

\* Steps that leave the files alone lose nothing.
LEMMA NothingLost ==
    ASSUME TypeOK, file' = file
    PROVE  Surviving
<1> SUFFICES ASSUME NEW p \in Paths, NEW n \in Nodes
             PROVE  \E m \in Nodes : file'[m][p].mtime >= file[n][p].mtime
  BY DEF Surviving, Newest
<1>1. file[n][p] \in File
  BY DEF TypeOK, Listing
<1>2. file[n][p].mtime \in Int
  BY <1>1, SyncConstants DEF File, NoFile, Times
<1>. QED
  BY <1>2

\* A transfer loses nothing if it goes over an older file, or else is exempt.
LEMMA OlderReplaced ==
    ASSUME TypeOK, NEW q \in Nodes, NEW u \in Paths, NEW f \in File,
           Newer(f, file[q][u]) \/ Blind(u) \/ Raced(u),
           file' = [file EXCEPT ![q] = [file[q] EXCEPT ![u] = f]]
    PROVE  Surviving
<1> SUFFICES ASSUME NEW p \in Paths, NEW n \in Nodes, ~Blind(p), ~Raced(p)
             PROVE  \E m \in Nodes : file'[m][p].mtime >= file[n][p].mtime
  BY DEF Surviving, Newest
<1>1. file[n][p] \in File /\ file[q][u] \in File
  BY DEF TypeOK, Listing
<1>2. file[n][p].mtime \in Int
  BY <1>1, SyncConstants DEF File, NoFile, Times
<1>3. CASE n = q /\ p = u
  <2>1. file'[q][u] = f
    BY DEF TypeOK, Listing
  <2>. QED
    BY <1>1, <1>3, <2>1, NewerIsLater
<1>4. CASE ~(n = q /\ p = u)
  <2>1. file'[n][p] = file[n][p]
    BY <1>4 DEF TypeOK, Listing
  <2>. QED
    BY <1>2, <2>1
<1>. QED
  BY <1>3, <1>4

NoReportMade == report' = NoReport
LEMMA SilentStep ==
    ASSUME NoReportMade
    PROVE  Truthful /\ report' \in Reports
  BY DEF NoReportMade, NoReport, Reports, Truthful

\* GoOn: run r, whose record is R and whose transfers are due, sends the next one or reports.
LEMMA GoOnKeeps ==
    ASSUME IInv, NEW r \in Runs, NEW R \in RunRec, NEW others \in SUBSET ((Runs \ {r}) \X Paths),
           R.node = run[r].node, R.peer = run[r].peer, Busy(r), Tidy(R.plan, R),
           file' \in [Nodes -> Listing],
           \A n \in Nodes, p \in Paths : file'[n][p] # file[n][p] => Moves(n, p, {r}) \subseteq others,
           Ready(R.plan, R, Calm(r, R, moved), file'[R.node], file'[R.peer]),
           GoOn(r, R, file'[R.node], others), late' \subseteq [to : Nodes, path : Paths, file : File]
    PROVE  /\ IInv' /\ Truthful
           /\ run'[r].pc \notin {"read", "written"} /\ \A s \in Runs \ {r} : run'[s] = run[s]
           /\ run'[r].file \in {NoFile} \union {file'[R.node][p] : p \in Paths}
<1> DEFINE here == file'[R.node]
<1>1. /\ R.node \in Nodes /\ R.peer \in Nodes /\ here \in Listing /\ R.left \in Seq(Nodes)
      /\ run \in [Runs -> RunRec] /\ moved \subseteq Runs \X Paths
  BY DEF IInv, TypeOK, RunRec
<1>2. ASSUME NEW X \in RunRec, run' = [run EXCEPT ![r] = X], Orderly(X),
             X.pc # "idle" => X.node \in Nodes /\ X.peer \in Nodes, X.pc # "listed",
             X.now # {} <=> X.pc \in Transferring,
             moved' \subseteq Runs \X Paths, moved \ ({r} \X Paths) \subseteq moved', others \subseteq moved',
             Waiting(X) \/ Sound(X, Calm(r, X, moved'), file'[X.node], file'[X.peer]),
             report' \in Reports
      PROVE  IInv' /\ \A s \in Runs \ {r} : run'[s] = run[s]
  <2>1. run' \in [Runs -> RunRec] /\ run'[r] = X /\ \A s \in Runs \ {r} : run'[s] = run[s]
    BY <1>1, <1>2
  <2>2. TypeOK'
    BY <2>1, <1>1, <1>2 DEF IInv, TypeOK, Busy
  <2>3. AllOrderly'
    BY <2>1, <1>2 DEF IInv, AllOrderly
  <2>4. \A s \in Runs \ {r} : SoundRun(s)'
    <3>1. \A s \in Runs \ {r}, p \in Paths : <<s, p>> \in moved => <<s, p>> \in moved'
      BY <1>2
    <3>2. \A n \in Nodes, p \in Paths : file'[n][p] # file[n][p] => Moves(n, p, {r}) \subseteq moved'
      BY <1>2
    <3>. QED
      BY <2>1, <3>1, <3>2, Bystanders
  <2>5. SoundRun(r)'
    BY <2>1, <1>2 DEF SoundRun, Calm
  <2>6. AllSound'
    BY <2>4, <2>5 DEF AllSound
  <2>. QED
    BY <2>1, <2>2, <2>3, <2>6 DEF IInv
<1>3. CASE /\ \E X \in Sending(R, here) : run' = [run EXCEPT ![r] = X]
           /\ report' = NoReport /\ moved' = moved \union others
  <2>1. PICK X \in Sending(R, here) : run' = [run EXCEPT ![r] = X]
    BY <1>3
  <2>2. PICK t \in R.plan :
             /\ X.now = {t} /\ X.node = R.node /\ X.peer = R.peer /\ X.unseen = R.unseen
             /\ \/ X.pc = "pulling" /\ X.file = NoFile
                \/ X.pc = "pushing" /\ X.file = here[t.path]
             /\ X \in RunRec
    BY <1>1, <2>1, SendingShape
  <2>3. t.path \in Paths
    BY DEF RunRec, Transfer
  <2>4. Orderly(X)
    BY <1>1, <2>1, SendingOrderly
  <2>5. Sound(X, Calm(r, X, moved'), file'[X.node], file'[X.peer])
    <3>1. Calm(r, X, moved') = Calm(r, R, moved)
      BY <1>3, <2>2 DEF Calm
    <3>2. Sound(X, Calm(r, R, moved), here, file'[R.peer])
      BY <1>1, <2>1, SendingSound
    <3>. QED
      BY <2>2, <3>1, <3>2
  <2>6. X.now # {} /\ X.pc \in Transferring /\ X.pc \notin {"listed", "read", "written"}
    BY <2>2 DEF Transferring
  <2>7. Truthful /\ report' \in Reports
    BY <1>3, SilentStep DEF NoReportMade
  <2>8. IInv' /\ \A s \in Runs \ {r} : run'[s] = run[s]
    <3>1. moved' \subseteq Runs \X Paths /\ moved \ ({r} \X Paths) \subseteq moved' /\ others \subseteq moved'
      BY <1>1, <1>3
    <3>. QED
      BY <1>1, <1>2, <2>1, <2>2, <2>4, <2>5, <2>6, <2>7, <3>1
  <2>9. run'[r] = X
    BY <1>1, <2>1
  <2>10. X.file \in {NoFile} \union {here[p] : p \in Paths}
    BY <2>2, <2>3
  <2>. QED
    BY <2>6, <2>7, <2>8, <2>9, <2>10
<1>4. CASE /\ Sending(R, here) = {}
           /\ run' = [run EXCEPT ![r] = Asking(R.node, R.left)]
           /\ report' = [run |-> r, clean |-> ~R.failed /\ R.plan = {}, conflicts |-> R.conflicts,
                         unseen |-> R.unseen]
           /\ moved' = (moved \ ({r} \X Paths)) \union others
  <2> DEFINE X == Asking(R.node, R.left)
  <2>1. /\ X \in RunRec /\ Waiting(X) /\ Orderly(X) /\ X.file = NoFile /\ X.now = {}
        /\ X.pc = "asking" => X.node \in Nodes /\ X.peer \in Nodes
    BY <1>1, AskingType
  <2>2. X.pc \notin Transferring /\ X.pc \notin {"listed", "read", "written"} /\ (X.pc # "idle" => X.pc = "asking")
    BY <2>1 DEF Waiting, Transferring
  <2>3. report' \in Reports
    BY <1>4 DEF RunRec, Reports
  <2>4. IInv' /\ \A s \in Runs \ {r} : run'[s] = run[s]
    <3>1. moved' \subseteq Runs \X Paths /\ moved \ ({r} \X Paths) \subseteq moved' /\ others \subseteq moved'
      BY <1>1, <1>4
    <3> HIDE DEF X
    <3>. QED
      BY <1>1, <1>2, <1>4, <2>1, <2>2, <2>3, <3>1 DEF X
  <2>5. Truthful
    <3> SUFFICES ASSUME report'.clean, NEW p \in Paths, p \notin R.unseen, <<r, p>> \notin moved
                 PROVE  file'[run[r].node][p].val # file'[run[r].peer][p].val
                        <=> p \in report'.conflicts
      BY <1>4 DEF Truthful
    <3>1. ~R.failed /\ R.plan = {} /\ report'.conflicts = R.conflicts
      BY <1>4
    <3>2. p \in Calm(r, R, moved)
      BY DEF Calm
    <3>. QED
      BY <3>1, <3>2 DEF Ready
  <2>6. run'[r] = X
    BY <1>1, <1>4
  <2>. QED
    BY <2>1, <2>2, <2>4, <2>5, <2>6
<1>. QED
  BY <1>3, <1>4 DEF GoOn

------------------------------------------------------------------------------
\* The steps, one by one.
LEMMA EditKeeps ==
    ASSUME IInv, NEW n \in Nodes, NEW p \in Paths, Edit(n, p)
    PROVE  IInv' /\ Truthful /\ Surviving
<1>1. PICK f \in File : file' = [file EXCEPT ![n][p] = f]
  <2>1. PICK v \in Versions \union {NoVersion} :
           file' = [file EXCEPT ![n][p] = IF v = NoVersion THEN NoFile ELSE [val |-> v, mtime |-> StampOf[v]]]
    BY DEF Edit
  <2>2. (IF v = NoVersion THEN NoFile ELSE [val |-> v, mtime |-> StampOf[v]]) \in File
    BY SyncConstants DEF File, Times
  <2>. QED
    BY <2>1, <2>2
<1>2. file' \in [Nodes -> Listing] /\ \A m \in Nodes \ {n} : file'[m] = file[m]
  BY <1>1 DEF IInv, TypeOK, Listing
<1>3. run' = run /\ late' = late /\ moved' = moved \union Moves(n, p, {}) /\ NoReportMade
  BY DEF Edit, NoReportMade
<1>4. Truthful /\ report' \in Reports
  BY <1>3, SilentStep
<1>5. TypeOK'
  BY <1>2, <1>3, <1>4 DEF IInv, TypeOK, Moves, Busy
<1>6. AllSound'
  <2>1. \A m \in Nodes, q \in Paths : file'[m][q] # file[m][q] => m = n /\ q = p
    BY <1>1 DEF IInv, TypeOK, Listing
  <2>2. \A m \in Nodes, q \in Paths : file'[m][q] # file[m][q] => Moves(m, q, {}) \subseteq moved'
    BY <1>3, <2>1
  <2>3. \A r \in Runs \ {} : SoundRun(r)'
    BY <1>3, <2>2, Bystanders
  <2>. QED
    BY <2>3 DEF AllSound
<1>7. AllOrderly'
  BY <1>3 DEF IInv, AllOrderly
<1>8. Surviving
  <2> SUFFICES ASSUME NEW q \in Paths, NEW m \in Nodes, ~(m = n /\ q = p)
               PROVE  \E k \in Nodes : file'[k][q].mtime >= file[m][q].mtime
    BY DEF Surviving, Newest
  <2>1. file'[m][q] = file[m][q] /\ file[m][q] \in File
    BY <1>1 DEF IInv, TypeOK, Listing
  <2>2. file[m][q].mtime \in Int
    BY <2>1, SyncConstants DEF File, NoFile, Times
  <2>. QED
    BY <2>1, <2>2
<1>. QED
  BY <1>4, <1>5, <1>6, <1>7, <1>8 DEF IInv

\* A step that replaces the record of one run, leaves the files alone and reports nothing.
LEMMA RecordKeeps ==
    ASSUME IInv, NEW r \in Runs, NEW X \in RunRec, run' = [run EXCEPT ![r] = X],
           X.pc # "idle" => X.node \in Nodes /\ X.peer \in Nodes,
           X.pc = "listed" => X.list \in Listing,
           X.now # {} <=> X.pc \in Transferring, Orderly(X),
           Waiting(X) \/ Sound(X, Calm(r, X, moved'), file[X.node], file[X.peer]),
           moved \ ({r} \X Paths) \subseteq moved', moved' \subseteq moved, NoReportMade,
           file' = file, late' = late
    PROVE  IInv' /\ Truthful /\ Surviving
<1>1. run' \in [Runs -> RunRec] /\ run'[r] = X /\ \A s \in Runs \ {r} : run'[s] = run[s]
  BY DEF IInv, TypeOK
<1>2. Truthful /\ report' \in Reports
  BY SilentStep
<1>3. TypeOK'
  BY <1>1, <1>2 DEF IInv, TypeOK, Busy
<1>4. AllOrderly'
  BY <1>1 DEF IInv, AllOrderly
<1>5. AllSound'
  <2>1. \A s \in Runs \ {r} : SoundRun(s)'
    BY <1>1, Bystanders
  <2>2. SoundRun(r)'
    BY <1>1 DEF SoundRun, Calm
  <2>. QED
    BY <2>1, <2>2 DEF AllSound
<1>. QED
  BY <1>2, <1>3, <1>4, <1>5, NothingLost DEF IInv

LEMMA StartKeeps ==
    ASSUME IInv, NEW r \in Runs, NEW n \in Nodes, Start(r, n)
    PROVE  IInv' /\ Truthful /\ Surviving
<1>1. PeersOf[n] \in Seq(Nodes)
  BY SyncConstants
<1>2. LET X == Asking(n, PeersOf[n]) IN
      /\ X \in RunRec /\ Waiting(X) /\ Orderly(X) /\ X.now = {}
      /\ X.pc = "asking" => X.node = n /\ X.peer \in Nodes
  BY <1>1, AskingType
<1>3. Asking(n, PeersOf[n]).pc \in {"idle", "asking"}
  BY <1>2 DEF Waiting
<1>4. run' = [run EXCEPT ![r] = Asking(n, PeersOf[n])] /\ NoReportMade /\ file' = file /\ late' = late /\ moved' = moved
  BY DEF Start, NoReportMade
<1>. QED
  BY <1>2, <1>3, <1>4, RecordKeeps DEF Transferring

LEMMA ManifestIsListing ==
    ASSUME NEW r, NEW n, file[n] \in Listing, NEW list \in Manifests(r, n)
    PROVE  list \in Listing
<1>1. PICK seen : list = [p \in Paths |-> IF p \in seen THEN file[n][p] ELSE NoFile]
  BY DEF Manifests
<1>. QED
  BY <1>1, FileTypes DEF Listing

LEMMA ListKeeps ==
    ASSUME IInv, NEW r \in Runs, List(r)
    PROVE  IInv' /\ Truthful /\ Surviving
<1> DEFINE q == run[r].peer
<1>1. run[r] \in RunRec /\ run[r].pc = "asking" /\ Orderly(run[r]) /\ q \in Nodes /\ run[r].node \in Nodes
      /\ file[q] \in Listing
  BY DEF IInv, TypeOK, AllOrderly, List, Busy
<1>2. PICK theirs \in Manifests(r, q) :
         run' = [run EXCEPT ![r].pc = "listed", ![r].list = theirs, ![r].unseen = Hidden(q, theirs)]
  BY DEF List
<1> DEFINE X == [run[r] EXCEPT !.pc = "listed", !.list = theirs, !.unseen = Hidden(q, theirs)]
<1>3. theirs \in Listing /\ Hidden(q, theirs) \subseteq Paths
  BY <1>1, ManifestIsListing DEF Hidden
<1>4. X \in RunRec
  BY <1>1, <1>3 DEF RunRec
<1>5. X.pc = "listed" /\ X.list = theirs /\ X.plan = run[r].plan /\ X.now = run[r].now
      /\ X.node = run[r].node /\ X.peer = q /\ X.unseen = Hidden(q, theirs)
  BY <1>1 DEF RunRec
<1>6. X.now = {} /\ X.plan = {}
  BY <1>1, <1>5 DEF Orderly, Transferring
<1>7. Orderly(X)
  BY <1>5, <1>6 DEF Orderly, Tidy, Transferring
<1>8. Sound(X, Calm(r, X, moved'), file[X.node], file[X.peer])
  <2>1. \A p \in Calm(r, X, moved') : theirs[p] = file[q][p]
    BY <1>5 DEF Calm, Hidden
  <2>. QED
    BY <1>5, <2>1 DEF Sound, InTransit
<1>9. run' = [run EXCEPT ![r] = X] /\ moved' = moved \ ({r} \X Paths) /\ NoReportMade /\ file' = file /\ late' = late
  BY <1>2 DEF List, NoReportMade, IInv, TypeOK
<1> HIDE DEF X
<1>. QED
  BY <1>1, <1>3, <1>4, <1>5, <1>6, <1>7, <1>8, <1>9, RecordKeeps DEF Transferring

LEMMA ReadKeeps ==
    ASSUME IInv, NEW r \in Runs, Read(r)
    PROVE  IInv' /\ Truthful /\ Surviving
<1> DEFINE q == run[r].peer
<1>1. PICK t \in run[r].now : run' = [run EXCEPT ![r].pc = "read", ![r].file = file[q][t.path]]
  BY DEF Read
<1> DEFINE X == [run[r] EXCEPT !.pc = "read", !.file = file[q][t.path]]
<1>2. run[r] \in RunRec /\ run[r].pc = "pulling" /\ Orderly(run[r]) /\ q \in Nodes /\ run[r].node \in Nodes
      /\ file[q] \in Listing
  BY DEF IInv, TypeOK, AllOrderly, Read, Busy
<1>3. file[q][t.path] \in File
  BY <1>2 DEF Listing, RunRec, Transfer
<1>4. X \in RunRec
  BY <1>2, <1>3 DEF RunRec, Transferring
<1>5. X.pc = "read" /\ X.file = file[q][t.path] /\ X.plan = run[r].plan /\ X.now = run[r].now
      /\ X.node = run[r].node /\ X.peer = q /\ X.failed = run[r].failed /\ X.conflicts = run[r].conflicts
      /\ X.unseen = run[r].unseen
  BY <1>2 DEF RunRec
<1>6. \A u \in X.now : u = t
  BY <1>2, <1>5 DEF Orderly
<1>7. Orderly(X)
  BY <1>2, <1>5 DEF Orderly, Tidy, Transferring
<1>8. Sound(X, Calm(r, X, moved'), file[X.node], file[X.peer])
  <2>1. Sound(run[r], Calm(r, run[r], moved), file[run[r].node], file[q])
    BY <1>2 DEF IInv, AllSound, SoundRun, Waiting
  <2>2. Calm(r, X, moved') = Calm(r, run[r], moved)
    BY <1>5 DEF Calm, Read
  <2>3. Ready(X.plan \union X.now, X, Calm(r, run[r], moved), file[X.node], file[X.peer])
    BY <2>1, <1>2, <1>5 DEF Sound, InTransit, Ready
  <2> HIDE DEF X
  <2>. QED
    BY <2>2, <2>3, <1>5, <1>6 DEF Sound
<1>9. run' = [run EXCEPT ![r] = X] /\ moved' = moved /\ NoReportMade /\ file' = file /\ late' = late
  BY <1>1, <1>2 DEF Read, NoReportMade, IInv, TypeOK
<1>10. X.now # {}
  BY <1>5
<1> HIDE DEF X
<1>. QED
  BY <1>2, <1>4, <1>5, <1>7, <1>8, <1>9, <1>10, RecordKeeps DEF Transferring

LEMMA CompareKeeps ==
    ASSUME IInv, NEW r \in Runs, Compare(r)
    PROVE  IInv' /\ Truthful /\ Surviving
<1> DEFINE n == run[r].node
           theirs == run[r].list
<1>1. run[r] \in RunRec /\ run[r].pc = "listed" /\ n \in Nodes /\ run[r].peer \in Nodes
      /\ file[n] \in Listing /\ theirs \in Listing
  BY DEF IInv, TypeOK, Compare, Busy
<1> DEFINE Rec(mine) == [run[r] EXCEPT !.list = <<>>, !.plan = PlanFor(mine, theirs),
                                       !.conflicts = {p \in Paths : Conflict(mine[p], theirs[p])},
                                       !.unseen = @ \union Hidden(n, mine)]
<1>2. PICK mine \in Manifests(r, n) : GoOn(r, Rec(mine), file[n], {})
  BY DEF Compare
<1> DEFINE R == Rec(mine)
<1>3. mine \in Listing /\ Hidden(n, mine) \subseteq Paths
  BY <1>1, ManifestIsListing DEF Hidden
<1>4. R.plan = PlanFor(mine, theirs) /\ R.conflicts = {p \in Paths : Conflict(mine[p], theirs[p])}
      /\ R.node = n /\ R.peer = run[r].peer /\ R.unseen = run[r].unseen \union Hidden(n, mine)
  BY <1>1 DEF RunRec
<1>5. R \in RunRec
  <2>1. PlanFor(mine, theirs) \subseteq Transfer
    BY DEF PlanFor
  <2>2. run[r].unseen \union Hidden(n, mine) \subseteq Paths
    BY <1>1, <1>3 DEF RunRec
  <2>. QED
    BY <1>1, <2>1, <2>2 DEF RunRec
<1>6. \A p \in Calm(r, R, moved) : mine[p] = file[n][p] /\ theirs[p] = file[R.peer][p]
  <2>1. \A p \in Calm(r, run[r], moved) : theirs[p] = file[R.peer][p]
    <3>1. Sound(run[r], Calm(r, run[r], moved), file[n], file[run[r].peer])
      BY <1>1 DEF IInv, AllSound, SoundRun, Waiting
    <3>. QED
      BY <1>1, <1>4, <3>1 DEF Sound
  <2>2. Calm(r, R, moved) \subseteq Calm(r, run[r], moved) /\ \A p \in Calm(r, R, moved) : mine[p] = file[n][p]
    BY <1>4 DEF Calm, Hidden
  <2>. QED
    BY <2>1, <2>2
<1>7. Ready(R.plan, R, Calm(r, R, moved), file[n], file[R.peer]) /\ Tidy(R.plan, R)
  <2>1. Calm(r, R, moved) \in SUBSET Paths
    BY DEF Calm
  <2> HIDE DEF R
  <2>. QED
    BY <1>1, <1>3, <1>4, <1>6, <2>1, PlanReady
<1>8. GoOn(r, R, file[n], {}) /\ file' = file /\ late' = late
  BY <1>2 DEF Compare
<1>9. file' \in [Nodes -> Listing] /\ late' \subseteq [to : Nodes, path : Paths, file : File] /\ Busy(r)
  BY <1>1, <1>8 DEF IInv, TypeOK, Busy
<1>10. GoOn(r, R, file'[R.node], {}) /\ Ready(R.plan, R, Calm(r, R, moved), file'[R.node], file'[R.peer])
  BY <1>4, <1>7, <1>8
<1> HIDE DEF R
<1>11. IInv' /\ Truthful
  BY <1>4, <1>5, <1>7, <1>8, <1>9, <1>10, GoOnKeeps
<1>. QED
  BY <1>8, <1>11, NothingLost DEF IInv

LEMMA PushedKeeps ==
    ASSUME IInv, NEW r \in Runs, Pushed(r)
    PROVE  IInv' /\ Truthful /\ Surviving
<1> DEFINE R == [run[r] EXCEPT !.now = {}]
<1>1. run[r] \in RunRec /\ run[r].pc = "written" /\ Orderly(run[r])
  BY DEF IInv, TypeOK, Pushed, AllOrderly
<1>2. R.plan = run[r].plan /\ R.conflicts = run[r].conflicts /\ R.failed = run[r].failed
      /\ R.node = run[r].node /\ R.peer = run[r].peer /\ R.unseen = run[r].unseen /\ R \in RunRec
  BY <1>1 DEF RunRec
<1>3. Tidy(R.plan, R)
  BY <1>1, <1>2 DEF Orderly, Tidy
<1>4. Ready(R.plan, R, Calm(r, R, moved), file[R.node], file[R.peer])
  <2>1. Calm(r, R, moved) = Calm(r, run[r], moved)
    BY <1>2 DEF Calm
  <2>2. Ready(run[r].plan, run[r], Calm(r, run[r], moved), file[run[r].node], file[run[r].peer])
    BY <1>1 DEF IInv, AllSound, SoundRun, Waiting, Sound
  <2>. QED
    BY <1>2, <2>1, <2>2 DEF Ready
<1>5. GoOn(r, R, file[R.node], {}) /\ file' = file /\ late' = late
  BY <1>2 DEF Pushed
<1>6. file' \in [Nodes -> Listing] /\ late' \subseteq [to : Nodes, path : Paths, file : File] /\ Busy(r)
  BY <1>1, <1>5 DEF IInv, TypeOK, Busy
<1>7. GoOn(r, R, file'[R.node], {}) /\ Ready(R.plan, R, Calm(r, R, moved), file'[R.node], file'[R.peer])
  BY <1>4, <1>5
<1> HIDE DEF R
<1>8. IInv' /\ Truthful
  BY <1>2, <1>3, <1>5, <1>6, <1>7, GoOnKeeps
<1>. QED
  BY <1>5, <1>8, NothingLost DEF IInv

LEMMA FailKeeps ==
    ASSUME IInv, NEW r \in Runs, Fail(r)
    PROVE  IInv' /\ Truthful /\ Surviving
<1> DEFINE R == Failed(run[r])
<1>1. run[r] \in RunRec /\ Busy(r) /\ Orderly(run[r])
  BY DEF IInv, TypeOK, Fail, AllOrderly
<1>2. R.plan = run[r].plan /\ R.conflicts = run[r].conflicts /\ R.failed = TRUE
      /\ R.node = run[r].node /\ R.peer = run[r].peer /\ R.unseen = run[r].unseen /\ R \in RunRec
  BY <1>1, FileTypes DEF RunRec, Failed
<1>3. Tidy(R.plan, R)
  BY <1>1, <1>2 DEF Orderly, Tidy
<1>4. Ready(R.plan, R, Calm(r, R, moved), file[R.node], file[R.peer])
  <2>1. SoundRun(r)
    BY DEF IInv, AllSound
  <2>2. CASE run[r].pc \notin Transferring
    <3>1. R.plan = {}
      BY <1>1, <1>2, <2>2 DEF Orderly
    <3>. QED
      BY <1>2, <3>1 DEF Ready
  <2>3. CASE run[r].pc \in Transferring
    <3>1. Calm(r, R, moved) = Calm(r, run[r], moved)
      BY <1>2 DEF Calm
    <3>2. Sound(run[r], Calm(r, run[r], moved), file[R.node], file[R.peer])
      BY <1>2, <2>1, <2>3 DEF SoundRun, Waiting, Transferring
    <3>. QED
      BY <1>2, <2>3, <3>1, <3>2 DEF Sound, Ready, Transferring, InTransit
  <2>. QED
    BY <2>2, <2>3
<1>5. GoOn(r, R, file[R.node], {}) /\ file' = file
  BY <1>2 DEF Fail
<1>6. late' \subseteq [to : Nodes, path : Paths, file : File]
  <2>1. CASE UNCHANGED late
    BY <2>1 DEF IInv, TypeOK
  <2>2. CASE \E t \in run[r].now : late' = late \union {[to |-> run[r].peer, path |-> t.path, file |-> run[r].file]}
    <3>1. PICK t \in run[r].now : late' = late \union {[to |-> run[r].peer, path |-> t.path, file |-> run[r].file]}
      BY <2>2
    <3>2. run[r].peer \in Nodes /\ t.path \in Paths /\ run[r].file \in File
      BY <1>1 DEF IInv, TypeOK, RunRec, Transfer
    <3>. QED
      BY <3>1, <3>2 DEF IInv, TypeOK
  <2>. QED
    BY <2>1, <2>2 DEF Fail
<1>7. file' \in [Nodes -> Listing]
  BY <1>5 DEF IInv, TypeOK
<1>8. GoOn(r, R, file'[R.node], {}) /\ Ready(R.plan, R, Calm(r, R, moved), file'[R.node], file'[R.peer])
  BY <1>4, <1>5
<1> HIDE DEF R
<1>. QED
  BY <1>1, <1>2, <1>3, <1>5, <1>6, <1>7, <1>8, GoOnKeeps, NothingLost DEF IInv

LEMMA PulledKeeps ==
    ASSUME IInv, NEW r \in Runs, Pulled(r)
    PROVE  IInv' /\ Truthful /\ Surviving
<1> DEFINE n == run[r].node
           q == run[r].peer
           f == run[r].file
           S == Calm(r, run[r], moved)
           R == [run[r] EXCEPT !.failed = @ \/ f = NoFile, !.now = {}, !.file = NoFile]
<1>1. run[r] \in RunRec /\ run[r].pc = "read" /\ Orderly(run[r]) /\ n \in Nodes /\ q \in Nodes
      /\ f \in File /\ file[n] \in Listing /\ file \in [Nodes -> Listing]
  BY DEF IInv, TypeOK, Pulled, AllOrderly, Busy, RunRec
<1> DEFINE here(t) == IF f = NoFile THEN file[n] ELSE [file[n] EXCEPT ![t.path] = f]
           others(t) == IF f = NoFile THEN {} ELSE Moves(n, t.path, {r})
<1>2. PICK t \in run[r].now : file' = [file EXCEPT ![n] = here(t)] /\ GoOn(r, R, here(t), others(t))
  BY DEF Pulled, Stored
<1>3. t \in Transfer /\ t.path \in Paths /\ ~t.push /\ run[r].now = {t} /\ t \notin run[r].plan
      /\ run[r].plan \subseteq Transfer
  BY <1>1 DEF RunRec, Transfer, Orderly
<1>4. here(t) \in Listing
  BY <1>1, <1>3 DEF Listing
<1>5. file' \in [Nodes -> Listing] /\ file'[n] = here(t) /\ \A m \in Nodes \ {n} : file'[m] = file[m]
  BY <1>1, <1>2, <1>4
<1>6. R.plan = run[r].plan /\ R.conflicts = run[r].conflicts /\ R.failed = (run[r].failed \/ f = NoFile)
      /\ R.node = n /\ R.peer = q /\ R.unseen = run[r].unseen
  BY <1>1 DEF RunRec
<1>7. R \in RunRec
  <2>1. (run[r].failed \/ f = NoFile) \in BOOLEAN
    OBVIOUS
  <2>. QED
    BY <1>1, <2>1, FileTypes DEF RunRec
<1>8. Tidy(R.plan, R) /\ Tidy(run[r].plan \union {t}, run[r])
  BY <1>1, <1>3, <1>6 DEF Orderly, Tidy
<1>9. /\ \A m \in Nodes, p \in Paths : file'[m][p] # file[m][p] => f # NoFile /\ m = n /\ p = t.path
      /\ f # NoFile => file'[n][t.path] = f
  BY <1>1, <1>3, <1>5 DEF Listing
<1>10. Ready(run[r].plan \union {t}, run[r], S, file[n], file[q]) /\ (t.path \in S => f = file[q][t.path])
  BY <1>1, <1>3 DEF IInv, AllSound, SoundRun, Waiting, Sound, InTransit
<1>11. t.path \in S => Newer(f, file[n][t.path])
  BY <1>3, <1>10 DEF Ready, Due
<1>12. Ready(R.plan, R, S, file'[n], file'[q])
  <2>1. CASE f = NoFile
    <3>1. file' = file
      BY <1>1, <1>2, <2>1
    <3>. QED
      BY <1>6, <1>10, <2>1, <3>1 DEF Ready
  <2>2. CASE f # NoFile
    <3>1. \A p \in Paths \ {t.path} : file'[n][p] = file[n][p] /\ file'[q][p] = file[q][p]
      BY <1>1, <1>9
    <3>2. t.path \in S => file'[n][t.path].val = file'[q][t.path].val
      BY <1>1, <1>5, <1>9, <1>10, <2>2
    <3>3. run[r].plan \in SUBSET Transfer /\ t \in Transfer \ run[r].plan /\ S \in SUBSET Paths
      BY <1>3 DEF Calm
    <3>4. Ready(run[r].plan, run[r], S, file'[n], file'[q])
      <4> HIDE DEF S
      <4>. QED
        BY <1>8, <1>10, <3>1, <3>2, <3>3, Settled
    <3>. QED
      BY <1>6, <2>2, <3>4 DEF Ready
  <2>. QED
    BY <2>1, <2>2
<1>13. late' = late /\ late' \subseteq [to : Nodes, path : Paths, file : File] /\ Busy(r)
  BY <1>1 DEF Pulled, IInv, TypeOK, Busy
<1>14. GoOn(r, R, file'[R.node], others(t)) /\ others(t) \in SUBSET ((Runs \ {r}) \X Paths)
  BY <1>2, <1>3, <1>5, <1>6 DEF Moves
<1>15. \A m \in Nodes, p \in Paths : file'[m][p] # file[m][p] => Moves(m, p, {r}) \subseteq others(t)
  BY <1>9
<1>16. Ready(R.plan, R, Calm(r, R, moved), file'[R.node], file'[R.peer])
  <2>1. Calm(r, R, moved) = S
    BY <1>6 DEF Calm
  <2>. QED
    BY <1>6, <1>12, <2>1
<1>17. IInv' /\ Truthful /\ run'[r].pc # "read"
  <2> HIDE DEF R, others, here
  <2>. QED
    BY <1>5, <1>6, <1>7, <1>8, <1>13, <1>14, <1>15, <1>16, GoOnKeeps
<1>18. Surviving
  <2>1. CASE f = NoFile
    BY <1>1, <1>2, <2>1, NothingLost DEF IInv
  <2>2. CASE f # NoFile
    <3>1. file' = [file EXCEPT ![n] = [file[n] EXCEPT ![t.path] = f]]
      BY <1>2, <2>2
    <3>2. Newer(f, file[n][t.path]) \/ Blind(t.path) \/ Raced(t.path)
      BY <1>1, <1>3, <1>11, <1>17 DEF Calm, Blind, Raced
    <3>. QED
      BY <1>1, <1>3, <3>1, <3>2, OlderReplaced DEF IInv
  <2>. QED
    BY <2>1, <2>2
<1>. QED
  BY <1>17, <1>18

LEMMA WriteKeeps ==
    ASSUME IInv, NEW r \in Runs, Write(r)
    PROVE  IInv' /\ Truthful /\ Surviving
<1> DEFINE n == run[r].node
           q == run[r].peer
           f == run[r].file
           S == Calm(r, run[r], moved)
           X == [run[r] EXCEPT !.pc = "written", !.file = NoFile]
<1>1. run[r] \in RunRec /\ run[r].pc = "pushing" /\ Orderly(run[r]) /\ n \in Nodes /\ q \in Nodes
      /\ f \in File /\ file[q] \in Listing /\ file \in [Nodes -> Listing]
  BY DEF IInv, TypeOK, Write, AllOrderly, Busy, RunRec
<1>2. PICK t \in run[r].now :
         file' = [file EXCEPT ![q][t.path] = f] /\ moved' = moved \union Moves(q, t.path, {r})
  BY DEF Write
<1>3. t \in Transfer /\ t.path \in Paths /\ t.push /\ run[r].now = {t} /\ t \notin run[r].plan
      /\ run[r].plan \subseteq Transfer
  BY <1>1 DEF RunRec, Transfer, Orderly
<1>4. file' = [file EXCEPT ![q] = [file[q] EXCEPT ![t.path] = f]]
  BY <1>1, <1>2
<1>5. [file[q] EXCEPT ![t.path] = f] \in Listing
  BY <1>1, <1>3 DEF Listing
<1>6. file' \in [Nodes -> Listing] /\ \A m \in Nodes \ {q} : file'[m] = file[m]
  BY <1>1, <1>4, <1>5
<1>7. X \in RunRec /\ X.pc = "written" /\ X.plan = run[r].plan /\ X.now = run[r].now /\ X.node = n /\ X.peer = q
      /\ X.failed = run[r].failed /\ X.conflicts = run[r].conflicts /\ X.unseen = run[r].unseen
  BY <1>1, FileTypes DEF RunRec, Transferring
<1>8. run' = [run EXCEPT ![r] = X] /\ late' = late /\ NoReportMade
  BY DEF Write, NoReportMade, IInv, TypeOK
<1>9. run' \in [Runs -> RunRec] /\ run'[r] = X /\ \A s \in Runs \ {r} : run'[s] = run[s]
  BY <1>7, <1>8 DEF IInv, TypeOK
<1>10. Orderly(X)
  BY <1>1, <1>7 DEF Orderly, Tidy, Transferring
<1>11. /\ \A m \in Nodes, p \in Paths : file'[m][p] # file[m][p] => m = q /\ p = t.path
       /\ file'[q][t.path] = f
  BY <1>1, <1>3, <1>4 DEF Listing
<1>12. Ready(run[r].plan \union {t}, run[r], S, file[n], file[q]) /\ (t.path \in S => f = file[n][t.path])
  BY <1>1, <1>3 DEF IInv, AllSound, SoundRun, Waiting, Sound, InTransit
<1>13. t.path \in S => Newer(f, file[q][t.path])
  BY <1>3, <1>12 DEF Ready, Due
<1>14. Sound(X, S, file'[n], file'[q])
  <2>1. \A p \in Paths \ {t.path} : file'[n][p] = file[n][p] /\ file'[q][p] = file[q][p]
    BY <1>1, <1>11
  <2>2. t.path \in S => file'[n][t.path].val = file'[q][t.path].val
    BY <1>1, <1>6, <1>11, <1>12
  <2>3. run[r].plan \in SUBSET Transfer /\ t \in Transfer \ run[r].plan /\ S \in SUBSET Paths
    BY <1>3 DEF Calm
  <2>4. Tidy(run[r].plan \union {t}, run[r])
    BY <1>1, <1>3 DEF Orderly
  <2>5. Ready(run[r].plan, run[r], S, file'[n], file'[q])
    <3> HIDE DEF S
    <3>. QED
      BY <1>12, <2>1, <2>2, <2>3, <2>4, Settled
  <2> HIDE DEF X
  <2>. QED
    BY <1>7, <2>5 DEF Sound, Ready, InTransit
<1>15. Truthful /\ report' \in Reports
  BY <1>8, SilentStep
<1>16. TypeOK'
  <2>1. moved' \subseteq Runs \X Paths
    BY <1>2, <1>3 DEF IInv, TypeOK, Moves
  <2>2. \A s \in Runs : /\ run'[s].pc # "idle" => run'[s].node \in Nodes /\ run'[s].peer \in Nodes
                        /\ run'[s].pc = "listed" => run'[s].list \in Listing
                        /\ run'[s].now # {} <=> run'[s].pc \in Transferring
    <3> HIDE DEF X
    <3>. QED
      BY <1>1, <1>3, <1>7, <1>9 DEF IInv, TypeOK, Busy, Transferring
  <2>. QED
    BY <1>6, <1>8, <1>9, <1>15, <2>1, <2>2 DEF IInv, TypeOK, Busy
<1>17. AllOrderly'
  BY <1>9, <1>10 DEF IInv, AllOrderly
<1>18. AllSound'
  <2>1. \A m \in Nodes, p \in Paths : file'[m][p] # file[m][p] => Moves(m, p, {r}) \subseteq moved'
    BY <1>2, <1>11
  <2>2. \A s \in Runs \ {r} : SoundRun(s)'
    BY <1>2, <1>9, <2>1, Bystanders
  <2>3. Calm(r, X, moved') \subseteq S
    BY <1>2, <1>7 DEF Calm
  <2>4. Sound(X, Calm(r, X, moved'), file'[n], file'[q])
    <3> HIDE DEF X, S
    <3>. QED
      BY <1>14, <2>3, Bystander
  <2>5. SoundRun(r)'
    BY <1>7, <1>9, <2>4 DEF SoundRun, Calm
  <2>. QED
    BY <2>2, <2>5 DEF AllSound
<1>19. Surviving
  <2>1. Newer(f, file[q][t.path]) \/ Blind(t.path) \/ Raced(t.path)
    BY <1>1, <1>3, <1>7, <1>9, <1>13 DEF Calm, Blind, Raced
  <2>. QED
    BY <1>1, <1>3, <1>4, <2>1, OlderReplaced DEF IInv
<1>. QED
  BY <1>15, <1>16, <1>17, <1>18, <1>19 DEF IInv

LEMMA ArriveKeeps ==
    ASSUME IInv, Arrive
    PROVE  IInv' /\ Truthful /\ Surviving
<1>1. PICK m \in late :
        /\ late' = late \ {m}
        /\ \/ file' = [file EXCEPT ![m.to][m.path] = m.file] /\ moved' = moved \union Moves(m.to, m.path, {})
           \/ UNCHANGED <<file, moved>>
  BY DEF Arrive
<1>2. run' = run /\ NoReportMade
  BY DEF Arrive, NoReportMade
<1>3. m.to \in Nodes /\ m.path \in Paths /\ m.file \in File
  BY DEF IInv, TypeOK
<1>4. late' # late /\ late' \subseteq [to : Nodes, path : Paths, file : File]
  BY <1>1 DEF IInv, TypeOK
<1>5. file' \in [Nodes -> Listing] /\ (\A k \in Nodes \ {m.to} : file'[k] = file[k]) /\ moved' \subseteq Runs \X Paths
  BY <1>1, <1>3 DEF IInv, TypeOK, Listing, Moves
<1>6. Truthful /\ report' \in Reports
  BY <1>2, SilentStep
<1>7. TypeOK'
  BY <1>2, <1>4, <1>5, <1>6 DEF IInv, TypeOK, Busy
<1>8. AllOrderly'
  BY <1>2 DEF IInv, AllOrderly
<1>9. AllSound'
  <2>1. CASE moved' = moved \union Moves(m.to, m.path, {})
    <3>1. \A k \in Nodes, q \in Paths : file'[k][q] # file[k][q] => k = m.to /\ q = m.path
      BY <1>1, <1>3 DEF IInv, TypeOK, Listing
    <3>2. \A k \in Nodes, q \in Paths : file'[k][q] # file[k][q] => Moves(k, q, {}) \subseteq moved'
      BY <2>1, <3>1
    <3>3. \A r \in Runs \ {} : SoundRun(r)'
      BY <1>2, <2>1, <3>2, Bystanders
    <3>. QED
      BY <3>3 DEF AllSound
  <2>2. CASE UNCHANGED <<file, moved>>
    BY <1>2, <2>2 DEF IInv, AllSound, SoundRun, Calm
  <2>. QED
    BY <1>1, <2>1, <2>2
<1>10. Surviving
  BY <1>4 DEF Surviving, Newest
<1>. QED
  BY <1>6, <1>7, <1>8, <1>9, <1>10 DEF IInv

LEMMA RestartKeeps ==
    ASSUME IInv, NEW n \in Nodes, Restart(n)
    PROVE  IInv' /\ Truthful /\ Surviving
<1>1. file' = file /\ late' = late /\ moved' = {m \in moved : run[m[1]].node # n} /\ NoReportMade
  BY DEF Restart, NoReportMade
<1>2. \A r \in Runs : run'[r] = IF run[r].node = n THEN Idle ELSE run[r]
  BY DEF Restart
<1>3. run' \in [Runs -> RunRec]
  BY IdleType DEF Restart, IInv, TypeOK
<1>4. Truthful /\ report' \in Reports
  BY <1>1, SilentStep
<1>5. Idle.pc = "idle" /\ Idle.now = {} /\ Orderly(Idle) /\ Waiting(Idle)
  BY IdleType DEF Idle, Waiting
<1>6. TypeOK'
  <2>1. \A r \in Runs : /\ run'[r].pc # "idle" => run'[r].node \in Nodes /\ run'[r].peer \in Nodes
                        /\ run'[r].pc = "listed" => run'[r].list \in Listing
                        /\ run'[r].now # {} <=> run'[r].pc \in Transferring
    BY <1>2, <1>5 DEF IInv, TypeOK, Busy, Transferring
  <2>. QED
    BY <1>1, <1>3, <1>4, <2>1 DEF IInv, TypeOK, Busy
<1>7. AllOrderly'
  BY <1>2, <1>5 DEF IInv, AllOrderly
<1>8. AllSound'
  <2> DEFINE own == {r \in Runs : run[r].node = n}
  <2>1. \A r \in own : SoundRun(r)'
    BY <1>2, <1>5 DEF SoundRun
  <2>2. \A r \in Runs \ own, p \in Paths : <<r, p>> \in moved => <<r, p>> \in moved'
    BY <1>1
  <2>3. \A r \in Runs \ own : run'[r] = run[r]
    BY <1>2
  <2>4. \A r \in Runs \ own : SoundRun(r)'
    <3> HIDE DEF own
    <3>. QED
      BY <1>1, <2>2, <2>3, Bystanders DEF own
  <2>. QED
    BY <2>1, <2>4 DEF AllSound
<1>. QED
  BY <1>1, <1>4, <1>6, <1>7, <1>8, NothingLost DEF IInv

------------------------------------------------------------------------------
LEMMA InitHolds == Init => IInv
<1> SUFFICES ASSUME Init
             PROVE  IInv
  OBVIOUS
<1>1. NoFile \in File /\ Idle \in RunRec /\ Idle.pc = "idle" /\ Orderly(Idle) /\ Idle.now = {}
  BY FileTypes, IdleType DEF Idle
<1>2. file \in [Nodes -> Listing] /\ run \in [Runs -> RunRec] /\ \A r \in Runs : run[r] = Idle
  BY <1>1 DEF Init, Listing
<1>3. report \in Reports
  BY DEF Init, NoReport, Reports
<1>4. TypeOK
  BY <1>1, <1>2, <1>3 DEF TypeOK, Busy, Transferring, Init
<1>. QED
  BY <1>1, <1>2, <1>4 DEF IInv, AllOrderly, AllSound, SoundRun, Waiting

LEMMA StepKeeps == IInv /\ [Next]_vars => IInv' /\ [Truthful]_vars /\ [Surviving]_vars
<1> SUFFICES ASSUME IInv, [Next]_vars
             PROVE  IInv' /\ [Truthful]_vars /\ [Surviving]_vars
  OBVIOUS
<1>1. CASE UNCHANGED vars
  BY <1>1 DEF vars, IInv, TypeOK, AllOrderly, AllSound, SoundRun, Calm, Busy
<1>2. CASE Next
  <2>1. CASE \E n \in Nodes : Restart(n)
    BY <2>1, RestartKeeps
  <2>2. CASE \E n \in Nodes : \E p \in Paths : Edit(n, p)
    BY <2>2, EditKeeps
  <2>3. CASE \E n \in Nodes : \E r \in Runs : Start(r, n)
    BY <2>3, StartKeeps
  <2>4. CASE \E r \in Runs : List(r) \/ Compare(r) \/ Read(r)
    BY <2>4, ListKeeps, CompareKeeps, ReadKeeps
  <2>5. CASE \E r \in Runs : Pulled(r) \/ Write(r) \/ Pushed(r) \/ Fail(r)
    BY <2>5, PulledKeeps, WriteKeeps, PushedKeeps, FailKeeps
  <2>6. CASE Arrive
    BY <2>6, ArriveKeeps
  <2>. QED
    BY <1>2, <2>1, <2>2, <2>3, <2>4, <2>5, <2>6 DEF Next
<1>. QED
  BY <1>1, <1>2

\* Type correctness: every record of every run is well formed, through failures, late
\* pushes and restarts.
THEOREM TypeCorrect == Spec => []TypeOK
<1>1. IInv => TypeOK
  BY DEF IInv
<1>. QED
  BY <1>1, InitHolds, StepKeeps, PTL DEF Spec

\* The report of syncPeer() is true of every file that both manifests had and nobody else
\* changed meanwhile: nothing but the conflicts it names is left to sync.
THEOREM ReportsAreTrue == Spec => ReportIsTrue
  BY InitHolds, StepKeeps, PTL DEF Spec, ReportIsTrue

\* "The newer mtime wins", for any number of nodes, peers and overlapping runs: no transfer
\* takes the newest version of a file from all nodes, if both manifests had the file and
\* nobody else changed it since.
THEOREM NewestAlwaysSurvives == Spec => NewestSurvives
  BY InitHolds, StepKeeps, PTL DEF Spec, NewestSurvives

------------------------------------------------------------------------------
\* What every copy of a file is, on disk or on its way.
Stamped == {[val |-> v, mtime |-> StampOf[v]] : v \in Versions} \union {NoFile}
AllStamped ==
    /\ \A n \in Nodes, p \in Paths : file[n][p] \in Stamped
    /\ \A r \in Runs : run[r].file \in Stamped
    /\ \A m \in late : m.file \in Stamped

\* A run that goes on carries a file of its node, or none.
LEMMA GoOnCarries ==
    ASSUME TypeOK, NEW r \in Runs, NEW R \in RunRec, NEW here \in Listing, NEW others, R.node \in Nodes,
           GoOn(r, R, here, others)
    PROVE  /\ \A s \in Runs \ {r} : run'[s].file = run[s].file
           /\ run'[r].file \in {NoFile} \union {here[p] : p \in Paths}
<1>1. run \in [Runs -> RunRec] /\ R.left \in Seq(Nodes)
  BY DEF TypeOK, RunRec
<1>2. CASE \E X \in Sending(R, here) : run' = [run EXCEPT ![r] = X]
  <2>1. PICK X \in Sending(R, here) : run' = [run EXCEPT ![r] = X]
    BY <1>2
  <2>2. PICK t \in R.plan : X.file = NoFile \/ X.file = here[t.path]
    BY SendingShape
  <2>3. t.path \in Paths
    BY DEF RunRec, Transfer
  <2>. QED
    BY <1>1, <2>1, <2>2, <2>3
<1>3. CASE run' = [run EXCEPT ![r] = Asking(R.node, R.left)]
  <2>1. Asking(R.node, R.left).file = NoFile
    BY <1>1, AskingType
  <2>. QED
    BY <1>1, <1>3, <2>1
<1>. QED
  BY <1>2, <1>3 DEF GoOn

LEMMA StampsKept == TypeOK /\ AllStamped /\ [Next]_vars => AllStamped'
<1> SUFFICES ASSUME TypeOK, AllStamped, [Next]_vars
             PROVE  AllStamped'
  OBVIOUS
<1>1. file \in [Nodes -> Listing] /\ run \in [Runs -> RunRec] /\ NoFile \in Stamped
  BY DEF TypeOK, Stamped
<1>2. \A n \in Nodes : file[n] \in Listing
  BY <1>1
<1>3. ASSUME NEW r \in Runs, Busy(r)
      PROVE  run[r].node \in Nodes /\ run[r].peer \in Nodes
  BY <1>3 DEF TypeOK
<1>4. ASSUME NEW n \in Nodes, NEW p \in Paths, NEW f \in Stamped, file' = [file EXCEPT ![n][p] = f]
      PROVE  \A m \in Nodes, q \in Paths : file'[m][q] \in Stamped
  BY <1>1, <1>4 DEF AllStamped, Listing
\* A run goes on with a node whose files are stamped.
<1>5. ASSUME NEW r \in Runs, NEW R \in RunRec, NEW here \in Listing, NEW others, R.node \in Nodes,
             GoOn(r, R, here, others), \A p \in Paths : here[p] \in Stamped
      PROVE  \A s \in Runs : run'[s].file \in Stamped
  BY <1>1, <1>5, GoOnCarries DEF AllStamped
<1>6. CASE UNCHANGED vars
  BY <1>6 DEF vars, AllStamped
<1>7. ASSUME NEW n \in Nodes, Restart(n)
      PROVE  AllStamped'
  <2>1. \A s \in Runs : run'[s].file \in Stamped
    BY <1>1, <1>7 DEF Restart, Idle, AllStamped
  <2>. QED
    BY <1>7, <2>1 DEF Restart, AllStamped
<1>8. ASSUME NEW n \in Nodes, NEW p \in Paths, Edit(n, p)
      PROVE  AllStamped'
  <2>1. PICK v \in Versions \union {NoVersion} :
           file' = [file EXCEPT ![n][p] = IF v = NoVersion THEN NoFile ELSE [val |-> v, mtime |-> StampOf[v]]]
    BY <1>8 DEF Edit
  <2>2. (IF v = NoVersion THEN NoFile ELSE [val |-> v, mtime |-> StampOf[v]]) \in Stamped
    BY DEF Stamped
  <2>3. \A m \in Nodes, q \in Paths : file'[m][q] \in Stamped
    BY <1>4, <2>1, <2>2
  <2>. QED
    BY <1>8, <2>3 DEF Edit, AllStamped
<1>9. ASSUME NEW r \in Runs, NEW n \in Nodes, Start(r, n)
      PROVE  AllStamped'
  <2>1. Asking(n, PeersOf[n]).file = NoFile /\ PeersOf[n] \in Seq(Nodes)
    BY SyncConstants, AskingType
  <2>2. \A s \in Runs : run'[s].file \in Stamped
    BY <1>1, <1>9, <2>1 DEF Start, AllStamped
  <2>. QED
    BY <1>9, <2>2 DEF Start, AllStamped
<1>10. ASSUME NEW r \in Runs, List(r)
       PROVE  AllStamped'
  <2>1. \A s \in Runs : run'[s].file = run[s].file
    BY <1>1, <1>10 DEF List, RunRec
  <2>. QED
    BY <1>10, <2>1 DEF List, AllStamped
<1>11. ASSUME NEW r \in Runs, Compare(r)
       PROVE  AllStamped'
  <2> DEFINE n == run[r].node
             Rec(mine) == [run[r] EXCEPT !.list = <<>>, !.plan = PlanFor(mine, run[r].list),
                                         !.conflicts = {p \in Paths : Conflict(mine[p], run[r].list[p])},
                                         !.unseen = @ \union Hidden(n, mine)]
  <2>1. run[r] \in RunRec /\ n \in Nodes /\ file[n] \in Listing
    BY <1>1, <1>2, <1>3, <1>11 DEF Compare, Busy
  <2>2. PICK mine \in Manifests(r, n) : GoOn(r, Rec(mine), file[n], {})
    BY <1>11 DEF Compare
  <2>3. PlanFor(mine, run[r].list) \subseteq Transfer /\ run[r].unseen \union Hidden(n, mine) \subseteq Paths
    BY <2>1 DEF PlanFor, Hidden, RunRec
  <2>4. Rec(mine) \in RunRec /\ Rec(mine).node = n
    BY <2>1, <2>3 DEF RunRec
  <2>5. \A p \in Paths : file[n][p] \in Stamped
    BY <2>1 DEF AllStamped
  <2>6. \A s \in Runs : run'[s].file \in Stamped
    <3> HIDE DEF Rec
    <3>. QED
      BY <1>5, <2>1, <2>2, <2>4, <2>5
  <2>. QED
    BY <1>11, <2>6 DEF Compare, AllStamped
<1>12. ASSUME NEW r \in Runs, Read(r)
       PROVE  AllStamped'
  <2>1. PICK t \in run[r].now : run' = [run EXCEPT ![r].pc = "read", ![r].file = file[run[r].peer][t.path]]
    BY <1>12 DEF Read
  <2>2. run[r] \in RunRec /\ run[r].peer \in Nodes /\ t.path \in Paths
    BY <1>1, <1>3, <1>12 DEF Read, Busy, RunRec, Transfer
  <2>3. run'[r].file = file[run[r].peer][t.path] /\ \A s \in Runs \ {r} : run'[s] = run[s]
    BY <1>1, <2>1, <2>2 DEF RunRec
  <2>4. \A s \in Runs : run'[s].file \in Stamped
    BY <2>2, <2>3 DEF AllStamped
  <2>. QED
    BY <1>12, <2>4 DEF Read, AllStamped
<1>13. ASSUME NEW r \in Runs, Pulled(r)
       PROVE  AllStamped'
  <2> DEFINE n == run[r].node
             f == run[r].file
             R == [run[r] EXCEPT !.failed = @ \/ f = NoFile, !.now = {}, !.file = NoFile]
             here(t) == IF f = NoFile THEN file[n] ELSE [file[n] EXCEPT ![t.path] = f]
             others(t) == IF f = NoFile THEN {} ELSE Moves(n, t.path, {r})
  <2>1. PICK t \in run[r].now : file' = [file EXCEPT ![n] = here(t)] /\ GoOn(r, R, here(t), others(t))
    BY <1>13 DEF Pulled, Stored
  <2>2. run[r] \in RunRec /\ n \in Nodes /\ t.path \in Paths /\ f \in File /\ f \in Stamped
    BY <1>1, <1>3, <1>13 DEF Pulled, Busy, RunRec, Transfer, AllStamped
  <2>3. here(t) \in Listing /\ \A p \in Paths : here(t)[p] \in Stamped
    BY <1>2, <2>2 DEF Listing, AllStamped
  <2>4. R.node = n
    BY <2>2 DEF RunRec
  <2>5. R \in RunRec
    <3>1. (run[r].failed \/ f = NoFile) \in BOOLEAN
      OBVIOUS
    <3>. QED
      BY <2>2, <3>1, FileTypes DEF RunRec
  <2>6. \A s \in Runs : run'[s].file \in Stamped
    <3> HIDE DEF R, here, others
    <3>. QED
      BY <1>5, <2>1, <2>2, <2>3, <2>4, <2>5
  <2>7. \A m \in Nodes, p \in Paths : file'[m][p] \in Stamped
    BY <1>1, <2>1, <2>2, <2>3 DEF AllStamped
  <2>. QED
    BY <1>13, <2>6, <2>7 DEF Pulled, AllStamped
<1>14. ASSUME NEW r \in Runs, Write(r)
       PROVE  AllStamped'
  <2>1. PICK t \in run[r].now : file' = [file EXCEPT ![run[r].peer][t.path] = run[r].file]
    BY <1>14 DEF Write
  <2>2. run[r].peer \in Nodes /\ t.path \in Paths /\ run[r].file \in Stamped
    BY <1>1, <1>3, <1>14 DEF Write, Busy, RunRec, Transfer, AllStamped
  <2>3. \A s \in Runs : run'[s].file \in {run[s].file, NoFile}
    BY <1>1, <1>14 DEF Write, RunRec
  <2>4. \A m \in Nodes, q \in Paths : file'[m][q] \in Stamped
    BY <1>4, <2>1, <2>2
  <2>. QED
    BY <1>1, <1>14, <2>3, <2>4 DEF Write, AllStamped
<1>15. ASSUME NEW r \in Runs, Pushed(r)
       PROVE  AllStamped'
  <2> DEFINE R == [run[r] EXCEPT !.now = {}]
             here == file[run[r].node]
  <2>1. run[r] \in RunRec /\ run[r].node \in Nodes /\ here \in Listing /\ \A p \in Paths : here[p] \in Stamped
    BY <1>1, <1>2, <1>3, <1>15 DEF Pushed, Busy, AllStamped
  <2>2. R \in RunRec /\ R.node = run[r].node
    BY <2>1, FileTypes DEF RunRec
  <2>3. GoOn(r, R, here, {})
    BY <1>15 DEF Pushed
  <2>4. \A s \in Runs : run'[s].file \in Stamped
    <3> HIDE DEF R, here
    <3>. QED
      BY <1>5, <2>1, <2>2, <2>3
  <2>. QED
    BY <1>15, <2>4 DEF Pushed, AllStamped
<1>16. ASSUME NEW r \in Runs, Fail(r)
       PROVE  AllStamped'
  <2> DEFINE R == Failed(run[r])
             here == file[run[r].node]
  <2>1. run[r] \in RunRec /\ run[r].node \in Nodes /\ here \in Listing /\ \A p \in Paths : here[p] \in Stamped
    BY <1>1, <1>2, <1>3, <1>16 DEF Fail, AllStamped
  <2>2. R \in RunRec /\ R.node = run[r].node
    BY <2>1, FileTypes DEF RunRec, Failed
  <2>3. GoOn(r, R, here, {})
    BY <1>16 DEF Fail
  <2>4. \A s \in Runs : run'[s].file \in Stamped
    <3> HIDE DEF R, here
    <3>. QED
      BY <1>5, <2>1, <2>2, <2>3
  <2>5. \A m \in late' : m.file \in Stamped
    BY <1>16 DEF Fail, AllStamped
  <2>. QED
    BY <1>16, <2>4, <2>5 DEF Fail, AllStamped
<1>17. CASE Arrive
  <2>1. PICK m \in late :
        /\ late' = late \ {m}
        /\ \/ file' = [file EXCEPT ![m.to][m.path] = m.file]
           \/ UNCHANGED file
    BY <1>17 DEF Arrive
  <2>2. m.to \in Nodes /\ m.path \in Paths /\ m.file \in Stamped
    BY DEF TypeOK, AllStamped
  <2>3. \A k \in Nodes, q \in Paths : file'[k][q] \in Stamped
    BY <1>4, <2>1, <2>2 DEF AllStamped
  <2>. QED
    BY <1>17, <2>1, <2>3 DEF Arrive, AllStamped
<1>18. CASE Next
  BY <1>7, <1>8, <1>9, <1>10, <1>11, <1>12, <1>13, <1>14, <1>15, <1>16, <1>17, <1>18 DEF Next
<1>. QED
  BY <1>6, <1>18

\* "A pulled file is stamped with the SOURCE mtime": on every node a version has the time
\* of its own writing, whichever runs, retries and late pushes brought it there.
THEOREM TimesTravel == Spec => []MtimeTravels
<1>1. Init => AllStamped
  BY DEF Init, AllStamped, Stamped, Idle
<1>2. AllStamped /\ TypeOK => MtimeTravels
  BY SyncConstants DEF AllStamped, Stamped, MtimeTravels, NoFile
<1>. QED
  BY <1>1, <1>2, TypeCorrect, StampsKept, PTL DEF Spec
=============================================================================
