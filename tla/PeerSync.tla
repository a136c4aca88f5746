------------------------------- MODULE PeerSync -------------------------------
(***************************************************************************)
(* Node-to-node file sync (server/sync.ts with the rules of shared/sync.ts *)
(* and the routes of server/index.ts): runSync() asks each peer in turn    *)
(* for its manifest, compares it with its own, pulls what the peer has     *)
(* newer and pushes what it has newer itself.                              *)
(*                                                                         *)
(* The nodes are processes of their own: while a run awaits a request, the *)
(* hubs of both nodes go on writing their files, other runs of either node *)
(* go on, and a push that timed out may still be on its way.  A manifest   *)
(* leaves out the files it cannot read and those over the transfer cap: to *)
(* the comparison they are absent.  Everything here is about the files of  *)
(* one ticked area.  A version is one write of a file by a hub: its bytes, *)
(* and the time of a clock that need not agree with any other node's.      *)
(***************************************************************************)
EXTENDS Integers, Sequences, FiniteSets

CONSTANTS
    Nodes, NoNode,
    Writers,     \* nodes whose hubs write files; the others only keep copies
    Paths,
    Versions, NoVersion,
    StampOf,     \* when each version was written, by the clock of its node
    PeersOf,     \* the enabled peers of each node, in the order of its settings
    Tolerance,   \* MTIME_TOLERANCE_MS
    Runs,        \* bound: runs under way at once
    MaxLate,     \* bound: pushes on their way whose run has given up on them
    MaxSkips     \* bound: runs under way that miss a file of a manifest

ASSUME SyncConstants ==
    /\ Writers \subseteq Nodes /\ NoNode \notin Nodes \union Runs /\ NoVersion \notin Versions
    /\ StampOf \in [Versions -> Nat \ {0}]
    /\ PeersOf \in [Nodes -> Seq(Nodes)]
    /\ Tolerance \in Nat /\ MaxLate \in Nat /\ MaxSkips \in Nat

\* A file's bytes stand for their hash; its time is kept beside them, as the disk keeps it.
Times   == {StampOf[v] : v \in Versions}
NoFile  == [val |-> NoVersion, mtime |-> 0]
File    == [val : Versions, mtime : Times] \union {NoFile}
Listing == [Paths -> File]

\* One transfer of a plan, with the time of the peer's entry if it is pulled.
Transfer == [path : Paths, push : BOOLEAN, listed : Times \union {0}]

\* PeerSyncReport: the run, whether it reached the peer and no file failed, the conflicts;
\* "unseen" is a ghost, the files that a manifest left out.
NoReport == [run |-> NoNode, clean |-> FALSE, conflicts |-> {}, unseen |-> {}]

Idle == [pc |-> "idle", node |-> NoNode, left |-> <<>>, peer |-> NoNode, list |-> <<>>,
         plan |-> {}, now |-> {}, file |-> NoFile, failed |-> FALSE, conflicts |-> {},
         unseen |-> {}]

VARIABLES
    file,    \* data/ of each node
    run,     \* runSync() calls; "now" holds the transfer under way, "file" what it carries
    late,    \* pushes that were given up on and may still arrive
    report,  \* the report that the last step made, if it made one
    moved    \* ghost: the runs and the files that others changed at one of their ends since the
             \* manifest

vars == <<file, run, late, report, moved>>

Init ==
    /\ file = [n \in Nodes |-> [p \in Paths |-> NoFile]]
    /\ run = [r \in Runs |-> Idle]
    /\ late = {} /\ report = NoReport /\ moved = {}

Busy(r) == run[r].pc # "idle"
Ends(r) == {run[r].node, run[r].peer}

\* The runs other than those of "own" that have node n at an end, for a change of its file p.
Moves(n, p, own) ==
    {r \in Runs \ own : run[r].pc \notin {"idle", "asking"} /\ n \in Ends(r)} \X {p}

\* What run r gets as the manifest of node n: any file may be left out, over the cap or for a
\* read that failed.
Manifests(r, n) ==
    {[p \in Paths |-> IF p \in seen THEN file[n][p] ELSE NoFile] :
       seen \in IF Cardinality({s \in Runs \ {r} : run[s].unseen # {}}) < MaxSkips
               THEN SUBSET Paths ELSE {Paths}}
Hidden(n, list) == {p \in Paths : list[p] # file[n][p]}

-----------------------------------------------------------------------------
\* A hub writes or removes a file.
Edit(n, p) ==
    /\ n \in Writers
    /\ \E v \in Versions \union {NoVersion} :
         /\ v # file[n][p].val
         /\ file' = [file EXCEPT ![n][p] = IF v = NoVersion THEN NoFile
                                            ELSE [val |-> v, mtime |-> StampOf[v]]]
    /\ moved' = moved \union Moves(n, p, {})
    /\ report' = NoReport
    /\ UNCHANGED <<run, late>>

-----------------------------------------------------------------------------
Close(f, g) == f.mtime - g.mtime <= Tolerance /\ g.mtime - f.mtime <= Tolerance

\* Mutant: the tolerance is not applied.
NewerExact(f, g) == f # NoFile /\ f.val # g.val /\ f.mtime > g.mtime

\* Mutant: the older one wins.
OlderWins(f, g) == f # NoFile /\ f.val # g.val /\ (g = NoFile \/ (f.mtime < g.mtime /\ ~Close(f, g)))

\* diffManifests(): f is copied over g.
Newer(f, g) == f # NoFile /\ f.val # g.val /\ (g = NoFile \/ (f.mtime > g.mtime /\ ~Close(f, g)))

Conflict(f, g) == f # NoFile /\ g # NoFile /\ f.val # g.val /\ Close(f, g)

\* The plan for the listings of the two nodes.
PlanFor(mine, theirs) ==
    {t \in Transfer : /\ t.listed = IF t.push THEN 0 ELSE theirs[t.path].mtime
                      /\ IF t.push THEN Newer(mine[t.path], theirs[t.path])
                         ELSE Newer(theirs[t.path], mine[t.path])}

\* The run record R at its next transfer: pulls come before pushes, and a push reads the
\* file when it is sent, from the local listing "mine".
Sending(R, mine) ==
    LET pulls == {t \in R.plan : ~t.push}
        ready == {t \in R.plan : t.push /\ mine[t.path] # NoFile}
    IN IF pulls # {}
       THEN {[R EXCEPT !.pc = "pulling", !.now = {t}, !.plan = @ \ {t}, !.file = NoFile] : t \in pulls}
       ELSE {[R EXCEPT !.pc = "pushing", !.now = {t}, !.plan = @ \ {t}, !.file = mine[t.path]] : t \in ready}

\* A run of node n that goes on with the peers ps.
Asking(n, ps) ==
    IF ps = <<>> THEN Idle
    ELSE [Idle EXCEPT !.pc = "asking", !.node = n, !.peer = Head(ps), !.left = Tail(ps)]

\* Run r, changed to R, sends its next transfer or reports on its peer.  "here" is what its
\* node holds, "others" what this step moved under other runs.
GoOn(r, R, here, others) ==
    \/ /\ \E next \in Sending(R, here) : run' = [run EXCEPT ![r] = next]
       /\ report' = NoReport /\ moved' = moved \union others
    \/ /\ Sending(R, here) = {}
       /\ run' = [run EXCEPT ![r] = Asking(R.node, R.left)]
       /\ report' = [run |-> r, clean |-> ~R.failed /\ R.plan = {}, conflicts |-> R.conflicts,
                     unseen |-> R.unseen]
       /\ moved' = (moved \ ({r} \X Paths)) \union others

-----------------------------------------------------------------------------
\* runSync() up to its first await.
Start(r, n) ==
    /\ ~Busy(r) /\ run' = [run EXCEPT ![r] = Asking(n, PeersOf[n])]
    /\ report' = NoReport
    /\ UNCHANGED <<file, late, moved>>

\* The peer builds its manifest.
List(r) ==
    /\ run[r].pc = "asking"
    /\ \E theirs \in Manifests(r, run[r].peer) :
         run' = [run EXCEPT ![r].pc = "listed", ![r].list = theirs,
                            ![r].unseen = Hidden(run[r].peer, theirs)]
    /\ moved' = moved \ ({r} \X Paths) /\ report' = NoReport
    /\ UNCHANGED <<file, late>>

\* Its answer arrives: the node builds its own, compares, and sends the first transfer.
Compare(r) ==
    /\ run[r].pc = "listed"
    /\ \E mine \in Manifests(r, run[r].node) :
         LET n == run[r].node
             R == [run[r] EXCEPT !.list = <<>>, !.plan = PlanFor(mine, run[r].list),
                                 !.conflicts = {p \in Paths : Conflict(mine[p], run[r].list[p])},
                                 !.unseen = @ \union Hidden(n, mine)]
         IN GoOn(r, R, file[n], {})
    /\ UNCHANGED <<file, late>>

\* The peer reads the file that is pulled, or finds it gone.
Read(r) ==
    /\ run[r].pc = "pulling"
    /\ \E t \in run[r].now :
         run' = [run EXCEPT ![r].pc = "read", ![r].file = file[run[r].peer][t.path]]
    /\ report' = NoReport
    /\ UNCHANGED <<file, late, moved>>

\* Mutant: the file gets the time of the manifest, not the one it came with.
AsListed(t, f) == [val |-> f.val, mtime |-> t.listed]

\* writeSyncFile() with what GET /api/sync/file answered for t.
Stored(t, f) == f

\* Its content arrives and is written, or the answer says "not found".
Pulled(r) ==
    /\ run[r].pc = "read"
    /\ \E t \in run[r].now :
         LET n == run[r].node
             f == run[r].file
             here == IF f = NoFile THEN file[n] ELSE [file[n] EXCEPT ![t.path] = Stored(t, f)]
             R == [run[r] EXCEPT !.failed = @ \/ f = NoFile, !.now = {}, !.file = NoFile]
         IN /\ file' = [file EXCEPT ![n] = here]
            /\ GoOn(r, R, here, IF f = NoFile THEN {} ELSE Moves(n, t.path, {r}))
    /\ UNCHANGED late

\* The peer writes what is pushed to it.
Write(r) ==
    /\ run[r].pc = "pushing"
    /\ \E t \in run[r].now :
         /\ file' = [file EXCEPT ![run[r].peer][t.path] = run[r].file]
         /\ moved' = moved \union Moves(run[r].peer, t.path, {r})
    /\ run' = [run EXCEPT ![r].pc = "written", ![r].file = NoFile]
    /\ report' = NoReport
    /\ UNCHANGED late

\* Its answer arrives.
Pushed(r) ==
    /\ run[r].pc = "written"
    /\ GoOn(r, [run[r] EXCEPT !.now = {}], file[run[r].node], {})
    /\ UNCHANGED <<file, late>>

\* The record of a run whose transfer failed.
Failed(R) == [R EXCEPT !.failed = TRUE, !.now = {}, !.file = NoFile]

\* A request fails or times out, whether or not the peer got it.
Fail(r) ==
    /\ Busy(r)
    /\ GoOn(r, Failed(run[r]), file[run[r].node], {})
    /\ \/ UNCHANGED late
       \/ /\ run[r].pc = "pushing" /\ Cardinality(late) < MaxLate
          /\ \E t \in run[r].now :
               late' = late \union {[to |-> run[r].peer, path |-> t.path, file |-> run[r].file]}
    /\ UNCHANGED file

\* A push that was given up on arrives, or is lost after all.
Arrive ==
    \E m \in late :
        /\ late' = late \ {m}
        /\ \/ file' = [file EXCEPT ![m.to][m.path] = m.file] /\ moved' = moved \union Moves(m.to, m.path, {})
           \/ UNCHANGED <<file, moved>>
    /\ report' = NoReport
    /\ UNCHANGED run

\* The process of n ends with its runs.
Restart(n) ==
    /\ \E r \in Runs : run[r].node = n
    /\ run' = [r \in Runs |-> IF run[r].node = n THEN Idle ELSE run[r]]
    /\ moved' = {m \in moved : run[m[1]].node # n} /\ report' = NoReport
    /\ UNCHANGED <<file, late>>

-----------------------------------------------------------------------------
Next ==
    \/ \E n \in Nodes : Restart(n) \/ (\E p \in Paths : Edit(n, p)) \/ \E r \in Runs : Start(r, n)
    \/ \E r \in Runs : List(r) \/ Compare(r) \/ Read(r) \/ Pulled(r) \/ Write(r) \/ Pushed(r) \/ Fail(r)
    \/ Arrive

Spec == Init /\ [][Next]_vars

-----------------------------------------------------------------------------
\* Every variable has its type, a run that is under way has two ends, and it has a transfer
\* under way exactly while it awaits one.
Transferring == {"pulling", "read", "pushing", "written"}
RunRec == [pc : {"idle", "asking", "listed"} \union Transferring,
           node : Nodes \union {NoNode}, left : Seq(Nodes), peer : Nodes \union {NoNode},
           list : Listing \union {<<>>}, plan : SUBSET Transfer, now : SUBSET Transfer,
           file : File, failed : BOOLEAN, conflicts : SUBSET Paths, unseen : SUBSET Paths]
Reports == [run : Runs \union {NoNode}, clean : BOOLEAN, conflicts : SUBSET Paths, unseen : SUBSET Paths]
TypeOK ==
    /\ file \in [Nodes -> Listing] /\ moved \subseteq Runs \X Paths
    /\ late \subseteq [to : Nodes, path : Paths, file : File]
    /\ report \in Reports
    /\ run \in [Runs -> RunRec]
    /\ \A r \in Runs :
         /\ Busy(r) => run[r].node \in Nodes /\ run[r].peer \in Nodes
         /\ run[r].pc = "listed" => run[r].list \in Listing
         /\ run[r].now # {} <=> run[r].pc \in Transferring

\* "A pulled file is stamped with the SOURCE mtime": whatever moved it, between how many
\* nodes, a file has its version's bytes and that version's time.
MtimeTravels ==
    \A n \in Nodes, p \in Paths : file[n][p] # NoFile => file[n][p].mtime = StampOf[file[n][p].val]

\* What the report of a peer says is what the two nodes hold: if nothing failed, they hold
\* the same files but for the conflicts it names, those aside that a manifest left out and
\* those that somebody else changed at one of the two ends meanwhile.
Truthful ==
    report'.clean =>
        LET R == run[report'.run] IN
        \A p \in Paths \ report'.unseen :
            <<report'.run, p>> \notin moved =>
                (file'[R.node][p].val # file'[R.peer][p].val <=> p \in report'.conflicts)
ReportIsTrue == [][Truthful]_vars

\* A transfer of p by a run whose plan was made without having seen p at both ends, and by
\* one under which somebody else changed p at one of its ends since.
Blind(p) == \E r \in Runs : p \in run[r].unseen /\ run'[r] # run[r]
Raced(p) == \E r \in Runs : <<r, p>> \in moved /\ run'[r] # run[r]

\* The newest version of a file is still on some node after the step, unless its own hub
\* replaced it or a push came that its run had given up on.
Newest(p, n) ==
    \/ \E m \in Nodes : file'[m][p].mtime >= file[n][p].mtime
    \/ Edit(n, p) \/ late' # late

\* "The newer mtime wins": no transfer takes the newest version of a file from all nodes,
\* unless a manifest left the file out or somebody else changed that very file meanwhile.
Surviving == \A p \in Paths, n \in Nodes : Newest(p, n) \/ Blind(p) \/ Raced(p)
NewestSurvives == [][Surviving]_vars
=============================================================================
