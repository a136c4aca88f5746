------------------------------ MODULE PlanRunner ------------------------------
(***************************************************************************)
(* The sequential trade plans of AutoPlanner (server/crypto.ts): propose,  *)
(* review, confirm, start, stop, reset, the run() coroutine that walks the *)
(* steps of a plan, the orders it leaves on the exchange, and the crash of *)
(* the process followed by resumePlansIfAny().                             *)
(*                                                                         *)
(* AutoPlanner.plans is keyed by symbol and every entry has its own        *)
(* control state, so this module follows the slot of ONE symbol.  The      *)
(* symbol is not BTCUSD: the ladder's hooks (the ledger of BTC cycles, the *)
(* naked-sell guard of stop()) are in BtcLadder.                           *)
(*                                                                         *)
(* JavaScript runs one callback at a time.  Whatever the code does between *)
(* two awaits is one action here; the program counter of a run names the   *)
(* await it is suspended in.                                               *)
(***************************************************************************)
EXTENDS Integers

CONSTANTS
    NSteps,      \* steps of a plan (a shorter plan is one with denied steps)
    Shapes,      \* the plans a caller may submit: [Step -> StepKind]
    MaxPlans,    \* bound: arrays of AutoStep objects ever built
    MaxEntries,  \* bound: PlanEntry objects one process builds for the symbol
    MaxRuns,     \* bound: run() coroutines one process spawns
    MaxOrders,   \* bound: orders ever sent to the exchange
    MaxPolls,    \* polls of an order before its time-stop is due
    MaxCrashes   \* bound: crashes of the process

Step    == 1..NSteps
Plans   == 1..MaxPlans
Entries == 1..MaxEntries
Runs    == 1..MaxRuns
Orders  == 1..MaxOrders

StepKind == [side : {"buy", "sell"}, type : {"limit", "market"}]

ASSUME ConstantsAssumption ==
    /\ NSteps \in Nat /\ MaxPlans \in Nat /\ MaxEntries \in Nat /\ MaxRuns \in Nat
    /\ MaxOrders \in Nat /\ MaxPolls \in Nat /\ MaxCrashes \in Nat
    /\ NSteps >= 1 /\ MaxEntries >= 1
    /\ Shapes \subseteq [Step -> StepKind]
    /\ Shapes # {}

(***************************************************************************)
(* "why" is the part of AutoStep.error that says why a step is skipped.    *)
(***************************************************************************)
Status == {"pending", "executing", "monitoring", "filled", "skipped", "failed"}
Why    == {"", "denied", "zero", "timestop", "halt"}

StepRec  == [st : Status, ord : 0..MaxOrders, approved : BOOLEAN, why : Why]
NewStep  == [st |-> "pending", ord |-> 0, approved |-> TRUE, why |-> ""]
Fresh    == [i \in Step |-> NewStep]

EntryRec == [active : BOOLEAN, proposed : BOOLEAN, aborted : BOOLEAN, halt : BOOLEAN,
             cur : 0..MaxRuns, plan : 0..MaxPlans]
NewEntry == [active |-> FALSE, proposed |-> FALSE, aborted |-> FALSE, halt |-> FALSE,
             cur |-> 0, plan |-> 0]

Pc     == {"none", "resolving", "placing", "settling", "polling", "cancelling", "done"}
\* ord is the id placeOrder() will return; from then on it is the step's geminiOrderId.
RunRec == [pc : Pc, ent : 0..MaxEntries, plan : 0..MaxPlans, idx : 0..NSteps,
           polls : 0..MaxPolls, ord : 0..MaxOrders]
NoRun  == [pc |-> "none", ent |-> 0, plan |-> 0, idx |-> 0, polls |-> 0, ord |-> 0]
Working == {"resolving", "placing", "settling", "polling", "cancelling"}

OrderRec == [st : {"none", "sent", "live", "filled", "cancelled", "rejected"},
             got : {"none", "part", "all"}, plan : 0..MaxPlans, idx : 0..NSteps,
             by : 0..MaxPlans, life : 0..MaxCrashes]   \* ghosts: the array it left from, and when
NoOrder  == [st |-> "none", got |-> "none", plan |-> 0, idx |-> 0, by |-> 0, life |-> 0]

DiskRec == [kind : {"none", "proposed", "active"}, plan : 0..MaxPlans, steps : [Step -> StepRec]]
NoPlan  == [kind |-> "none", plan |-> 0, steps |-> Fresh]

VARIABLES
    phase,    \* "booting" until resumePlansIfAny() has run, then "up"
    crashes,
    ent,      \* which PlanEntry object is in AutoPlanner.plans under this symbol
    entry,    \* the PlanEntry objects; superseded ones are still held by old coroutines
    steps,    \* the AutoStep arrays
    shape,    \* side and type of their steps
    origin,   \* the plan a restart's copy of it stands for (a plan is its own origin)
    born,     \* ghost: the life of the process (crashes so far) that built the array
    run,      \* the run() coroutines
    order,    \* what the exchange knows of every order this process sent
    nPlans, nRuns, nOrders,
    disk,     \* data/crypto/active-plans.json, this symbol's key
    owed      \* ghost: what the crashed process had in memory

vars == <<phase, crashes, ent, entry, steps, shape, origin, born, run, order,
          nPlans, nRuns, nOrders, disk, owed>>

Init ==
    /\ phase = "up" /\ crashes = 0
    /\ ent = 1 /\ entry = [e \in Entries |-> NewEntry]
    /\ steps = [p \in Plans |-> Fresh]
    /\ shape = [p \in Plans |-> CHOOSE sh \in Shapes : TRUE]
    /\ origin = [p \in Plans |-> p]
    /\ born = [p \in Plans |-> 0]
    /\ run = [r \in Runs |-> NoRun]
    /\ order = [o \in Orders |-> NoOrder]
    /\ nPlans = 0 /\ nRuns = 0 /\ nOrders = 0
    /\ disk = NoPlan /\ owed = NoPlan

-----------------------------------------------------------------------------
\* persistPlans(): the file holds the symbol's plan while it is staged or active.
Image(E, S) ==
    IF E.active \/ E.proposed
    THEN [kind |-> IF E.active THEN "active" ELSE "proposed", plan |-> E.plan, steps |-> S[E.plan]]
    ELSE NoPlan

NotifyIn(e) == disk' = Image(entry'[e], steps')
Notify == NotifyIn(ent)

StepDone(s) == s.st \in {"filled", "skipped"}

\* executeStep()'s first test: a resting order is re-attached, not placed again.
Resting(s) == s.st = "monitoring" /\ s.ord # 0

\* A run goes on while its entry is not aborted and it is the entry's latest run.
GoUnlessAborted(r, E) == ~E.aborted  \* mutant: the runId test is missing
Go(r, E) == ~E.aborted /\ E.cur = r

\* A failed step halts the plan.
HaltsNever(s) == FALSE               \* mutant: run() goes on after a failure
Halts(s) == s.st = "failed"

Idle(E) == [E EXCEPT !.active = FALSE]

Finished(R) == [R EXCEPT !.pc = "done", !.polls = 0, !.ord = 0]

Record(r, R, E, ss) ==
    /\ run' = [run EXCEPT ![r] = R]
    /\ entry' = [entry EXCEPT ![R.ent] = E]
    /\ steps' = [steps EXCEPT ![R.plan] = ss]

\* A step the loop goes past without executing it: denied in review, or done.
Passes(s) == ~s.approved \/ StepDone(s)

\* The steps the loop went past, those denied being skipped whatever they were.
Passed(ss, from, to) ==
    [k \in Step |-> IF from <= k /\ k < to /\ ~ss[k].approved
                    THEN [ss[k] EXCEPT !.st = "skipped"] ELSE ss[k]]

\* The for-loop of run(), from its head to the first await of the next step it
\* executes or to its end.  R, E and ss are run r, its entry and its steps so far.
Loop(r, R, E, ss, from) ==
    \/ E.aborted /\ Record(r, Finished(R), E, ss)
    \/ ~E.aborted /\ ~Go(r, E) /\ Record(r, Finished(R), Idle(E), ss)
    \/ /\ Go(r, E) /\ \A j \in Step : j >= from => Passes(ss[j])
       /\ Record(r, Finished(R), Idle(E), Passed(ss, from, NSteps + 1))
    \/ \E j \in Step :
         /\ Go(r, E) /\ j >= from /\ ~Passes(ss[j])
         /\ \A k \in Step : (from <= k /\ k < j) => Passes(ss[k])
         /\ \/ /\ Resting(ss[j])
               /\ Record(r, [R EXCEPT !.pc = "polling", !.idx = j, !.polls = 0],
                         E, Passed(ss, from, j))
            \/ /\ ~Resting(ss[j])
               /\ Record(r, [R EXCEPT !.pc = "resolving", !.idx = j, !.polls = 0],
                         E, [Passed(ss, from, j) EXCEPT ![j].st = "executing"])

\* What run() does to the steps after i when waitForFill() set e.haltAfterStep.
SkipAfter(ss, i) ==
    [j \in Step |-> IF j > i THEN [ss[j] EXCEPT !.st = "skipped", !.why = "halt"] ELSE ss[j]]

\* The rest of the loop body once executeStep() returned with steps ss.
AfterStep(r, E, ss) ==
    LET R == run[r]  i == run[r].idx IN
    \/ Halts(ss[i]) /\ Record(r, Finished(R), Idle(E), ss)
    \/ ~Halts(ss[i]) /\ E.halt /\ Record(r, Finished(R), Idle(E), SkipAfter(ss, i))
    \/ ~Halts(ss[i]) /\ ~E.halt /\ Loop(r, R, E, ss, i + 1)

\* executeStep() returns, having left step record s and entry E.
Returns(r, E, s) ==
    AfterStep(r, E, [steps[run[r].plan] EXCEPT ![run[r].idx] = s]) /\ Notify

-----------------------------------------------------------------------------
(***************************************************************************)
(* Calls from the HTTP routes (and from evaluateAutoExecute, which calls   *)
(* confirmProposal).  The server listens while it boots: they come in any  *)
(* phase.                                                                  *)
(***************************************************************************)
StartedTwice(E, p) == [E EXCEPT !.active = TRUE, !.aborted = FALSE, !.halt = FALSE,
                                !.cur = nRuns + 1, !.plan = p]  \* mutant: stays proposed
Started(E, p) == [E EXCEPT !.active = TRUE, !.proposed = FALSE, !.aborted = FALSE,
                           !.halt = FALSE, !.cur = nRuns + 1, !.plan = p]

\* A run spawned for plan p of the current entry, ss being the steps it starts with.
Spawn(p, ss) ==
    /\ nRuns < MaxRuns /\ nRuns' = nRuns + 1
    /\ Loop(nRuns + 1, [NoRun EXCEPT !.ent = ent, !.plan = p], Started(entry[ent], p), ss, 1)

NewPlan(sh, orig) ==
    /\ nPlans < MaxPlans /\ nPlans' = nPlans + 1
    /\ shape' = [shape EXCEPT ![nPlans + 1] = sh]
    /\ origin' = [origin EXCEPT ![nPlans + 1] = orig]
    /\ born' = [born EXCEPT ![nPlans + 1] = crashes]

\* Refused while the slot is active: the refusal only logs.
Propose(sh) ==
    /\ ~entry[ent].active
    /\ NewPlan(sh, nPlans + 1)
    /\ steps' = [steps EXCEPT ![nPlans + 1] = Fresh]
    /\ entry' = [entry EXCEPT ![ent].proposed = TRUE, ![ent].plan = nPlans + 1]
    /\ Notify
    /\ UNCHANGED <<phase, crashes, ent, run, order, nRuns, nOrders, owed>>

\* A run that stop() aborted or a later run replaced; it never goes on to another step.
Stale(r) == entry[run[r].ent].aborted \/ entry[run[r].ent].cur # r

\* patchStep() on the approval of a step (prices and sizes are not modelled).  It asks
\* only that the slot is not active: under a run whose slot a superseded coroutine has
\* released it changes the steps that run is still walking.  (The approvals of a plan
\* that is neither staged nor walked are never read again, and are left alone here.)
PatchStep(i, ok) ==
    LET p == entry[ent].plan IN
    /\ ~entry[ent].active
    /\ \/ entry[ent].proposed
       \/ \E r \in Runs : run[r].pc \in Working /\ run[r].plan = p /\ ~Stale(r)
    /\ steps' = [steps EXCEPT ![p][i].approved = ok]
    /\ UNCHANGED entry
    /\ Notify
    /\ UNCHANGED <<phase, crashes, ent, shape, origin, born, run, order, nPlans, nRuns, nOrders, owed>>

Deny(ss) == [i \in Step |-> IF ss[i].approved THEN ss[i]
                            ELSE [ss[i] EXCEPT !.st = "skipped", !.why = "denied"]]

ConfirmProposal ==
    LET E == entry[ent]
        ss == Deny(steps[E.plan])
    IN  /\ E.proposed /\ ~E.active
        /\ \/ /\ \A i \in Step : ~ss[i].approved
              /\ steps' = [steps EXCEPT ![E.plan] = ss]
              /\ UNCHANGED <<entry, run, nRuns>>
           \/ /\ \E i \in Step : ss[i].approved
              /\ Spawn(E.plan, ss)
        /\ Notify
        /\ UNCHANGED <<phase, crashes, ent, shape, origin, born, order, nPlans, nOrders, owed>>

Start(sh) ==
    /\ ~entry[ent].active
    /\ NewPlan(sh, nPlans + 1)
    /\ Spawn(nPlans + 1, Fresh)
    /\ Notify
    /\ UNCHANGED <<phase, crashes, ent, order, nOrders, owed>>

Stop ==
    /\ entry' = [entry EXCEPT ![ent].aborted = TRUE, ![ent].active = FALSE]
    /\ UNCHANGED steps
    /\ Notify
    /\ UNCHANGED <<phase, crashes, ent, shape, origin, born, run, order, nPlans, nRuns, nOrders, owed>>

\* reset(): stop(), then the entry leaves the map; the next call builds another.
Reset ==
    /\ ent < MaxEntries
    /\ entry' = [entry EXCEPT ![ent].aborted = TRUE, ![ent].active = FALSE]
    /\ ent' = ent + 1
    /\ UNCHANGED steps
    /\ NotifyIn(ent + 1)
    /\ UNCHANGED <<phase, crashes, shape, origin, born, run, order, nPlans, nRuns, nOrders, owed>>

-----------------------------------------------------------------------------
(***************************************************************************)
(* The coroutine.                                                          *)
(***************************************************************************)
At(r, pc) == run[r].pc = pc
StepOf(r) == steps[run[r].plan][run[r].idx]
KindOf(r) == shape[run[r].plan][run[r].idx]
EntryOf(r) == entry[run[r].ent]

\* resolveAmount() found no balance, or threw.
ResolveEmpty(r) ==
    /\ At(r, "resolving")
    /\ \/ Returns(r, EntryOf(r), [StepOf(r) EXCEPT !.st = "skipped", !.why = "zero"])
       \/ Returns(r, EntryOf(r), [StepOf(r) EXCEPT !.st = "failed"])
    /\ UNCHANGED <<phase, crashes, ent, shape, origin, born, order, nPlans, nRuns, nOrders, owed>>

\* resolveAmount() answered: placeOrder() sends the request and waits.
Send(r) ==
    /\ At(r, "resolving") /\ nOrders < MaxOrders
    /\ nOrders' = nOrders + 1
    /\ order' = [order EXCEPT ![nOrders + 1] =
                    [st |-> "sent", got |-> "none",
                     plan |-> origin[run[r].plan], idx |-> run[r].idx,
                     by |-> run[r].plan, life |-> crashes]]
    /\ run' = [run EXCEPT ![r].pc = "placing", ![r].ord = nOrders + 1]
    /\ UNCHANGED <<entry, steps>>
    /\ Notify
    /\ UNCHANGED <<phase, crashes, ent, shape, origin, born, nPlans, nRuns, owed>>

\* The order id arrived.  A limit order goes to waitForFill(), whose loop tests
\* e.aborted before its first sleep; a market order waits 5 s for its settlement.
Placed(r) ==
    LET placed == [StepOf(r) EXCEPT !.ord = run[r].ord] IN
    /\ At(r, "placing") /\ order[run[r].ord].st \notin {"sent", "rejected"}
    /\ \/ /\ KindOf(r).type = "market"
          /\ Record(r, [run[r] EXCEPT !.pc = "settling", !.ord = 0], EntryOf(r),
                    [steps[run[r].plan] EXCEPT ![run[r].idx] = placed])
          /\ Notify
       \/ /\ KindOf(r).type = "limit" /\ ~EntryOf(r).aborted
          /\ Record(r, [run[r] EXCEPT !.pc = "polling", !.ord = 0], EntryOf(r),
                    [steps[run[r].plan] EXCEPT ![run[r].idx] = [placed EXCEPT !.st = "monitoring"]])
          /\ Notify
       \/ /\ KindOf(r).type = "limit" /\ EntryOf(r).aborted
          /\ Returns(r, EntryOf(r), [placed EXCEPT !.st = "failed"])
    /\ UNCHANGED <<phase, crashes, ent, shape, origin, born, order, nPlans, nRuns, nOrders, owed>>

\* Mutant: the catch block leaves the step executing.
PlaceFailsSilently(r) ==
    /\ At(r, "placing")
    /\ Record(r, Finished(run[r]), Idle(EntryOf(r)), steps[run[r].plan]) /\ Notify
    /\ UNCHANGED <<phase, crashes, ent, shape, origin, born, order, nPlans, nRuns, nOrders, owed>>

\* The request was refused, timed out or lost its answer: the exchange may hold the order.
PlaceFails(r) ==
    /\ At(r, "placing")
    /\ Returns(r, EntryOf(r), [StepOf(r) EXCEPT !.st = "failed"])
    /\ UNCHANGED <<phase, crashes, ent, shape, origin, born, order, nPlans, nRuns, nOrders, owed>>

\* fetchOrderStatus() of a market order, 5 s after it was placed; the read may fail.
Settle(r) ==
    /\ At(r, "settling")
    /\ \/ /\ order[StepOf(r).ord].got # "none"
          /\ Returns(r, EntryOf(r), [StepOf(r) EXCEPT !.st = "filled"])
       \/ Returns(r, EntryOf(r), [StepOf(r) EXCEPT !.st = "failed"])
    /\ UNCHANGED <<phase, crashes, ent, shape, origin, born, order, nPlans, nRuns, nOrders, owed>>

\* Mutant: an order that left the book is taken for filled.
PollEndedNotLive(r) ==
    /\ At(r, "polling") /\ order[StepOf(r).ord].st \in {"filled", "cancelled"}
    /\ Returns(r, EntryOf(r), [StepOf(r) EXCEPT !.st = "filled"])
    /\ UNCHANGED <<phase, crashes, ent, shape, origin, born, order, nPlans, nRuns, nOrders, owed>>

\* One turn of waitForFill()'s loop that ends in the order's fill or cancellation.
PollEnded(r) ==
    LET o == order[StepOf(r).ord] IN
    /\ At(r, "polling")
    /\ \/ o.st = "filled" /\ Returns(r, EntryOf(r), [StepOf(r) EXCEPT !.st = "filled"])
       \/ o.st = "cancelled" /\ Returns(r, EntryOf(r), [StepOf(r) EXCEPT !.st = "failed"])
    /\ UNCHANGED <<phase, crashes, ent, shape, origin, born, order, nPlans, nRuns, nOrders, owed>>

\* Mutants: the time-stop never becomes due (startedAt is read again in every turn),
\* and the time-stop does not return.
PollForever(r) ==
    /\ At(r, "polling") /\ run[r].polls < MaxPolls
    /\ ~EntryOf(r).aborted /\ UNCHANGED <<run, entry, steps>> /\ Notify
    /\ UNCHANGED <<phase, crashes, ent, shape, origin, born, order, nPlans, nRuns, nOrders, owed>>

\* The order was live, or the poll failed, and the time-stop is not due: back to
\* the head of the loop, where an abort ends it.
PollAgain(r) ==
    /\ At(r, "polling") /\ run[r].polls < MaxPolls
    /\ \/ /\ ~EntryOf(r).aborted
          /\ run' = [run EXCEPT ![r].polls = @ + 1]
          /\ UNCHANGED <<entry, steps>> /\ Notify
       \/ /\ EntryOf(r).aborted
          /\ Returns(r, EntryOf(r), [StepOf(r) EXCEPT !.st = "failed"])
    /\ UNCHANGED <<phase, crashes, ent, shape, origin, born, order, nPlans, nRuns, nOrders, owed>>

\* The same, with the time-stop due: cancelOrder() is awaited.
TimeStop(r) ==
    /\ At(r, "polling") /\ run[r].polls = MaxPolls
    /\ run' = [run EXCEPT ![r].pc = "cancelling"]
    /\ UNCHANGED <<entry, steps>> /\ Notify
    /\ UNCHANGED <<phase, crashes, ent, shape, origin, born, order, nPlans, nRuns, nOrders, owed>>

\* cancelOrder() returned or threw: the code goes on alike.
TimeStopped(r) ==
    LET o == StepOf(r).ord IN
    /\ At(r, "cancelling")
    /\ \/ order[o].st = "live" /\ order' = [order EXCEPT ![o].st = "cancelled"]
       \/ UNCHANGED order
    /\ \/ /\ KindOf(r).side = "buy"
          /\ Returns(r, [EntryOf(r) EXCEPT !.halt = TRUE],
                     [StepOf(r) EXCEPT !.st = "skipped", !.why = "timestop"])
       \/ /\ KindOf(r).side = "sell"
          /\ Returns(r, EntryOf(r), [StepOf(r) EXCEPT !.st = "failed"])
    /\ UNCHANGED <<phase, crashes, ent, shape, origin, born, nPlans, nRuns, nOrders, owed>>

RunStep(r) ==
    \/ ResolveEmpty(r) \/ Send(r) \/ Placed(r) \/ PlaceFails(r) \/ Settle(r)
    \/ PollEnded(r) \/ PollAgain(r) \/ TimeStop(r) \/ TimeStopped(r)

-----------------------------------------------------------------------------
(***************************************************************************)
(* The exchange.  A market order is immediate-or-cancel; a live limit      *)
(* order fills, partly fills, or is cancelled (by the user, or by Gemini). *)
(***************************************************************************)
Exchange(o) ==
    LET kind == shape[order[o].plan][order[o].idx]
        Becomes(st, got) == order' = [order EXCEPT ![o].st = st, ![o].got = got]
    IN  /\ \/ order[o].st = "sent" /\ Becomes("rejected", "none")
           \/ /\ order[o].st = "sent" /\ kind.type = "limit" /\ Becomes("live", "none")
           \/ /\ order[o].st = "sent" /\ kind.type = "market"
              /\ \/ Becomes("filled", "all")
                 \/ \E got \in {"none", "part"} : Becomes("cancelled", got)
           \/ order[o].st = "live" /\ order[o].got = "none" /\ Becomes("live", "part")
           \/ order[o].st = "live" /\ Becomes("filled", "all")
           \/ order[o].st = "live" /\ Becomes("cancelled", order[o].got)
        /\ UNCHANGED <<phase, crashes, ent, entry, steps, shape, origin, born, run,
                       nPlans, nRuns, nOrders, disk, owed>>

-----------------------------------------------------------------------------
(***************************************************************************)
(* The process dies and starts again.                                      *)
(***************************************************************************)
Crash ==
    /\ crashes < MaxCrashes
    /\ crashes' = crashes + 1
    /\ phase' = "booting"
    /\ ent' = 1 /\ entry' = [e \in Entries |-> NewEntry]
    /\ steps' = [p \in Plans |-> Fresh]
    /\ run' = [r \in Runs |-> NoRun] /\ nRuns' = 0
    /\ owed' = IF phase = "up" THEN Image(entry[ent], steps) ELSE owed
    /\ UNCHANGED <<shape, origin, born, order, nPlans, nOrders, disk>>

\* CryptoHub.start() awaits fullRefresh() and then resumes the brackets before the
\* saved plans are read.  A call for another symbol, the ladder's reconciler or the
\* log line of a resumed bracket meanwhile runs notify(), hence persistPlans().
NotifyBeforeResume ==
    /\ phase = "booting"
    /\ UNCHANGED <<entry, steps, ent>> /\ Notify
    /\ UNCHANGED <<phase, crashes, shape, origin, born, run, order, nPlans, nRuns, nOrders, owed>>

\* Mutant: a resting step is rewound too.
RewindAll(ss) == [i \in Step |-> IF ss[i].st \in {"executing", "monitoring"}
                                 THEN [ss[i] EXCEPT !.st = "pending"] ELSE ss[i]]

\* A step caught before its order id was known is placed again.
Rewind(ss) == [i \in Step |-> IF ss[i].st = "executing" /\ ss[i].ord = 0
                              THEN [ss[i] EXCEPT !.st = "pending"] ELSE ss[i]]

ResumePlans ==
    /\ phase = "booting" /\ phase' = "up"
    /\ \/ /\ disk.kind = "none"
          /\ UNCHANGED <<entry, steps, shape, origin, born, run, nPlans, nRuns, disk>>
       \/ /\ disk.kind = "proposed"
          /\ NewPlan(shape[disk.plan], origin[disk.plan])
          /\ steps' = [steps EXCEPT ![nPlans + 1] = disk.steps]
          /\ entry' = [entry EXCEPT ![ent].active = FALSE, ![ent].proposed = TRUE,
                                    ![ent].plan = nPlans + 1]
          /\ UNCHANGED <<run, nRuns>> /\ Notify
       \/ /\ disk.kind = "active"
          /\ NewPlan(shape[disk.plan], origin[disk.plan])
          /\ Spawn(nPlans + 1, Rewind(disk.steps))
          /\ Notify
    /\ UNCHANGED <<crashes, ent, order, nOrders, owed>>

-----------------------------------------------------------------------------
Call == \/ \E sh \in Shapes : Propose(sh) \/ Start(sh)
        \/ \E i \in Step, ok \in BOOLEAN : PatchStep(i, ok)
        \/ ConfirmProposal \/ Stop \/ Reset

Next == \/ Call
        \/ \E r \in Runs : RunStep(r)
        \/ \E o \in Orders : Exchange(o)
        \/ Crash \/ NotifyBeforeResume \/ ResumePlans

Spec == Init /\ [][Next]_vars

(***************************************************************************)
(* Fairness.  Every await of a run ends: the sleeps are timers, every      *)
(* request carries AbortSignal.timeout, and geminiPrivateFetch() goes on   *)
(* to the next request whatever became of the one before.                  *)
(***************************************************************************)
FairSpec == Spec /\ \A r \in Runs : WF_vars(RunStep(r))

-----------------------------------------------------------------------------
(***************************************************************************)
(* Properties.                                                             *)
(***************************************************************************)
\* Every variable has its type; order numbers in use have been allocated.
TypeOK ==
    /\ phase \in {"booting", "up"} /\ crashes \in 0..MaxCrashes
    /\ ent \in Entries /\ entry \in [Entries -> EntryRec]
    /\ steps \in [Plans -> [Step -> StepRec]]
    /\ shape \in [Plans -> Shapes] /\ origin \in [Plans -> Plans]
    /\ born \in [Plans -> 0..MaxCrashes]
    /\ run \in [Runs -> RunRec] /\ order \in [Orders -> OrderRec]
    /\ nPlans \in 0..MaxPlans /\ nRuns \in 0..MaxRuns /\ nOrders \in 0..MaxOrders
    /\ disk \in DiskRec /\ owed \in DiskRec

\* A step the planner reports filled was executed on the exchange: its order is this
\* very step's, it traded, and a limit order traded in full.  ("A halted plan is
\* recoverable; a phantom fill is not.")  Later steps are sized off the fill.
FilledIsReal ==
    \A p \in Plans, i \in Step :
        steps[p][i].st = "filled" =>
            /\ steps[p][i].ord # 0
            /\ LET o == order[steps[p][i].ord] IN
               /\ o.plan = origin[p] /\ o.idx = i
               /\ o.got # "none"
               /\ shape[p][i].type = "limit" => o.got = "all"

\* Orders that reached, or may still reach, the book for step i of plan p.
OrdersOf(p, i) == {o \in Orders : order[o].st \notin {"none", "rejected"}
                                  /\ order[o].plan = p /\ order[o].idx = i}

\* A plan the process staged or started while it was booting, and then read back.
ReadBack(p, n) == born[p] = n /\ \E q \in 1..nPlans : q # p /\ origin[q] = p /\ born[q] = n

\* In one life of the process no two orders leave for the same step, whatever the
\* sequence of stops, resets, proposals, confirmations and superseded coroutines, unless
\* that process read back with resumePlansIfAny() the very plan it had put in the file.
OnePlacementPerLife ==
    \A p \in Plans, i \in Step : \A a, b \in OrdersOf(p, i) :
        (a # b /\ order[a].life = order[b].life) => ReadBack(p, order[a].life)

\* An order for a step leaves only once every earlier step of its plan is filled or
\* skipped: a sell never precedes the buy it exits.
SequentialOrder ==
    [][\A r \in Runs :
         (run[r].pc = "resolving" /\ run'[r].pc = "placing") =>
            \A j \in Step : j < run[r].idx => StepDone(steps[run[r].plan][j])]_vars

\* A coroutine that was stopped or superseded starts no further step: at most the step it
\* was already resolving goes out.
StaleStartsNothing ==
    [][\A r \in Runs :
         (run[r].pc \in Working /\ Stale(r) /\ run[r].idx # run'[r].idx) => run'[r].pc \notin Working]_vars

\* Of a crashed process' plan, what the restarted one has: a proposal is staged, a
\* running plan runs, and every order that was being watched is watched under its id.
Restored ==
    LET E == entry'[ent] IN
    /\ owed.kind = "proposed" => E.proposed
    /\ owed.kind = "active" =>
         /\ E.active
         /\ \A i \in Step : Resting(owed.steps[i]) => steps'[E.plan][i] = owed.steps[i]
Resumes == phase = "booting" /\ phase' = "up"

\* A restart whose file is still the one the crashed process left restores its plan.
RestartRestores == [][(Resumes /\ disk = owed) => Restored]_vars

\* Once a coroutine has ended, the step it was at is not left executing or monitoring.
EndedRunLeavesNoOpenStep ==
    \A r \in Runs : run[r].pc = "done" /\ run[r].idx # 0 =>
        steps[run[r].plan][run[r].idx].st \notin {"executing", "monitoring"}

\* Liveness: whatever the exchange answers or fails to answer, a run ends.
RunsEnd == \A r \in Runs : []<>(run[r].pc \notin Working)

=============================================================================
