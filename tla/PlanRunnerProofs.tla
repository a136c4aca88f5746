--------------------------- MODULE PlanRunnerProofs ---------------------------
(***************************************************************************)
(* Machine-checked proofs about PlanRunner, for any number of steps,       *)
(* plans, coroutines, orders, polls and crashes.                           *)
(***************************************************************************)
EXTENDS PlanRunner, TLAPS

-----------------------------------------------------------------------------
(***************************************************************************)
(* The inductive invariant.                                                *)
(***************************************************************************)
Spawned(r) == run[r].pc # "none"

\* Runs, entries and the file point at plans that exist; entries above the
\* current one have not been used.
Pointers ==
    /\ \A r \in Runs : Spawned(r) => /\ run[r].ent \in 1..ent
                                     /\ run[r].plan \in 1..nPlans
    /\ \A r \in Runs : run[r].pc \in Working => run[r].idx \in Step
    /\ \A e \in Entries : /\ entry[e].plan <= nPlans
                          /\ (entry[e].active \/ entry[e].proposed) => entry[e].plan >= 1
                          /\ e > ent => ~entry[e].proposed
    /\ disk.plan <= nPlans
    /\ disk.kind # "none" => disk.plan >= 1

\* No two coroutines walk the same array of steps, and a staged plan has none yet.
OwnPlan ==
    /\ \A q, r \in Runs : (q # r /\ Spawned(q) /\ Spawned(r)) => run[q].plan # run[r].plan
    /\ entry[ent].proposed => \A r \in Runs : Spawned(r) => run[r].plan # entry[ent].plan

\* What the exchange reports of an order is consistent.
OrdersOK ==
    \A o \in Orders : /\ order[o].st = "filled" => order[o].got = "all"
                      /\ order[o].st = "sent" => order[o].got = "none"

\* Order n was sent for step i of the plan that p stands for.
Matches(n, p, i) == n \in 1..nOrders /\ order[n].plan = p /\ order[n].idx = i

\* The ids and fills in an array of steps of a plan of shape sh standing for plan p.
StepsOK(ss, sh, p) ==
    \A i \in Step :
        /\ ss[i].ord # 0 => Matches(ss[i].ord, p, i)
        /\ ss[i].st = "filled" => /\ ss[i].ord # 0
                                  /\ order[ss[i].ord].got # "none"
                                  /\ sh[i].type = "limit" => order[ss[i].ord].got = "all"

Fills ==
    /\ \A p \in Plans : StepsOK(steps[p], shape[p], origin[p])
    /\ disk.kind # "none" => StepsOK(disk.steps, shape[disk.plan], origin[disk.plan])

\* A step that is neither being placed nor watched.
Closed(s) == s.st \notin {"executing", "monitoring"}

\* What a coroutine R suspended in the step ss[R.idx] knows of its order.
Holds(R, ss, sh, p) ==
    /\ R.pc = "placing" => Matches(R.ord, p, R.idx)
    /\ R.pc \in {"settling", "polling", "cancelling"} => ss[R.idx].ord # 0
    /\ R.pc = "settling" => sh[R.idx].type = "market"
    /\ R.pc \in {"resolving", "placing", "settling"} => ss[R.idx].st = "executing"
    /\ R.pc = "done" /\ R.idx # 0 => Closed(ss[R.idx])
    /\ R.pc \in Working => \A j \in Step : j < R.idx => StepDone(ss[j])

Holding == \A r \in Runs : Spawned(r) =>
              Holds(run[r], steps[run[r].plan], shape[run[r].plan], origin[run[r].plan])

IInv == TypeOK /\ Pointers /\ OwnPlan /\ OrdersOK /\ Fills /\ Holding

-----------------------------------------------------------------------------
(***************************************************************************)
(* What a step of a coroutine may do to the rest of the state.             *)
(***************************************************************************)
\* What happened to the orders sent so far stays happened.
ExchangeFrame ==
    /\ nOrders' \in nOrders..MaxOrders /\ order' \in [Orders -> OrderRec]
    /\ \A o \in 1..nOrders :
         /\ order'[o].plan = order[o].plan /\ order'[o].idx = order[o].idx
         /\ order[o].got # "none" => order'[o].got # "none"
         /\ order[o].got = "all" => order'[o].got = "all"
    /\ OrdersOK'

\* Nothing is known to change of plans other than p.
PlanFrame(p) ==
    /\ phase' \in {"booting", "up"} /\ crashes' \in 0..MaxCrashes /\ ent' = ent
    /\ nRuns' \in 0..MaxRuns /\ owed' \in DiskRec
    /\ nPlans' \in nPlans..MaxPlans
    /\ shape' \in [Plans -> Shapes] /\ origin' \in [Plans -> Plans] /\ born' \in [Plans -> 0..MaxCrashes]
    /\ \A q \in Plans : q # p => shape'[q] = shape[q] /\ origin'[q] = origin[q]

\* Coroutine r walks plan R.plan of entry R.ent alone, and E is that entry's next value.
Alone(r, R, E) ==
    /\ R.ent \in 1..ent /\ R.plan \in 1..nPlans'
    /\ \A q \in Runs : (q # r /\ Spawned(q)) => run[q].plan # R.plan
    /\ E.plan <= nPlans' /\ ((E.active \/ E.proposed) => E.plan >= 1)
    /\ (E.proposed /\ R.ent = ent) =>
          R.plan # E.plan /\ \A q \in Runs : (q # r /\ Spawned(q)) => run[q].plan # E.plan
    /\ (R.ent # ent /\ entry[ent].proposed) => R.plan # entry[ent].plan

\* The file is rewritten by every step of a coroutine; what it holds is well formed.
LEMMA ImageType ==
    ASSUME NEW E \in EntryRec, NEW S \in [Plans -> [Step -> StepRec]],
           (E.active \/ E.proposed) => E.plan \in Plans
    PROVE  Image(E, S) \in DiskRec
<1>1. 0 \in 0..MaxOrders /\ 0 \in 0..MaxPlans
  BY ConstantsAssumption
<1>2. Fresh \in [Step -> StepRec] /\ 0 \in 0..MaxPlans
  BY <1>1 DEF Fresh, NewStep, StepRec, Status, Why
<1>3. E.plan \in 0..MaxPlans
  BY DEF EntryRec
<1> QED BY <1>2, <1>3 DEF Image, NoPlan, DiskRec

\* A step of coroutine r that leaves it as R, its entry as E and its steps as ss keeps IInv.
LEMMA RecordKeeps ==
    ASSUME IInv, NEW r \in Runs, NEW R \in RunRec, NEW E \in EntryRec,
           NEW ss \in [Step -> StepRec],
           Record(r, R, E, ss), ExchangeFrame, PlanFrame(R.plan), Alone(r, R, E),
           disk' = Image(entry'[ent], steps'),
           R.pc # "none", R.pc \in Working => R.idx \in Step,
           StepsOK(ss, shape[R.plan], origin[R.plan])',
           Holds(R, ss, shape[R.plan], origin[R.plan])'
    PROVE  IInv'
<1> USE ConstantsAssumption
<1> DEFINE p == R.plan
<1>1. /\ run \in [Runs -> RunRec] /\ entry \in [Entries -> EntryRec]
      /\ steps \in [Plans -> [Step -> StepRec]]
      /\ nPlans \in 0..MaxPlans /\ ent \in Entries /\ nOrders \in 0..MaxOrders
  BY DEF IInv, TypeOK
<1>2. p \in Plans /\ R.ent \in Entries
  <2>1. R.plan \in 1..nPlans' /\ nPlans' \in nPlans..MaxPlans /\ R.ent \in 1..ent
    BY DEF Alone, PlanFrame
  <2> QED BY <1>1, <2>1 DEF Plans, Entries
<1>3. /\ run' \in [Runs -> RunRec] /\ entry' \in [Entries -> EntryRec]
      /\ steps' \in [Plans -> [Step -> StepRec]]
  BY <1>1, <1>2 DEF Record
<1>4. /\ run'[r] = R /\ \A q \in Runs : q # r => run'[q] = run[q]
      /\ steps'[p] = ss /\ \A q \in Plans : q # p => steps'[q] = steps[q]
      /\ entry'[R.ent] = E /\ \A e \in Entries : e # R.ent => entry'[e] = entry[e]
  BY <1>1, <1>2 DEF Record
<1>5. /\ nPlans' \in 0..MaxPlans /\ nPlans' >= nPlans /\ ent' = ent
      /\ nOrders' \in 0..MaxOrders
  BY <1>1 DEF PlanFrame, ExchangeFrame
<1>6. \A e \in Entries : /\ entry'[e].plan <= nPlans'
                         /\ (entry'[e].active \/ entry'[e].proposed) => entry'[e].plan >= 1
                         /\ e > ent => ~entry'[e].proposed
  <2>1. \A e \in Entries : /\ entry[e].plan <= nPlans /\ entry[e].plan \in Int
                           /\ (entry[e].active \/ entry[e].proposed) => entry[e].plan >= 1
                           /\ e > ent => ~entry[e].proposed
    BY <1>1 DEF IInv, Pointers, EntryRec
  <2>2. R.ent <= ent /\ E.plan <= nPlans' /\ ((E.active \/ E.proposed) => E.plan >= 1)
    BY <1>1 DEF Alone, Entries
  <2>3. \A e \in Entries : e \in Int /\ ent \in Int /\ nPlans \in Int /\ nPlans' \in Int
    BY <1>1, <1>5 DEF Entries
  <2> SUFFICES ASSUME NEW e \in Entries
               PROVE  /\ entry'[e].plan <= nPlans'
                      /\ (entry'[e].active \/ entry'[e].proposed) => entry'[e].plan >= 1
                      /\ e > ent => ~entry'[e].proposed
    OBVIOUS
  <2>4. CASE e = R.ent
    <3>1. entry'[e] = E
      BY <1>4, <2>4
    <3>2. ~(e > ent)
      BY <2>2, <2>3, <2>4
    <3> QED BY <2>2, <3>1, <3>2
  <2>5. CASE e # R.ent
    <3>1. entry'[e] = entry[e]
      BY <1>4, <2>5
    <3>2. entry[e].plan <= nPlans'
      BY <1>5, <2>1, <2>3
    <3> QED BY <2>1, <3>1, <3>2
  <2> QED BY <2>4, <2>5
<1>7. disk' \in DiskRec /\ disk'.plan <= nPlans' /\ (disk'.kind # "none" => disk'.plan >= 1)
      /\ (disk'.kind # "none" => disk'.plan \in Plans /\ disk'.steps = steps'[disk'.plan])
  <2>1. entry'[ent] \in EntryRec /\ entry'[ent].plan \in 0..MaxPlans
    BY <1>1, <1>3 DEF EntryRec
  <2>2. (entry'[ent].active \/ entry'[ent].proposed) => entry'[ent].plan \in Plans
    BY <1>1, <1>6, <2>1 DEF Plans
  <2>3. disk' \in DiskRec
    BY <1>3, <2>1, <2>2, ImageType
  <2>4. nPlans' >= 0
    BY <1>5
  <2> QED BY <1>1, <1>6, <2>1, <2>2, <2>3, <2>4 DEF Image, NoPlan
<1>8. TypeOK'
  BY <1>1, <1>3, <1>5, <1>7 DEF TypeOK, PlanFrame, ExchangeFrame
<1>9. Pointers'
  <2>1. \A q \in Runs : Spawned(q)' => run'[q].ent \in 1..ent /\ run'[q].plan \in 1..nPlans'
    BY <1>1, <1>4, <1>5 DEF IInv, Pointers, Spawned, Alone
  <2>2. \A q \in Runs : run'[q].pc \in Working => run'[q].idx \in Step
    BY <1>4 DEF IInv, Pointers
  <2> QED BY <1>5, <1>6, <1>7, <2>1, <2>2 DEF Pointers, Spawned
<1>10. OwnPlan'
  <2>1. \A q, s \in Runs : (q # s /\ Spawned(q)' /\ Spawned(s)') => run'[q].plan # run'[s].plan
    BY <1>4 DEF IInv, OwnPlan, Spawned, Alone
  <2>2. entry'[ent].proposed => \A q \in Runs : Spawned(q)' => run'[q].plan # entry'[ent].plan
    <3>1. CASE R.ent = ent
      BY <3>1, <1>4 DEF Spawned, Alone
    <3>2. CASE R.ent # ent
      BY <3>2, <1>1, <1>4 DEF IInv, OwnPlan, Spawned, Alone
    <3> QED BY <3>1, <3>2
  <2> QED BY <2>1, <2>2, <1>5 DEF OwnPlan
<1>11. \A n, a, i : Matches(n, a, i) => Matches(n, a, i)'
  BY <1>1 DEF Matches, ExchangeFrame
<1>12. Fills'
  <2>1. \A q \in Plans : q # p => StepsOK(steps[q], shape[q], origin[q])'
    <3> SUFFICES ASSUME NEW q \in Plans, q # p
                 PROVE  StepsOK(steps[q], shape[q], origin[q])'
      OBVIOUS
    <3>1. steps'[q] = steps[q] /\ shape'[q] = shape[q] /\ origin'[q] = origin[q]
      BY <1>4 DEF PlanFrame
    <3>2. StepsOK(steps[q], shape[q], origin[q])
      BY DEF IInv, Fills
    <3>3. \A i \in Step : steps[q][i].ord # 0 => steps[q][i].ord \in 1..nOrders
      BY <3>2, <1>1 DEF StepsOK, Matches
    <3> QED BY <3>1, <3>2, <3>3, <1>11 DEF StepsOK, ExchangeFrame
  <2>2. \A q \in Plans : StepsOK(steps[q], shape[q], origin[q])'
    BY <2>1, <1>4, <1>2
  <2> QED BY <2>2, <1>7 DEF Fills
<1>13. Holding'
  <2> SUFFICES ASSUME NEW q \in Runs, Spawned(q)'
               PROVE  Holds(run[q], steps[run[q].plan], shape[run[q].plan], origin[run[q].plan])'
    BY DEF Holding
  <2>1. CASE q = r
    BY <2>1, <1>4
  <2>2. CASE q # r
    <3>1. run'[q] = run[q] /\ Spawned(q) /\ run[q].plan # p /\ run[q].plan \in Plans
      BY <2>2, <1>1, <1>4 DEF Spawned, Alone, IInv, Pointers, Plans
    <3>2. /\ steps'[run[q].plan] = steps[run[q].plan]
          /\ shape'[run[q].plan] = shape[run[q].plan] /\ origin'[run[q].plan] = origin[run[q].plan]
      BY <3>1, <1>4 DEF PlanFrame
    <3>3. Holds(run[q], steps[run[q].plan], shape[run[q].plan], origin[run[q].plan])
      BY <3>1 DEF IInv, Holding
    <3> QED BY <3>1, <3>2, <3>3, <1>11 DEF Holds
  <2> QED BY <2>1, <2>2
<1>14. OrdersOK'
  BY DEF ExchangeFrame
<1> QED BY <1>8, <1>9, <1>10, <1>12, <1>13, <1>14 DEF IInv

\* The end of a run: it is done and its entry is released or left as it is.
LEMMA FinishKeeps ==
    ASSUME IInv, NEW r \in Runs, NEW R \in RunRec, NEW E \in EntryRec,
           NEW ss \in [Step -> StepRec],
           Record(r, Finished(R), Idle(E), ss) \/ Record(r, Finished(R), E, ss),
           ExchangeFrame, PlanFrame(R.plan), Alone(r, R, E),
           disk' = Image(entry'[ent], steps'), R.idx # 0 => Closed(ss[R.idx]),
           StepsOK(ss, shape[R.plan], origin[R.plan])'
    PROVE  IInv'
<1> DEFINE F == Finished(R)
<1>1. 0 \in 0..MaxPolls /\ 0 \in 0..MaxOrders
  BY ConstantsAssumption
<1>2. F \in RunRec /\ F.pc = "done" /\ F.plan = R.plan /\ F.ent = R.ent /\ F.idx = R.idx
  BY <1>1 DEF Finished, RunRec, Pc
<1>3. Idle(E) \in EntryRec /\ ~Idle(E).active /\ Idle(E).proposed = E.proposed /\ Idle(E).plan = E.plan
  BY DEF Idle, EntryRec
<1>4. PlanFrame(F.plan) /\ Alone(r, F, E) /\ Alone(r, F, Idle(E))
  BY <1>2, <1>3 DEF Alone
<1>5. F.pc # "none" /\ F.pc \notin Working
  BY <1>2 DEF Working
<1>6. Holds(F, ss, shape[F.plan], origin[F.plan])'
  BY <1>2, <1>5 DEF Holds
<1>7. StepsOK(ss, shape[F.plan], origin[F.plan])'
  BY <1>2
<1>8. CASE Record(r, F, Idle(E), ss)
  BY <1>2, <1>3, <1>4, <1>5, <1>6, <1>7, <1>8, RecordKeeps
<1>9. CASE Record(r, F, E, ss)
  BY <1>2, <1>4, <1>5, <1>6, <1>7, <1>9, RecordKeeps
<1> QED BY <1>8, <1>9

\* The steps the loop passes keep their orders, their approvals and their fills, or are
\* skipped; the ones it passed are done, and the others are as they were.
LEMMA PassedFacts ==
    ASSUME NEW ss \in [Step -> StepRec], NEW a \in Int, NEW b \in Int,
           NEW ps, ps = Passed(ss, a, b)
    PROVE  /\ ps \in [Step -> StepRec]
           /\ \A i \in Step : /\ ps[i].ord = ss[i].ord /\ ps[i].approved = ss[i].approved
                              /\ ps[i].st \in {ss[i].st, "skipped"}
                              /\ i >= b \/ i < a \/ ss[i].approved => ps[i] = ss[i]
                              /\ (a <= i /\ i < b /\ Passes(ss[i])) => StepDone(ps[i])
<1> SUFFICES ASSUME NEW i \in Step
             PROVE  /\ ps[i] \in StepRec
                    /\ ps[i].ord = ss[i].ord /\ ps[i].approved = ss[i].approved
                    /\ ps[i].st \in {ss[i].st, "skipped"}
                    /\ i >= b \/ i < a \/ ss[i].approved => ps[i] = ss[i]
                    /\ (a <= i /\ i < b /\ Passes(ss[i])) => StepDone(ps[i])
  BY DEF Passed
<1>1. i \in Int /\ ss[i] \in StepRec
  BY DEF Step
<1>2. PICK t : t = [ss[i] EXCEPT !.st = "skipped"]
  OBVIOUS
<1>3. t \in StepRec /\ t.st = "skipped" /\ t.ord = ss[i].ord /\ t.approved = ss[i].approved
  BY <1>1, <1>2 DEF StepRec, Status
<1>4. CASE a <= i /\ i < b /\ ~ss[i].approved
  <2>1. ps[i] = t
    BY <1>2, <1>4 DEF Passed
  <2> QED BY <1>1, <1>3, <1>4, <2>1 DEF StepDone
<1>5. CASE ~(a <= i /\ i < b /\ ~ss[i].approved)
  <2>1. ps[i] = ss[i]
    BY <1>5 DEF Passed
  <2> QED BY <1>1, <1>5, <2>1 DEF Passes
<1> QED BY <1>4, <1>5

\* The loop of run() from step "from" on, every earlier step being done.
LEMMA LoopKeeps ==
    ASSUME IInv, NEW r \in Runs, NEW R \in RunRec, NEW E \in EntryRec,
           NEW ss \in [Step -> StepRec], NEW from \in Int,
           Loop(r, R, E, ss, from),
           ExchangeFrame, PlanFrame(R.plan), Alone(r, R, E),
           disk' = Image(entry'[ent], steps'),
           StepsOK(ss, shape[R.plan], origin[R.plan])',
           R.idx < from, \A j \in Step : j < from => StepDone(ss[j])
    PROVE  IInv'
<1>0. R.idx # 0 => R.idx \in Step
  BY ConstantsAssumption DEF RunRec, Step
<1>1. CASE Record(r, Finished(R), E, ss) \/ Record(r, Finished(R), Idle(E), ss)
  <2>2. R.idx # 0 => Closed(ss[R.idx])
    BY <1>0 DEF StepDone, Closed
  <2> QED BY <1>1, <2>2, FinishKeeps
<1>2. ASSUME NEW b \in Int, NEW ps, ps = Passed(ss, from, b)
      PROVE  /\ ps \in [Step -> StepRec] /\ StepsOK(ps, shape[R.plan], origin[R.plan])'
             /\ \A i \in Step : i < from => ps[i] = ss[i]
  <2>1. /\ ps \in [Step -> StepRec]
        /\ \A i \in Step : ps[i].ord = ss[i].ord /\ ps[i].st \in {ss[i].st, "skipped"}
        /\ \A i \in Step : i < from => ps[i] = ss[i]
    BY <1>2, PassedFacts
  <2> QED BY <2>1 DEF StepsOK
<1>3. CASE Record(r, Finished(R), Idle(E), Passed(ss, from, NSteps + 1))
  <2>1. PICK ps : ps = Passed(ss, from, NSteps + 1)
    OBVIOUS
  <2>2. NSteps + 1 \in Int
    BY ConstantsAssumption
  <2>3. /\ ps \in [Step -> StepRec] /\ StepsOK(ps, shape[R.plan], origin[R.plan])'
        /\ \A i \in Step : i < from => ps[i] = ss[i]
    BY <1>2, <2>1, <2>2
  <2>4. R.idx # 0 => Closed(ps[R.idx])
    BY <1>0, <2>3 DEF StepDone, Closed
  <2>5. Record(r, Finished(R), Idle(E), ps)
    BY <1>3, <2>1
  <2> QED BY <2>3, <2>4, <2>5, FinishKeeps
<1>4. ASSUME NEW j \in Step, j >= from, ~Passes(ss[j]),
             \A k \in Step : (from <= k /\ k < j) => Passes(ss[k]),
             NEW ps, ps = Passed(ss, from, j),
             \/ /\ Resting(ss[j])
                /\ Record(r, [R EXCEPT !.pc = "polling", !.idx = j, !.polls = 0], E, ps)
             \/ /\ ~Resting(ss[j])
                /\ Record(r, [R EXCEPT !.pc = "resolving", !.idx = j, !.polls = 0],
                          E, [ps EXCEPT ![j].st = "executing"])
      PROVE  IInv'
  <2> DEFINE P == [R EXCEPT !.pc = "polling", !.idx = j, !.polls = 0]
             Q == [R EXCEPT !.pc = "resolving", !.idx = j, !.polls = 0]
             ex == [ps EXCEPT ![j].st = "executing"]
  <2>1. 0 \in 0..MaxPolls /\ j \in 0..NSteps /\ j \in Int
    BY ConstantsAssumption DEF Step
  <2>2. /\ P \in RunRec /\ P.pc = "polling" /\ P.idx = j /\ P.plan = R.plan /\ P.ent = R.ent
        /\ Q \in RunRec /\ Q.pc = "resolving" /\ Q.idx = j /\ Q.plan = R.plan /\ Q.ent = R.ent
    <3>1. "polling" \in Pc /\ "resolving" \in Pc
      BY DEF Pc
    <3>2. P \in RunRec /\ P.pc = "polling" /\ P.idx = j /\ P.plan = R.plan /\ P.ent = R.ent
      BY <2>1, <3>1 DEF RunRec
    <3>3. Q \in RunRec /\ Q.pc = "resolving" /\ Q.idx = j /\ Q.plan = R.plan /\ Q.ent = R.ent
      BY <2>1, <3>1 DEF RunRec
    <3> QED BY <3>2, <3>3
  <2>3. /\ ps \in [Step -> StepRec] /\ StepsOK(ps, shape[R.plan], origin[R.plan])'
        /\ \A k \in Step : k < from => ps[k] = ss[k]
        /\ ps[j] = ss[j]
        /\ \A k \in Step : (from <= k /\ k < j) => StepDone(ps[k])
    <3>1. /\ \A i \in Step : i >= j => ps[i] = ss[i]
          /\ \A i \in Step : (from <= i /\ i < j /\ Passes(ss[i])) => StepDone(ps[i])
      BY <1>4, <2>1, PassedFacts
    <3>2. \A k \in Step : (from <= k /\ k < j) => StepDone(ps[k])
      <4> SUFFICES ASSUME NEW k \in Step, from <= k, k < j PROVE StepDone(ps[k])
        OBVIOUS
      <4>1. Passes(ss[k])
        BY <1>4
      <4> QED BY <3>1, <4>1
    <3>3. ps[j] = ss[j]
      <4>1. j \in Step /\ j >= j
        BY <1>4, <2>1
      <4> QED BY <3>1, <4>1
    <3> QED BY <1>2, <1>4, <2>1, <3>2, <3>3
  <2>4. ex \in [Step -> StepRec] /\ ex[j].st = "executing" /\ ex[j].ord = ps[j].ord
        /\ \A k \in Step : k # j => ex[k] = ps[k]
    BY <2>3 DEF StepRec, Status
  <2>5. \A k \in Step : k < j => StepDone(ps[k]) /\ StepDone(ex[k])
    <3> SUFFICES ASSUME NEW k \in Step, k < j
                 PROVE  StepDone(ps[k]) /\ StepDone(ex[k])
      OBVIOUS
    <3>1. k \in Int /\ k # j
      BY <2>1 DEF Step
    <3>2. StepDone(ps[k])
      BY <2>3, <3>1
    <3>3. ex[k] = ps[k]
      BY <2>4, <3>1
    <3> QED BY <3>2, <3>3
  <2>6. Alone(r, P, E) /\ Alone(r, Q, E) /\ PlanFrame(P.plan) /\ PlanFrame(Q.plan)
    BY <2>2 DEF Alone
  <2>7. CASE Resting(ss[j]) /\ Record(r, P, E, ps)
    <3>1. Holds(P, ps, shape[P.plan], origin[P.plan])'
      BY <2>2, <2>3, <2>5, <2>7 DEF Holds, Resting
    <3>2. StepsOK(ps, shape[P.plan], origin[P.plan])'
      BY <2>2, <2>3
    <3> QED BY <2>2, <2>3, <2>6, <2>7, <3>1, <3>2, RecordKeeps
  <2>8. CASE Record(r, Q, E, ex)
    <3>1. Holds(Q, ex, shape[Q.plan], origin[Q.plan])'
      BY <2>2, <2>4, <2>5 DEF Holds
    <3>2. StepsOK(ex, shape[Q.plan], origin[Q.plan])'
      BY <2>2, <2>3, <2>4 DEF StepsOK
    <3> QED BY <2>2, <2>4, <2>6, <2>8, <3>1, <3>2, RecordKeeps
  <2> QED BY <1>4, <2>7, <2>8
<1> QED BY <1>1, <1>3, <1>4 DEF Loop

\* A run of the current process: where it is and what it may write.
LEMMA RunAt ==
    ASSUME IInv, NEW r \in Runs, run[r].pc \in Working,
           PlanFrame(run[r].plan), NEW E \in EntryRec,
           E.plan = entry[run[r].ent].plan, E.proposed = entry[run[r].ent].proposed,
           E.active => entry[run[r].ent].active
    PROVE  /\ Spawned(r) /\ run[r] \in RunRec /\ run[r].idx \in Step
           /\ run[r].plan \in Plans /\ run[r].ent \in Entries
           /\ entry[run[r].ent] \in EntryRec
           /\ steps[run[r].plan] \in [Step -> StepRec]
           /\ Holds(run[r], steps[run[r].plan], shape[run[r].plan], origin[run[r].plan])
           /\ Alone(r, run[r], E)
<1>1. Spawned(r) /\ run[r] \in RunRec
  BY DEF IInv, TypeOK, Spawned, Working
<1>2. /\ run[r].ent \in 1..ent /\ run[r].plan \in 1..nPlans /\ run[r].idx \in Step
      /\ ent \in Entries /\ nPlans \in 0..MaxPlans
  BY <1>1 DEF IInv, TypeOK, Pointers
<1>3. run[r].plan \in Plans /\ run[r].ent \in Entries
  BY <1>2, ConstantsAssumption DEF Plans, Entries
<1>4. entry[run[r].ent] \in EntryRec /\ steps[run[r].plan] \in [Step -> StepRec]
  BY <1>3 DEF IInv, TypeOK
<1>5. Holds(run[r], steps[run[r].plan], shape[run[r].plan], origin[run[r].plan])
  BY <1>1 DEF IInv, Holding
<1>6. Alone(r, run[r], E)
  <2>1. run[r].plan \in 1..nPlans' /\ nPlans' >= nPlans /\ nPlans' \in Int
    BY <1>2 DEF PlanFrame
  <2>2. \A q \in Runs : (q # r /\ Spawned(q)) => run[q].plan # run[r].plan
    BY <1>1 DEF IInv, OwnPlan
  <2>3. E.plan <= nPlans' /\ ((E.active \/ E.proposed) => E.plan >= 1)
    BY <1>2, <1>3, <1>4, <2>1 DEF IInv, Pointers, EntryRec
  <2>4. (E.proposed /\ run[r].ent = ent) =>
           run[r].plan # E.plan /\ \A q \in Runs : (q # r /\ Spawned(q)) => run[q].plan # E.plan
    BY <1>1 DEF IInv, OwnPlan
  <2>5. entry[ent].proposed => run[r].plan # entry[ent].plan
    BY <1>1 DEF IInv, OwnPlan
  <2> QED BY <1>2, <2>1, <2>2, <2>3, <2>4, <2>5 DEF Alone
<1> QED BY <1>1, <1>2, <1>3, <1>4, <1>5, <1>6

\* executeStep() returning with step record s, which is no longer open, keeps IInv.
\* R and ss are the run and the steps it leaves, as values of the state before the step.
LEMMA ReturnsKeeps ==
    ASSUME IInv, NEW r \in Runs, run[r].pc \in Working,
           NEW E \in EntryRec, NEW s \in StepRec, NEW R, NEW ss,
           R = run[r], ss = [steps[R.plan] EXCEPT ![R.idx] = s],
           E.plan = entry[R.ent].plan, E.proposed = entry[R.ent].proposed,
           E.active => entry[R.ent].active,
           Returns(r, E, s), ExchangeFrame, PlanFrame(R.plan),
           s.st \in {"filled", "skipped", "failed"},
           StepsOK(ss, shape[R.plan], origin[R.plan])'
    PROVE  IInv'
<1>1. /\ R \in RunRec /\ R.idx \in Step /\ R.plan \in Plans
      /\ steps[R.plan] \in [Step -> StepRec] /\ Alone(r, R, E)
      /\ Holds(R, steps[R.plan], shape[R.plan], origin[R.plan])
  BY RunAt
<1>2. ss \in [Step -> StepRec] /\ ss[R.idx] = s /\ \A j \in Step : j # R.idx => ss[j] = steps[R.plan][j]
  BY <1>1
<1>3. disk' = Image(entry'[ent], steps')
  BY DEF Returns, Notify, NotifyIn
<1>4. AfterStep(r, E, ss)
  BY DEF Returns
<1>5. CASE Record(r, Finished(R), Idle(E), ss)
  BY <1>1, <1>2, <1>3, <1>5, FinishKeeps DEF Closed
<1>6. CASE Record(r, Finished(R), Idle(E), SkipAfter(ss, R.idx))
  <2> DEFINE sk == SkipAfter(ss, R.idx)
  <2>1. sk \in [Step -> StepRec]
    <3> SUFFICES ASSUME NEW j \in Step PROVE sk[j] \in StepRec
      BY DEF SkipAfter
    <3>1. ss[j] \in StepRec /\ "skipped" \in Status /\ "halt" \in Why
      BY <1>2 DEF Status, Why
    <3>2. [ss[j] EXCEPT !.st = "skipped", !.why = "halt"] \in StepRec
      BY <3>1 DEF StepRec
    <3> QED BY <3>1, <3>2 DEF SkipAfter
  <2>2. StepsOK(sk, shape[R.plan], origin[R.plan])'
    BY <1>2 DEF SkipAfter, StepsOK, StepRec
  <2>3. sk[R.idx] = s
    <3>1. ~(R.idx > R.idx)
      BY <1>1 DEF Step
    <3> QED BY <1>1, <1>2, <3>1 DEF SkipAfter
  <2>4. Closed(sk[R.idx])
    BY <2>3 DEF Closed
  <2> QED BY <1>1, <1>3, <1>6, <2>1, <2>2, <2>4, FinishKeeps
<1>7. CASE ~Halts(s) /\ Loop(r, R, E, ss, R.idx + 1)
  <2>1. \A j \in Step : j < R.idx + 1 => StepDone(ss[j])
    <3>1. StepDone(s)
      BY <1>7 DEF StepDone, Halts
    <3>2. \A j \in Step : j < R.idx => StepDone(steps[R.plan][j])
      BY <1>1 DEF Holds
    <3> QED BY <1>1, <1>2, <3>1, <3>2 DEF Step
  <2>2. R.idx + 1 \in Int /\ R.idx < R.idx + 1
    BY <1>1 DEF Step
  <2> QED BY <1>1, <1>2, <1>3, <1>7, <2>1, <2>2, LoopKeeps
<1> QED BY <1>2, <1>4, <1>5, <1>6, <1>7 DEF AfterStep

-----------------------------------------------------------------------------
(***************************************************************************)
(* The actions of a coroutine.                                             *)
(***************************************************************************)
\* An action of a coroutine that sends nothing and reads the exchange only.
LEMMA Still ==
    ASSUME IInv, UNCHANGED <<phase, crashes, ent, shape, origin, born, nPlans, nRuns, owed>>
    PROVE  /\ \A p : PlanFrame(p)
           /\ UNCHANGED <<order, nOrders>> => ExchangeFrame
<1>1. TypeOK /\ OrdersOK
  BY DEF IInv
<1>2. \A p : PlanFrame(p)
  BY <1>1 DEF TypeOK, PlanFrame
<1>3. UNCHANGED <<order, nOrders>> => ExchangeFrame
  BY <1>1 DEF TypeOK, ExchangeFrame, OrdersOK
<1> QED BY <1>2, <1>3

\* What a working coroutine finds when it is resumed.
LEMMA Resumed ==
    ASSUME IInv, NEW r \in Runs, run[r].pc \in Working
    PROVE  /\ run[r] \in RunRec /\ run[r].idx \in Step /\ run[r].plan \in Plans
           /\ run[r].ent \in Entries /\ EntryOf(r) \in EntryRec
           /\ steps[run[r].plan] \in [Step -> StepRec]
           /\ StepOf(r) \in StepRec /\ KindOf(r) \in StepKind
           /\ Holds(run[r], steps[run[r].plan], shape[run[r].plan], origin[run[r].plan])
           /\ StepsOK(steps[run[r].plan], shape[run[r].plan], origin[run[r].plan])
<1>1. Spawned(r) /\ run[r] \in RunRec
  BY DEF IInv, TypeOK, Spawned, Working
<1>2. /\ run[r].ent \in 1..ent /\ run[r].plan \in 1..nPlans /\ run[r].idx \in Step
      /\ ent \in Entries /\ nPlans \in 0..MaxPlans
  BY <1>1 DEF IInv, TypeOK, Pointers
<1>3. run[r].plan \in Plans /\ run[r].ent \in Entries
  BY <1>2, ConstantsAssumption DEF Plans, Entries
<1>4. entry[run[r].ent] \in EntryRec /\ steps[run[r].plan] \in [Step -> StepRec]
  BY <1>3 DEF IInv, TypeOK
<1>5. shape[run[r].plan] \in [Step -> StepKind]
  BY <1>3, ConstantsAssumption DEF IInv, TypeOK
<1>6. Holds(run[r], steps[run[r].plan], shape[run[r].plan], origin[run[r].plan])
  BY <1>1 DEF IInv, Holding
<1>7. StepsOK(steps[run[r].plan], shape[run[r].plan], origin[run[r].plan])
  BY <1>3 DEF IInv, Fills
<1> QED BY <1>1, <1>2, <1>3, <1>4, <1>5, <1>6, <1>7 DEF EntryOf, StepOf, KindOf

\* executeStep() returning with a closed step record that carries this step's own order,
\* and calls it filled only when the exchange says so, keeps IInv.
LEMMA ClosedKeeps ==
    ASSUME IInv, NEW r \in Runs, run[r].pc \in Working, NEW E \in EntryRec, NEW s \in StepRec,
           E.plan = EntryOf(r).plan, E.proposed = EntryOf(r).proposed,
           E.active => EntryOf(r).active,
           Returns(r, E, s), ExchangeFrame,
           UNCHANGED <<phase, crashes, ent, shape, origin, born, nPlans, nRuns, owed>>,
           s.st \in {"filled", "skipped", "failed"},
           s.ord # 0 => Matches(s.ord, origin[run[r].plan], run[r].idx),
           s.st = "filled" => /\ s.ord # 0
                              /\ order'[s.ord].got # "none"
                              /\ KindOf(r).type = "limit" => order'[s.ord].got = "all"
    PROVE  IInv'
<1>1. PICK R : R = run[r]
  OBVIOUS
<1>2. PICK ss : ss = [steps[R.plan] EXCEPT ![R.idx] = s]
  OBVIOUS
<1>3. /\ R \in RunRec /\ R.idx \in Step /\ R.plan \in Plans
      /\ steps[R.plan] \in [Step -> StepRec]
      /\ StepsOK(steps[R.plan], shape[R.plan], origin[R.plan])
  BY <1>1, Resumed
<1>4. nOrders \in 0..MaxOrders
  BY DEF IInv, TypeOK
<1>5. \A n, a, i : Matches(n, a, i) => Matches(n, a, i)' /\ n \in 1..nOrders
  BY <1>4, ConstantsAssumption DEF Matches, ExchangeFrame
<1>6. StepsOK(ss, shape[R.plan], origin[R.plan])'
  <2> SUFFICES ASSUME NEW i \in Step
               PROVE  /\ ss[i].ord # 0 => Matches(ss[i].ord, origin[R.plan], i)'
                      /\ ss[i].st = "filled" =>
                           /\ ss[i].ord # 0
                           /\ order'[ss[i].ord].got # "none"
                           /\ shape[R.plan][i].type = "limit" => order'[ss[i].ord].got = "all"
    BY DEF StepsOK
  <2>1. CASE i = R.idx
    BY <2>1, <1>1, <1>2, <1>3, <1>5 DEF KindOf
  <2>2. CASE i # R.idx
    <3>1. ss[i] = steps[R.plan][i]
      BY <2>2, <1>2, <1>3
    <3>2. /\ ss[i].ord # 0 => Matches(ss[i].ord, origin[R.plan], i)
          /\ ss[i].st = "filled" =>
               /\ ss[i].ord # 0
               /\ order[ss[i].ord].got # "none"
               /\ shape[R.plan][i].type = "limit" => order[ss[i].ord].got = "all"
      BY <3>1, <1>3 DEF StepsOK
    <3> QED BY <3>2, <1>5 DEF ExchangeFrame
  <2> QED BY <2>1, <2>2
<1>7. PlanFrame(R.plan)
  BY Still
<1> QED BY <1>1, <1>2, <1>6, <1>7, ReturnsKeeps DEF EntryOf

\* A closed copy of a step record is a step record.
LEMMA ClosedStep ==
    ASSUME NEW s \in StepRec, NEW st \in Status, NEW why \in Why
    PROVE  /\ [s EXCEPT !.st = st] \in StepRec /\ [s EXCEPT !.st = st].st = st
           /\ [s EXCEPT !.st = st].ord = s.ord
           /\ [s EXCEPT !.st = st, !.why = why] \in StepRec
           /\ [s EXCEPT !.st = st, !.why = why].st = st
           /\ [s EXCEPT !.st = st, !.why = why].ord = s.ord
BY DEF StepRec

\* So is a skipped one.
LEMMA SkippedStep ==
    ASSUME NEW s \in StepRec, NEW why \in Why, NEW t, t = [s EXCEPT !.st = "skipped", !.why = why]
    PROVE  t \in StepRec /\ t.st = "skipped" /\ t.ord = s.ord
<1>1. "skipped" \in Status
  BY DEF Status
<1> QED BY <1>1 DEF StepRec

\* The order of a step that is being resumed is that step's own.
LEMMA OwnOrder ==
    ASSUME IInv, NEW r \in Runs, run[r].pc \in Working
    PROVE  StepOf(r).ord # 0 => Matches(StepOf(r).ord, origin[run[r].plan], run[r].idx)
BY Resumed DEF StepOf, StepsOK

\* A coroutine whose executeStep() fails, whatever it was waiting for.
LEMMA FailKeeps ==
    ASSUME IInv, NEW r \in Runs, run[r].pc \in Working,
           Returns(r, EntryOf(r), [StepOf(r) EXCEPT !.st = "failed"]), ExchangeFrame,
           UNCHANGED <<phase, crashes, ent, shape, origin, born, nPlans, nRuns, owed>>
    PROVE  IInv'
<1> DEFINE s == [StepOf(r) EXCEPT !.st = "failed"]
<1>1. StepOf(r) \in StepRec /\ EntryOf(r) \in EntryRec
  BY Resumed
<1>2. "failed" \in Status /\ "" \in Why
  BY DEF Status, Why
<1>3. s \in StepRec /\ s.st = "failed" /\ s.ord = StepOf(r).ord
  BY <1>1, <1>2, ClosedStep
<1> HIDE DEF s
<1> QED BY <1>1, <1>3, OwnOrder, ClosedKeeps DEF s

\* A coroutine whose executeStep() reports the fill the exchange reports.
LEMMA FillKeeps ==
    ASSUME IInv, NEW r \in Runs, run[r].pc \in Working,
           Returns(r, EntryOf(r), [StepOf(r) EXCEPT !.st = "filled"]),
           StepOf(r).ord # 0, order[StepOf(r).ord].got # "none",
           KindOf(r).type = "limit" => order[StepOf(r).ord].got = "all",
           UNCHANGED <<phase, crashes, ent, shape, origin, born, order, nPlans, nRuns, nOrders, owed>>
    PROVE  IInv'
<1> DEFINE s == [StepOf(r) EXCEPT !.st = "filled"]
<1>1. StepOf(r) \in StepRec /\ EntryOf(r) \in EntryRec
  BY Resumed
<1>2. "filled" \in Status /\ "" \in Why
  BY DEF Status, Why
<1>3. s \in StepRec /\ s.st = "filled" /\ s.ord = StepOf(r).ord
  BY <1>1, <1>2, ClosedStep
<1>4. ExchangeFrame
  BY Still
<1>5. Returns(r, EntryOf(r), s)
  OBVIOUS
<1> HIDE DEF s
<1> QED BY <1>1, <1>3, <1>4, <1>5, OwnOrder, ClosedKeeps

\* A coroutine that is suspended again leaves its steps alone but for the current one.
\* R is the run before the step, Q after it, and s its step after it.
LEMMA SuspendKeeps ==
    ASSUME IInv, NEW r \in Runs, run[r].pc \in Working, NEW R, NEW Q \in RunRec, NEW s \in StepRec,
           R = run[r], Q.pc \in Working, Q.ent = R.ent, Q.plan = R.plan, Q.idx = R.idx,
           NEW ss, ss = [steps[R.plan] EXCEPT ![R.idx] = s],
           Record(r, Q, EntryOf(r), ss), Notify, ExchangeFrame,
           UNCHANGED <<phase, crashes, ent, shape, origin, born, nPlans, nRuns, owed>>,
           s.st # "filled",
           s.ord # 0 => Matches(s.ord, origin[R.plan], R.idx),
           Q.pc = "placing" => Matches(Q.ord, origin[R.plan], R.idx)',
           Q.pc \in {"settling", "polling", "cancelling"} => s.ord # 0,
           Q.pc = "settling" => KindOf(r).type = "market",
           Q.pc \in {"resolving", "placing", "settling"} => s.st = "executing"
    PROVE  IInv'
<1>1. /\ R \in RunRec /\ R.idx \in Step /\ R.plan \in Plans /\ EntryOf(r) \in EntryRec
      /\ steps[R.plan] \in [Step -> StepRec]
      /\ Holds(R, steps[R.plan], shape[R.plan], origin[R.plan])
      /\ StepsOK(steps[R.plan], shape[R.plan], origin[R.plan])
  BY Resumed
<1>2. nOrders \in 0..MaxOrders /\ \A n, a, i : Matches(n, a, i) => Matches(n, a, i)'
  BY ConstantsAssumption DEF IInv, TypeOK, Matches, ExchangeFrame
<1>3. /\ ss \in [Step -> StepRec] /\ ss[R.idx] = s
      /\ \A i \in Step : i # R.idx => ss[i] = steps[R.plan][i]
  BY <1>1
<1>4. StepsOK(ss, shape[R.plan], origin[R.plan])'
  <2> SUFFICES ASSUME NEW i \in Step
               PROVE  /\ ss[i].ord # 0 => Matches(ss[i].ord, origin[R.plan], i)'
                      /\ ss[i].st = "filled" =>
                           /\ ss[i].ord # 0
                           /\ order'[ss[i].ord].got # "none"
                           /\ shape[R.plan][i].type = "limit" => order'[ss[i].ord].got = "all"
    BY DEF StepsOK
  <2>1. CASE i = R.idx
    BY <2>1, <1>2, <1>3
  <2>2. CASE i # R.idx
    <3>1. /\ ss[i].ord # 0 => Matches(ss[i].ord, origin[R.plan], i)
          /\ ss[i].st = "filled" =>
               /\ ss[i].ord # 0
               /\ order[ss[i].ord].got # "none"
               /\ shape[R.plan][i].type = "limit" => order[ss[i].ord].got = "all"
      BY <2>2, <1>1, <1>3 DEF StepsOK
    <3> QED BY <3>1, <1>2 DEF ExchangeFrame, Matches
  <2> QED BY <2>1, <2>2
<1>5. \A j \in Step : j < R.idx => StepDone(ss[j])
  BY <1>1, <1>3 DEF Holds, Step
<1>6. Holds(Q, ss, shape[Q.plan], origin[Q.plan])'
  BY <1>3, <1>5 DEF Holds, KindOf, Working
<1>7. \A p : PlanFrame(p)
  BY Still
<1>8. Alone(r, R, EntryOf(r))
  BY <1>1, <1>7, RunAt DEF EntryOf
<1>9. Alone(r, Q, EntryOf(r))
  BY <1>8 DEF Alone
<1>10. Q.pc # "none" /\ StepsOK(ss, shape[Q.plan], origin[Q.plan])'
  BY <1>4 DEF Working
<1> QED BY <1>1, <1>3, <1>6, <1>7, <1>9, <1>10, RecordKeeps DEF Notify, NotifyIn
\* A coroutine that only moves on: its steps and its entry stay.
LEMMA MoveKeeps ==
    ASSUME IInv, NEW r \in Runs, NEW Q \in RunRec,
           run[r].pc \in Working, Q.pc \in Working, Q.pc # "settling",
           Q.ent = run[r].ent, Q.plan = run[r].plan, Q.idx = run[r].idx,
           run' = [run EXCEPT ![r] = Q], UNCHANGED <<entry, steps>>, Notify, ExchangeFrame,
           UNCHANGED <<phase, crashes, ent, shape, origin, born, nPlans, nRuns, owed>>,
           Q.pc = "placing" => Matches(Q.ord, origin[Q.plan], Q.idx)',
           Q.pc \in {"polling", "cancelling"} => StepOf(r).ord # 0,
           Q.pc \in {"resolving", "placing"} => StepOf(r).st = "executing"
    PROVE  IInv'
<1>1. PICK R : R = run[r]
  OBVIOUS
<1>2. PICK ss : ss = steps[R.plan]
  OBVIOUS
<1>3. /\ R \in RunRec /\ R.idx \in Step /\ R.plan \in Plans /\ EntryOf(r) \in EntryRec
      /\ ss \in [Step -> StepRec] /\ R.ent \in Entries
      /\ Holds(R, ss, shape[R.plan], origin[R.plan])
      /\ StepsOK(ss, shape[R.plan], origin[R.plan])
  BY <1>1, <1>2, Resumed
<1>4. nOrders \in 0..MaxOrders /\ \A n, a, i : Matches(n, a, i) => Matches(n, a, i)'
  BY ConstantsAssumption DEF IInv, TypeOK, Matches, ExchangeFrame
<1>5. StepsOK(ss, shape[Q.plan], origin[Q.plan])'
  <2> SUFFICES ASSUME NEW i \in Step
               PROVE  /\ ss[i].ord # 0 => Matches(ss[i].ord, origin[Q.plan], i)'
                      /\ ss[i].st = "filled" =>
                           /\ ss[i].ord # 0
                           /\ order'[ss[i].ord].got # "none"
                           /\ shape[Q.plan][i].type = "limit" => order'[ss[i].ord].got = "all"
    BY DEF StepsOK
  <2>1. /\ ss[i].ord # 0 => Matches(ss[i].ord, origin[R.plan], i)
        /\ ss[i].st = "filled" =>
             /\ ss[i].ord # 0
             /\ order[ss[i].ord].got # "none"
             /\ shape[R.plan][i].type = "limit" => order[ss[i].ord].got = "all"
    BY <1>3 DEF StepsOK
  <2> QED BY <2>1, <1>1, <1>4 DEF ExchangeFrame, Matches
<1>6. Holds(Q, ss, shape[Q.plan], origin[Q.plan])'
  BY <1>1, <1>2, <1>3 DEF Holds, StepOf, Working
<1>7. \A p : PlanFrame(p)
  BY Still
<1>8. Alone(r, R, EntryOf(r))
  BY <1>1, <1>3, <1>7, RunAt DEF EntryOf
<1>9. Alone(r, Q, EntryOf(r))
  BY <1>1, <1>8 DEF Alone
<1>10. Record(r, Q, EntryOf(r), ss)
  BY <1>1, <1>2, <1>3 DEF Record, EntryOf, IInv, TypeOK
<1>11. Q.pc # "none"
  BY DEF Working
<1> QED BY <1>1, <1>3, <1>5, <1>6, <1>7, <1>9, <1>10, <1>11, RecordKeeps DEF Notify, NotifyIn

\* executeStep() that finds no balance skips or fails its step and keeps IInv.
LEMMA ResolveEmptyKeeps ==
    ASSUME IInv, NEW r \in Runs, ResolveEmpty(r) PROVE IInv'
<1> DEFINE s == [StepOf(r) EXCEPT !.st = "skipped", !.why = "zero"]
<1>1. run[r].pc \in Working
  BY DEF ResolveEmpty, At, Working
<1>2. ExchangeFrame
  BY Still DEF ResolveEmpty
<1>3. StepOf(r) \in StepRec /\ EntryOf(r) \in EntryRec
  BY <1>1, Resumed
<1>4. "zero" \in Why
  BY DEF Why
<1>5. s \in StepRec /\ s.st = "skipped" /\ s.ord = StepOf(r).ord
  BY <1>3, <1>4, SkippedStep
<1>6. CASE Returns(r, EntryOf(r), s)
  <2> HIDE DEF s
  <2> QED BY <1>1, <1>2, <1>3, <1>5, <1>6, OwnOrder, ClosedKeeps DEF ResolveEmpty
<1>7. CASE Returns(r, EntryOf(r), [StepOf(r) EXCEPT !.st = "failed"])
  BY <1>1, <1>2, <1>7, FailKeeps DEF ResolveEmpty
<1> QED BY <1>6, <1>7 DEF ResolveEmpty

\* A placeOrder() that throws fails its step and keeps IInv.
LEMMA PlaceFailsKeeps ==
    ASSUME IInv, NEW r \in Runs, PlaceFails(r) PROVE IInv'
<1>1. run[r].pc \in Working
  BY DEF PlaceFails, At, Working
<1>2. ExchangeFrame
  BY Still DEF PlaceFails
<1> QED BY <1>1, <1>2, FailKeeps DEF PlaceFails

\* Reading the settlement of a market order keeps IInv.
LEMMA SettleKeeps ==
    ASSUME IInv, NEW r \in Runs, Settle(r) PROVE IInv'
<1>1. run[r].pc \in Working /\ run[r].pc = "settling"
  BY DEF Settle, At, Working
<1>2. ExchangeFrame
  BY Still DEF Settle
<1>3. StepOf(r).ord # 0 /\ KindOf(r).type # "limit"
  BY <1>1, Resumed DEF Holds, StepOf, KindOf
<1>4. CASE Returns(r, EntryOf(r), [StepOf(r) EXCEPT !.st = "failed"])
  BY <1>1, <1>2, <1>4, FailKeeps DEF Settle
<1>5. CASE /\ order[StepOf(r).ord].got # "none"
           /\ Returns(r, EntryOf(r), [StepOf(r) EXCEPT !.st = "filled"])
  BY <1>1, <1>3, <1>5, FillKeeps DEF Settle
<1> QED BY <1>4, <1>5 DEF Settle

\* A poll of waitForFill() that finds the order over keeps IInv.
LEMMA PollEndedKeeps ==
    ASSUME IInv, NEW r \in Runs, PollEnded(r) PROVE IInv'
<1>1. run[r].pc \in Working /\ run[r].pc = "polling"
  BY DEF PollEnded, At, Working
<1>2. ExchangeFrame
  BY Still DEF PollEnded
<1>3. StepOf(r).ord # 0 /\ StepOf(r).ord \in 1..nOrders /\ nOrders \in 0..MaxOrders
  BY <1>1, Resumed, OwnOrder DEF Holds, StepOf, Matches, IInv, TypeOK
<1>4. StepOf(r).ord \in Orders
  BY <1>3, ConstantsAssumption DEF Orders
<1>5. CASE Returns(r, EntryOf(r), [StepOf(r) EXCEPT !.st = "failed"])
  BY <1>1, <1>2, <1>5, FailKeeps DEF PollEnded
<1>6. CASE /\ order[StepOf(r).ord].st = "filled"
           /\ Returns(r, EntryOf(r), [StepOf(r) EXCEPT !.st = "filled"])
  <2>1. order[StepOf(r).ord].got = "all"
    BY <1>4, <1>6 DEF IInv, OrdersOK
  <2> QED BY <1>1, <1>3, <1>6, <2>1, FillKeeps DEF PollEnded
<1> QED BY <1>5, <1>6 DEF PollEnded

\* The return of waitForFill() after the time-stop's cancel keeps IInv.
LEMMA TimeStoppedKeeps ==
    ASSUME IInv, NEW r \in Runs, TimeStopped(r) PROVE IInv'
<1> DEFINE o == StepOf(r).ord
           s == [StepOf(r) EXCEPT !.st = "skipped", !.why = "timestop"]
           E == [EntryOf(r) EXCEPT !.halt = TRUE]
<1>1. run[r].pc \in Working
  BY DEF TimeStopped, At, Working
<1>2. ExchangeFrame
  <2>1. TypeOK /\ OrdersOK
    BY DEF IInv
  <2>2. CASE UNCHANGED order
    BY <2>2, Still DEF TimeStopped
  <2>3. CASE order[o].st = "live" /\ order' = [order EXCEPT ![o].st = "cancelled"]
    <3>1. order' \in [Orders -> OrderRec]
      <4>1. order \in [Orders -> OrderRec]
        BY <2>1 DEF TypeOK
      <4>2. \A x \in Orders : [order[x] EXCEPT !.st = "cancelled"] \in OrderRec
        BY <4>1 DEF OrderRec
      <4> QED BY <2>3, <4>1, <4>2
    <3>2. \A q \in Orders : /\ order'[q].plan = order[q].plan /\ order'[q].idx = order[q].idx
                            /\ order'[q].got = order[q].got
                            /\ order'[q].st = order[q].st \/ order'[q].st = "cancelled"
      BY <2>1, <2>3 DEF TypeOK, OrderRec
    <3>3. nOrders' = nOrders /\ nOrders \in 0..MaxOrders
      BY <2>1 DEF TimeStopped, TypeOK
    <3>4. \A q \in 1..nOrders : q \in Orders
      BY <3>3, ConstantsAssumption DEF Orders
    <3>5. OrdersOK'
      BY <2>1, <3>2 DEF OrdersOK
    <3> QED BY <3>1, <3>2, <3>3, <3>4, <3>5 DEF ExchangeFrame
  <2> QED BY <2>2, <2>3 DEF TimeStopped
<1>3. StepOf(r) \in StepRec /\ EntryOf(r) \in EntryRec
  BY <1>1, Resumed
<1>4. "timestop" \in Why
  BY DEF Why
<1>5. s \in StepRec /\ s.st = "skipped" /\ s.ord = StepOf(r).ord
  BY <1>3, <1>4, SkippedStep
<1>6. E \in EntryRec /\ E.plan = EntryOf(r).plan /\ E.proposed = EntryOf(r).proposed
      /\ E.active = EntryOf(r).active
  BY <1>3 DEF EntryRec
<1>7. CASE Returns(r, E, s)
  <2> HIDE DEF s, E
  <2> QED BY <1>1, <1>2, <1>3, <1>5, <1>6, <1>7, OwnOrder, ClosedKeeps DEF TimeStopped
<1>8. CASE Returns(r, EntryOf(r), [StepOf(r) EXCEPT !.st = "failed"])
  BY <1>1, <1>2, <1>8, FailKeeps DEF TimeStopped
<1> QED BY <1>7, <1>8 DEF TimeStopped

\* A poll of waitForFill() that goes on, or gives up on an aborted entry, keeps IInv.
LEMMA PollAgainKeeps ==
    ASSUME IInv, NEW r \in Runs, PollAgain(r) PROVE IInv'
<1>1. run[r].pc \in Working /\ run[r].pc = "polling" /\ run[r].polls < MaxPolls
  BY DEF PollAgain, At, Working
<1>2. ExchangeFrame
  BY Still DEF PollAgain
<1>3. CASE Returns(r, EntryOf(r), [StepOf(r) EXCEPT !.st = "failed"])
  BY <1>1, <1>2, <1>3, FailKeeps DEF PollAgain
<1>4. CASE run' = [run EXCEPT ![r].polls = @ + 1] /\ UNCHANGED <<entry, steps>> /\ Notify
  <2>1. PICK Q : Q = [run[r] EXCEPT !.polls = @ + 1]
    OBVIOUS
  <2>2. run[r] \in RunRec /\ run[r].polls + 1 \in 0..MaxPolls
    BY <1>1, Resumed, ConstantsAssumption DEF RunRec
  <2>3. /\ Q \in RunRec /\ Q.pc = "polling"
        /\ Q.ent = run[r].ent /\ Q.plan = run[r].plan /\ Q.idx = run[r].idx
    BY <1>1, <2>1, <2>2 DEF RunRec
  <2>4. run' = [run EXCEPT ![r] = Q]
    BY <1>4, <2>1
  <2>5. StepOf(r).ord # 0
    BY <1>1, Resumed DEF Holds, StepOf
  <2>6. Q.pc \in Working
    BY <2>3 DEF Working
  <2> QED BY <1>1, <1>2, <1>4, <2>3, <2>4, <2>5, <2>6, MoveKeeps DEF PollAgain
<1> QED BY <1>3, <1>4 DEF PollAgain

\* Reaching the time-stop and sending its cancel keeps IInv.
LEMMA TimeStopKeeps ==
    ASSUME IInv, NEW r \in Runs, TimeStop(r) PROVE IInv'
<1>1. run[r].pc \in Working /\ run[r].pc = "polling"
  BY DEF TimeStop, At, Working
<1>2. ExchangeFrame
  BY Still DEF TimeStop
<1>3. PICK Q : Q = [run[r] EXCEPT !.pc = "cancelling"]
  OBVIOUS
<1>4. run[r] \in RunRec /\ "cancelling" \in Pc
  BY <1>1, Resumed DEF Pc
<1>5. /\ Q \in RunRec /\ Q.pc = "cancelling"
      /\ Q.ent = run[r].ent /\ Q.plan = run[r].plan /\ Q.idx = run[r].idx
  BY <1>3, <1>4 DEF RunRec
<1>6. run' = [run EXCEPT ![r] = Q]
  BY <1>3 DEF TimeStop
<1>7. StepOf(r).ord # 0
  BY <1>1, Resumed DEF Holds, StepOf
<1>8. Q.pc \in Working
  BY <1>5 DEF Working
<1> QED BY <1>1, <1>2, <1>5, <1>6, <1>7, <1>8, MoveKeeps DEF TimeStop

\* placeOrder() sending its request under a new order number keeps IInv.
LEMMA SendKeeps ==
    ASSUME IInv, NEW r \in Runs, Send(r) PROVE IInv'
<1>1. run[r].pc \in Working /\ nOrders < MaxOrders /\ nOrders' = nOrders + 1
  BY DEF Send, At, Working
<1>2. /\ run[r] \in RunRec /\ run[r].idx \in Step /\ run[r].plan \in Plans
      /\ nOrders \in 0..MaxOrders /\ order \in [Orders -> OrderRec] /\ OrdersOK
      /\ origin \in [Plans -> Plans] /\ born \in [Plans -> 0..MaxCrashes]
  BY <1>1, Resumed DEF IInv, TypeOK
<1>3. PICK n : n = nOrders + 1
  OBVIOUS
<1>4. n \in 1..MaxOrders /\ n \in Orders /\ n \in 0..MaxOrders
  BY <1>1, <1>2, <1>3, ConstantsAssumption DEF Orders
<1>5. PICK rec : rec = [st |-> "sent", got |-> "none",
                        plan |-> origin[run[r].plan], idx |-> run[r].idx,
                        by |-> run[r].plan, life |-> crashes]
  OBVIOUS
<1>6. rec \in OrderRec
  <2>1. origin[run[r].plan] \in 0..MaxPlans
    <3>1. origin[run[r].plan] \in Plans
      BY <1>2
    <3> QED BY <3>1, ConstantsAssumption DEF Plans
  <2>2. run[r].idx \in 0..NSteps
    BY <1>2, ConstantsAssumption DEF Step
  <2>3. run[r].plan \in 0..MaxPlans /\ crashes \in 0..MaxCrashes
    BY <1>2, ConstantsAssumption DEF Plans, IInv, TypeOK
  <2> QED BY <1>5, <2>1, <2>2, <2>3 DEF OrderRec
<1>7. order' = [order EXCEPT ![n] = rec]
  BY <1>3, <1>5 DEF Send
<1>8. /\ order' \in [Orders -> OrderRec] /\ order'[n] = rec
      /\ \A o \in Orders : o # n => order'[o] = order[o]
  BY <1>2, <1>4, <1>6, <1>7
<1>9. ExchangeFrame
  <2>1. \A o \in 1..nOrders : o # n /\ o \in Orders
    BY <1>2, <1>3, ConstantsAssumption DEF Orders
  <2>2. OrdersOK'
    BY <1>2, <1>5, <1>8 DEF OrdersOK
  <2>3. nOrders' \in nOrders..MaxOrders
    BY <1>1, <1>2, ConstantsAssumption
  <2> QED BY <1>8, <2>1, <2>2, <2>3 DEF ExchangeFrame
<1>10. PICK Q : Q = [run[r] EXCEPT !.pc = "placing", !.ord = n]
  OBVIOUS
<1>11. /\ Q \in RunRec /\ Q.pc = "placing" /\ Q.ord = n
       /\ Q.ent = run[r].ent /\ Q.plan = run[r].plan /\ Q.idx = run[r].idx
  <2>1. "placing" \in Pc
    BY DEF Pc
  <2> QED BY <1>2, <1>4, <1>10, <2>1 DEF RunRec
<1>12. run' = [run EXCEPT ![r] = Q]
  BY <1>3, <1>10 DEF Send
<1>13. Matches(Q.ord, origin[Q.plan], Q.idx)'
  BY <1>1, <1>3, <1>4, <1>5, <1>8, <1>11 DEF Matches, Send
<1>14. Q.pc \in Working
  BY <1>11 DEF Working
<1>15. StepOf(r).st = "executing"
  BY <1>1, Resumed DEF Holds, StepOf, Send, At
<1> QED BY <1>1, <1>9, <1>11, <1>12, <1>13, <1>14, <1>15, MoveKeeps DEF Send

\* The answer of placeOrder(), which gives the step its order id, keeps IInv.
LEMMA PlacedKeeps ==
    ASSUME IInv, NEW r \in Runs, Placed(r) PROVE IInv'
<1>1. run[r].pc \in Working /\ run[r].pc = "placing"
  BY DEF Placed, At, Working
<1>2. ExchangeFrame
  BY Still DEF Placed
<1>3. /\ run[r] \in RunRec /\ run[r].idx \in Step /\ run[r].plan \in Plans
      /\ StepOf(r) \in StepRec /\ EntryOf(r) \in EntryRec
      /\ steps[run[r].plan] \in [Step -> StepRec]
      /\ Holds(run[r], steps[run[r].plan], shape[run[r].plan], origin[run[r].plan])
      /\ nOrders \in 0..MaxOrders /\ 0 \in 0..MaxOrders
  BY <1>1, Resumed, ConstantsAssumption DEF IInv, TypeOK
<1>4. PICK n : n = run[r].ord
  OBVIOUS
<1>5. Matches(n, origin[run[r].plan], run[r].idx) /\ n # 0 /\ n \in 0..MaxOrders
  <2>1. Matches(n, origin[run[r].plan], run[r].idx)
    BY <1>1, <1>3, <1>4 DEF Holds
  <2> QED BY <1>3, <2>1, ConstantsAssumption DEF Matches
<1>6. StepOf(r).st \in Status
  BY <1>3 DEF StepRec
<1>7. CASE /\ KindOf(r).type = "limit"
           /\ Returns(r, EntryOf(r), [[StepOf(r) EXCEPT !.ord = n] EXCEPT !.st = "failed"])
  <2>1. PICK s : s = [[StepOf(r) EXCEPT !.ord = n] EXCEPT !.st = "failed"]
    OBVIOUS
  <2>2. s \in StepRec /\ s.st = "failed" /\ s.ord = n
    BY <1>3, <1>5, <2>1 DEF StepRec, Status
  <2> QED BY <1>1, <1>2, <1>3, <1>5, <1>7, <2>1, <2>2, ClosedKeeps DEF Placed
<1>8. CASE /\ KindOf(r).type = "market"
           /\ Record(r, [run[r] EXCEPT !.pc = "settling", !.ord = 0], EntryOf(r),
                     [steps[run[r].plan] EXCEPT ![run[r].idx] = [StepOf(r) EXCEPT !.ord = n]])
           /\ Notify
  <2>1. PICK s : s = [StepOf(r) EXCEPT !.ord = n]
    OBVIOUS
  <2>2. PICK Q : Q = [run[r] EXCEPT !.pc = "settling", !.ord = 0]
    OBVIOUS
  <2>3. s \in StepRec /\ s.ord = n /\ s.st = StepOf(r).st
    BY <1>3, <1>5, <2>1 DEF StepRec
  <2>4. /\ Q \in RunRec /\ Q.pc = "settling"
        /\ Q.ent = run[r].ent /\ Q.plan = run[r].plan /\ Q.idx = run[r].idx
    <3>1. "settling" \in Pc
      BY DEF Pc
    <3> QED BY <1>3, <2>2, <3>1 DEF RunRec
  <2>5. Q.pc \in Working
    BY <2>4 DEF Working
  <2>6. s.st = "executing"
    BY <1>1, <1>3, <2>3 DEF Holds, StepOf
  <2> QED BY <1>1, <1>2, <1>5, <1>8, <2>1, <2>2, <2>3, <2>4, <2>5, <2>6, SuspendKeeps DEF Placed
<1>9. CASE /\ KindOf(r).type = "limit"
           /\ Record(r, [run[r] EXCEPT !.pc = "polling", !.ord = 0], EntryOf(r),
                     [steps[run[r].plan] EXCEPT ![run[r].idx] =
                         [[StepOf(r) EXCEPT !.ord = n] EXCEPT !.st = "monitoring"]])
           /\ Notify
  <2>1. PICK s : s = [[StepOf(r) EXCEPT !.ord = n] EXCEPT !.st = "monitoring"]
    OBVIOUS
  <2>2. PICK Q : Q = [run[r] EXCEPT !.pc = "polling", !.ord = 0]
    OBVIOUS
  <2>3. s \in StepRec /\ s.ord = n /\ s.st = "monitoring"
    BY <1>3, <1>5, <2>1 DEF StepRec, Status
  <2>4. /\ Q \in RunRec /\ Q.pc = "polling"
        /\ Q.ent = run[r].ent /\ Q.plan = run[r].plan /\ Q.idx = run[r].idx
    <3>1. "polling" \in Pc
      BY DEF Pc
    <3> QED BY <1>3, <2>2, <3>1 DEF RunRec
  <2>5. Q.pc \in Working
    BY <2>4 DEF Working
  <2> QED BY <1>1, <1>2, <1>5, <1>9, <2>1, <2>2, <2>3, <2>4, <2>5, SuspendKeeps DEF Placed
<1> QED BY <1>4, <1>7, <1>8, <1>9 DEF Placed

-----------------------------------------------------------------------------
(***************************************************************************)
(* The exchange, and steps that change nothing but the phase.              *)
(***************************************************************************)
\* What is known of an array of steps stays true as news of the orders comes in.
LEMMA StepsStay ==
    ASSUME IInv, ExchangeFrame, NEW ss, NEW sh, NEW p, StepsOK(ss, sh, p)
    PROVE  StepsOK(ss, sh, p)'
<1>1. nOrders \in 0..MaxOrders /\ \A n, a, i : Matches(n, a, i) => Matches(n, a, i)'
  BY ConstantsAssumption DEF IInv, TypeOK, Matches, ExchangeFrame
<1>2. SUFFICES ASSUME NEW i \in Step
               PROVE  /\ ss[i].ord # 0 => Matches(ss[i].ord, p, i)'
                      /\ ss[i].st = "filled" =>
                           /\ ss[i].ord # 0
                           /\ order'[ss[i].ord].got # "none"
                           /\ sh[i].type = "limit" => order'[ss[i].ord].got = "all"
  BY DEF StepsOK
<1> QED BY <1>1 DEF StepsOK, ExchangeFrame, Matches

\* News of orders, or none, keeps IInv.
LEMMA NewsKeeps ==
    ASSUME IInv, ExchangeFrame, phase' \in {"booting", "up"},
           UNCHANGED <<crashes, ent, entry, steps, shape, origin, born, run, nPlans, nRuns, disk, owed>>
    PROVE  IInv'
<1>1. nOrders \in 0..MaxOrders /\ \A n, a, i : Matches(n, a, i) => Matches(n, a, i)'
  BY ConstantsAssumption DEF IInv, TypeOK, Matches, ExchangeFrame
<1>3. TypeOK'
  <2>1. nOrders' \in 0..MaxOrders
    BY <1>1, ConstantsAssumption DEF ExchangeFrame
  <2> QED BY <2>1 DEF IInv, TypeOK, ExchangeFrame
<1>4. Pointers' /\ OwnPlan'
  BY DEF IInv, Pointers, OwnPlan, Spawned
<1>5. Fills'
  <2>1. ASSUME NEW p \in Plans PROVE StepsOK(steps[p], shape[p], origin[p])'
    <3>1. PICK ss, sh, og : ss = steps[p] /\ sh = shape[p] /\ og = origin[p]
      OBVIOUS
    <3>2. StepsOK(ss, sh, og)'
      BY <3>1, StepsStay DEF IInv, Fills
    <3> QED BY <3>1, <3>2 DEF StepsOK
  <2>2. ASSUME disk'.kind # "none"
        PROVE  StepsOK(disk.steps, shape[disk.plan], origin[disk.plan])'
    <3>1. PICK ss, sh, og : ss = disk.steps /\ sh = shape[disk.plan] /\ og = origin[disk.plan]
      OBVIOUS
    <3>2. StepsOK(ss, sh, og)'
      BY <2>2, <3>1, StepsStay DEF IInv, Fills
    <3> QED BY <3>1, <3>2 DEF StepsOK
  <2> QED BY <2>1, <2>2 DEF Fills
<1>6. Holding'
  BY <1>1 DEF IInv, Holding, Holds, Spawned
<1> QED BY <1>3, <1>4, <1>5, <1>6 DEF IInv, ExchangeFrame

\* Whatever the exchange does to an order keeps IInv.
LEMMA ExchangeKeeps ==
    ASSUME IInv, NEW o \in Orders, Exchange(o) PROVE IInv'
<1>1. order \in [Orders -> OrderRec] /\ OrdersOK /\ nOrders \in 0..MaxOrders /\ phase \in {"booting", "up"}
  BY DEF IInv, TypeOK
<1>2. PICK st \in {"live", "filled", "cancelled", "rejected"}, got \in {"none", "part", "all"} :
        /\ order' = [order EXCEPT ![o].st = st, ![o].got = got]
        /\ st = "filled" => got = "all"
        /\ got # order[o].got => order[o].got # "all"
        /\ got = "none" => order[o].got = "none"
  BY <1>1 DEF Exchange, OrdersOK, OrderRec
<1>3. order' = [order EXCEPT ![o] = [order[o] EXCEPT !.st = st, !.got = got]]
  BY <1>1, <1>2
<1>4. [order[o] EXCEPT !.st = st, !.got = got] \in OrderRec
  BY <1>1 DEF OrderRec
<1>5. /\ order' \in [Orders -> OrderRec] /\ order'[o] = [order[o] EXCEPT !.st = st, !.got = got]
      /\ \A q \in Orders : q # o => order'[q] = order[q]
  BY <1>1, <1>3, <1>4
<1>6. order'[o].plan = order[o].plan /\ order'[o].idx = order[o].idx
      /\ order'[o].st = st /\ order'[o].got = got
  BY <1>1, <1>5 DEF OrderRec
<1>7. OrdersOK'
  BY <1>1, <1>2, <1>5, <1>6 DEF OrdersOK
<1>8. ExchangeFrame
  <2>1. nOrders' = nOrders /\ \A q \in 1..nOrders : q \in Orders
    BY <1>1, ConstantsAssumption DEF Exchange, Orders
  <2>2. nOrders' \in nOrders..MaxOrders
    BY <1>1, <2>1, ConstantsAssumption
  <2>3. order'[o].got # order[o].got => order[o].got # "all"
    BY <1>2, <1>6
  <2>4. order[o].got # "none" => order'[o].got # "none"
    BY <1>2, <1>6
  <2> QED BY <1>5, <1>6, <1>7, <2>1, <2>2, <2>3, <2>4 DEF ExchangeFrame
<1> QED BY <1>1, <1>8, NewsKeeps DEF Exchange

-----------------------------------------------------------------------------
(***************************************************************************)
(* The calls.                                                              *)
(***************************************************************************)
\* Two arrays that differ in approvals and reasons only.
SameProgress(ss, ts) == \A i \in Step : ts[i].st = ss[i].st /\ ts[i].ord = ss[i].ord

\* A call that spawns no coroutine and leaves where the coroutines are in their plans.
LEMMA CallKeeps ==
    ASSUME IInv, UNCHANGED <<run, order, nOrders, nRuns, crashes, owed>>,
           phase' \in {"booting", "up"}, ent' \in Entries, ent' >= ent,
           entry' \in [Entries -> EntryRec], steps' \in [Plans -> [Step -> StepRec]],
           shape' \in [Plans -> Shapes], origin' \in [Plans -> Plans], born' \in [Plans -> 0..MaxCrashes],
           nPlans' \in nPlans..MaxPlans,
           disk' = Image(entry'[ent'], steps'),
           \A e \in Entries : /\ entry'[e].plan <= nPlans'
                              /\ (entry'[e].active \/ entry'[e].proposed) => entry'[e].plan >= 1
                              /\ e > ent' => ~entry'[e].proposed,
           entry'[ent'].proposed => \A q \in Runs : Spawned(q) => run[q].plan # entry'[ent'].plan,
           \A q \in Runs : Spawned(q) => /\ SameProgress(steps[run[q].plan], steps'[run[q].plan])
                                         /\ shape'[run[q].plan] = shape[run[q].plan]
                                         /\ origin'[run[q].plan] = origin[run[q].plan],
           \A p \in Plans : StepsOK(steps[p], shape[p], origin[p])'
    PROVE  IInv'
<1>1. TypeOK /\ nPlans \in 0..MaxPlans /\ ent \in Entries
  BY DEF IInv, TypeOK
<1>2. nPlans' \in 0..MaxPlans /\ nPlans' >= nPlans
  BY <1>1, ConstantsAssumption
<1>3. entry'[ent'] \in EntryRec /\ entry'[ent'].plan \in 0..MaxPlans
  BY DEF EntryRec
<1>4. (entry'[ent'].active \/ entry'[ent'].proposed) => entry'[ent'].plan \in Plans
  BY <1>3, ConstantsAssumption DEF Plans
<1>5. disk' \in DiskRec
  BY <1>3, <1>4, ImageType
<1>6. /\ disk'.plan <= nPlans'
      /\ disk'.kind # "none" => disk'.plan >= 1
      /\ disk'.kind # "none" => disk'.plan \in Plans /\ disk'.steps = steps'[disk'.plan]
  BY <1>2, <1>3, <1>4 DEF Image, NoPlan
<1>7. TypeOK'
  BY <1>1, <1>2, <1>5 DEF TypeOK
<1>8. Pointers'
  <2>1. \A q \in Runs : Spawned(q)' => run'[q].ent \in 1..ent' /\ run'[q].plan \in 1..nPlans'
    BY <1>1, <1>2, ConstantsAssumption DEF IInv, Pointers, Spawned, Entries
  <2>2. \A q \in Runs : run'[q].pc \in Working => run'[q].idx \in Step
    BY DEF IInv, Pointers
  <2> QED BY <1>6, <2>1, <2>2 DEF Pointers, Spawned
<1>9. OwnPlan'
  BY DEF IInv, OwnPlan, Spawned
<1>10. Fills'
  BY <1>6 DEF Fills
<1>11. Holding'
  <2> SUFFICES ASSUME NEW q \in Runs, Spawned(q)
               PROVE  Holds(run[q], steps[run[q].plan], shape[run[q].plan], origin[run[q].plan])'
    BY DEF Holding, Spawned
  <2>1. run[q].pc \in Working => run[q].idx \in Step
    BY DEF IInv, Pointers
  <2>2. run[q].idx # 0 => run[q].idx \in Step
    <3>1. run[q] \in RunRec
      BY <1>1 DEF TypeOK
    <3> QED BY <3>1, ConstantsAssumption DEF RunRec, Step
  <2>3. Holds(run[q], steps[run[q].plan], shape[run[q].plan], origin[run[q].plan])
    BY DEF IInv, Holding
  <2>4. /\ SameProgress(steps[run[q].plan], steps'[run[q].plan])
        /\ shape'[run[q].plan] = shape[run[q].plan] /\ origin'[run[q].plan] = origin[run[q].plan]
    OBVIOUS
  <2>5. \A j \in Step : /\ StepDone(steps'[run[q].plan][j]) = StepDone(steps[run[q].plan][j])
                        /\ Closed(steps'[run[q].plan][j]) = Closed(steps[run[q].plan][j])
    BY <2>4 DEF SameProgress, StepDone, Closed
  <2> QED BY <2>1, <2>2, <2>3, <2>4, <2>5 DEF SameProgress, Holds, Matches, Working
<1>12. OrdersOK'
  BY DEF IInv, OrdersOK
<1> QED BY <1>7, <1>8, <1>9, <1>10, <1>11, <1>12 DEF IInv

\* The plans and entries of the state before a call.
LEMMA CallFacts ==
    ASSUME IInv
    PROVE  /\ ent \in Entries /\ nPlans \in 0..MaxPlans /\ entry \in [Entries -> EntryRec]
           /\ entry[ent] \in EntryRec /\ phase \in {"booting", "up"}
           /\ steps \in [Plans -> [Step -> StepRec]] /\ Fresh \in [Step -> StepRec]
           /\ shape \in [Plans -> Shapes] /\ origin \in [Plans -> Plans] /\ born \in [Plans -> 0..MaxCrashes]
           /\ \A q \in Runs : Spawned(q) => run[q].plan \in Plans /\ run[q].plan <= nPlans
           /\ \A e \in Entries : /\ entry[e].plan \in 0..MaxPlans /\ entry[e].plan <= nPlans
                                 /\ (entry[e].active \/ entry[e].proposed) =>
                                        entry[e].plan >= 1 /\ entry[e].plan \in Plans
                                 /\ e > ent => ~entry[e].proposed
           /\ \A p \in Plans : StepsOK(steps[p], shape[p], origin[p])
<1>1. /\ ent \in Entries /\ nPlans \in 0..MaxPlans /\ entry \in [Entries -> EntryRec]
      /\ phase \in {"booting", "up"}
      /\ steps \in [Plans -> [Step -> StepRec]]
      /\ shape \in [Plans -> Shapes] /\ origin \in [Plans -> Plans] /\ born \in [Plans -> 0..MaxCrashes]
  BY DEF IInv, TypeOK
<1>2. Fresh \in [Step -> StepRec]
  <2>1. 0 \in 0..MaxOrders /\ "pending" \in Status /\ "" \in Why
    BY ConstantsAssumption DEF Status, Why
  <2> QED BY <2>1 DEF Fresh, NewStep, StepRec
<1>3. \A q \in Runs : Spawned(q) => run[q].plan \in Plans /\ run[q].plan <= nPlans
  BY <1>1, ConstantsAssumption DEF IInv, Pointers, Plans
<1>4. \A e \in Entries : /\ entry[e].plan \in 0..MaxPlans /\ entry[e].plan <= nPlans
                         /\ (entry[e].active \/ entry[e].proposed) =>
                                entry[e].plan >= 1 /\ entry[e].plan \in Plans
                         /\ e > ent => ~entry[e].proposed
  BY <1>1, ConstantsAssumption DEF IInv, Pointers, EntryRec, Plans
<1>5. \A p \in Plans : StepsOK(steps[p], shape[p], origin[p])
  BY DEF IInv, Fills
<1> QED BY <1>1, <1>2, <1>3, <1>4, <1>5

\* stop() keeps IInv.
LEMMA StopKeeps ==
    ASSUME IInv, Stop PROVE IInv'
<1>1. PICK E : E = [entry[ent] EXCEPT !.aborted = TRUE, !.active = FALSE]
  OBVIOUS
<1>2. /\ E \in EntryRec /\ ~E.active /\ E.proposed = entry[ent].proposed
      /\ E.plan = entry[ent].plan
  BY <1>1, CallFacts DEF EntryRec
<1>3. /\ entry' \in [Entries -> EntryRec] /\ entry'[ent] = E
      /\ \A e \in Entries : e # ent => entry'[e] = entry[e]
  BY <1>1, <1>2, CallFacts DEF Stop
<1>4. /\ UNCHANGED <<phase, crashes, ent, steps, shape, origin, born, run, order, nPlans, nRuns, nOrders, owed>>
      /\ disk' = Image(entry'[ent'], steps')
  BY DEF Stop, Notify, NotifyIn
<1>5. ent' >= ent /\ nPlans' \in nPlans..MaxPlans
  BY <1>4, CallFacts, ConstantsAssumption DEF Entries
<1>6. \A e \in Entries : /\ entry'[e].plan <= nPlans'
                         /\ (entry'[e].active \/ entry'[e].proposed) => entry'[e].plan >= 1
                         /\ e > ent' => ~entry'[e].proposed
  BY <1>2, <1>3, <1>4, CallFacts DEF Entries
<1>7. entry'[ent'].proposed => \A q \in Runs : Spawned(q) => run[q].plan # entry'[ent'].plan
  BY <1>2, <1>3, <1>4 DEF IInv, OwnPlan
<1>8. \A p \in Plans : StepsOK(steps[p], shape[p], origin[p])'
  BY <1>4, CallFacts DEF StepsOK, Matches
<1> QED BY <1>3, <1>4, <1>5, <1>6, <1>7, <1>8, CallFacts, CallKeeps DEF SameProgress

\* reset(), which leaves the old entry to its coroutines, keeps IInv.
LEMMA ResetKeeps ==
    ASSUME IInv, Reset PROVE IInv'
<1>1. PICK E : E = [entry[ent] EXCEPT !.aborted = TRUE, !.active = FALSE]
  OBVIOUS
<1>2. /\ E \in EntryRec /\ ~E.active /\ E.proposed = entry[ent].proposed
      /\ E.plan = entry[ent].plan
  BY <1>1, CallFacts DEF EntryRec
<1>3. /\ entry' \in [Entries -> EntryRec] /\ entry'[ent] = E
      /\ \A e \in Entries : e # ent => entry'[e] = entry[e]
  BY <1>1, <1>2, CallFacts DEF Reset
<1>4. /\ UNCHANGED <<phase, crashes, steps, shape, origin, born, run, order, nPlans, nRuns, nOrders, owed>>
      /\ ent' = ent + 1 /\ disk' = Image(entry'[ent'], steps')
  BY DEF Reset, NotifyIn
<1>5. ent' > ent /\ ent' \in Entries /\ nPlans' \in nPlans..MaxPlans
  BY <1>4, CallFacts, ConstantsAssumption DEF Entries, Reset
<1>0. ent \in Int /\ \A e \in Entries : e \in Int
  BY CallFacts DEF Entries
<1>6. \A e \in Entries : /\ entry'[e].plan <= nPlans'
                         /\ (entry'[e].active \/ entry'[e].proposed) => entry'[e].plan >= 1
                         /\ e > ent' => ~entry'[e].proposed
  <2>1. \A e \in Entries : /\ entry[e].plan <= nPlans
                           /\ (entry[e].active \/ entry[e].proposed) => entry[e].plan >= 1
                           /\ e > ent => ~entry[e].proposed
    BY CallFacts
  <2> QED BY <1>0, <1>2, <1>3, <1>4, <2>1, CallFacts
<1>7. ~entry'[ent'].proposed
  <2>1. \A e \in Entries : e > ent => ~entry[e].proposed
    BY CallFacts
  <2> QED BY <1>0, <1>3, <1>5, <2>1
<1>8. \A p \in Plans : StepsOK(steps[p], shape[p], origin[p])'
  BY <1>4, CallFacts DEF StepsOK, Matches
<1>9. ent' >= ent
  BY <1>5, CallFacts DEF Entries
<1> QED BY <1>3, <1>4, <1>5, <1>6, <1>7, <1>8, <1>9, CallFacts, CallKeeps DEF SameProgress

\* A notify() between boot and resumePlansIfAny() keeps IInv.
LEMMA NotifyKeeps ==
    ASSUME IInv, NotifyBeforeResume PROVE IInv'
<1>1. /\ UNCHANGED <<crashes, ent, entry, steps, shape, origin, born, run, order, nPlans, nRuns, nOrders, owed, phase>>
      /\ disk' = Image(entry'[ent'], steps')
  BY DEF NotifyBeforeResume, Notify, NotifyIn
<1>2. ent' >= ent /\ nPlans' \in nPlans..MaxPlans
  BY <1>1, CallFacts, ConstantsAssumption DEF Entries
<1>3. entry'[ent'].proposed => \A q \in Runs : Spawned(q) => run[q].plan # entry'[ent'].plan
  BY <1>1 DEF IInv, OwnPlan
<1>4. \A p \in Plans : StepsOK(steps[p], shape[p], origin[p])'
  BY <1>1, CallFacts DEF StepsOK, Matches
<1> QED BY <1>1, <1>2, <1>3, <1>4, CallFacts, CallKeeps DEF SameProgress

\* A plan that joins the array behind the others, with steps ss and shape sh standing for og.
LEMMA NewPlanFacts ==
    ASSUME IInv, NEW sh \in Shapes, NEW og \in Plans \union {nPlans + 1}, NEW p, p = nPlans + 1,
           NewPlan(sh, og)
    PROVE  /\ p \in Plans /\ nPlans' = p /\ nPlans' \in nPlans..MaxPlans
           /\ shape' \in [Plans -> Shapes] /\ origin' \in [Plans -> Plans] /\ born' \in [Plans -> 0..MaxCrashes]
           /\ shape'[p] = sh /\ origin'[p] = og
           /\ \A q \in Plans : q # p => shape'[q] = shape[q] /\ origin'[q] = origin[q]
           /\ \A q \in Runs : Spawned(q) => run[q].plan # p
<1>1. p \in Plans /\ nPlans' = p /\ nPlans' \in nPlans..MaxPlans
  BY CallFacts, ConstantsAssumption DEF NewPlan, Plans
<1>2. og \in Plans /\ crashes \in 0..MaxCrashes
  BY <1>1 DEF IInv, TypeOK
<1> QED BY <1>1, <1>2, CallFacts, ConstantsAssumption DEF NewPlan

\* A plan that joins the array under review.
LEMMA StagedKeeps ==
    ASSUME IInv, UNCHANGED <<run, order, nOrders, nRuns, crashes, owed, ent>>,
           phase' \in {"booting", "up"},
           NEW sh \in Shapes, NEW og \in Plans \union {nPlans + 1}, NewPlan(sh, og),
           NEW ss \in [Step -> StepRec], StepsOK(ss, sh, og)',
           NEW E \in EntryRec, E.plan = nPlans + 1,
           steps' = [steps EXCEPT ![nPlans + 1] = ss],
           entry' = [entry EXCEPT ![ent] = E], Notify
    PROVE  IInv'
<1>1. PICK p : p = nPlans + 1
  OBVIOUS
<1>2. /\ p \in Plans /\ nPlans' = p /\ nPlans' \in nPlans..MaxPlans /\ p >= 1
      /\ shape' \in [Plans -> Shapes] /\ origin' \in [Plans -> Plans] /\ born' \in [Plans -> 0..MaxCrashes]
      /\ shape'[p] = sh /\ origin'[p] = og
      /\ \A q \in Plans : q # p => shape'[q] = shape[q] /\ origin'[q] = origin[q]
      /\ \A q \in Runs : Spawned(q) => run[q].plan # p
  BY <1>1, NewPlanFacts, CallFacts
<1>3. /\ entry' \in [Entries -> EntryRec] /\ entry'[ent] = E
      /\ \A e \in Entries : e # ent => entry'[e] = entry[e]
      /\ steps' \in [Plans -> [Step -> StepRec]] /\ steps'[p] = ss
      /\ \A q \in Plans : q # p => steps'[q] = steps[q]
  BY <1>1, <1>2, CallFacts
<1>4. ent' >= ent /\ disk' = Image(entry'[ent'], steps')
  BY CallFacts DEF Entries, Notify, NotifyIn
<1>5. \A e \in Entries : /\ entry'[e].plan <= nPlans'
                         /\ (entry'[e].active \/ entry'[e].proposed) => entry'[e].plan >= 1
                         /\ e > ent' => ~entry'[e].proposed
  <2>1. ent \in Int /\ \A e \in Entries : e \in Int
    BY CallFacts DEF Entries
  <2>2. \A e \in Entries : /\ entry[e].plan <= nPlans /\ entry[e].plan \in Int
                           /\ (entry[e].active \/ entry[e].proposed) => entry[e].plan >= 1
                           /\ e > ent => ~entry[e].proposed
    BY CallFacts
  <2>3. nPlans \in Int
    BY CallFacts
  <2> QED BY <1>1, <1>2, <1>3, <2>1, <2>2, <2>3
<1>6. \A q \in Plans : StepsOK(steps[q], shape[q], origin[q])'
  <2> SUFFICES ASSUME NEW q \in Plans PROVE StepsOK(steps[q], shape[q], origin[q])'
    OBVIOUS
  <2>1. CASE q = p
    BY <2>1, <1>2, <1>3 DEF StepsOK
  <2>2. CASE q # p
    BY <2>2, <1>2, <1>3, CallFacts DEF StepsOK, Matches
  <2> QED BY <2>1, <2>2
<1>7. entry'[ent'].proposed => \A q \in Runs : Spawned(q) => run[q].plan # entry'[ent'].plan
  BY <1>1, <1>2, <1>3
<1>8. \A q \in Runs : Spawned(q) => /\ steps'[run[q].plan] = steps[run[q].plan]
                                    /\ shape'[run[q].plan] = shape[run[q].plan]
                                    /\ origin'[run[q].plan] = origin[run[q].plan]
  BY <1>2, <1>3, CallFacts
<1> QED BY <1>2, <1>3, <1>4, <1>5, <1>6, <1>7, <1>8, CallFacts, CallKeeps DEF SameProgress

\* propose() keeps IInv.
LEMMA ProposeKeeps ==
    ASSUME IInv, NEW sh \in Shapes, Propose(sh) PROVE IInv'
<1>1. PICK E : E = [entry[ent] EXCEPT !.proposed = TRUE, !.plan = nPlans + 1]
  OBVIOUS
<1>2. nPlans + 1 \in 0..MaxPlans
  BY CallFacts, ConstantsAssumption DEF Propose, NewPlan
<1>3. E \in EntryRec /\ E.plan = nPlans + 1
  BY <1>1, <1>2, CallFacts DEF EntryRec
<1>4. entry' = [entry EXCEPT ![ent] = E]
  BY <1>1 DEF Propose
<1>5. PICK og : og = nPlans + 1
  OBVIOUS
<1>6. StepsOK(Fresh, sh, og)'
  BY DEF StepsOK, Fresh, NewStep
<1>7. Fresh \in [Step -> StepRec] /\ phase' \in {"booting", "up"}
  BY CallFacts DEF Propose
<1>8. NewPlan(sh, og) /\ og \in Plans \union {nPlans + 1}
  BY <1>5 DEF Propose
<1> QED BY <1>3, <1>4, <1>6, <1>7, <1>8, StagedKeeps DEF Propose

\* patchStep() on an approval keeps IInv.
LEMMA PatchStepKeeps ==
    ASSUME IInv, NEW i \in Step, NEW ok \in BOOLEAN, PatchStep(i, ok) PROVE IInv'
<1>1. PICK p : p = entry[ent].plan
  OBVIOUS
<1>2. p \in Plans
  BY <1>1, CallFacts DEF PatchStep, Spawned, Working
<1>3. PICK s : s = [steps[p][i] EXCEPT !.approved = ok]
  OBVIOUS
<1>4. /\ steps[p] \in [Step -> StepRec] /\ steps[p][i] \in StepRec
  BY <1>2, CallFacts
<1>5. s \in StepRec /\ s.ord = steps[p][i].ord /\ s.st = steps[p][i].st
  BY <1>3, <1>4 DEF StepRec
<1>6. PICK ss : ss = [steps[p] EXCEPT ![i] = s]
  OBVIOUS
<1>7. /\ ss \in [Step -> StepRec]
      /\ \A j \in Step : ss[j].ord = steps[p][j].ord /\ ss[j].st = steps[p][j].st
  BY <1>4, <1>5, <1>6
<1>8. steps' = [steps EXCEPT ![p] = ss]
  BY <1>1, <1>3, <1>6 DEF PatchStep
<1>9. /\ steps' \in [Plans -> [Step -> StepRec]] /\ steps'[p] = ss
      /\ \A q \in Plans : q # p => steps'[q] = steps[q]
  BY <1>2, <1>7, <1>8, CallFacts
<1>10. /\ UNCHANGED <<entry, phase, crashes, ent, shape, origin, born, run, order, nPlans, nRuns, nOrders, owed>>
       /\ disk' = Image(entry'[ent'], steps')
  BY DEF PatchStep, Notify, NotifyIn
<1>11. ent' >= ent /\ nPlans' \in nPlans..MaxPlans
  BY <1>10, CallFacts, ConstantsAssumption DEF Entries
<1>12. entry'[ent'].proposed => \A q \in Runs : Spawned(q) => run[q].plan # entry'[ent'].plan
  BY <1>10 DEF IInv, OwnPlan
<1>13. \A q \in Plans : StepsOK(steps[q], shape[q], origin[q])'
  <2> SUFFICES ASSUME NEW q \in Plans PROVE StepsOK(steps[q], shape[q], origin[q])'
    OBVIOUS
  <2>1. CASE q = p
    <3>1. StepsOK(steps[p], shape[p], origin[p])
      BY <1>2, CallFacts
    <3>2. StepsOK(ss, shape[p], origin[p])
      BY <3>1, <1>7 DEF StepsOK
    <3> QED BY <2>1, <3>2, <1>9, <1>10 DEF StepsOK, Matches
  <2>2. CASE q # p
    BY <2>2, <1>9, <1>10, CallFacts DEF StepsOK, Matches
  <2> QED BY <2>1, <2>2
<1>14. \A q \in Runs : Spawned(q) => SameProgress(steps[run[q].plan], steps'[run[q].plan])
  BY <1>2, <1>7, <1>9, CallFacts DEF SameProgress
<1> QED BY <1>9, <1>10, <1>11, <1>12, <1>13, <1>14, CallFacts, CallKeeps DEF SameProgress

-----------------------------------------------------------------------------
(***************************************************************************)
(* The calls that spawn a coroutine.                                       *)
(***************************************************************************)
\* A coroutine spawned for plan p, which no other coroutine walks.
LEMMA SpawnKeeps ==
    ASSUME IInv, NEW p \in Plans, NEW ss \in [Step -> StepRec], Spawn(p, ss), Notify,
           UNCHANGED <<crashes, ent, order, nOrders, owed>>, phase' \in {"booting", "up"},
           nPlans' \in nPlans..MaxPlans, p <= nPlans',
           shape' \in [Plans -> Shapes], origin' \in [Plans -> Plans], born' \in [Plans -> 0..MaxCrashes],
           \A q \in Plans : q # p => shape'[q] = shape[q] /\ origin'[q] = origin[q],
           \A q \in Runs : Spawned(q) => run[q].plan # p,
           StepsOK(ss, shape[p], origin[p])'
    PROVE  IInv'
<1>1. PICK r : r = nRuns + 1
  OBVIOUS
<1>2. PICK R : R = [NoRun EXCEPT !.ent = ent, !.plan = p]
  OBVIOUS
<1>3. PICK E : E = Started(entry[ent], p)
  OBVIOUS
<1>4. /\ nRuns \in 0..MaxRuns /\ nOrders \in 0..MaxOrders /\ TypeOK /\ OrdersOK
      /\ order \in [Orders -> OrderRec]
  BY DEF IInv, TypeOK
<1>5. r \in Runs /\ r \in 0..MaxRuns /\ nRuns' \in 0..MaxRuns
  BY <1>1, <1>4, ConstantsAssumption DEF Spawn, Runs
<1>6. ent \in 0..MaxEntries /\ p \in 0..MaxPlans /\ p >= 1 /\ p \in Int /\ ent \in Entries /\ ent \in 1..ent
  <2>1. ent \in Entries
    BY CallFacts
  <2> QED BY <2>1, ConstantsAssumption DEF Entries, Plans
<1>7. R \in RunRec /\ R.ent = ent /\ R.plan = p /\ R.idx < 1
  <2>1. 0 \in 0..MaxPolls /\ 0 \in 0..MaxOrders /\ 0 \in 0..NSteps /\ "none" \in Pc
    BY ConstantsAssumption DEF Pc
  <2>2. R \in RunRec /\ R.ent = ent /\ R.plan = p
    BY <1>2, <1>6, <2>1 DEF NoRun, RunRec
  <2>3. R.idx = 0
    BY <1>2 DEF NoRun
  <2> QED BY <2>2, <2>3
<1>8. E \in EntryRec /\ E.plan = p /\ ~E.proposed
  BY <1>1, <1>3, <1>5, <1>6, CallFacts DEF Started, EntryRec
<1>9. ExchangeFrame
  BY <1>4, ConstantsAssumption DEF ExchangeFrame, OrdersOK
<1>10. PlanFrame(p)
  BY <1>4, <1>5 DEF PlanFrame, TypeOK
<1>11. p \in 1..nPlans'
  BY <1>6, CallFacts
<1>12. Alone(r, R, E)
  BY <1>6, <1>7, <1>8, <1>11 DEF Alone
<1>13. Loop(r, R, E, ss, 1)
  BY <1>1, <1>2, <1>3 DEF Spawn
<1>14. \A j \in Step : j < 1 => StepDone(ss[j])
  BY DEF Step
<1>15. StepsOK(ss, shape[R.plan], origin[R.plan])' /\ PlanFrame(R.plan)
  BY <1>7, <1>10
<1> QED BY <1>5, <1>7, <1>8, <1>9, <1>12, <1>13, <1>14, <1>15, LoopKeeps DEF Notify, NotifyIn

\* start() keeps IInv.
LEMMA StartKeeps ==
    ASSUME IInv, NEW sh \in Shapes, Start(sh) PROVE IInv'
<1>1. PICK p : p = nPlans + 1
  OBVIOUS
<1>2. NewPlan(sh, p) /\ Spawn(p, Fresh)
  BY <1>1 DEF Start
<1>3. /\ p \in Plans /\ nPlans' = p /\ nPlans' \in nPlans..MaxPlans
      /\ shape' \in [Plans -> Shapes] /\ origin' \in [Plans -> Plans] /\ born' \in [Plans -> 0..MaxCrashes]
      /\ \A q \in Plans : q # p => shape'[q] = shape[q] /\ origin'[q] = origin[q]
      /\ \A q \in Runs : Spawned(q) => run[q].plan # p
  BY <1>1, <1>2, NewPlanFacts
<1>4. StepsOK(Fresh, shape[p], origin[p])'
  BY DEF StepsOK, Fresh, NewStep
<1>5. p <= nPlans'
  BY <1>3 DEF Plans
<1> QED BY <1>2, <1>3, <1>4, <1>5, CallFacts, SpawnKeeps DEF Start

\* Denying steps leaves their orders as they are and fills none.
LEMMA DenyFacts ==
    ASSUME NEW ss \in [Step -> StepRec], NEW ds, ds = Deny(ss)
    PROVE  /\ ds \in [Step -> StepRec]
           /\ \A i \in Step : /\ ds[i].ord = ss[i].ord
                              /\ ds[i].st = "filled" => ss[i].st = "filled"
<1> SUFFICES ASSUME NEW i \in Step
             PROVE  /\ ds[i] \in StepRec /\ ds[i].ord = ss[i].ord
                    /\ ds[i].st = "filled" => ss[i].st = "filled"
  BY DEF Deny
<1>1. ds[i] = IF ss[i].approved THEN ss[i] ELSE [ss[i] EXCEPT !.st = "skipped", !.why = "denied"]
  BY DEF Deny
<1>2. "denied" \in Why /\ ss[i] \in StepRec
  BY DEF Why
<1>3. PICK t : t = [ss[i] EXCEPT !.st = "skipped", !.why = "denied"]
  OBVIOUS
<1>4. t \in StepRec /\ t.st = "skipped" /\ t.ord = ss[i].ord
  BY <1>2, <1>3, SkippedStep
<1> QED BY <1>1, <1>2, <1>3, <1>4

\* confirmProposal(), with every step denied or with a run spawned, keeps IInv.
LEMMA ConfirmProposalKeeps ==
    ASSUME IInv, ConfirmProposal PROVE IInv'
<1>1. PICK p : p = entry[ent].plan
  OBVIOUS
<1>2. p \in Plans /\ p <= nPlans /\ \A q \in Runs : Spawned(q) => run[q].plan # p
  BY <1>1, CallFacts DEF ConfirmProposal, IInv, OwnPlan
<1>3. PICK ds : ds = Deny(steps[p])
  OBVIOUS
<1>4. steps[p] \in [Step -> StepRec] /\ StepsOK(steps[p], shape[p], origin[p])
  BY <1>2, CallFacts
<1>5. /\ ds \in [Step -> StepRec]
      /\ \A i \in Step : /\ ds[i].ord = steps[p][i].ord
                         /\ ds[i].st = "filled" => steps[p][i].st = "filled"
  BY <1>3, <1>4, DenyFacts
<1>6. /\ UNCHANGED <<phase, crashes, ent, shape, origin, born, order, nPlans, nOrders, owed>>
      /\ Notify /\ disk' = Image(entry'[ent'], steps')
  BY DEF ConfirmProposal, Notify, NotifyIn
<1>7. StepsOK(ds, shape[p], origin[p])'
  BY <1>4, <1>5, <1>6 DEF StepsOK, Matches
<1>8. ent' >= ent /\ nPlans' \in nPlans..MaxPlans
  BY <1>6, CallFacts, ConstantsAssumption DEF Entries
<1>9. CASE Spawn(p, ds)
  <2>1. p <= nPlans'
    BY <1>2, <1>6
  <2> QED BY <1>2, <1>5, <1>6, <1>7, <1>8, <1>9, <2>1, CallFacts, SpawnKeeps
<1>10. CASE steps' = [steps EXCEPT ![p] = ds] /\ UNCHANGED <<entry, run, nRuns>>
  <2>1. /\ steps' \in [Plans -> [Step -> StepRec]] /\ steps'[p] = ds
        /\ \A q \in Plans : q # p => steps'[q] = steps[q]
    BY <1>2, <1>5, <1>10, CallFacts
  <2>2. entry'[ent'].proposed => \A q \in Runs : Spawned(q) => run[q].plan # entry'[ent'].plan
    BY <1>1, <1>2, <1>6, <1>10
  <2>3. \A q \in Plans : StepsOK(steps[q], shape[q], origin[q])'
    <3> SUFFICES ASSUME NEW q \in Plans PROVE StepsOK(steps[q], shape[q], origin[q])'
      OBVIOUS
    <3>1. CASE q = p
      BY <3>1, <1>7, <2>1 DEF StepsOK
    <3>2. CASE q # p
      BY <3>2, <1>6, <2>1, CallFacts DEF StepsOK, Matches
    <3> QED BY <3>1, <3>2
  <2>4. \A q \in Runs : Spawned(q) => steps'[run[q].plan] = steps[run[q].plan]
    BY <1>2, <2>1, CallFacts
  <2> QED BY <1>6, <1>8, <1>10, <2>1, <2>2, <2>3, <2>4, CallFacts, CallKeeps DEF SameProgress
<1> QED BY <1>1, <1>3, <1>9, <1>10 DEF ConfirmProposal

-----------------------------------------------------------------------------
(***************************************************************************)
(* Crash, restart and the initial state.                                   *)
(***************************************************************************)
\* The death of the process, which leaves the file and the exchange, keeps IInv.
LEMMA CrashKeeps ==
    ASSUME IInv, Crash PROVE IInv'
<1>1. /\ crashes' \in 0..MaxCrashes
  BY ConstantsAssumption DEF Crash, IInv, TypeOK
<1>2. NewEntry \in EntryRec /\ ~NewEntry.active /\ ~NewEntry.proposed /\ NewEntry.plan = 0
  <2>1. 0 \in 0..MaxRuns /\ 0 \in 0..MaxPlans
    BY ConstantsAssumption
  <2> QED BY <2>1 DEF NewEntry, EntryRec
<1>3. NoRun \in RunRec /\ NoRun.pc = "none"
  <2>1. /\ 0 \in 0..MaxPolls /\ 0 \in 0..MaxOrders /\ 0 \in 0..NSteps /\ "none" \in Pc
        /\ 0 \in 0..MaxPlans /\ 0 \in 0..MaxEntries
    BY ConstantsAssumption DEF Pc
  <2> QED BY <2>1 DEF NoRun, RunRec
<1>4. owed' \in DiskRec
  <2>1. (entry[ent].active \/ entry[ent].proposed) => entry[ent].plan \in Plans
    BY CallFacts
  <2>2. Image(entry[ent], steps) \in DiskRec
    BY <2>1, CallFacts, ImageType
  <2> QED BY <2>2 DEF Crash, IInv, TypeOK
<1>5. /\ ent' = 1 /\ ent' \in Entries /\ nRuns' \in 0..MaxRuns
  BY ConstantsAssumption DEF Crash, Entries
<1>6. /\ entry' = [e \in Entries |-> NewEntry] /\ steps' = [p \in Plans |-> Fresh]
      /\ run' = [r \in Runs |-> NoRun] /\ phase' = "booting"
      /\ UNCHANGED <<shape, origin, born, order, nPlans, nOrders, disk>>
  BY DEF Crash
<1>7. TypeOK'
  <2>1. entry' \in [Entries -> EntryRec] /\ run' \in [Runs -> RunRec]
    BY <1>2, <1>3, <1>6
  <2>2. steps' \in [Plans -> [Step -> StepRec]]
    BY <1>6, CallFacts
  <2> QED BY <1>1, <1>4, <1>5, <1>6, <2>1, <2>2 DEF IInv, TypeOK
<1>8. \A r \in Runs : run'[r].pc = "none"
  BY <1>3, <1>6
<1>9. \A r \in Runs : ~Spawned(r)' /\ run'[r].pc \notin Working
  BY <1>8 DEF Spawned, Working
<1>10. nPlans' \in 0..MaxPlans /\ nPlans' = nPlans /\ disk' = disk
  BY <1>6, CallFacts
<1>11. \A e \in Entries : entry'[e].plan <= nPlans' /\ ~entry'[e].active /\ ~entry'[e].proposed
  BY <1>2, <1>6, <1>10
<1>12. Pointers'
  BY <1>9, <1>10, <1>11 DEF IInv, Pointers
<1>13. OwnPlan'
  BY <1>5, <1>9, <1>11 DEF OwnPlan
<1>14. Fills'
  <2>1. \A p \in Plans : StepsOK(steps[p], shape[p], origin[p])'
    BY <1>6 DEF StepsOK, Fresh, NewStep
  <2>2. (disk.kind # "none" => StepsOK(disk.steps, shape[disk.plan], origin[disk.plan]))'
    BY <1>6 DEF IInv, Fills, StepsOK, Matches
  <2> QED BY <2>1, <2>2 DEF Fills
<1>15. Holding' /\ OrdersOK'
  BY <1>6, <1>9 DEF Holding, IInv, OrdersOK
<1> QED BY <1>7, <1>12, <1>13, <1>14, <1>15 DEF IInv

\* Rewinding the steps of the file leaves their orders as they are and fills none.
LEMMA RewindFacts ==
    ASSUME NEW ss \in [Step -> StepRec], NEW rs, rs = Rewind(ss)
    PROVE  /\ rs \in [Step -> StepRec]
           /\ \A i \in Step : /\ rs[i].ord = ss[i].ord
                              /\ rs[i].st = "filled" => ss[i].st = "filled"
<1> SUFFICES ASSUME NEW i \in Step
             PROVE  /\ rs[i] \in StepRec /\ rs[i].ord = ss[i].ord
                    /\ rs[i].st = "filled" => ss[i].st = "filled"
  BY DEF Rewind
<1>1. rs[i] = IF ss[i].st = "executing" /\ ss[i].ord = 0
              THEN [ss[i] EXCEPT !.st = "pending"] ELSE ss[i]
  BY DEF Rewind
<1>2. "pending" \in Status /\ "" \in Why /\ ss[i] \in StepRec
  BY DEF Status, Why
<1>3. PICK t : t = [ss[i] EXCEPT !.st = "pending"]
  OBVIOUS
<1>4. t \in StepRec /\ t.st = "pending" /\ t.ord = ss[i].ord
  BY <1>2, <1>3, ClosedStep
<1> QED BY <1>1, <1>2, <1>3, <1>4

\* resumePlansIfAny(), which copies the plan of the file and spawns its run, keeps IInv.
LEMMA ResumePlansKeeps ==
    ASSUME IInv, ResumePlans PROVE IInv'
<1>1. UNCHANGED <<crashes, ent, order, nOrders, owed>> /\ phase' = "up" /\ phase' \in {"booting", "up"}
  BY DEF ResumePlans
<1>2. CASE UNCHANGED <<entry, steps, shape, origin, born, run, nPlans, nRuns, disk>>
  <2>1. ExchangeFrame
    <3>1. OrdersOK /\ order \in [Orders -> OrderRec] /\ nOrders \in 0..MaxOrders
      BY DEF IInv, TypeOK
    <3> QED BY <1>1, <3>1, ConstantsAssumption DEF ExchangeFrame, OrdersOK
  <2> QED BY <1>1, <1>2, <2>1, NewsKeeps
<1>3. PICK dk : dk = disk
  OBVIOUS
<1>4. PICK sh, og, p : sh = shape[dk.plan] /\ og = origin[dk.plan] /\ p = nPlans + 1
  OBVIOUS
<1>5. ASSUME dk.kind # "none", NewPlan(sh, og)
      PROVE  /\ dk.steps \in [Step -> StepRec] /\ sh \in Shapes /\ og \in Plans
             /\ StepsOK(dk.steps, sh, og) /\ StepsOK(dk.steps, sh, og)'
  <2>1. dk \in DiskRec /\ dk.plan <= nPlans /\ dk.plan >= 1 /\ StepsOK(dk.steps, sh, og)
    BY <1>3, <1>4, <1>5 DEF IInv, TypeOK, Pointers, Fills
  <2>2. dk.plan \in Plans /\ dk.steps \in [Step -> StepRec]
    BY <2>1, ConstantsAssumption DEF DiskRec, Plans
  <2>3. sh \in Shapes /\ og \in Plans
    BY <1>4, <2>2, CallFacts
  <2> QED BY <1>1, <2>1, <2>2, <2>3 DEF StepsOK, Matches
<1>6. CASE /\ dk.kind = "proposed" /\ NewPlan(sh, og)
           /\ steps' = [steps EXCEPT ![p] = dk.steps]
           /\ entry' = [entry EXCEPT ![ent].active = FALSE, ![ent].proposed = TRUE, ![ent].plan = p]
           /\ UNCHANGED <<run, nRuns>> /\ Notify
  <2>1. PICK E : E = [entry[ent] EXCEPT !.active = FALSE, !.proposed = TRUE, !.plan = p]
    OBVIOUS
  <2>2. p \in 0..MaxPlans
    BY <1>4, <1>6, CallFacts, ConstantsAssumption DEF NewPlan
  <2>3. E \in EntryRec /\ E.plan = p
    BY <2>1, <2>2, CallFacts DEF EntryRec
  <2>4. entry' = [entry EXCEPT ![ent] = E]
    BY <1>6, <2>1
  <2> QED BY <1>1, <1>4, <1>5, <1>6, <2>3, <2>4, StagedKeeps
<1>7. CASE dk.kind = "active" /\ NewPlan(sh, og) /\ Spawn(p, Rewind(dk.steps)) /\ Notify
  <2>1. PICK rs : rs = Rewind(dk.steps)
    OBVIOUS
  <2>2. /\ rs \in [Step -> StepRec]
        /\ \A i \in Step : /\ rs[i].ord = dk.steps[i].ord
                           /\ rs[i].st = "filled" => dk.steps[i].st = "filled"
    BY <1>5, <1>7, <2>1, RewindFacts
  <2>3. StepsOK(rs, sh, og)'
    BY <1>5, <1>7, <2>2 DEF StepsOK
  <2>4. /\ p \in Plans /\ nPlans' = p /\ nPlans' \in nPlans..MaxPlans
        /\ shape' \in [Plans -> Shapes] /\ origin' \in [Plans -> Plans] /\ born' \in [Plans -> 0..MaxCrashes]
        /\ shape'[p] = sh /\ origin'[p] = og
        /\ \A q \in Plans : q # p => shape'[q] = shape[q] /\ origin'[q] = origin[q]
        /\ \A q \in Runs : Spawned(q) => run[q].plan # p
    BY <1>4, <1>5, <1>7, NewPlanFacts
  <2>5. StepsOK(rs, shape[p], origin[p])'
    BY <2>3, <2>4 DEF StepsOK
  <2>6. p <= nPlans'
    BY <2>4 DEF Plans
  <2> QED BY <1>1, <1>7, <2>1, <2>2, <2>4, <2>5, <2>6, SpawnKeeps
<1> QED BY <1>2, <1>3, <1>4, <1>6, <1>7 DEF ResumePlans

\* IInv holds of the process at its first start.
LEMMA InitIInv ==
    ASSUME Init PROVE IInv
<1>1. /\ 0 \in 0..MaxPolls /\ 0 \in 0..MaxOrders /\ 0 \in 0..NSteps /\ 0 \in 0..MaxRuns
      /\ 0 \in 0..MaxPlans /\ 0 \in 0..MaxEntries /\ 0 \in 0..MaxCrashes /\ 1 \in Entries
  BY ConstantsAssumption DEF Entries
<1>2. NewEntry \in EntryRec
  BY <1>1 DEF NewEntry, EntryRec
<1>3. NoRun \in RunRec
  BY <1>1 DEF NoRun, RunRec, Pc
<1>4. NoOrder \in OrderRec
  BY <1>1 DEF NoOrder, OrderRec
<1>5. Fresh \in [Step -> StepRec]
  <2>1. "pending" \in Status /\ "" \in Why
    BY DEF Status, Why
  <2> QED BY <1>1, <2>1 DEF Fresh, NewStep, StepRec
<1>6. NoPlan \in DiskRec /\ NoPlan.kind = "none" /\ NoPlan.plan = 0
  BY <1>1, <1>5 DEF NoPlan, DiskRec
<1>7. (CHOOSE sh \in Shapes : TRUE) \in Shapes
  BY ConstantsAssumption
<1>8. TypeOK
  BY <1>1, <1>2, <1>3, <1>4, <1>5, <1>6, <1>7 DEF Init, TypeOK
<1>9. \A r \in Runs : ~Spawned(r) /\ run[r].pc \notin Working
  BY DEF Init, NoRun, Spawned, Working
<1>10. \A e \in Entries : ~entry[e].active /\ ~entry[e].proposed /\ entry[e].plan = 0
  BY DEF Init, NewEntry
<1>11. Pointers /\ OwnPlan
  BY <1>1, <1>6, <1>9, <1>10 DEF Init, Pointers, OwnPlan
<1>12. OrdersOK
  BY DEF Init, NoOrder, OrdersOK
<1>13. Fills
  <2>1. \A p \in Plans : StepsOK(steps[p], shape[p], origin[p])
    BY DEF Init, StepsOK, Fresh, NewStep
  <2> QED BY <1>6, <2>1 DEF Init, Fills
<1>14. Holding
  BY <1>9 DEF Holding
<1> QED BY <1>8, <1>11, <1>12, <1>13, <1>14 DEF IInv

-----------------------------------------------------------------------------
(***************************************************************************)
(* The theorems.                                                           *)
(***************************************************************************)
\* IInv is inductive.
LEMMA NextKeeps ==
    ASSUME IInv, [Next]_vars PROVE IInv'
<1>1. ASSUME Call PROVE IInv'
  BY <1>1, ProposeKeeps, StartKeeps, PatchStepKeeps, ConfirmProposalKeeps, StopKeeps, ResetKeeps DEF Call
<1>2. ASSUME NEW r \in Runs, RunStep(r) PROVE IInv'
  BY <1>2, ResolveEmptyKeeps, SendKeeps, PlacedKeeps, PlaceFailsKeeps, SettleKeeps, PollEndedKeeps,
     PollAgainKeeps, TimeStopKeeps, TimeStoppedKeeps DEF RunStep
<1>3. ASSUME NEW o \in Orders, Exchange(o) PROVE IInv'
  BY <1>3, ExchangeKeeps
<1>4. ASSUME UNCHANGED vars PROVE IInv'
  <2>1. UNCHANGED <<crashes, ent, entry, steps, shape, origin, born, run, nPlans, nRuns, disk, owed, order, nOrders, phase>>
    BY <1>4 DEF vars
  <2>2. phase' \in {"booting", "up"}
    BY <2>1, CallFacts
  <2>3. ExchangeFrame
    BY <2>1, Still
  <2> QED BY <2>1, <2>2, <2>3, NewsKeeps
<1> QED BY <1>1, <1>2, <1>3, <1>4, CrashKeeps, NotifyKeeps, ResumePlansKeeps DEF Next

\* IInv holds of every reachable state.
LEMMA Inductive == Spec => []IInv
<1>1. Init => IInv
  BY InitIInv
<1>2. IInv /\ [Next]_vars => IInv'
  BY NextKeeps
<1> QED BY <1>1, <1>2, PTL DEF Spec

\* Every reachable state of the planner's slot is well typed.
THEOREM TypeCorrect == Spec => []TypeOK
<1>1. IInv => TypeOK
  BY DEF IInv
<1> QED BY <1>1, Inductive, PTL

\* No step is ever reported filled unless its own order traded on the exchange, and in full
\* if it was a limit order: through any interleaving of calls, coroutines and restarts.
THEOREM FillsAreReal == Spec => []FilledIsReal
<1>1. ASSUME IInv PROVE FilledIsReal
  <2>1. SUFFICES ASSUME NEW p \in Plans, NEW i \in Step, steps[p][i].st = "filled"
                 PROVE  /\ steps[p][i].ord # 0
                        /\ order[steps[p][i].ord].plan = origin[p] /\ order[steps[p][i].ord].idx = i
                        /\ order[steps[p][i].ord].got # "none"
                        /\ shape[p][i].type = "limit" => order[steps[p][i].ord].got = "all"
    BY DEF FilledIsReal
  <2>2. StepsOK(steps[p], shape[p], origin[p])
    BY <1>1 DEF IInv, Fills
  <2> QED BY <2>1, <2>2 DEF StepsOK, Matches
<1> QED BY <1>1, Inductive, PTL

\* An order for a step is sent only when every earlier step of its plan is done, whatever
\* calls and coroutines ran before.
THEOREM OrdersAreSequential == Spec => SequentialOrder
<1>1. ASSUME IInv
      PROVE  \A r \in Runs :
               (run[r].pc = "resolving" /\ run'[r].pc = "placing") =>
                  \A j \in Step : j < run[r].idx => StepDone(steps[run[r].plan][j])
  BY <1>1, Resumed DEF Holds, Working
<1>2. IInv => [\A r \in Runs :
               (run[r].pc = "resolving" /\ run'[r].pc = "placing") =>
                  \A j \in Step : j < run[r].idx => StepDone(steps[run[r].plan][j])]_vars
  BY <1>1
<1> QED BY <1>2, Inductive, PTL DEF SequentialOrder

\* A coroutine that has ended left the step it was at filled, skipped, failed or pending, and
\* nothing afterwards reopens it.
THEOREM EndsClosed == Spec => []EndedRunLeavesNoOpenStep
<1>1. ASSUME IInv PROVE EndedRunLeavesNoOpenStep
  <2>1. SUFFICES ASSUME NEW r \in Runs, run[r].pc = "done", run[r].idx # 0
                 PROVE  steps[run[r].plan][run[r].idx].st \notin {"executing", "monitoring"}
    BY DEF EndedRunLeavesNoOpenStep
  <2> QED BY <1>1, <2>1 DEF IInv, Holding, Holds, Closed, Spawned
<1> QED BY <1>1, Inductive, PTL

-----------------------------------------------------------------------------
(***************************************************************************)
(* One placement per life: the second inductive invariant.                 *)
(*                                                                         *)
(* An order carries the array of steps it left from and the life of the    *)
(* process it left in.  One coroutine walks an array, from its first step  *)
(* to its last, so two orders of one step left from two arrays; and two    *)
(* arrays of one life stand for one plan only if that life read the plan   *)
(* back after it had put it in the file itself.                            *)
(***************************************************************************)
\* Run numbers and entries not handed out are blank.
Unused ==
    /\ \A r \in Runs : r > nRuns => run[r].pc = "none"
    /\ \A e \in Entries : e > ent => entry[e] = NewEntry

\* An active slot has a coroutine at work on its plan, at a step still to be done.
Busy ==
    /\ \A e \in Entries : entry[e].aborted => ~entry[e].active
    /\ entry[ent].active => \E r \in Runs : /\ run[r].pc \in Working /\ run[r].ent = ent
                                            /\ run[r].plan = entry[ent].plan
    /\ \A r \in Runs : run[r].pc \in Working => ~StepDone(StepOf(r))

\* In a running plan, in memory, in the file or in the memory that was lost, the steps
\* denied in review are skipped already.
AllDenied(ss) == \A i \in Step : ss[i].approved \/ ss[i].st = "skipped"
Denied ==
    /\ entry[ent].active => AllDenied(steps[entry[ent].plan])
    /\ disk.kind = "active" => AllDenied(disk.steps)
    /\ owed.kind = "active" => AllDenied(owed.steps)

\* A running plan that a crash interrupted had a step to do.
Owes == owed.kind = "active" => \E i \in Step : ~Passes(owed.steps[i])

Slot == Unused /\ Busy /\ Denied /\ Owes

\* The arrays in use were built in this life; before it reads the file a process has built
\* only plans of its own, and of two arrays of one life that stand for one plan, one is it.
Births ==
    /\ \A r \in Runs : Spawned(r) => born[run[r].plan] = crashes
    /\ entry[ent].proposed => born[entry[ent].plan] = crashes
    /\ \A q \in 1..nPlans : born[q] <= crashes /\ origin[q] <= nPlans
    /\ phase = "booting" => \A q \in 1..nPlans : born[q] = crashes => origin[q] = q
    /\ \A q, s \in 1..nPlans :
         (q # s /\ born[q] = born[s] /\ origin[q] = origin[s]) => origin[q] \in {q, s}

\* An order left from an array of its plan; in this life, from one whose coroutine has gone
\* past the sending of that step.
SentBy(o) ==
    /\ order[o].by \in 1..nPlans /\ order[o].plan = origin[order[o].by]
    /\ order[o].life = born[order[o].by]
    /\ order[o].life = crashes =>
         \E r \in Runs : /\ Spawned(r) /\ run[r].plan = order[o].by /\ order[o].idx <= run[r].idx
                         /\ run[r].pc = "resolving" => order[o].idx < run[r].idx
Sent ==
    /\ \A o \in 1..nOrders : SentBy(o)
    /\ \A a, b \in 1..nOrders : (a # b /\ order[a].by = order[b].by) => order[a].idx # order[b].idx
    /\ \A o \in Orders : order[o].st # "none" => o <= nOrders

Life == Slot /\ Births /\ Sent

-----------------------------------------------------------------------------
(***************************************************************************)
(* What a step of a coroutine does, in one formula.                        *)
(***************************************************************************)
\* Of its entry a coroutine clears "active" and sets "halt".
EntryKept(E, F) == /\ F.plan = E.plan /\ F.proposed = E.proposed /\ F.cur = E.cur
                   /\ F.aborted = E.aborted /\ (F.active => E.active)

\* A coroutine changes no approval and reopens no skipped step.
Keeps(ss, ts) == \A i \in Step : /\ ts[i].approved = ss[i].approved
                                 /\ ss[i].st = "skipped" => ts[i].st = "skipped"

\* Coroutine r, resumed, waits again at its step, goes on to a later one, or ends.
Effect(r) ==
    LET R == run[r]  Q == run'[r] IN
    /\ \A q \in Runs : q # r => run'[q] = run[q]
    /\ Q.ent = R.ent /\ Q.plan = R.plan /\ Q.pc \in Working \union {"done"}
    /\ Q.pc \in Working => /\ \/ Q.idx = R.idx /\ Q.pc # "resolving"
                              \/ Q.idx > R.idx /\ ~Stale(r)
                           /\ ~StepDone(steps'[R.plan][Q.idx])
    /\ \A e \in Entries : EntryKept(entry[e], entry'[e]) /\ (e # R.ent => entry'[e] = entry[e])
    /\ Q.pc = "done" => /\ ~entry'[R.ent].active \/ entry'[R.ent].aborted
                        /\ Q.idx = R.idx
    /\ Keeps(steps[R.plan], steps'[R.plan])
    /\ \A p \in Plans : p # R.plan => steps'[p] = steps[p]
    /\ UNCHANGED <<phase, crashes, ent, shape, origin, born, nPlans, nRuns, owed>>
    /\ disk' = Image(entry'[ent], steps')

\* The record a coroutine leaves has the effect of what was recorded.
LEMMA RecordEffect ==
    ASSUME IInv, NEW r \in Runs, run[r].pc \in Working,
           NEW R, R = run[r], NEW Q \in RunRec, NEW E \in EntryRec, NEW ss \in [Step -> StepRec],
           Record(r, Q, E, ss), Q.ent = R.ent, Q.plan = R.plan, Q.pc \in Working \union {"done"},
           Q.pc \in Working => /\ \/ Q.idx = R.idx /\ Q.pc # "resolving"
                                  \/ Q.idx > R.idx /\ ~Stale(r)
                               /\ ~StepDone(ss[Q.idx]),
           Q.pc = "done" => Q.idx = R.idx /\ (~E.active \/ E.aborted),
           EntryKept(EntryOf(r), E), Keeps(steps[R.plan], ss),
           UNCHANGED <<phase, crashes, ent, shape, origin, born, nPlans, nRuns, owed>>, Notify
    PROVE  Effect(r)
<1>1. /\ R \in RunRec /\ R.plan \in Plans /\ R.ent \in Entries
      /\ run \in [Runs -> RunRec] /\ entry \in [Entries -> EntryRec]
      /\ steps \in [Plans -> [Step -> StepRec]]
  BY Resumed DEF IInv, TypeOK
<1>2. /\ run'[r] = Q /\ \A q \in Runs : q # r => run'[q] = run[q]
      /\ steps'[R.plan] = ss /\ \A q \in Plans : q # R.plan => steps'[q] = steps[q]
      /\ entry'[R.ent] = E /\ \A e \in Entries : e # R.ent => entry'[e] = entry[e]
  BY <1>1 DEF Record
<1>3. \A e \in Entries : EntryKept(entry[e], entry'[e])
  <2> SUFFICES ASSUME NEW e \in Entries PROVE EntryKept(entry[e], entry'[e])
    OBVIOUS
  <2>1. CASE e = R.ent
    BY <2>1, <1>2 DEF EntryOf
  <2>2. CASE e # R.ent
    BY <2>2, <1>2 DEF EntryKept
  <2> QED BY <2>1, <2>2
<1>4. disk' = Image(entry'[ent], steps')
  BY DEF Notify, NotifyIn
<1> QED BY <1>2, <1>3, <1>4 DEF Effect

\* The same of the end of a run.
LEMMA FinishEffect ==
    ASSUME IInv, NEW r \in Runs, run[r].pc \in Working,
           NEW E \in EntryRec, NEW ss \in [Step -> StepRec],
           \/ Record(r, Finished(run[r]), Idle(E), ss)
           \/ Record(r, Finished(run[r]), E, ss) /\ E.aborted,
           EntryKept(EntryOf(r), E), Keeps(steps[run[r].plan], ss),
           UNCHANGED <<phase, crashes, ent, shape, origin, born, nPlans, nRuns, owed>>, Notify
    PROVE  Effect(r)
<1> DEFINE F == Finished(run[r])
<1>1. /\ F \in RunRec /\ F.pc = "done" /\ F.plan = run[r].plan /\ F.ent = run[r].ent
      /\ F.idx = run[r].idx
  <2>1. run[r] \in RunRec /\ 0 \in 0..MaxPolls /\ 0 \in 0..MaxOrders /\ "done" \in Pc
    BY Resumed, ConstantsAssumption DEF Pc
  <2> QED BY <2>1 DEF Finished, RunRec
<1>2. /\ Idle(E) \in EntryRec /\ ~Idle(E).active /\ EntryKept(EntryOf(r), Idle(E))
  BY DEF Idle, EntryRec, EntryKept
<1>3. F.pc \notin Working
  BY <1>1 DEF Working
<1>4. CASE Record(r, F, Idle(E), ss)
  BY <1>1, <1>2, <1>3, <1>4, RecordEffect
<1>5. CASE Record(r, F, E, ss) /\ E.aborted
  BY <1>1, <1>3, <1>5, RecordEffect
<1> QED BY <1>4, <1>5

\* The loop of run(), entered after the step the coroutine was at.
LEMMA LoopEffect ==
    ASSUME IInv, NEW r \in Runs, run[r].pc \in Working, NEW R, R = run[r],
           NEW E \in EntryRec, NEW ss \in [Step -> StepRec],
           Loop(r, R, E, ss, R.idx + 1), EntryKept(EntryOf(r), E), Keeps(steps[R.plan], ss),
           UNCHANGED <<phase, crashes, ent, shape, origin, born, nPlans, nRuns, owed>>, Notify
    PROVE  Effect(r)
<1>1. R \in RunRec /\ R.idx \in Step /\ R.idx + 1 \in Int /\ NSteps + 1 \in Int
  BY Resumed, ConstantsAssumption DEF Step
<1>2. ASSUME NEW b \in Int, NEW ps, ps = Passed(ss, R.idx + 1, b)
      PROVE  /\ ps \in [Step -> StepRec] /\ Keeps(steps[R.plan], ps)
             /\ \A j \in Step : j >= b => ps[j] = ss[j]
  <2>1. /\ ps \in [Step -> StepRec]
        /\ \A j \in Step : ps[j].approved = ss[j].approved /\ ps[j].st \in {ss[j].st, "skipped"}
        /\ \A j \in Step : j >= b => ps[j] = ss[j]
    BY <1>1, <1>2, PassedFacts
  <2> QED BY <2>1 DEF Keeps
<1>3. CASE Record(r, Finished(R), Idle(E), ss) \/ (Record(r, Finished(R), E, ss) /\ E.aborted)
  BY <1>3, FinishEffect
<1>4. CASE Record(r, Finished(R), Idle(E), Passed(ss, R.idx + 1, NSteps + 1))
  <2>1. PICK ps : ps = Passed(ss, R.idx + 1, NSteps + 1)
    OBVIOUS
  <2>2. ps \in [Step -> StepRec] /\ Keeps(steps[R.plan], ps)
    BY <1>1, <1>2, <2>1
  <2>3. Record(r, Finished(R), Idle(E), ps)
    BY <1>4, <2>1
  <2> QED BY <2>2, <2>3, FinishEffect
<1>5. ASSUME NEW j \in Step, j >= R.idx + 1, ~Passes(ss[j]), Go(r, E), NEW Q, NEW ts, NEW ps,
             ps = Passed(ss, R.idx + 1, j),
             \/ /\ Q = [R EXCEPT !.pc = "polling", !.idx = j, !.polls = 0] /\ ts = ps
             \/ /\ Q = [R EXCEPT !.pc = "resolving", !.idx = j, !.polls = 0]
                /\ ts = [ps EXCEPT ![j].st = "executing"],
             Record(r, Q, E, ts)
      PROVE  Effect(r)
  <2>1. Q \in RunRec /\ Q.pc \in Working /\ Q.ent = R.ent /\ Q.plan = R.plan /\ Q.idx = j
    <3>1. 0 \in 0..MaxPolls /\ j \in 0..NSteps /\ "polling" \in Pc /\ "resolving" \in Pc
          /\ "polling" \in Working /\ "resolving" \in Working
      BY ConstantsAssumption DEF Step, Pc, Working
    <3> QED BY <1>1, <1>5, <3>1 DEF RunRec
  <2>2. /\ ps \in [Step -> StepRec] /\ Keeps(steps[R.plan], ps) /\ ps[j] = ss[j] /\ j \in Int
    BY <1>2, <1>5 DEF Step
  <2>3. ~StepDone(ps[j]) /\ ps[j].st # "skipped"
    BY <1>5, <2>2 DEF Passes, StepDone
  <2>4. ts \in [Step -> StepRec] /\ ~StepDone(ts[j]) /\ Keeps(steps[R.plan], ts)
    <3>1. ASSUME ts = [ps EXCEPT ![j].st = "executing"]
          PROVE  ts \in [Step -> StepRec] /\ ~StepDone(ts[j]) /\ Keeps(steps[R.plan], ts)
      <4>1. /\ ts \in [Step -> StepRec] /\ ts[j].st = "executing" /\ ts[j].approved = ps[j].approved
            /\ \A k \in Step : k # j => ts[k] = ps[k]
        BY <2>2, <3>1 DEF StepRec, Status
      <4>2. steps[R.plan][j].st # "skipped"
        BY <2>2, <2>3 DEF Keeps
      <4> QED BY <2>2, <4>1, <4>2 DEF Keeps, StepDone
    <3> QED BY <1>5, <2>2, <2>3, <3>1
  <2>5. Q.idx > R.idx /\ ~Stale(r)
    <3>1. Q.idx > R.idx
      BY <1>1, <1>5, <2>1 DEF Step
    <3>2. E.aborted = EntryOf(r).aborted /\ E.cur = EntryOf(r).cur
      BY DEF EntryKept
    <3> QED BY <1>5, <3>1, <3>2 DEF Go, Stale, EntryOf
  <2>6. Q.pc # "done"
    BY <2>1 DEF Working
  <2> QED BY <1>5, <2>1, <2>4, <2>5, <2>6, RecordEffect
<1> QED BY <1>3, <1>4, <1>5 DEF Loop

\* executeStep() returning.
LEMMA ReturnsEffect ==
    ASSUME IInv, NEW r \in Runs, run[r].pc \in Working,
           NEW E \in EntryRec, EntryKept(EntryOf(r), E), NEW s \in StepRec,
           ~StepDone(StepOf(r)), s.approved = StepOf(r).approved, Returns(r, E, s),
           UNCHANGED <<phase, crashes, ent, shape, origin, born, nPlans, nRuns, owed>>
    PROVE  Effect(r)
<1>1. PICK ss : ss = [steps[run[r].plan] EXCEPT ![run[r].idx] = s]
  OBVIOUS
<1>2. AfterStep(r, E, ss) /\ Notify
  BY <1>1 DEF Returns
<1>3. ss \in [Step -> StepRec] /\ Keeps(steps[run[r].plan], ss)
  <2>1. steps[run[r].plan] \in [Step -> StepRec] /\ run[r].idx \in Step
    BY Resumed
  <2>2. ss[run[r].idx] = s /\ \A j \in Step : j # run[r].idx => ss[j] = steps[run[r].plan][j]
    BY <1>1, <2>1
  <2> QED BY <1>1, <2>1, <2>2 DEF Keeps, StepOf, StepDone
<1>9. Keeps(steps[run[r].plan], SkipAfter(ss, run[r].idx))
  BY <1>3 DEF Keeps, SkipAfter, StepRec
<1>4. SkipAfter(ss, run[r].idx) \in [Step -> StepRec]
  <2> SUFFICES ASSUME NEW j \in Step PROVE SkipAfter(ss, run[r].idx)[j] \in StepRec
    BY DEF SkipAfter
  <2>1. ss[j] \in StepRec /\ [ss[j] EXCEPT !.st = "skipped", !.why = "halt"] \in StepRec
    BY <1>3 DEF StepRec, Status, Why
  <2> QED BY <2>1 DEF SkipAfter
<1>5. CASE Record(r, Finished(run[r]), Idle(E), ss)
  BY <1>2, <1>3, <1>5, FinishEffect
<1>6. CASE Record(r, Finished(run[r]), Idle(E), SkipAfter(ss, run[r].idx))
  BY <1>2, <1>4, <1>6, <1>9, FinishEffect
<1>7. CASE Loop(r, run[r], E, ss, run[r].idx + 1)
  BY <1>2, <1>3, <1>7, LoopEffect
<1> QED BY <1>2, <1>5, <1>6, <1>7 DEF AfterStep

\* What is written on an order when it leaves stays written, and no order leaves.
OrdersKept ==
    /\ nOrders' = nOrders
    /\ \A o \in Orders : /\ order'[o].plan = order[o].plan /\ order'[o].idx = order[o].idx
                         /\ order'[o].by = order[o].by /\ order'[o].life = order[o].life
                         /\ order[o].st = "none" => order'[o].st = "none"

\* Every action of a coroutine but Send, with the orders it may touch.
LEMMA StepEffect ==
    ASSUME IInv, NEW r \in Runs, RunStep(r), ~StepDone(StepOf(r))
    PROVE  /\ run[r].pc \in Working /\ Effect(r)
           /\ Send(r) \/ OrdersKept
<1>1. run[r].pc \in Working
  BY DEF RunStep, ResolveEmpty, Send, Placed, PlaceFails, Settle, PollEnded, PollAgain, TimeStop,
         TimeStopped, At, Working
<1>2. /\ run[r] \in RunRec /\ run[r].idx \in Step /\ run[r].plan \in Plans
      /\ EntryOf(r) \in EntryRec /\ StepOf(r) \in StepRec
      /\ steps[run[r].plan] \in [Step -> StepRec] /\ nOrders \in 0..MaxOrders
      /\ Holds(run[r], steps[run[r].plan], shape[run[r].plan], origin[run[r].plan])
      /\ order \in [Orders -> OrderRec]
  BY <1>1, Resumed DEF IInv, TypeOK
<1>3. /\ [StepOf(r) EXCEPT !.st = "failed"] \in StepRec
      /\ [StepOf(r) EXCEPT !.st = "filled"] \in StepRec
      /\ [StepOf(r) EXCEPT !.st = "skipped", !.why = "zero"] \in StepRec
      /\ [StepOf(r) EXCEPT !.st = "skipped", !.why = "timestop"] \in StepRec
      /\ [StepOf(r) EXCEPT !.st = "failed"].approved = StepOf(r).approved
      /\ [StepOf(r) EXCEPT !.st = "filled"].approved = StepOf(r).approved
      /\ [StepOf(r) EXCEPT !.st = "skipped", !.why = "zero"].approved = StepOf(r).approved
      /\ [StepOf(r) EXCEPT !.st = "skipped", !.why = "timestop"].approved = StepOf(r).approved
  <2>1. "failed" \in Status /\ "filled" \in Status /\ "skipped" \in Status
        /\ "zero" \in Why /\ "timestop" \in Why /\ "" \in Why
    BY DEF Status, Why
  <2>2. /\ [StepOf(r) EXCEPT !.st = "failed"].approved = StepOf(r).approved
        /\ [StepOf(r) EXCEPT !.st = "filled"].approved = StepOf(r).approved
        /\ [StepOf(r) EXCEPT !.st = "skipped", !.why = "zero"].approved = StepOf(r).approved
        /\ [StepOf(r) EXCEPT !.st = "skipped", !.why = "timestop"].approved = StepOf(r).approved
    BY <1>2 DEF StepRec
  <2> QED BY <1>2, <2>1, <2>2, ClosedStep
<1>4. EntryKept(EntryOf(r), EntryOf(r))
  BY DEF EntryKept
<1>5. ASSUME NEW Q \in RunRec, Q.pc \in Working, Q.pc # "resolving", Q.ent = run[r].ent,
             Q.plan = run[r].plan, Q.idx = run[r].idx,
             NEW ss \in [Step -> StepRec], ~StepDone(ss[run[r].idx]), Keeps(steps[run[r].plan], ss),
             Record(r, Q, EntryOf(r), ss), Notify,
             UNCHANGED <<phase, crashes, ent, shape, origin, born, nPlans, nRuns, owed>>
      PROVE  Effect(r)
  <2>1. Q.pc # "done"
    BY <1>5 DEF Working
  <2> QED BY <1>1, <1>4, <1>2, <1>5, <2>1, RecordEffect
<1>6. ASSUME NEW Q, run' = [run EXCEPT ![r] = Q], UNCHANGED <<entry, steps>>,
             Q.ent = run[r].ent, Q.plan = run[r].plan
      PROVE  Record(r, Q, EntryOf(r), steps[run[r].plan])
  <2>1. entry \in [Entries -> EntryRec] /\ steps \in [Plans -> [Step -> StepRec]]
    BY DEF IInv, TypeOK
  <2>2. entry = [entry EXCEPT ![run[r].ent] = EntryOf(r)]
    BY <2>1 DEF EntryOf
  <2>3. steps = [steps EXCEPT ![run[r].plan] = steps[run[r].plan]]
    BY <2>1
  <2> QED BY <1>6, <2>2, <2>3 DEF Record
<1>7. ~StepDone(steps[run[r].plan][run[r].idx]) /\ Keeps(steps[run[r].plan], steps[run[r].plan])
  BY DEF StepOf, Keeps
<1>8. CASE ResolveEmpty(r)
  BY <1>1, <1>2, <1>3, <1>4, <1>8, ReturnsEffect DEF ResolveEmpty, OrdersKept
<1>9. CASE Send(r)
  <2>1. PICK Q : Q = [run[r] EXCEPT !.pc = "placing", !.ord = nOrders + 1]
    OBVIOUS
  <2>2. nOrders + 1 \in 0..MaxOrders /\ "placing" \in Pc /\ "placing" \in Working
    BY <1>2, <1>9, ConstantsAssumption DEF Send, Pc, Working
  <2>3. Q \in RunRec /\ Q.pc = "placing" /\ Q.ent = run[r].ent /\ Q.plan = run[r].plan /\ Q.idx = run[r].idx
    BY <1>2, <2>1, <2>2 DEF RunRec
  <2>4. run' = [run EXCEPT ![r] = Q] /\ UNCHANGED <<entry, steps>>
    BY <1>9, <2>1 DEF Send
  <2>5. Effect(r)
    BY <1>2, <1>5, <1>6, <1>7, <1>9, <2>2, <2>3, <2>4 DEF Send
  <2> QED BY <1>1, <1>9, <2>5
<1>10. CASE Placed(r)
  <2>1. PICK placed : placed = [StepOf(r) EXCEPT !.ord = run[r].ord]
    OBVIOUS
  <2>2. placed \in StepRec /\ placed.st = "executing" /\ placed.approved = StepOf(r).approved
    BY <1>2, <1>10, <2>1 DEF Placed, At, Holds, StepOf, StepRec, RunRec
  <2>3. [placed EXCEPT !.st = "failed"] \in StepRec /\ [placed EXCEPT !.st = "monitoring"] \in StepRec
        /\ [placed EXCEPT !.st = "monitoring"].st = "monitoring"
        /\ [placed EXCEPT !.st = "failed"].approved = StepOf(r).approved
        /\ [placed EXCEPT !.st = "monitoring"].approved = StepOf(r).approved
    BY <2>2 DEF StepRec, Status
  <2>4. ASSUME NEW pc \in {"settling", "polling"}, NEW s \in StepRec, ~StepDone(s), s.approved = StepOf(r).approved,
               Record(r, [run[r] EXCEPT !.pc = pc, !.ord = 0], EntryOf(r),
                      [steps[run[r].plan] EXCEPT ![run[r].idx] = s]), Notify
        PROVE  Effect(r)
    <3>1. PICK Q : Q = [run[r] EXCEPT !.pc = pc, !.ord = 0]
      OBVIOUS
    <3>2. 0 \in 0..MaxOrders /\ pc \in Pc /\ pc \in Working /\ pc # "resolving"
      BY <2>4, ConstantsAssumption DEF Pc, Working
    <3>3. Q \in RunRec /\ Q.pc = pc /\ Q.ent = run[r].ent /\ Q.plan = run[r].plan /\ Q.idx = run[r].idx
      BY <1>2, <3>1, <3>2 DEF RunRec
    <3>4. PICK ss : ss = [steps[run[r].plan] EXCEPT ![run[r].idx] = s]
      OBVIOUS
    <3>5. /\ ss \in [Step -> StepRec] /\ ss[run[r].idx] = s
          /\ \A j \in Step : j # run[r].idx => ss[j] = steps[run[r].plan][j]
      BY <1>2, <2>4, <3>4
    <3>7. Keeps(steps[run[r].plan], ss)
      BY <1>7, <2>4, <3>5 DEF Keeps, StepOf, StepDone
    <3>6. UNCHANGED <<phase, crashes, ent, shape, origin, born, nPlans, nRuns, owed>>
      BY <1>10 DEF Placed
    <3> QED BY <1>5, <2>4, <3>1, <3>2, <3>3, <3>4, <3>5, <3>6, <3>7
  <2>5. ~StepDone(placed) /\ ~StepDone([placed EXCEPT !.st = "monitoring"])
    BY <2>2, <2>3 DEF StepDone
  <2>6. UNCHANGED <<phase, crashes, ent, shape, origin, born, order, nPlans, nRuns, nOrders, owed>>
    BY <1>10 DEF Placed
  <2>7. Effect(r)
    BY <1>1, <1>4, <1>10, <1>2, <2>1, <2>2, <2>3, <2>4, <2>5, <2>6, ReturnsEffect DEF Placed
  <2> QED BY <1>1, <2>6, <2>7 DEF OrdersKept
<1>11. CASE PlaceFails(r)
  BY <1>1, <1>2, <1>3, <1>4, <1>11, ReturnsEffect DEF PlaceFails, OrdersKept
<1>12. CASE Settle(r)
  BY <1>1, <1>2, <1>3, <1>4, <1>12, ReturnsEffect DEF Settle, OrdersKept
<1>13. CASE PollEnded(r)
  BY <1>1, <1>2, <1>3, <1>4, <1>13, ReturnsEffect DEF PollEnded, OrdersKept
<1>14. CASE PollAgain(r)
  <2>1. UNCHANGED <<phase, crashes, ent, shape, origin, born, order, nPlans, nRuns, nOrders, owed>>
    BY <1>14 DEF PollAgain
  <2>2. CASE run' = [run EXCEPT ![r].polls = @ + 1] /\ UNCHANGED <<entry, steps>> /\ Notify
    <3>1. PICK Q : Q = [run[r] EXCEPT !.polls = @ + 1]
      OBVIOUS
    <3>2. run[r].polls + 1 \in 0..MaxPolls
      BY <1>2, <1>14, ConstantsAssumption DEF PollAgain, RunRec
    <3>3. Q \in RunRec /\ Q.pc = run[r].pc /\ Q.ent = run[r].ent /\ Q.plan = run[r].plan /\ Q.idx = run[r].idx
      BY <1>2, <3>1, <3>2 DEF RunRec
    <3>4. run' = [run EXCEPT ![r] = Q] /\ run[r].pc # "resolving"
      BY <1>2, <1>14, <2>2, <3>1 DEF PollAgain, At
    <3>5. Effect(r)
      BY <1>1, <1>2, <1>5, <1>6, <1>7, <2>1, <2>2, <3>3, <3>4
    <3> QED BY <1>1, <2>1, <3>5 DEF OrdersKept
  <2>3. CASE Returns(r, EntryOf(r), [StepOf(r) EXCEPT !.st = "failed"])
    BY <1>1, <1>2, <1>3, <1>4, <2>1, <2>3, ReturnsEffect DEF OrdersKept
  <2> QED BY <1>14, <2>2, <2>3 DEF PollAgain
<1>15. CASE TimeStop(r)
  <2>1. UNCHANGED <<phase, crashes, ent, shape, origin, born, order, nPlans, nRuns, nOrders, owed>> /\ Notify
    BY <1>15 DEF TimeStop
  <2>2. PICK Q : Q = [run[r] EXCEPT !.pc = "cancelling"]
    OBVIOUS
  <2>3. "cancelling" \in Pc /\ "cancelling" \in Working
    BY DEF Pc, Working
  <2>4. Q \in RunRec /\ Q.pc = "cancelling" /\ Q.ent = run[r].ent /\ Q.plan = run[r].plan /\ Q.idx = run[r].idx
    BY <1>2, <2>2, <2>3 DEF RunRec
  <2>5. run' = [run EXCEPT ![r] = Q] /\ UNCHANGED <<entry, steps>>
    BY <1>15, <2>2 DEF TimeStop
  <2>6. Effect(r)
    BY <1>2, <1>5, <1>6, <1>7, <2>1, <2>3, <2>4, <2>5
  <2> QED BY <1>1, <2>1, <2>6 DEF OrdersKept
<1>16. CASE TimeStopped(r)
  <2>1. PICK H : H = [EntryOf(r) EXCEPT !.halt = TRUE]
    OBVIOUS
  <2>2. H \in EntryRec /\ EntryKept(EntryOf(r), H)
    BY <1>2, <2>1 DEF EntryRec, EntryKept
  <2>3. Effect(r)
    BY <1>1, <1>2, <1>3, <1>4, <1>16, <2>1, <2>2, ReturnsEffect DEF TimeStopped
  <2>4. OrdersKept
    BY <1>2, <1>16 DEF TimeStopped, OrderRec, OrdersKept
  <2> QED BY <1>1, <2>3, <2>4
<1> QED BY <1>8, <1>9, <1>10, <1>11, <1>12, <1>13, <1>14, <1>15, <1>16 DEF RunStep

-----------------------------------------------------------------------------
(***************************************************************************)
(* The actions keep Slot.                                                  *)
(***************************************************************************)
\* The file's image of an entry whose running plan has its denials skipped.
LEMMA ImageDenied ==
    ASSUME NEW E, NEW S, E.active => AllDenied(S[E.plan])
    PROVE  Image(E, S).kind = "active" => AllDenied(Image(E, S).steps)
BY DEF Image, NoPlan

\* A step that leaves coroutines, entries and steps alone keeps Slot.
LEMMA NewsKeepsSlot ==
    ASSUME Slot, UNCHANGED <<ent, entry, steps, run, nRuns, owed>>, disk' = disk \/ Notify
    PROVE  Slot'
<1>1. Unused' /\ Busy' /\ Owes'
  BY DEF Slot, Unused, Busy, Owes, StepOf
<1>2. disk'.kind = "active" => AllDenied(disk'.steps)
  <2>1. CASE disk' = disk
    BY <2>1 DEF Slot, Denied
  <2>2. CASE Notify
    <3>1. entry[ent].active => AllDenied(steps[entry[ent].plan])
      BY DEF Slot, Denied
    <3>2. disk' = Image(entry[ent], steps)
      BY <2>2 DEF Notify, NotifyIn
    <3> QED BY <3>1, <3>2, ImageDenied
  <2> QED BY <2>1, <2>2
<1>3. Denied'
  BY <1>2 DEF Slot, Denied, AllDenied
<1> QED BY <1>1, <1>3 DEF Slot

\* A coroutine's step keeps it.
LEMMA EffectKeepsSlot ==
    ASSUME IInv, IInv', Slot, NEW r \in Runs, run[r].pc \in Working, Effect(r)
    PROVE  Slot'
<1>1. /\ ent \in Entries /\ ent' = ent /\ run[r].ent \in 1..ent /\ run[r].plan \in Plans
      /\ entry \in [Entries -> EntryRec] /\ entry' \in [Entries -> EntryRec] /\ run[r].ent \in Entries
  <2>1. Spawned(r)
    BY DEF Spawned, Working
  <2> QED BY <2>1, CallFacts, Resumed DEF Effect, IInv, Pointers, TypeOK
<1>2. Unused'
  <2>1. \A q \in Runs : q > nRuns' => run'[q].pc = "none"
    <3>1. run[r].pc # "none"
      BY DEF Working
    <3> QED BY <3>1 DEF Effect, Slot, Unused
  <2>2. \A e \in Entries : e > ent' => entry'[e] = NewEntry
    BY <1>1 DEF Effect, Slot, Unused, Entries
  <2> QED BY <2>1, <2>2 DEF Unused
<1>3. \A e \in Entries : entry'[e].aborted => ~entry'[e].active
  BY DEF Effect, EntryKept, Slot, Busy
<1>4. \A q \in Runs : run'[q].pc \in Working => ~StepDone(StepOf(q))'
  <2> SUFFICES ASSUME NEW q \in Runs, run'[q].pc \in Working
               PROVE  ~StepDone(steps'[run'[q].plan][run'[q].idx])
    BY DEF StepOf, StepDone
  <2>1. CASE q = r
    BY <2>1 DEF Effect
  <2>2. CASE q # r
    <3>1. run'[q] = run[q] /\ Spawned(q) /\ Spawned(r)
      BY <2>2 DEF Effect, Spawned, Working
    <3>2. run[q].plan # run[r].plan /\ run[q].plan \in Plans
      BY <2>2, <3>1, CallFacts DEF IInv, OwnPlan
    <3>3. ~StepDone(StepOf(q)) /\ steps'[run[q].plan] = steps[run[q].plan]
      BY <3>1, <3>2 DEF Effect, Slot, Busy
    <3> QED BY <3>1, <3>3 DEF StepOf
  <2> QED BY <2>1, <2>2
<1>5. ASSUME entry'[ent].active
      PROVE  \E q \in Runs : /\ run'[q].pc \in Working /\ run'[q].ent = ent
                             /\ run'[q].plan = entry'[ent].plan
  <2>1. entry[ent].active /\ entry'[ent].plan = entry[ent].plan
    BY <1>1, <1>5 DEF Effect, EntryKept
  <2>2. PICK q \in Runs : run[q].pc \in Working /\ run[q].ent = ent /\ run[q].plan = entry[ent].plan
    BY <2>1 DEF Slot, Busy
  <2>3. CASE q # r
    BY <2>1, <2>2, <2>3 DEF Effect
  <2>4. CASE q = r
    <3>1. run'[r].pc # "done"
      BY <1>1, <1>3, <1>5, <2>2, <2>4 DEF Effect
    <3> QED BY <2>1, <2>2, <2>4, <3>1 DEF Effect
  <2> QED BY <2>3, <2>4
<1>6. Busy'
  BY <1>1, <1>3, <1>4, <1>5 DEF Busy
<1>7. entry'[ent].active => AllDenied(steps'[entry'[ent].plan])
  <2> SUFFICES ASSUME entry'[ent].active, NEW i \in Step, NEW p, p = entry[ent].plan
               PROVE  steps'[p][i].approved \/ steps'[p][i].st = "skipped"
    BY <1>1 DEF Effect, EntryKept, AllDenied
  <2>1. entry[ent].active /\ p \in Plans
    BY <1>1, CallFacts DEF Effect, EntryKept
  <2>2. steps[p][i].approved \/ steps[p][i].st = "skipped"
    BY <2>1 DEF Slot, Denied, AllDenied
  <2>3. CASE p = run[r].plan
    BY <2>2, <2>3 DEF Effect, Keeps
  <2>4. CASE p # run[r].plan
    BY <2>1, <2>2, <2>4 DEF Effect
  <2> QED BY <2>3, <2>4
<1>8. disk'.kind = "active" => AllDenied(disk'.steps)
  BY <1>1, <1>7, ImageDenied DEF Effect
<1>9. Denied' /\ Owes'
  BY <1>1, <1>7, <1>8 DEF Effect, Slot, Denied, Owes, AllDenied
<1> QED BY <1>2, <1>6, <1>9 DEF Slot

\* A call that spawns nothing and leaves the slot inactive keeps it.
LEMMA CallKeepsSlot ==
    ASSUME IInv, IInv', Slot, UNCHANGED <<run, nRuns, owed>>,
           disk' = Image(entry'[ent'], steps'), ~entry'[ent'].active,
           \A e \in Entries : /\ entry'[e].aborted => ~entry'[e].active
                              /\ e > ent' => entry'[e] = NewEntry,
           \A r \in Runs : run[r].pc \in Working => ~StepDone(StepOf(r))'
    PROVE  Slot'
<1>1. Unused' /\ Busy' /\ Owes'
  BY DEF Slot, Unused, Busy, Owes
<1>2. disk'.kind # "active"
  BY DEF Image, NoPlan
<1>3. Denied'
  BY <1>2 DEF Slot, Denied, AllDenied
<1> QED BY <1>1, <1>3 DEF Slot

\* stop() and reset().
LEMMA StopKeepsSlot ==
    ASSUME IInv, IInv', Slot, Stop \/ Reset
    PROVE  Slot'
<1>1. ent \in Entries /\ entry \in [Entries -> EntryRec] /\ entry[ent] \in EntryRec
  BY CallFacts
<1>2. PICK E : E = [entry[ent] EXCEPT !.aborted = TRUE, !.active = FALSE]
  OBVIOUS
<1>3. /\ entry' = [entry EXCEPT ![ent] = E] /\ ~E.active
      /\ UNCHANGED <<run, nRuns, owed, steps>>
      /\ disk' = Image(entry'[ent'], steps') /\ (ent' = ent \/ (ent' = ent + 1 /\ ent' \in Entries))
  <2>1. ~E.active
    BY <1>1, <1>2 DEF EntryRec
  <2>2. entry' = [entry EXCEPT ![ent] = E]
    BY <1>2 DEF Stop, Reset
  <2>3. CASE Stop
    BY <2>1, <2>2, <2>3 DEF Stop, Notify, NotifyIn
  <2>4. CASE Reset
    <3>1. ent + 1 \in Entries
      BY <1>1, <2>4, ConstantsAssumption DEF Reset, Entries
    <3> QED BY <2>1, <2>2, <2>4, <3>1 DEF Reset, NotifyIn
  <2> QED BY <2>3, <2>4
<1>4. ent' >= ent /\ ent' \in Int /\ ent \in Int
  BY <1>1, <1>3 DEF Entries
<1>5. entry'[ent] = E /\ \A e \in Entries : e # ent => entry'[e] = entry[e]
  BY <1>1, <1>3
<1>6. \A e \in Entries : /\ entry'[e].aborted => ~entry'[e].active
                         /\ e > ent' => entry'[e] = NewEntry
  <2> SUFFICES ASSUME NEW e \in Entries
               PROVE  /\ entry'[e].aborted => ~entry'[e].active
                      /\ e > ent' => entry'[e] = NewEntry
    OBVIOUS
  <2>1. e \in Int
    BY DEF Entries
  <2>2. CASE e = ent
    BY <1>3, <1>4, <1>5, <2>1, <2>2
  <2>3. CASE e # ent
    BY <1>3, <1>4, <1>5, <2>1, <2>3 DEF Slot, Unused, Busy
  <2> QED BY <2>2, <2>3
<1>7. ~entry'[ent'].active
  <2>1. ent' # ent => entry'[ent'] = NewEntry
    BY <1>3, <1>4, <1>5 DEF Slot, Unused
  <2> QED BY <1>3, <1>5, <2>1 DEF NewEntry
<1>8. \A r \in Runs : run[r].pc \in Working => ~StepDone(StepOf(r))'
  BY <1>3 DEF Slot, Busy, StepOf
<1> QED BY <1>3, <1>6, <1>7, <1>8, CallKeepsSlot

\* Writing into the plan of an inactive slot keeps the progress of those who walk it.
LEMMA EditKeepsSlot ==
    ASSUME IInv, IInv', Slot, NEW p \in Plans, NEW ss \in [Step -> StepRec],
           steps' = [steps EXCEPT ![p] = ss],
           \A r \in Runs : Spawned(r) => run[r].plan # p \/ SameProgress(steps[p], ss),
           NEW E, entry' = [entry EXCEPT ![ent] = E], ~E.active,
           UNCHANGED <<ent, run, nRuns, owed>>, Notify
    PROVE  Slot'
<1>1. /\ ent \in Entries /\ steps \in [Plans -> [Step -> StepRec]]
      /\ entry \in [Entries -> EntryRec]
  BY CallFacts
<1>2. entry'[ent] = E /\ \A e \in Entries : e # ent => entry'[e] = entry[e]
  BY <1>1
<1>3. \A r \in Runs : run[r].pc \in Working => ~StepDone(StepOf(r))'
  <2> SUFFICES ASSUME NEW r \in Runs, run[r].pc \in Working
               PROVE  ~StepDone(steps'[run'[r].plan][run'[r].idx])
    BY DEF StepOf, StepDone
  <2>1. /\ ~StepDone(StepOf(r)) /\ run[r].plan \in Plans /\ run[r].idx \in Step
        /\ run[r].plan # p \/ SameProgress(steps[p], ss)
    BY CallFacts, Resumed DEF Slot, Busy, Spawned, Working
  <2> QED BY <1>1, <2>1 DEF StepOf, StepDone, SameProgress
<1>4. disk' = Image(entry'[ent'], steps') /\ ~entry'[ent'].active
  BY <1>2 DEF Notify, NotifyIn
<1>5. \A e \in Entries : /\ entry'[e].aborted => ~entry'[e].active
                         /\ e > ent' => entry'[e] = NewEntry
  BY <1>1, <1>2 DEF Slot, Unused, Busy, Entries
<1> QED BY <1>3, <1>4, <1>5, CallKeepsSlot

\* patchStep().
LEMMA PatchStepKeepsSlot ==
    ASSUME IInv, IInv', Slot, NEW i \in Step, NEW ok \in BOOLEAN, PatchStep(i, ok)
    PROVE  Slot'
<1>1. PICK p : p = entry[ent].plan
  OBVIOUS
<1>2. /\ p \in Plans /\ steps \in [Plans -> [Step -> StepRec]] /\ entry \in [Entries -> EntryRec]
      /\ ~entry[ent].active /\ ent \in Entries
  <2>1. CASE entry[ent].proposed
    BY <1>1, <2>1, CallFacts DEF PatchStep
  <2>2. CASE \E r \in Runs : run[r].pc \in Working /\ run[r].plan = p
    BY <1>1, <2>2, CallFacts DEF PatchStep, Spawned, Working
  <2> QED BY <1>1, <2>1, <2>2, CallFacts DEF PatchStep
<1>3. PICK ss : ss = [steps[p] EXCEPT ![i].approved = ok]
  OBVIOUS
<1>4. steps[p] \in [Step -> StepRec] /\ [steps[p][i] EXCEPT !.approved = ok] \in StepRec
  BY <1>2 DEF StepRec
<1>5. ss = [steps[p] EXCEPT ![i] = [steps[p][i] EXCEPT !.approved = ok]]
  BY <1>3
<1>6. ss \in [Step -> StepRec]
  BY <1>4, <1>5
<1>7. SameProgress(steps[p], ss)
  BY <1>4, <1>5 DEF SameProgress, StepRec
<1>8. steps' = [steps EXCEPT ![p] = ss]
  BY <1>1, <1>3 DEF PatchStep
<1>9. entry' = [entry EXCEPT ![ent] = entry[ent]]
  BY <1>2 DEF PatchStep
<1>10. UNCHANGED <<ent, run, nRuns, owed>> /\ Notify
  BY DEF PatchStep
<1> QED BY <1>2, <1>6, <1>7, <1>8, <1>9, <1>10, EditKeepsSlot

\* What spawning a run does: its entry is active exactly while the run has a step to do, and
\* a resting order is left as it was found.
LEMMA SpawnEffect ==
    ASSUME IInv, Unused, NEW p \in Plans, NEW ss \in [Step -> StepRec], Spawn(p, ss),
           NEW n, n = nRuns + 1
    PROVE  /\ n \in Runs /\ run[n].pc = "none" /\ nRuns' = n
           /\ \A q \in Runs : q # n => run'[q] = run[q]
           /\ run'[n].plan = p /\ run'[n].ent = ent
           /\ run'[n].pc \in Working => ~StepDone(steps'[p][run'[n].idx])
           /\ \A e \in Entries : e # ent => entry'[e] = entry[e]
           /\ ~entry'[ent].aborted /\ ~entry'[ent].proposed /\ entry'[ent].plan = p
           /\ entry'[ent].active => run'[n].pc \in Working
           /\ \A q \in Plans : q # p => steps'[q] = steps[q]
           /\ (\E i \in Step : ~Passes(ss[i])) => entry'[ent].active
           /\ \A i \in Step : (Resting(ss[i]) /\ ss[i].approved) => steps'[p][i] = ss[i]
           /\ AllDenied(ss) => AllDenied(steps'[p])
<1>1. PICK E, R : E = Started(entry[ent], p) /\ R = [NoRun EXCEPT !.ent = ent, !.plan = p]
  OBVIOUS
<1>2. /\ ent \in Entries /\ entry \in [Entries -> EntryRec] /\ steps \in [Plans -> [Step -> StepRec]]
      /\ run \in [Runs -> RunRec] /\ nRuns \in 0..MaxRuns
  BY DEF IInv, TypeOK
<1>3. n \in Runs /\ n > nRuns /\ nRuns' = n /\ Loop(n, R, E, ss, 1)
  BY <1>1, <1>2, ConstantsAssumption DEF Spawn, Runs
<1>4. E.active /\ ~E.aborted /\ ~E.proposed /\ E.plan = p /\ E.cur = n
  BY <1>1, <1>2 DEF Started, EntryRec
<1>5. R.ent = ent /\ R.plan = p
  BY <1>1 DEF NoRun
<1>6. ASSUME NEW Q, NEW F, NEW ts, Record(n, Q, F, ts), Q.ent = ent, Q.plan = p
      PROVE  /\ run'[n] = Q /\ entry'[ent] = F /\ steps'[p] = ts
             /\ \A q \in Runs : q # n => run'[q] = run[q]
             /\ \A e \in Entries : e # ent => entry'[e] = entry[e]
             /\ \A q \in Plans : q # p => steps'[q] = steps[q]
  BY <1>2, <1>3, <1>6 DEF Record
<1>7. Go(n, E)
  BY <1>4 DEF Go
<1>8. run[n].pc = "none"
  BY <1>3 DEF Unused
<1>9. ASSUME NEW b \in Int, NEW ps, ps = Passed(ss, 1, b)
      PROVE  /\ ps \in [Step -> StepRec]
             /\ \A i \in Step : ss[i].approved => ps[i] = ss[i]
             /\ \A i \in Step : i >= b => ps[i] = ss[i]
             /\ AllDenied(ss) => AllDenied(ps)
  <2>1. 1 \in Int
    OBVIOUS
  <2>2. /\ ps \in [Step -> StepRec]
        /\ \A i \in Step : /\ ps[i].approved = ss[i].approved /\ ps[i].st \in {ss[i].st, "skipped"}
                           /\ ss[i].approved => ps[i] = ss[i]
                           /\ i >= b => ps[i] = ss[i]
    BY <1>9, <2>1, PassedFacts
  <2>3. \A i \in Step : (ss[i].approved \/ ss[i].st = "skipped")
                         => (ps[i].approved \/ ps[i].st = "skipped")
    BY <2>2
  <2>4. AllDenied(ss) => AllDenied(ps)
    BY <2>3 DEF AllDenied
  <2> QED BY <2>2, <2>4
<1>10. CASE /\ \A j \in Step : j >= 1 => Passes(ss[j])
            /\ Record(n, Finished(R), Idle(E), Passed(ss, 1, NSteps + 1))
  <2>1. Finished(R).ent = ent /\ Finished(R).plan = p /\ Finished(R).pc = "done"
    BY <1>1 DEF Finished, NoRun
  <2>2. ~Idle(E).active /\ ~Idle(E).aborted /\ ~Idle(E).proposed /\ Idle(E).plan = p
    BY <1>1, <1>4, <1>2 DEF Idle, Started, EntryRec
  <2>3. PICK ps : ps = Passed(ss, 1, NSteps + 1)
    OBVIOUS
  <2>4. NSteps + 1 \in Int
    BY ConstantsAssumption
  <2>5. (\A i \in Step : ss[i].approved => ps[i] = ss[i]) /\ (AllDenied(ss) => AllDenied(ps))
    BY <1>9, <2>3, <2>4
  <2>6. /\ run'[n] = Finished(R) /\ entry'[ent] = Idle(E) /\ steps'[p] = ps
        /\ \A q \in Runs : q # n => run'[q] = run[q]
        /\ \A e \in Entries : e # ent => entry'[e] = entry[e]
        /\ \A q \in Plans : q # p => steps'[q] = steps[q]
    BY <1>6, <1>10, <2>1, <2>3
  <2>7. \A j \in Step : Passes(ss[j])
    BY <1>10 DEF Step
  <2>8. "done" \notin Working
    BY DEF Working
  <2> QED BY <1>3, <1>8, <2>1, <2>2, <2>5, <2>6, <2>7, <2>8
<1>11. ASSUME NEW j \in Step, ~Passes(ss[j]), NEW Q, NEW ts, NEW ps, ps = Passed(ss, 1, j),
              Record(n, Q, E, ts),
              \/ /\ Q = [R EXCEPT !.pc = "polling", !.idx = j, !.polls = 0] /\ ts = ps
              \/ /\ Q = [R EXCEPT !.pc = "resolving", !.idx = j, !.polls = 0] /\ ~Resting(ss[j])
                 /\ ts = [ps EXCEPT ![j].st = "executing"]
       PROVE  /\ run'[n].plan = p /\ run'[n].ent = ent /\ run'[n].pc \in Working
              /\ ~StepDone(steps'[p][run'[n].idx]) /\ entry'[ent] = E
              /\ \A q \in Runs : q # n => run'[q] = run[q]
              /\ \A e \in Entries : e # ent => entry'[e] = entry[e]
              /\ \A q \in Plans : q # p => steps'[q] = steps[q]
              /\ \A i \in Step : (Resting(ss[i]) /\ ss[i].approved) => steps'[p][i] = ss[i]
              /\ AllDenied(ss) => AllDenied(steps'[p])
  <2>1. Q.ent = ent /\ Q.plan = p /\ Q.pc \in Working /\ Q.idx = j
    BY <1>1, <1>11 DEF NoRun, Working
  <2>2. j \in Int /\ j >= j
    BY DEF Step
  <2>3. /\ ps \in [Step -> StepRec] /\ ps[j] = ss[j]
        /\ \A i \in Step : ss[i].approved => ps[i] = ss[i]
        /\ AllDenied(ss) => AllDenied(ps)
    BY <1>9, <1>11, <2>2
  <2>4. ~StepDone(ps[j]) /\ ps[j].approved
    BY <1>11, <2>3 DEF Passes
  <2>5. /\ ~StepDone(ts[j])
        /\ \A i \in Step : (Resting(ss[i]) /\ ss[i].approved) => ts[i] = ss[i]
        /\ AllDenied(ss) => AllDenied(ts)
    <3>1. CASE ts = ps
      BY <2>3, <2>4, <3>1
    <3>2. CASE ts = [ps EXCEPT ![j].st = "executing"] /\ ~Resting(ss[j])
      <4>1. /\ ts[j].st = "executing" /\ ts[j].approved
            /\ \A i \in Step : i # j => ts[i] = ps[i]
        BY <2>3, <2>4, <3>2 DEF StepRec
      <4>2. AllDenied(ss) => AllDenied(ts)
        BY <2>3, <4>1 DEF AllDenied
      <4> QED BY <2>3, <3>2, <4>1, <4>2 DEF StepDone
    <3> QED BY <1>11, <3>1, <3>2
  <2>6. /\ run'[n] = Q /\ entry'[ent] = E /\ steps'[p] = ts
        /\ \A q \in Runs : q # n => run'[q] = run[q]
        /\ \A e \in Entries : e # ent => entry'[e] = entry[e]
        /\ \A q \in Plans : q # p => steps'[q] = steps[q]
    BY <1>6, <1>11, <2>1
  <2> QED BY <2>1, <2>5, <2>6
<1> QED BY <1>3, <1>4, <1>7, <1>8, <1>10, <1>11 DEF Loop, Go

\* A run that starts on a plan nobody walks makes the slot active.
LEMMA SpawnKeepsSlot ==
    ASSUME IInv, IInv', Slot, NEW p \in Plans, NEW ss \in [Step -> StepRec], Spawn(p, ss),
           AllDenied(ss), UNCHANGED <<ent, owed>>, \A q \in Runs : Spawned(q) => run[q].plan # p,
           Notify
    PROVE  /\ Slot' /\ entry'[ent'].plan = p /\ ~entry'[ent'].proposed
           /\ \A q \in Runs : \/ run'[q] = run[q]
                              \/ ~Spawned(q) /\ run'[q].plan = p
<1>1. PICK n : n = nRuns + 1
  OBVIOUS
<1>2. Unused /\ ent \in Entries /\ nRuns \in 0..MaxRuns
  BY DEF Slot, IInv, TypeOK
<1>3. /\ n \in Runs /\ run[n].pc = "none" /\ nRuns' = n
      /\ \A q \in Runs : q # n => run'[q] = run[q]
      /\ run'[n].plan = p /\ run'[n].ent = ent
      /\ run'[n].pc \in Working => ~StepDone(steps'[p][run'[n].idx])
      /\ \A e \in Entries : e # ent => entry'[e] = entry[e]
      /\ ~entry'[ent].aborted /\ ~entry'[ent].proposed /\ entry'[ent].plan = p
      /\ entry'[ent].active => run'[n].pc \in Working
      /\ \A q \in Plans : q # p => steps'[q] = steps[q]
      /\ AllDenied(steps'[p])
  BY <1>1, <1>2, SpawnEffect
<1>4. Unused'
  <2>1. \A q \in Runs : q > n => q # n /\ q > nRuns
    BY <1>1, <1>2 DEF Runs
  <2>2. \A e \in Entries : e > ent => e # ent
    BY <1>2 DEF Entries
  <2> QED BY <1>2, <1>3, <2>1, <2>2 DEF Unused
<1>5. \A q \in Runs : run'[q].pc \in Working => ~StepDone(StepOf(q))'
  <2> SUFFICES ASSUME NEW q \in Runs, run'[q].pc \in Working
               PROVE  ~StepDone(steps'[run'[q].plan][run'[q].idx])
    BY DEF StepOf, StepDone
  <2>1. CASE q = n
    BY <1>3, <2>1
  <2>2. CASE q # n
    <3>1. run'[q] = run[q] /\ Spawned(q)
      BY <1>3, <2>2 DEF Spawned, Working
    <3>2. run[q].plan # p /\ run[q].plan \in Plans
      BY <3>1, CallFacts
    <3>3. ~StepDone(StepOf(q)) /\ steps'[run[q].plan] = steps[run[q].plan]
      BY <1>3, <3>1, <3>2 DEF Slot, Busy
    <3> QED BY <3>1, <3>3 DEF StepOf
  <2> QED BY <2>1, <2>2
<1>6. Busy'
  BY <1>3, <1>5 DEF Busy, Slot
<1>7. disk'.kind = "active" => AllDenied(disk'.steps)
  BY <1>3, ImageDenied DEF Notify, NotifyIn
<1>8. Denied' /\ Owes'
  BY <1>3, <1>7 DEF Slot, Denied, Owes, AllDenied
<1> QED BY <1>3, <1>4, <1>6, <1>8 DEF Slot, Spawned

\* The death of the process: what it had is owed, and nothing is active.
LEMMA CrashKeepsSlot ==
    ASSUME IInv, Slot, Crash
    PROVE  Slot'
<1>1. /\ ent' = 1 /\ 1 \in Entries /\ nRuns' = 0 /\ disk' = disk
      /\ entry' = [e \in Entries |-> NewEntry] /\ run' = [r \in Runs |-> NoRun]
  BY ConstantsAssumption DEF Crash, Entries
<1>2. \A r \in Runs : run'[r].pc = "none" /\ run'[r].pc \notin Working
  BY <1>1 DEF NoRun, Working
<1>3. \A e \in Entries : entry'[e] = NewEntry
  BY <1>1
<1>4. Unused' /\ Busy'
  BY <1>1, <1>2, <1>3 DEF Unused, Busy, NewEntry
<1>5. ASSUME owed'.kind = "active"
      PROVE  AllDenied(owed'.steps) /\ \E i \in Step : ~Passes(owed'.steps[i])
  <2>1. CASE phase # "up"
    BY <1>5, <2>1 DEF Crash, Slot, Denied, Owes
  <2>2. CASE phase = "up"
    <3>1. owed' = Image(entry[ent], steps)
      BY <2>2 DEF Crash
    <3>2. entry[ent].active /\ owed'.steps = steps[entry[ent].plan]
      BY <1>5, <3>1 DEF Image, NoPlan
    <3>3. AllDenied(owed'.steps)
      BY <3>2 DEF Slot, Denied
    <3>4. PICK r \in Runs : run[r].pc \in Working /\ run[r].plan = entry[ent].plan
      BY <3>2 DEF Slot, Busy
    <3>5. run[r].idx \in Step /\ ~StepDone(StepOf(r))
      BY <3>4 DEF Slot, Busy, IInv, Pointers
    <3>6. ~StepDone(owed'.steps[run[r].idx])
      BY <3>2, <3>4, <3>5 DEF StepOf
    <3> QED BY <3>3, <3>5, <3>6 DEF AllDenied, Passes, StepDone
  <2> QED BY <2>1, <2>2
<1>6. Owes'
  BY <1>5 DEF Owes
<1>7. Denied'
  BY <1>1, <1>3, <1>5 DEF Slot, Denied, NewEntry, AllDenied
<1> QED BY <1>4, <1>6, <1>7 DEF Slot

-----------------------------------------------------------------------------
(***************************************************************************)
(* The actions keep Births and Sent.                                       *)
(***************************************************************************)
\* Steps that build nothing.
LEMMA BirthsStay ==
    ASSUME IInv, Births, UNCHANGED <<born, origin, nPlans, crashes>>, phase' \in {phase, "up"},
           \A r \in Runs : Spawned(r)' => \/ Spawned(r) /\ run'[r].plan = run[r].plan
                                          \/ entry[ent].proposed /\ run'[r].plan = entry[ent].plan,
           entry'[ent'].proposed => entry[ent].proposed /\ entry'[ent'].plan = entry[ent].plan
    PROVE  Births'
<1>1. \A r \in Runs : Spawned(r)' => born'[run'[r].plan] = crashes'
  BY DEF Births
<1>2. entry'[ent'].proposed => born'[entry'[ent'].plan] = crashes'
  BY DEF Births
<1>3. phase' = "booting" => phase = "booting"
  OBVIOUS
<1> QED BY <1>1, <1>2, <1>3 DEF Births

\* Steps that build a plan: propose() and start() one of their own, resumePlansIfAny() a copy.
LEMMA BirthsGrow ==
    ASSUME IInv, Births, NEW n, n = nPlans + 1, NEW sh \in Shapes, NEW og \in Plans, NewPlan(sh, og),
           UNCHANGED crashes,
           \/ og = n /\ phase' = phase
           \/ og <= nPlans /\ phase = "booting" /\ phase' = "up",
           \A r \in Runs : Spawned(r)' => \/ Spawned(r) /\ run'[r].plan = run[r].plan
                                          \/ run'[r].plan = n,
           entry'[ent'].proposed => entry'[ent'].plan = n
    PROVE  Births'
<1>1. /\ nPlans \in 0..MaxPlans /\ nPlans \in Nat /\ nPlans' = n /\ n \in Plans
      /\ origin'[n] = og /\ born'[n] = crashes /\ crashes \in Nat
      /\ \A q \in Plans : q # n => origin'[q] = origin[q] /\ born'[q] = born[q]
      /\ origin \in [Plans -> Plans] /\ born \in [Plans -> 0..MaxCrashes]
  <2>1. /\ nPlans \in 0..MaxPlans /\ nPlans \in Nat /\ crashes \in Nat
        /\ origin \in [Plans -> Plans] /\ born \in [Plans -> 0..MaxCrashes]
    BY ConstantsAssumption DEF IInv, TypeOK
  <2>2. nPlans' = n /\ n \in Plans
    BY <2>1, ConstantsAssumption DEF NewPlan, Plans
  <2> QED BY <2>1, <2>2 DEF NewPlan
<1>2. \A q \in 1..n : q = n \/ (q \in 1..nPlans /\ q # n /\ q \in Plans /\ q \in Nat)
  BY <1>1, ConstantsAssumption DEF Plans
<1>3. \A q \in 1..nPlans : /\ q # n /\ origin'[q] = origin[q] /\ born'[q] = born[q]
                           /\ origin[q] <= nPlans /\ origin[q] \in Nat /\ born[q] <= crashes
  <2> SUFFICES ASSUME NEW q \in 1..nPlans
               PROVE  /\ q # n /\ origin'[q] = origin[q] /\ born'[q] = born[q]
                      /\ origin[q] <= nPlans /\ origin[q] \in Nat /\ born[q] <= crashes
    OBVIOUS
  <2>1. q \in Plans /\ q # n
    BY <1>1, ConstantsAssumption DEF Plans
  <2>2. origin[q] \in Nat
    BY <1>1, <2>1 DEF Plans
  <2> QED BY <1>1, <2>1, <2>2 DEF Births
<1>4. \A r \in Runs : Spawned(r)' => born'[run'[r].plan] = crashes'
  <2> SUFFICES ASSUME NEW r \in Runs, Spawned(r)' PROVE born'[run'[r].plan] = crashes
    OBVIOUS
  <2>1. CASE run'[r].plan = n
    BY <1>1, <2>1
  <2>2. CASE Spawned(r) /\ run'[r].plan = run[r].plan
    <3>1. run[r].plan \in 1..nPlans /\ born[run[r].plan] = crashes
      BY <2>2 DEF IInv, Pointers, Births
    <3> QED BY <1>3, <2>2, <3>1
  <2> QED BY <2>1, <2>2
<1>5. entry'[ent'].proposed => born'[entry'[ent'].plan] = crashes'
  BY <1>1
<1>6. \A q \in 1..n : born'[q] <= crashes /\ origin'[q] <= n
  <2> SUFFICES ASSUME NEW q \in 1..n PROVE born'[q] <= crashes /\ origin'[q] <= n
    OBVIOUS
  <2>1. CASE q = n
    BY <1>1, <2>1
  <2>2. CASE q \in 1..nPlans
    BY <1>1, <1>3, <2>2
  <2> QED BY <1>2, <2>1, <2>2
<1>7. ASSUME phase' = "booting", NEW q \in 1..n, born'[q] = crashes PROVE origin'[q] = q
  <2>1. og = n /\ phase = "booting"
    BY <1>7
  <2>2. CASE q = n
    BY <1>1, <2>1, <2>2
  <2>3. CASE q \in 1..nPlans
    BY <1>3, <1>7, <2>1, <2>3 DEF Births
  <2> QED BY <1>2, <2>2, <2>3
<1>8. ASSUME NEW q \in 1..nPlans, born[q] = crashes, origin[q] = og PROVE og = q
  <2>1. og <= nPlans /\ og # n
    BY <1>1, <1>3, <1>8
  <2>2. phase = "booting"
    BY <2>1
  <2> QED BY <1>8, <2>2 DEF Births
<1>9. ASSUME NEW q \in 1..n, NEW s \in 1..n, q # s, born'[q] = born'[s], origin'[q] = origin'[s]
      PROVE  origin'[q] \in {q, s}
  <2>1. CASE q = n
    <3>1. s \in 1..nPlans
      BY <1>2, <1>9, <2>1
    <3> QED BY <1>1, <1>3, <1>8, <1>9, <2>1, <3>1
  <2>2. CASE s = n
    <3>1. q \in 1..nPlans
      BY <1>2, <1>9, <2>2
    <3> QED BY <1>1, <1>3, <1>8, <1>9, <2>2, <3>1
  <2>3. CASE q \in 1..nPlans /\ s \in 1..nPlans
    BY <1>3, <1>9, <2>3 DEF Births
  <2> QED BY <1>2, <2>1, <2>2, <2>3
<1> QED BY <1>1, <1>4, <1>5, <1>6, <1>7, <1>9 DEF Births

\* Steps that send nothing: the orders and the arrays they left from stay, and coroutines
\* only advance.
LEMMA SentStays ==
    ASSUME IInv, Sent, OrdersKept, UNCHANGED crashes, nPlans' \in Nat, nPlans <= nPlans',
           \A q \in 1..nPlans : born'[q] = born[q] /\ origin'[q] = origin[q],
           \A r \in Runs : Spawned(r) =>
              \/ run'[r] = run[r]
              \/ /\ Spawned(r)' /\ run'[r].plan = run[r].plan /\ run[r].idx \in Step
                 /\ (run'[r].idx = run[r].idx /\ run'[r].pc # "resolving") \/ run'[r].idx > run[r].idx
                 /\ run'[r].idx \in Step
    PROVE  Sent'
<1>1. /\ nPlans \in Nat /\ nOrders \in 0..MaxOrders /\ nOrders' = nOrders
      /\ \A o \in 1..nOrders : o \in Orders /\ order[o].idx \in Int
      /\ \A o \in Orders : /\ order'[o].plan = order[o].plan /\ order'[o].idx = order[o].idx
                           /\ order'[o].by = order[o].by /\ order'[o].life = order[o].life
                           /\ order[o].st = "none" => order'[o].st = "none"
      /\ run \in [Runs -> RunRec]
  <2>1. /\ nPlans \in Nat /\ nOrders \in 0..MaxOrders /\ order \in [Orders -> OrderRec]
        /\ run \in [Runs -> RunRec] /\ MaxOrders \in Nat
    BY ConstantsAssumption DEF IInv, TypeOK
  <2>2. \A o \in 1..nOrders : o \in Orders
    BY <2>1 DEF Orders
  <2>3. \A o \in Orders : order[o].idx \in Int
    BY <2>1 DEF OrderRec
  <2> QED BY <2>1, <2>2, <2>3 DEF OrdersKept
<1>2. ASSUME NEW o \in 1..nOrders PROVE SentBy(o)'
  <2>1. /\ order[o].by \in 1..nPlans /\ order[o].plan = origin[order[o].by]
        /\ order[o].life = born[order[o].by]
        /\ order'[o].plan = order[o].plan /\ order'[o].idx = order[o].idx
        /\ order'[o].by = order[o].by /\ order'[o].life = order[o].life
    BY <1>1, <1>2 DEF Sent, SentBy
  <2>2. /\ order'[o].by \in 1..nPlans' /\ order'[o].plan = origin'[order'[o].by]
        /\ order'[o].life = born'[order'[o].by]
    BY <1>1, <2>1
  <2>3. ASSUME order'[o].life = crashes'
        PROVE  \E r \in Runs : /\ Spawned(r)' /\ run'[r].plan = order'[o].by
                               /\ order'[o].idx <= run'[r].idx
                               /\ run'[r].pc = "resolving" => order'[o].idx < run'[r].idx
    <3>1. PICK r \in Runs : /\ Spawned(r) /\ run[r].plan = order[o].by /\ order[o].idx <= run[r].idx
                            /\ run[r].pc = "resolving" => order[o].idx < run[r].idx
      BY <2>1, <2>3 DEF Sent, SentBy
    <3>2. CASE run'[r] = run[r]
      BY <2>1, <3>1, <3>2 DEF Spawned
    <3>3. CASE /\ Spawned(r)' /\ run'[r].plan = run[r].plan /\ run[r].idx \in Step
               /\ (run'[r].idx = run[r].idx /\ run'[r].pc # "resolving") \/ run'[r].idx > run[r].idx
               /\ run'[r].idx \in Step
      <4>1. order[o].idx \in Int /\ run[r].idx \in Int /\ run'[r].idx \in Int
        BY <1>1, <3>3 DEF Step
      <4>2. /\ order[o].idx <= run'[r].idx
            /\ run'[r].pc = "resolving" => order[o].idx < run'[r].idx
        BY <3>1, <3>3, <4>1
      <4> QED BY <2>1, <3>1, <3>3, <4>2
    <3> QED BY <3>1, <3>2, <3>3
  <2> QED BY <2>2, <2>3 DEF SentBy
<1>3. \A a, b \in 1..nOrders' : (a # b /\ order'[a].by = order'[b].by) => order'[a].idx # order'[b].idx
  BY <1>1 DEF Sent
<1>4. \A o \in Orders : order'[o].st # "none" => o <= nOrders'
  BY <1>1 DEF Sent
<1> QED BY <1>1, <1>2, <1>3, <1>4 DEF Sent

\* Send: the coroutine was at that step, and no order had left for it from its array.
LEMMA SendKeepsSent ==
    ASSUME IInv, IInv', Births, Sent, NEW r \in Runs, Send(r)
    PROVE  Sent'
<1>1. PICK n, t, k : n = nOrders + 1 /\ t = run[r].plan /\ k = run[r].idx
  OBVIOUS
<1>2. run[r].pc = "resolving" /\ run[r].pc \in Working /\ Spawned(r)
  BY DEF Send, At, Spawned, Working
<1>3. /\ run[r] \in RunRec /\ t \in Plans /\ k \in Step /\ run \in [Runs -> RunRec]
      /\ order \in [Orders -> OrderRec] /\ nOrders \in Nat /\ n \in Orders /\ nOrders' = n
      /\ t \in 1..nPlans /\ born[t] = crashes
  <2>1. nOrders \in 0..MaxOrders /\ nOrders < MaxOrders /\ order \in [Orders -> OrderRec]
    BY DEF Send, IInv, TypeOK
  <2>2. nOrders \in Nat /\ n \in Orders /\ nOrders' = n
    BY <1>1, <2>1, ConstantsAssumption DEF Send, Orders
  <2>3. t \in 1..nPlans /\ born[t] = crashes
    BY <1>1, <1>2 DEF IInv, Pointers, Births
  <2> QED BY <1>1, <1>2, <2>1, <2>2, <2>3, Resumed DEF IInv, TypeOK
<1>4. /\ order'[n] = [st |-> "sent", got |-> "none", plan |-> origin[t], idx |-> k,
                      by |-> t, life |-> crashes]
      /\ \A o \in Orders : o # n => order'[o] = order[o]
      /\ run'[r].pc = "placing" /\ run'[r].plan = t /\ run'[r].idx = k
      /\ \A q \in Runs : q # r => run'[q] = run[q]
      /\ UNCHANGED <<origin, born, crashes, nPlans>>
  BY <1>1, <1>3 DEF Send
<1>5. \A o \in 1..n : o = n \/ (o \in 1..nOrders /\ o # n /\ o \in Orders)
  <2>1. n <= MaxOrders /\ MaxOrders \in Nat
    BY <1>3, ConstantsAssumption DEF Orders
  <2> QED BY <1>1, <1>3, <2>1 DEF Orders
<1>6. ASSUME NEW o \in 1..nOrders PROVE SentBy(o)' /\ (order[o].by = t => order[o].idx # k)
  <2>1. o \in Orders /\ o # n /\ order'[o] = order[o] /\ SentBy(o)
    <3>1. o \in 1..n /\ o # n
      BY <1>1, <1>3, <1>6
    <3> QED BY <1>4, <1>5, <1>6, <3>1 DEF Sent
  <2>2. order[o].idx \in Int /\ k \in Int
    BY <1>3, <2>1 DEF OrderRec, Step
  <2>3. ASSUME order[o].life = crashes
        PROVE  /\ \E q \in Runs : /\ Spawned(q)' /\ run'[q].plan = order[o].by
                                  /\ order[o].idx <= run'[q].idx
                                  /\ run'[q].pc = "resolving" => order[o].idx < run'[q].idx
               /\ order[o].by = t => order[o].idx # k
    <3>1. PICK q \in Runs : /\ Spawned(q) /\ run[q].plan = order[o].by /\ order[o].idx <= run[q].idx
                            /\ run[q].pc = "resolving" => order[o].idx < run[q].idx
      BY <2>1, <2>3 DEF SentBy
    <3>2. CASE q = r
      <4>1. order[o].idx < k
        BY <1>1, <1>2, <3>1, <3>2
      <4> QED BY <1>1, <1>4, <2>2, <3>1, <3>2, <4>1 DEF Spawned
    <3>3. CASE q # r
      <4>1. order[o].by # t
        BY <1>1, <1>2, <3>1, <3>3 DEF IInv, OwnPlan
      <4> QED BY <1>4, <3>1, <3>3, <4>1 DEF Spawned
    <3> QED BY <3>2, <3>3
  <2>4. order[o].by = t => order[o].life = crashes
    BY <1>3, <2>1 DEF SentBy
  <2>5. SentBy(o)'
    BY <1>4, <2>1, <2>3 DEF SentBy
  <2> QED BY <2>3, <2>4, <2>5
<1>7. SentBy(n)'
  <2>1. Spawned(r)' /\ k <= k
    BY <1>3, <1>4 DEF Spawned, Step
  <2> QED BY <1>3, <1>4, <2>1 DEF SentBy
<1>8. \A a, b \in 1..n : (a # b /\ order'[a].by = order'[b].by) => order'[a].idx # order'[b].idx
  BY <1>4, <1>5, <1>6 DEF Sent
<1>9. \A o \in Orders : order'[o].st # "none" => o <= n
  <2> SUFFICES ASSUME NEW o \in Orders, order'[o].st # "none", o # n PROVE o <= n
    BY <1>1, <1>3
  <2>1. o <= nOrders
    BY <1>4 DEF Sent
  <2> QED BY <1>1, <1>3, <2>1 DEF Orders
<1>10. \A o \in 1..n : SentBy(o)'
  BY <1>5, <1>6, <1>7
<1> QED BY <1>3, <1>8, <1>9, <1>10 DEF Sent

\* Every step of a coroutine keeps all three.
LEMMA RunStepKeepsLife ==
    ASSUME IInv, IInv', Life, NEW r \in Runs, RunStep(r)
    PROVE  Life'
<1>1. run[r].pc \in Working
  BY DEF RunStep, ResolveEmpty, Send, Placed, PlaceFails, Settle, PollEnded, PollAgain, TimeStop,
         TimeStopped, At, Working
<1>2. ~StepDone(StepOf(r))
  BY <1>1 DEF Life, Slot, Busy
<1>3. Effect(r) /\ (Send(r) \/ OrdersKept)
  BY <1>2, StepEffect
<1>4. Slot'
  BY <1>1, <1>3, EffectKeepsSlot DEF Life
<1>5. ent \in Entries /\ run[r].idx \in Step /\ nPlans \in Nat
  BY <1>1, Resumed, CallFacts, ConstantsAssumption
<1>6. Births'
  <2>1. \A q \in Runs : Spawned(q)' => Spawned(q) /\ run'[q].plan = run[q].plan
    BY <1>1, <1>3 DEF Effect, Spawned, Working
  <2>2. entry'[ent'].proposed => entry[ent].proposed /\ entry'[ent'].plan = entry[ent].plan
    BY <1>3, <1>5 DEF Effect, EntryKept
  <2>3. UNCHANGED <<born, origin, nPlans, crashes, phase>>
    BY <1>3 DEF Effect
  <2> QED BY <2>1, <2>2, <2>3, BirthsStay DEF Life
<1>7. ASSUME OrdersKept PROVE Sent'
  <2>1. run'[r].pc \in Working => run'[r].idx \in Step
    BY DEF IInv, Pointers
  <2>2. /\ Spawned(r)' /\ run'[r].plan = run[r].plan /\ run'[r].idx \in Step
        /\ (run'[r].idx = run[r].idx /\ run'[r].pc # "resolving") \/ run'[r].idx > run[r].idx
    BY <1>3, <1>5, <2>1 DEF Effect, Spawned, Working
  <2>3. \A q \in Runs : q # r => run'[q] = run[q]
    BY <1>3 DEF Effect
  <2>4. UNCHANGED <<born, origin, nPlans, crashes>> /\ nPlans <= nPlans'
    BY <1>3, <1>5 DEF Effect
  <2> QED BY <1>5, <1>7, <2>2, <2>3, <2>4, SentStays DEF Life
<1>8. Sent'
  BY <1>3, <1>7, SendKeepsSent DEF Life
<1> QED BY <1>4, <1>6, <1>8 DEF Life

\* A step that leaves coroutines, entries and steps alone and only brings news of the orders.
LEMMA NewsKeepsLife ==
    ASSUME IInv, IInv', Life, OrdersKept, disk' = disk \/ Notify, phase' \in {phase, "up"},
           UNCHANGED <<crashes, ent, entry, steps, origin, born, run, nPlans, nRuns, owed>>
    PROVE  Life'
<1>1. Slot'
  BY NewsKeepsSlot DEF Life
<1>2. Births'
  BY BirthsStay DEF Life, Spawned
<1>3. nPlans \in Nat
  BY ConstantsAssumption DEF IInv, TypeOK
<1>4. Sent'
  BY <1>3, SentStays DEF Life
<1> QED BY <1>1, <1>2, <1>4 DEF Life

\* A call that builds no plan: the coroutines it starts walk the staged one.
LEMMA OldPlanKeepsLife ==
    ASSUME IInv, IInv', Life, Slot', UNCHANGED <<phase, crashes, order, nOrders, nPlans, origin, born>>,
           \A r \in Runs : \/ run'[r] = run[r]
                           \/ ~Spawned(r) /\ entry[ent].proposed /\ run'[r].plan = entry[ent].plan,
           entry'[ent'].proposed => entry[ent].proposed /\ entry'[ent'].plan = entry[ent].plan
    PROVE  Life'
<1>1. Births'
  BY BirthsStay DEF Life, Spawned
<1>2. nPlans \in Nat
  BY ConstantsAssumption DEF IInv, TypeOK
<1>3. Sent'
  BY <1>2, SentStays DEF Life, OrdersKept
<1> QED BY <1>1, <1>3 DEF Life

\* The calls that build none, but for confirmProposal().
LEMMA CallKeepsLife ==
    ASSUME IInv, IInv', Life, Stop \/ Reset \/ (\E i \in Step, ok \in BOOLEAN : PatchStep(i, ok))
    PROVE  Life'
<1>1. Slot'
  BY StopKeepsSlot, PatchStepKeepsSlot DEF Life
<1>2. UNCHANGED <<phase, crashes, order, nOrders, nPlans, origin, born, run>>
  BY DEF Stop, Reset, PatchStep
<1>3. /\ ent \in Entries /\ entry \in [Entries -> EntryRec]
      /\ \A e \in Entries : e > ent => entry[e] = NewEntry
  BY CallFacts DEF Life, Slot, Unused
<1>4. entry'[ent'].proposed => entry[ent].proposed /\ entry'[ent'].plan = entry[ent].plan
  <2>1. CASE Stop
    BY <1>3, <2>1 DEF Stop, EntryRec
  <2>2. CASE Reset
    <3>1. ent + 1 \in Entries /\ ent + 1 > ent /\ ent + 1 # ent
      BY <1>3, <2>2, ConstantsAssumption DEF Reset, Entries
    <3>2. entry'[ent'] = NewEntry
      BY <1>3, <2>2, <3>1 DEF Reset
    <3> QED BY <3>2 DEF NewEntry
  <2>3. CASE \E i \in Step, ok \in BOOLEAN : PatchStep(i, ok)
    BY <2>3 DEF PatchStep
  <2> QED BY <2>1, <2>2, <2>3
<1> QED BY <1>1, <1>2, <1>4, OldPlanKeepsLife

\* The steps denied in review are skipped before a run starts.
LEMMA DenyDenies ==
    ASSUME NEW ss \in [Step -> StepRec], NEW ds, ds = Deny(ss)
    PROVE  AllDenied(ds)
<1> SUFFICES ASSUME NEW i \in Step PROVE ds[i].approved \/ ds[i].st = "skipped"
  BY DEF AllDenied
<1>1. ss[i] \in StepRec
  OBVIOUS
<1>2. CASE ss[i].approved
  BY <1>1, <1>2 DEF Deny
<1>3. CASE ~ss[i].approved
  <2>1. ds[i] = [ss[i] EXCEPT !.st = "skipped", !.why = "denied"]
    BY <1>3 DEF Deny
  <2> QED BY <1>1, <2>1 DEF StepRec
<1> QED BY <1>2, <1>3

\* confirmProposal().
LEMMA ConfirmProposalKeepsLife ==
    ASSUME IInv, IInv', Life, ConfirmProposal
    PROVE  Life'
<1>1. PICK p : p = entry[ent].plan
  OBVIOUS
<1>2. /\ entry[ent].proposed /\ ~entry[ent].active /\ p \in Plans
      /\ steps \in [Plans -> [Step -> StepRec]]
      /\ ent \in Entries /\ entry \in [Entries -> EntryRec]
      /\ \A q \in Runs : Spawned(q) => run[q].plan # p
  BY <1>1, CallFacts DEF ConfirmProposal, IInv, OwnPlan, Plans
<1>3. PICK ds : ds = Deny(steps[p])
  OBVIOUS
<1>4. ds \in [Step -> StepRec] /\ AllDenied(ds)
  BY <1>2, <1>3, DenyFacts, DenyDenies
<1>5. UNCHANGED <<phase, crashes, ent, shape, origin, born, order, nPlans, nOrders, owed>> /\ Notify
  BY DEF ConfirmProposal
<1>6. CASE steps' = [steps EXCEPT ![p] = ds] /\ UNCHANGED <<entry, run, nRuns>>
  <2>1. entry' = [entry EXCEPT ![ent] = entry[ent]]
    BY <1>2, <1>6
  <2>2. Slot'
    BY <1>2, <1>4, <1>5, <1>6, <2>1, EditKeepsSlot DEF Life
  <2> QED BY <1>5, <1>6, <2>2, OldPlanKeepsLife
<1>7. CASE Spawn(p, ds)
  <2>1. /\ Slot' /\ entry'[ent'].plan = p /\ ~entry'[ent'].proposed
        /\ \A q \in Runs : run'[q] = run[q] \/ (~Spawned(q) /\ run'[q].plan = p)
    BY <1>2, <1>4, <1>5, <1>7, SpawnKeepsSlot DEF Life
  <2> QED BY <1>1, <1>2, <1>5, <2>1, OldPlanKeepsLife
<1> QED BY <1>1, <1>3, <1>6, <1>7 DEF ConfirmProposal

\* A step that builds plan n, whose coroutine, if it has one, is new.
LEMMA NewPlanKeepsLife ==
    ASSUME IInv, IInv', Life, Slot', NEW n, n = nPlans + 1, NEW sh \in Shapes, NEW og \in Plans,
           NewPlan(sh, og), UNCHANGED <<crashes, order, nOrders>>,
           \/ og = n /\ phase' = phase
           \/ og <= nPlans /\ phase = "booting" /\ phase' = "up",
           \A r \in Runs : run'[r] = run[r] \/ (~Spawned(r) /\ run'[r].plan = n),
           entry'[ent'].proposed => entry'[ent'].plan = n
    PROVE  Life'
<1>1. Births'
  BY BirthsGrow DEF Life, Spawned
<1>2. nPlans \in Nat /\ nPlans \in 0..MaxPlans /\ nPlans' = n /\ n > nPlans /\ n \in Nat
      /\ born \in [Plans -> 0..MaxCrashes] /\ origin \in [Plans -> Plans]
  BY ConstantsAssumption DEF IInv, TypeOK, NewPlan
<1>3. \A q \in 1..nPlans : born'[q] = born[q] /\ origin'[q] = origin[q]
  <2> SUFFICES ASSUME NEW q \in 1..nPlans PROVE born'[q] = born[q] /\ origin'[q] = origin[q]
    OBVIOUS
  <2>1. q \in Plans /\ q # n
    BY <1>2, ConstantsAssumption DEF Plans
  <2> QED BY <1>2, <2>1 DEF NewPlan
<1>4. Sent'
  BY <1>2, <1>3, SentStays DEF Life, OrdersKept
<1> QED BY <1>1, <1>4 DEF Life

\* propose() and start(): a new plan, for which no order was ever sent.
LEMMA BirthKeepsLife ==
    ASSUME IInv, IInv', Life, NEW sh \in Shapes, Propose(sh) \/ Start(sh)
    PROVE  Life'
<1>1. PICK n : n = nPlans + 1
  OBVIOUS
<1>2. NewPlan(sh, n) /\ UNCHANGED <<phase, crashes, ent, order, nOrders, owed>> /\ Notify
  BY <1>1 DEF Propose, Start
<1>3. n \in Plans /\ \A q \in Runs : Spawned(q) => run[q].plan # n
  BY <1>1, <1>2, NewPlanFacts
<1>4. /\ Slot' /\ entry'[ent'].plan = n
      /\ \A r \in Runs : run'[r] = run[r] \/ (~Spawned(r) /\ run'[r].plan = n)
  <2>1. CASE Propose(sh)
    <3>1. PICK E : E = [entry[ent] EXCEPT !.proposed = TRUE, !.plan = n]
      OBVIOUS
    <3>2. /\ entry' = [entry EXCEPT ![ent] = E] /\ steps' = [steps EXCEPT ![n] = Fresh]
          /\ UNCHANGED <<run, nRuns>> /\ ~entry[ent].active
      BY <1>1, <2>1, <3>1 DEF Propose
    <3>3. ~E.active /\ E.plan = n /\ Fresh \in [Step -> StepRec]
      BY <3>1, <3>2, CallFacts DEF EntryRec
    <3>4. Slot'
      BY <1>2, <1>3, <3>2, <3>3, EditKeepsSlot DEF Life
    <3> QED BY <1>2, <3>2, <3>3, <3>4, CallFacts
  <2>2. CASE Start(sh)
    <3>1. Spawn(n, Fresh) /\ Fresh \in [Step -> StepRec]
      BY <1>1, <2>2, CallFacts DEF Start
    <3>2. AllDenied(Fresh)
      BY DEF AllDenied, Fresh, NewStep
    <3> QED BY <1>2, <1>3, <3>1, <3>2, SpawnKeepsSlot DEF Life
  <2> QED BY <2>1, <2>2
<1> QED BY <1>1, <1>2, <1>3, <1>4, NewPlanKeepsLife

\* resumePlansIfAny().
LEMMA ResumePlansKeepsLife ==
    ASSUME IInv, IInv', Life, ResumePlans
    PROVE  Life'
<1>1. UNCHANGED <<crashes, ent, order, nOrders, owed>> /\ phase = "booting" /\ phase' = "up"
  BY DEF ResumePlans
<1>2. CASE UNCHANGED <<entry, steps, shape, origin, born, run, nPlans, nRuns, disk>>
  BY <1>1, <1>2, NewsKeepsLife DEF OrdersKept
<1>3. PICK n : n = nPlans + 1
  OBVIOUS
<1>4. ASSUME disk.kind # "none", NewPlan(shape[disk.plan], origin[disk.plan])
      PROVE  /\ n \in Plans /\ disk.steps \in [Step -> StepRec]
             /\ \A q \in Runs : Spawned(q) => run[q].plan # n
             /\ shape[disk.plan] \in Shapes /\ origin[disk.plan] \in Plans
             /\ origin[disk.plan] <= nPlans
  <2>1. disk.plan \in Plans /\ disk.plan \in 1..nPlans /\ disk.steps \in [Step -> StepRec]
    BY <1>4, ConstantsAssumption DEF IInv, TypeOK, Pointers, DiskRec, Plans
  <2>2. shape[disk.plan] \in Shapes /\ origin[disk.plan] \in Plans
    BY <2>1, CallFacts
  <2>3. origin[disk.plan] <= nPlans
    BY <2>1 DEF Life, Births
  <2> QED BY <1>3, <1>4, <2>1, <2>2, <2>3, NewPlanFacts
<1>5. ASSUME disk.kind # "none", NewPlan(shape[disk.plan], origin[disk.plan]), Slot',
             \A r \in Runs : run'[r] = run[r] \/ (~Spawned(r) /\ run'[r].plan = n),
             entry'[ent'].proposed => entry'[ent'].plan = n
      PROVE  Life'
  BY <1>1, <1>3, <1>4, <1>5, NewPlanKeepsLife
<1>6. CASE /\ disk.kind = "proposed" /\ NewPlan(shape[disk.plan], origin[disk.plan])
           /\ steps' = [steps EXCEPT ![n] = disk.steps]
           /\ entry' = [entry EXCEPT ![ent].active = FALSE, ![ent].proposed = TRUE, ![ent].plan = n]
           /\ UNCHANGED <<run, nRuns>> /\ Notify
  <2>1. PICK E : E = [entry[ent] EXCEPT !.active = FALSE, !.proposed = TRUE, !.plan = n]
    OBVIOUS
  <2>2. entry' = [entry EXCEPT ![ent] = E] /\ ~E.active /\ E.plan = n /\ entry'[ent] = E
    BY <1>6, <2>1, CallFacts DEF EntryRec
  <2>3. disk.kind # "none"
    BY <1>6
  <2>4. Slot'
    BY <1>1, <1>4, <1>6, <2>2, <2>3, EditKeepsSlot DEF Life
  <2> QED BY <1>1, <1>5, <1>6, <2>2, <2>3, <2>4
<1>7. CASE /\ disk.kind = "active" /\ NewPlan(shape[disk.plan], origin[disk.plan])
           /\ Spawn(n, Rewind(disk.steps)) /\ Notify
  <2>1. PICK rs : rs = Rewind(disk.steps)
    OBVIOUS
  <2>2. rs \in [Step -> StepRec] /\ disk.kind # "none"
    BY <1>4, <1>7, <2>1, RewindFacts
  <2>3. AllDenied(rs)
    <3> SUFFICES ASSUME NEW i \in Step PROVE rs[i].approved \/ rs[i].st = "skipped"
      BY DEF AllDenied
    <3>1. (disk.steps[i].approved \/ disk.steps[i].st = "skipped") /\ disk.steps[i] \in StepRec
      BY <1>4, <1>7 DEF Life, Slot, Denied, AllDenied
    <3>2. CASE disk.steps[i].st = "executing" /\ disk.steps[i].ord = 0
      <4>1. rs[i] = [disk.steps[i] EXCEPT !.st = "pending"]
        BY <2>1, <3>2 DEF Rewind
      <4> QED BY <3>1, <3>2, <4>1 DEF StepRec
    <3>3. CASE ~(disk.steps[i].st = "executing" /\ disk.steps[i].ord = 0)
      BY <2>1, <3>1, <3>3 DEF Rewind
    <3> QED BY <3>2, <3>3
  <2>4. /\ Slot' /\ entry'[ent'].plan = n
        /\ \A q \in Runs : run'[q] = run[q] \/ (~Spawned(q) /\ run'[q].plan = n)
    BY <1>1, <1>4, <1>7, <2>1, <2>2, <2>3, SpawnKeepsSlot DEF Life
  <2> QED BY <1>5, <1>7, <2>2, <2>4
<1> QED BY <1>2, <1>3, <1>6, <1>7 DEF ResumePlans

\* The death of the process: no array of the new life exists yet, nor an order of it.
LEMMA CrashKeepsLife ==
    ASSUME IInv, IInv', Life, Crash
    PROVE  Life'
<1>1. /\ crashes \in Nat /\ crashes' = crashes + 1 /\ ent' = 1 /\ 1 \in Entries
      /\ UNCHANGED <<shape, origin, born, order, nPlans, nOrders, disk>>
      /\ entry' = [e \in Entries |-> NewEntry] /\ run' = [r \in Runs |-> NoRun]
      /\ nPlans \in 0..MaxPlans /\ born \in [Plans -> 0..MaxCrashes]
  BY ConstantsAssumption DEF Crash, IInv, TypeOK, Entries
<1>2. Slot'
  BY CrashKeepsSlot DEF Life
<1>3. \A r \in Runs : ~Spawned(r)'
  BY <1>1 DEF Spawned, NoRun
<1>4. ~entry'[ent'].proposed
  BY <1>1 DEF NewEntry
<1>5. \A q \in 1..nPlans : /\ born[q] <= crashes /\ born[q] # crashes' /\ born[q] <= crashes'
                           /\ origin[q] <= nPlans
  <2> SUFFICES ASSUME NEW q \in 1..nPlans
               PROVE  born[q] <= crashes /\ born[q] # crashes' /\ born[q] <= crashes' /\ origin[q] <= nPlans
    OBVIOUS
  <2>1. q \in Plans
    BY <1>1, ConstantsAssumption DEF Plans
  <2>2. born[q] \in Int /\ born[q] <= crashes /\ origin[q] <= nPlans
    BY <1>1, <2>1 DEF Life, Births
  <2> QED BY <1>1, <2>2
<1>6. Births'
  BY <1>1, <1>3, <1>4, <1>5 DEF Life, Births
<1>7. ASSUME NEW o \in 1..nOrders PROVE SentBy(o)'
  <2>1. SentBy(o)
    BY DEF Life, Sent
  <2>2. order[o].life # crashes'
    BY <1>5, <2>1 DEF SentBy
  <2> QED BY <1>1, <2>1, <2>2 DEF SentBy
<1>8. Sent'
  BY <1>1, <1>7 DEF Life, Sent
<1> QED BY <1>2, <1>6, <1>8 DEF Life

\* Life, with IInv, is inductive.
LEMMA NextKeepsLife ==
    ASSUME IInv, Life, [Next]_vars PROVE IInv' /\ Life'
<1>1. IInv'
  BY NextKeeps
<1>2. ASSUME Call PROVE Life'
  BY <1>1, <1>2, BirthKeepsLife, CallKeepsLife, ConfirmProposalKeepsLife DEF Call
<1>3. ASSUME NEW r \in Runs, RunStep(r) PROVE Life'
  BY <1>1, <1>3, RunStepKeepsLife
<1>4. ASSUME NEW o \in Orders, Exchange(o) PROVE Life'
  <2>1. order \in [Orders -> OrderRec]
    BY DEF IInv, TypeOK
  <2>2. PICK st, got : order' = [order EXCEPT ![o].st = st, ![o].got = got] /\ order[o].st \in {"sent", "live"}
    BY <1>4 DEF Exchange
  <2>3. UNCHANGED <<phase, crashes, ent, entry, steps, shape, origin, born, run, nPlans, nRuns,
                    nOrders, disk, owed>>
    BY <1>4 DEF Exchange
  <2>4. OrdersKept
    BY <2>1, <2>2, <2>3 DEF OrderRec, OrdersKept
  <2> QED BY <1>1, <2>3, <2>4, NewsKeepsLife
<1>5. ASSUME NotifyBeforeResume PROVE Life'
  BY <1>1, <1>5, NewsKeepsLife DEF NotifyBeforeResume, OrdersKept
<1>6. ASSUME UNCHANGED vars PROVE Life'
  BY <1>1, <1>6, NewsKeepsLife DEF vars, OrdersKept
<1> QED BY <1>1, <1>2, <1>3, <1>4, <1>5, <1>6, CrashKeepsLife, ResumePlansKeepsLife DEF Next

\* Both invariants hold of every reachable state.
LEMMA LifeInductive == Spec => [](IInv /\ Life)
<1>1. ASSUME Init PROVE IInv /\ Life
  <2>1. IInv
    BY <1>1, InitIInv
  <2>2. \A r \in Runs : run[r].pc = "none" /\ run[r].pc \notin Working
    BY <1>1 DEF Init, NoRun, Working
  <2>3. \A e \in Entries : entry[e] = NewEntry
    BY <1>1 DEF Init
  <2>4. /\ ent \in Entries /\ nPlans = 0 /\ nOrders = 0 /\ phase = "up"
        /\ owed.kind = "none" /\ disk.kind = "none"
        /\ \A o \in Orders : order[o].st = "none"
    BY <1>1, <2>1 DEF Init, NoPlan, NoOrder, IInv, TypeOK
  <2>5. Slot
    BY <2>2, <2>3, <2>4 DEF Slot, Unused, Busy, Denied, Owes, NewEntry
  <2>6. Births
    BY <2>2, <2>3, <2>4 DEF Births, Spawned, NewEntry
  <2>7. Sent
    BY <2>4 DEF Sent
  <2> QED BY <2>1, <2>5, <2>6, <2>7 DEF Life
<1>2. IInv /\ Life /\ [Next]_vars => IInv' /\ Life'
  BY NextKeepsLife
<1> QED BY <1>1, <1>2, PTL DEF Spec

\* In one life of the process no two orders leave for one step, through any stops, resets,
\* proposals, confirmations and superseded coroutines, unless that process read back a plan
\* that it had itself put in the file while it booted.
THEOREM OncePerLife == Spec => []OnePlacementPerLife
<1>1. ASSUME IInv, Life PROVE OnePlacementPerLife
  <2> SUFFICES ASSUME NEW p \in Plans, NEW i \in Step, NEW a \in OrdersOf(p, i), NEW b \in OrdersOf(p, i),
                      a # b, order[a].life = order[b].life
               PROVE  ReadBack(p, order[a].life)
    BY DEF OnePlacementPerLife
  <2>1. /\ a \in Orders /\ b \in Orders /\ order[a].st # "none" /\ order[b].st # "none"
        /\ order[a].plan = p /\ order[b].plan = p /\ order[a].idx = i /\ order[b].idx = i
    BY DEF OrdersOf
  <2>2. a \in 1..nOrders /\ b \in 1..nOrders
    <3>1. a <= nOrders /\ b <= nOrders /\ nOrders \in Nat
      BY <1>1, <2>1, ConstantsAssumption DEF Life, Sent, IInv, TypeOK
    <3> QED BY <2>1, <3>1 DEF Orders
  <2>3. PICK q, s : q = order[a].by /\ s = order[b].by
    OBVIOUS
  <2>4. /\ q \in 1..nPlans /\ s \in 1..nPlans /\ p = origin[q] /\ p = origin[s]
        /\ order[a].life = born[q] /\ order[a].life = born[s]
    BY <1>1, <2>1, <2>2, <2>3 DEF Life, Sent, SentBy
  <2>5. q # s
    BY <1>1, <2>1, <2>2, <2>3 DEF Life, Sent
  <2>6. p \in {q, s}
    BY <1>1, <2>4, <2>5 DEF Life, Births
  <2> QED BY <2>4, <2>5, <2>6 DEF ReadBack
<1> QED BY <1>1, LifeInductive, PTL

\* A coroutine that stop() aborted or a later run superseded goes on to no further step.
THEOREM StaleStops == Spec => StaleStartsNothing
<1>1. ASSUME IInv, Life, [Next]_vars, NEW r \in Runs,
             run[r].pc \in Working, Stale(r), run[r].idx # run'[r].idx
      PROVE  run'[r].pc \notin Working
  <2>1. ASSUME NEW q \in Runs, RunStep(q) PROVE run'[r].pc \notin Working
    <3>1. run[q].pc \in Working
      BY <2>1 DEF RunStep, ResolveEmpty, Send, Placed, PlaceFails, Settle, PollEnded, PollAgain,
                  TimeStop, TimeStopped, At, Working
    <3>2. Effect(q)
      BY <1>1, <2>1, <3>1, StepEffect DEF Life, Slot, Busy
    <3> QED BY <1>1, <3>2 DEF Effect
  <2>2. ASSUME NEW p \in Plans, NEW ss \in [Step -> StepRec], Spawn(p, ss) PROVE FALSE
    <3>1. PICK n : n = nRuns + 1
      OBVIOUS
    <3>2. run[n].pc = "none" /\ \A q \in Runs : q # n => run'[q] = run[q]
      BY <1>1, <2>2, <3>1, SpawnEffect DEF Life, Slot
    <3> QED BY <1>1, <3>2 DEF Working
  <2>3. UNCHANGED run => FALSE
    BY <1>1
  <2>4. ASSUME NEW sh \in Shapes, Start(sh) PROVE FALSE
    <3>1. nPlans + 1 \in Plans /\ Fresh \in [Step -> StepRec]
      <4>1. nPlans \in 0..MaxPlans /\ Fresh \in [Step -> StepRec] /\ nPlans < MaxPlans
        BY <1>1, <2>4, CallFacts DEF Start, NewPlan
      <4> QED BY <4>1, ConstantsAssumption DEF Plans
    <3> QED BY <2>2, <2>4, <3>1 DEF Start
  <2>5. ASSUME ConfirmProposal PROVE FALSE
    <3>1. PICK p : p = entry[ent].plan
      OBVIOUS
    <3>2. p \in Plans /\ Deny(steps[p]) \in [Step -> StepRec]
      <4>1. p \in Plans /\ steps[p] \in [Step -> StepRec]
        BY <1>1, <2>5, <3>1, CallFacts DEF ConfirmProposal
      <4>2. PICK ds : ds = Deny(steps[p])
        OBVIOUS
      <4> QED BY <4>1, <4>2, DenyFacts
    <3> QED BY <2>2, <2>3, <2>5, <3>1, <3>2 DEF ConfirmProposal
  <2>6. ASSUME ResumePlans PROVE FALSE
    <3>1. ASSUME NewPlan(shape[disk.plan], origin[disk.plan]), Spawn(nPlans + 1, Rewind(disk.steps))
          PROVE  FALSE
      <4>1. nPlans + 1 \in Plans
        BY <1>1, <3>1, CallFacts, ConstantsAssumption DEF NewPlan, Plans
      <4>2. disk.steps \in [Step -> StepRec]
        BY <1>1 DEF IInv, TypeOK, DiskRec
      <4>3. PICK rs : rs = Rewind(disk.steps)
        OBVIOUS
      <4>4. rs \in [Step -> StepRec]
        BY <4>2, <4>3, RewindFacts
      <4> QED BY <2>2, <3>1, <4>1, <4>3, <4>4
    <3> QED BY <2>3, <2>6, <3>1 DEF ResumePlans
  <2>7. ASSUME Crash PROVE run'[r].pc \notin Working
    BY <2>7 DEF Crash, NoRun, Working
  <2>8. (\E sh \in Shapes : Propose(sh)) \/ (\E i \in Step, ok \in BOOLEAN : PatchStep(i, ok))
        \/ Stop \/ Reset \/ (\E o \in Orders : Exchange(o)) \/ NotifyBeforeResume \/ UNCHANGED vars
        => UNCHANGED run
    BY DEF Propose, PatchStep, Stop, Reset, Exchange, NotifyBeforeResume, vars
  <2> QED BY <1>1, <2>1, <2>3, <2>4, <2>5, <2>6, <2>7, <2>8 DEF Next, Call
<1>2. IInv /\ Life /\ [Next]_vars =>
        [\A r \in Runs : (run[r].pc \in Working /\ Stale(r) /\ run[r].idx # run'[r].idx) =>
                            run'[r].pc \notin Working]_vars
  BY <1>1
<1> QED BY <1>2, LifeInductive, PTL DEF Spec, StaleStartsNothing

\* A restart that finds the file the crashed process left stages its proposal again, or runs
\* its plan again with every watched order watched under its id.
THEOREM RestartsRestore == Spec => RestartRestores
<1>1. ASSUME IInv, Life, [Next]_vars, Resumes, disk = owed
      PROVE  Restored
  <2>1. ResumePlans
    <3>1. ASSUME Call PROVE phase' = phase
      BY <3>1 DEF Call, Propose, Start, PatchStep, ConfirmProposal, Stop, Reset
    <3>2. ASSUME NEW r \in Runs, RunStep(r) PROVE phase' = phase
      BY <3>2 DEF RunStep, ResolveEmpty, Send, Placed, PlaceFails, Settle, PollEnded, PollAgain,
                  TimeStop, TimeStopped
    <3>3. (\E o \in Orders : Exchange(o)) \/ NotifyBeforeResume \/ UNCHANGED vars => phase' = phase
      BY DEF Exchange, NotifyBeforeResume, vars
    <3>4. Crash => phase' = "booting"
      BY DEF Crash
    <3> QED BY <1>1, <3>1, <3>2, <3>3, <3>4 DEF Next, Resumes
  <2>2. ASSUME owed.kind = "proposed" PROVE entry'[ent].proposed
    <3>1. entry' = [entry EXCEPT ![ent].active = FALSE, ![ent].proposed = TRUE, ![ent].plan = nPlans + 1]
      BY <1>1, <2>1, <2>2 DEF ResumePlans
    <3> QED BY <1>1, <3>1, CallFacts DEF EntryRec
  <2>3. ASSUME owed.kind = "active"
        PROVE  /\ entry'[ent].active
               /\ \A i \in Step : Resting(owed.steps[i]) => steps'[entry'[ent].plan][i] = owed.steps[i]
    <3>1. NewPlan(shape[disk.plan], origin[disk.plan]) /\ Spawn(nPlans + 1, Rewind(disk.steps))
      BY <1>1, <2>1, <2>3 DEF ResumePlans
    <3>2. PICK p, rs : p = nPlans + 1 /\ rs = Rewind(owed.steps)
      OBVIOUS
    <3>3. p \in Plans /\ owed.steps \in [Step -> StepRec]
      BY <1>1, <3>1, <3>2, CallFacts, ConstantsAssumption DEF NewPlan, Plans, IInv, TypeOK, DiskRec
    <3>4. rs \in [Step -> StepRec]
      BY <3>2, <3>3, RewindFacts
    <3>5. /\ \A i \in Step : ~Passes(owed.steps[i]) => ~Passes(rs[i])
          /\ \A i \in Step : Resting(owed.steps[i]) => rs[i] = owed.steps[i]
      BY <3>2, <3>3 DEF Rewind, Passes, StepDone, Resting, StepRec, Status
    <3>6. /\ \E i \in Step : ~Passes(rs[i])
          /\ \A i \in Step : Resting(owed.steps[i]) => Resting(rs[i]) /\ rs[i].approved
      BY <1>1, <2>3, <3>5 DEF Life, Slot, Owes, Denied, AllDenied, Resting
    <3>7. PICK n : n = nRuns + 1
      OBVIOUS
    <3>8. /\ entry'[ent].plan = p /\ entry'[ent].active
          /\ \A i \in Step : (Resting(rs[i]) /\ rs[i].approved) => steps'[p][i] = rs[i]
      BY <1>1, <3>1, <3>2, <3>3, <3>4, <3>6, <3>7, SpawnEffect DEF Life, Slot
    <3> QED BY <3>5, <3>6, <3>8
  <2> QED BY <2>2, <2>3 DEF Restored
<1>2. IInv /\ Life /\ [Next]_vars => [(Resumes /\ disk = owed) => Restored]_vars
  BY <1>1
<1> QED BY <1>2, LifeInductive, PTL DEF Spec, RestartRestores
=============================================================================
