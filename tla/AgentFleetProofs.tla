--------------------------- MODULE AgentFleetProofs ---------------------------
(***************************************************************************)
(* Proofs about AgentFleet for any desk, any numbers of sessions, questions*)
(* and trades, and any scenario: its types, that the set of running agents *)
(* and the chains of questions stay those of the sessions, and that the    *)
(* trades of an agent stay within its budget.                              *)
(***************************************************************************)
EXTENDS AgentFleet, WellFoundedInduction, TLAPS

\* What SlotsHonest rests on: only a run waits in the wake gate, woken by its interval,
\* and no chat or handoff answers a question.
KindsOK ==
    \A j \in Jobs : /\ job[j].pc = "probe" => job[j].kind = "run" /\ job[j].trigger = "interval"
                    /\ job[j].kind \in {"chat", "handoff"} => job[j].trigger = "manual"

IInv == TypeOK /\ KindsOK /\ SlotsHonest

LEMMA Small == 0 \in Nat /\ 1 \in Nat /\ NAgents \in Nat /\ Human \notin Agents /\ Scenarios \subseteq SUBSET (UpsetKind \cup Uses)
  BY AgentFleetConstants DEF Agents, Human

LEMMA NoJobIsNone ==
    ASSUME TypeOK, NEW j \in Jobs
    PROVE  /\ job[j] = NoJob <=> job[j].kind = "none"
           /\ job[j] # NoJob => job[j] \in JobRec /\ job[j].agent \in Agents
  BY DEF TypeOK, JobRec, NoJob

LEMMA FreeOne ==
    ASSUME Free # {}
    PROVE  NextFree \in Jobs /\ job[NextFree] = NoJob
<1>1. NextFree \in Free
  BY DEF NextFree
<1>. QED
  BY <1>1 DEF Free

------------------------------------------------------------------------------
\* The board, whatever is stamped on it.
BoardType == [Asks -> AskRec]
States == {"none", "open", "overdue", "answered"}

LEMMA StampedType ==
    ASSUME NEW B \in BoardType, NEW Q, NEW s \in States
    PROVE  Stamped(B, Q, s) \in BoardType
<1>1. ASSUME NEW q \in Asks
      PROVE  (IF q \in Q THEN [B[q] EXCEPT !.st = s] ELSE B[q]) \in AskRec
  <2>1. B[q] \in AskRec
    BY DEF BoardType
  <2>2. [B[q] EXCEPT !.st = s] \in AskRec
    BY <2>1 DEF AskRec, States
  <2>. QED
    BY <2>1, <2>2
<1>. QED
  BY <1>1 DEF Stamped, BoardType

LEMMA WithoutType ==
    ASSUME NEW B \in BoardType, NEW Q
    PROVE  Without(B, Q) \in BoardType
<1>1. NoAsk \in AskRec
  BY DEF NoAsk, AskRec
<1>. QED
  BY <1>1 DEF Without, BoardType

LEMMA BoardTypes ==
    ASSUME NEW B \in BoardType, NEW a
    PROVE  Delivered(B, a) \in BoardType /\ Expired(B) \in BoardType
  BY WithoutType DEF Delivered, Expired

LEMMA LaterType ==
    ASSUME stale \in [Agents -> Agents], NEW a \in Agents
    PROVE  Later(a) \in [Agents -> Agents]
<1>1. ASSUME NEW b \in Agents
      PROVE  (IF b = a THEN NAgents ELSE IF stale[b] > stale[a] THEN stale[b] - 1 ELSE stale[b]) \in Agents
  BY AgentFleetConstants DEF Agents
<1>. QED
  BY <1>1 DEF Later

------------------------------------------------------------------------------
\* Two ways to disturb the sessions.  A new one, of an agent that holds no slot:
LEMMA BeginKeeps ==
    ASSUME IInv, NEW k \in Jobs, job[k] = NoJob, NEW J \in JobRec, J.agent \notin running,
           J.pc = "probe" => J.kind = "run" /\ J.trigger = "interval",
           J.kind \in {"chat", "handoff"} => J.trigger = "manual",
           job' = [job EXCEPT ![k] = J], running' = running \cup {J.agent},
           NEW C \in SUBSET Agents,
           chains' = chains \/ (J.trigger = "inline-answer" /\ chains' = [chains EXCEPT ![J.agent] = C]),
           "deaf" \in upsets' <=> "deaf" \in upsets
    PROVE  /\ job' \in [Jobs -> JobRec \cup {NoJob}] /\ running' \subseteq Agents
           /\ chains' \in [Agents -> SUBSET Agents] /\ KindsOK' /\ SlotsHonest'
<1>1. job \in [Jobs -> JobRec \cup {NoJob}] /\ running \subseteq Agents /\ chains \in [Agents -> SUBSET Agents]
      /\ J.agent \in Agents /\ J # NoJob
  BY DEF IInv, TypeOK, JobRec, NoJob
<1>2. job'[k] = J /\ \A j \in Jobs \ {k} : job'[j] = job[j]
  BY <1>1
<1>3. \A a \in Agents \ {J.agent} : chains'[a] = chains[a]
  BY <1>1
<1>4. KindsOK'
  BY <1>2 DEF IInv, KindsOK
<1>5. running' \subseteq {job'[j].agent : j \in {i \in Jobs : job'[i] # NoJob}}
  <2>1. \A a \in running : \E j \in Jobs : job[j] # NoJob /\ job[j].agent = a
    BY DEF IInv, SlotsHonest
  <2>2. \A a \in running' : \E j \in Jobs : job'[j] # NoJob /\ job'[j].agent = a
    BY <2>1, <1>1, <1>2
  <2>. QED
    BY <2>2
<1>6. ASSUME NEW a \in Agents, chains'[a] # {}
      PROVE  \E j \in Jobs : job'[j] # NoJob /\ job'[j].agent = a /\ job'[j].trigger = "inline-answer"
  <2>1. CASE chains'[a] = chains[a]
    <3>1. PICK j \in Jobs : job[j] # NoJob /\ job[j].agent = a /\ job[j].trigger = "inline-answer"
      BY <2>1, <1>6 DEF IInv, SlotsHonest
    <3>. QED
      BY <3>1, <1>2
  <2>2. CASE chains'[a] # chains[a]
    BY <2>2, <1>1, <1>2, <1>3
  <2>. QED
    BY <2>1, <2>2
<1>7. ASSUME ~May("deaf")'
      PROVE  /\ running' = {job'[j].agent : j \in {i \in Jobs : job'[i] # NoJob}}
             /\ \A i, j \in Jobs : job'[i] # NoJob /\ job'[j] # NoJob /\ i # j => job'[i].agent # job'[j].agent
  <2>1. ~May("deaf")
    BY <1>7 DEF May
  <2>2. \A j \in Jobs : job[j] # NoJob => job[j].agent \in running
    BY <2>1 DEF IInv, SlotsHonest
  <2>3. \A i, j \in Jobs : job[i] # NoJob /\ job[j] # NoJob /\ i # j => job[i].agent # job[j].agent
    BY <2>1 DEF IInv, SlotsHonest
  <2>4. \A j \in Jobs : job'[j] # NoJob => job'[j].agent \in running'
    BY <2>2, <1>2
  <2>5. \A i, j \in Jobs : job'[i] # NoJob /\ job'[j] # NoJob /\ i # j => job'[i].agent # job'[j].agent
    BY <2>2, <2>3, <1>2
  <2>. QED
    BY <2>4, <2>5, <1>5
<1>8. SlotsHonest'
  BY <1>5, <1>6, <1>7 DEF SlotsHonest
<1>. QED
  BY <1>1, <1>2, <1>4, <1>8

\* and the end of one, whose agent gives its slot back and, if it answered, its chain.
LEMMA EndKeeps ==
    ASSUME IInv, NEW k \in Jobs, job[k] # NoJob,
           job' = [job EXCEPT ![k] = NoJob], running' = running \ {job[k].agent},
           chains' = [chains EXCEPT ![job[k].agent] = {}]
             \/ (chains' = chains /\ job[k].trigger # "inline-answer"),
           upsets' = upsets
    PROVE  /\ job' \in [Jobs -> JobRec \cup {NoJob}] /\ running' \subseteq Agents
           /\ chains' \in [Agents -> SUBSET Agents] /\ KindsOK' /\ SlotsHonest'
<1>1. job \in [Jobs -> JobRec \cup {NoJob}] /\ running \subseteq Agents /\ chains \in [Agents -> SUBSET Agents]
      /\ job[k].agent \in Agents
  BY NoJobIsNone DEF IInv, TypeOK
<1>2. job'[k] = NoJob /\ \A j \in Jobs \ {k} : job'[j] = job[j]
  BY <1>1
<1>3. \A a \in Agents \ {job[k].agent} : chains'[a] = chains[a]
  BY <1>1
<1>4. KindsOK'
  BY <1>2 DEF IInv, KindsOK, NoJob
<1>5. running' \subseteq {job'[j].agent : j \in {i \in Jobs : job'[i] # NoJob}}
  <2>1. \A a \in running : \E j \in Jobs : job[j] # NoJob /\ job[j].agent = a
    BY DEF IInv, SlotsHonest
  <2>2. \A a \in running' : \E j \in Jobs : job'[j] # NoJob /\ job'[j].agent = a
    BY <2>1, <1>1, <1>2
  <2>. QED
    BY <2>2
<1>6. ASSUME NEW a \in Agents, chains'[a] # {}
      PROVE  \E j \in Jobs : job'[j] # NoJob /\ job'[j].agent = a /\ job'[j].trigger = "inline-answer"
  <2>1. chains'[a] = chains[a]
    BY <1>1, <1>6
  <2>2. PICK j \in Jobs : job[j] # NoJob /\ job[j].agent = a /\ job[j].trigger = "inline-answer"
    BY <2>1, <1>6 DEF IInv, SlotsHonest
  <2>3. j # k
    BY <2>2, <1>1, <1>6
  <2>. QED
    BY <2>2, <2>3, <1>2
<1>7. ASSUME ~May("deaf")'
      PROVE  /\ running' = {job'[j].agent : j \in {i \in Jobs : job'[i] # NoJob}}
             /\ \A i, j \in Jobs : job'[i] # NoJob /\ job'[j] # NoJob /\ i # j => job'[i].agent # job'[j].agent
  <2>1. ~May("deaf")
    BY <1>7 DEF May
  <2>2. \A j \in Jobs : job[j] # NoJob => job[j].agent \in running
    BY <2>1 DEF IInv, SlotsHonest
  <2>3. \A i, j \in Jobs : job[i] # NoJob /\ job[j] # NoJob /\ i # j => job[i].agent # job[j].agent
    BY <2>1 DEF IInv, SlotsHonest
  <2>4. \A j \in Jobs : job'[j] # NoJob => job'[j].agent \in running'
    BY <2>2, <2>3, <1>2
  <2>5. \A i, j \in Jobs : job'[i] # NoJob /\ job'[j] # NoJob /\ i # j => job'[i].agent # job'[j].agent
    BY <2>3, <1>2
  <2>. QED
    BY <2>4, <2>5, <1>5
<1>8. SlotsHonest'
  BY <1>5, <1>6, <1>7 DEF SlotsHonest
<1>. QED
  BY <1>1, <1>2, <1>4, <1>8

\* A step that leaves sessions, slots, chains and the operator's abort alone.
LEMMA DeskKeeps ==
    ASSUME IInv, job' = job, running' = running, chains' = chains, "deaf" \in upsets' <=> "deaf" \in upsets
    PROVE  KindsOK' /\ SlotsHonest'
  BY DEF IInv, KindsOK, SlotsHonest, May

------------------------------------------------------------------------------
\* start() of a run.
LEMMA StartKeeps ==
    ASSUME IInv, NEW a \in Agents, NEW trigger \in Triggers, NEW B \in BoardType, NEW C,
           CanStart(a, trigger), Start(a, trigger, B, C), "deaf" \in upsets' <=> "deaf" \in upsets,
           C = chains \/ (trigger = "inline-answer" /\ \E c \in SUBSET Agents : C = [chains EXCEPT ![a] = c])
    PROVE  /\ job' \in [Jobs -> JobRec \cup {NoJob}] /\ running' \subseteq Agents
           /\ chains' \in [Agents -> SUBSET Agents] /\ KindsOK' /\ SlotsHonest'
           /\ stale' \in [Agents -> Agents] /\ due' \subseteq Agents /\ ask' \in [Asks -> AskRec]
<1> DEFINE J == [kind |-> "run", agent |-> a, trigger |-> trigger,
                 pc |-> IF a \in Gated /\ trigger = "interval" THEN "probe" ELSE "live"]
<1>1. NextFree \in Jobs /\ job[NextFree] = NoJob
  BY FreeOne DEF CanStart
<1>2. J \in JobRec
  BY DEF JobRec
<1>3. J.agent = a /\ J.trigger = trigger /\ J.kind = "run" /\ (J.pc = "probe" => J.trigger = "interval")
  OBVIOUS
<1>4. job' = [job EXCEPT ![NextFree] = J] /\ running' = running \cup {J.agent}
  BY DEF Start
<1>5. chains' = C /\ a \notin running
  BY DEF Start, CanStart
<1>6. /\ job' \in [Jobs -> JobRec \cup {NoJob}] /\ running' \subseteq Agents
      /\ chains' \in [Agents -> SUBSET Agents] /\ KindsOK' /\ SlotsHonest'
  <2>1. CASE C = chains
    <3> HIDE DEF J
    <3>1. chains' = chains
      BY <1>5, <2>1
    <3>2. J.pc = "probe" => J.kind = "run" /\ J.trigger = "interval"
      BY <1>3
    <3>3. J.kind \in {"chat", "handoff"} => J.trigger = "manual"
      BY <1>3
    <3>4. J.agent \notin running /\ {} \in SUBSET Agents
      BY <1>3, <1>5
    <3>. QED
      BY <1>1, <1>2, <1>4, <3>1, <3>2, <3>3, <3>4, BeginKeeps
  <2>2. CASE trigger = "inline-answer" /\ \E c \in SUBSET Agents : C = [chains EXCEPT ![a] = c]
    <3>1. PICK c \in SUBSET Agents : C = [chains EXCEPT ![a] = c]
      BY <2>2
    <3>2. J.trigger = "inline-answer" /\ chains' = [chains EXCEPT ![J.agent] = c]
      BY <2>2, <3>1, <1>3, <1>5
    <3> HIDE DEF J
    <3>3. J.pc = "probe" => J.kind = "run" /\ J.trigger = "interval"
      BY <1>3
    <3>4. J.kind \in {"chat", "handoff"} => J.trigger = "manual"
      BY <1>3
    <3>5. J.agent \notin running
      BY <1>3, <1>5
    <3>. QED
      BY <1>1, <1>2, <1>4, <3>2, <3>3, <3>4, <3>5, BeginKeeps
  <2>. QED
    BY <2>1, <2>2
<1>7. stale' \in [Agents -> Agents]
  BY LaterType DEF Start, IInv, TypeOK
<1>8. due' \subseteq Agents
  BY DEF Start, IInv, TypeOK
<1>9. ask' \in [Asks -> AskRec]
  BY BoardTypes DEF Start, BoardType
<1>. QED
  BY <1>6, <1>7, <1>8, <1>9

\* A session that is no run takes a slot.
LEMMA TalkKeeps ==
    ASSUME IInv, NEW a \in Agents \ running, NEW kind \in {"chat", "handoff"}, Free # {},
           job' = [job EXCEPT ![NextFree] = [kind |-> kind, agent |-> a, trigger |-> "manual", pc |-> "live"]],
           running' = running \cup {a}, chains' = chains, "deaf" \in upsets' <=> "deaf" \in upsets
    PROVE  /\ job' \in [Jobs -> JobRec \cup {NoJob}] /\ running' \subseteq Agents
           /\ chains' \in [Agents -> SUBSET Agents] /\ KindsOK' /\ SlotsHonest'
<1> DEFINE J == [kind |-> kind, agent |-> a, trigger |-> "manual", pc |-> "live"]
<1>1. NextFree \in Jobs /\ job[NextFree] = NoJob
  BY FreeOne
<1>2. J \in JobRec
  BY DEF JobRec, Triggers
<1>3. J.agent = a /\ J.trigger = "manual" /\ J.pc = "live" /\ {} \in SUBSET Agents
  OBVIOUS
<1>4. job' = [job EXCEPT ![NextFree] = J] /\ running' = running \cup {J.agent} /\ J.agent \notin running
  OBVIOUS
<1>5. (J.pc = "probe" => J.kind = "run" /\ J.trigger = "interval") /\ (J.kind \in {"chat", "handoff"} => J.trigger = "manual")
  BY <1>3
<1> HIDE DEF J
<1>. QED
  BY <1>1, <1>2, <1>3, <1>4, <1>5, BeginKeeps

------------------------------------------------------------------------------
\* The steps, one by one.
LEMMA StartManualKeeps ==
    ASSUME IInv, NEW a \in Agents, StartManual(a)
    PROVE  IInv'
<1>1. CanStart(a, "manual") /\ Start(a, "manual", ask, chains) /\ UNCHANGED <<held, hired, money>>
      /\ upsets' = upsets \ {"manual"}
  BY DEF StartManual, Spend
<1>2. "manual" \in Triggers /\ ask \in BoardType
  BY DEF Triggers, BoardType, IInv, TypeOK
<1>3. /\ job' \in [Jobs -> JobRec \cup {NoJob}] /\ running' \subseteq Agents
      /\ chains' \in [Agents -> SUBSET Agents] /\ KindsOK' /\ SlotsHonest'
      /\ stale' \in [Agents -> Agents] /\ due' \subseteq Agents /\ ask' \in [Asks -> AskRec]
  BY <1>1, <1>2, StartKeeps
<1>. QED
  BY <1>1, <1>3 DEF IInv, TypeOK, money

LEMMA WakeFromAlertKeeps ==
    ASSUME IInv, NEW a \in Agents, WakeFromAlert(a)
    PROVE  IInv'
<1>1. CanStart(a, "alert") /\ Start(a, "alert", ask, chains) /\ UNCHANGED <<held, hired, money>>
      /\ upsets' = upsets \ {"alert"}
  BY DEF WakeFromAlert, Spend
<1>2. "alert" \in Triggers /\ ask \in BoardType
  BY DEF Triggers, BoardType, IInv, TypeOK
<1>3. /\ job' \in [Jobs -> JobRec \cup {NoJob}] /\ running' \subseteq Agents
      /\ chains' \in [Agents -> SUBSET Agents] /\ KindsOK' /\ SlotsHonest'
      /\ stale' \in [Agents -> Agents] /\ due' \subseteq Agents /\ ask' \in [Asks -> AskRec]
  BY <1>1, <1>2, StartKeeps
<1>. QED
  BY <1>1, <1>3 DEF IInv, TypeOK, money

LEMMA ClearTranscriptKeeps ==
    ASSUME IInv, NEW a \in Agents, ClearTranscript(a)
    PROVE  IInv'
<1>1. held' \subseteq Agents
  BY DEF ClearTranscript, IInv, TypeOK
<1>2. UNCHANGED <<desk, hired, ask, money, upsets>>
  BY DEF ClearTranscript
<1>. QED
  BY <1>1, <1>2, DeskKeeps DEF desk, money, IInv, TypeOK

LEMMA ProbeEndsKeeps ==
    ASSUME IInv, NEW j \in Jobs, ProbeEnds(j)
    PROVE  IInv'
<1>1. job[j].pc = "probe" /\ job[j].kind = "run" /\ job[j].trigger = "interval" /\ job[j] # NoJob
      /\ job[j] \in JobRec /\ job[j].agent \in Agents
  BY NoJobIsNone DEF ProbeEnds, IInv, KindsOK, NoJob
<1>2. UNCHANGED <<chains, stale, due, held, hired, money, upsets>>
  BY DEF ProbeEnds
<1>3. CASE job' = [job EXCEPT ![j] = NoJob] /\ running' = running \ {job[j].agent} /\ UNCHANGED ask
  <2>1. /\ job' \in [Jobs -> JobRec \cup {NoJob}] /\ running' \subseteq Agents
        /\ chains' \in [Agents -> SUBSET Agents] /\ KindsOK' /\ SlotsHonest'
    BY <1>1, <1>2, <1>3, EndKeeps
  <2>. QED
    BY <1>2, <1>3, <2>1 DEF IInv, TypeOK, money
<1>4. CASE job' = [job EXCEPT ![j].pc = "live"] /\ ask' = Delivered(ask, job[j].agent) /\ UNCHANGED running
  <2> DEFINE J == [job[j] EXCEPT !.pc = "live"]
  <2>1. J \in JobRec /\ J.agent = job[j].agent /\ J.trigger = job[j].trigger /\ J.kind = "run" /\ J.pc = "live"
    BY <1>1 DEF JobRec
  <2>2. J # NoJob
    BY <2>1 DEF NoJob
  <2>3. job' = [job EXCEPT ![j] = J] /\ job \in [Jobs -> JobRec \cup {NoJob}]
    BY <1>4 DEF IInv, TypeOK
  <2>4. job' \in [Jobs -> JobRec \cup {NoJob}] /\ job'[j] = J /\ \A i \in Jobs \ {j} : job'[i] = job[i]
    BY <2>1, <2>3
  <2>5. \A i \in Jobs : /\ job'[i] # NoJob <=> job[i] # NoJob
                        /\ job'[i].agent = job[i].agent /\ job'[i].trigger = job[i].trigger
    BY <1>1, <2>1, <2>2, <2>4
  <2>6. KindsOK'
    BY <2>1, <2>4 DEF IInv, KindsOK
  <2>7. SlotsHonest'
    <3>1. {i \in Jobs : job'[i] # NoJob} = {i \in Jobs : job[i] # NoJob}
      BY <2>5
    <3>2. {job'[i].agent : i \in {h \in Jobs : job'[h] # NoJob}} = {job[i].agent : i \in {h \in Jobs : job[h] # NoJob}}
      BY <2>5
    <3>. QED
      BY <1>2, <1>4, <2>5, <3>1, <3>2 DEF IInv, SlotsHonest, May
  <2>8. ask' \in [Asks -> AskRec]
    BY <1>4, BoardTypes DEF BoardType, IInv, TypeOK
  <2>. QED
    BY <1>2, <1>4, <2>4, <2>6, <2>7, <2>8 DEF IInv, TypeOK, money
<1>. QED
  BY <1>3, <1>4 DEF ProbeEnds

LEMMA RunEndsKeeps ==
    ASSUME IInv, NEW j \in Jobs, RunEnds(j)
    PROVE  IInv'
<1>1. job[j] # NoJob /\ job[j].agent \in Agents
  BY NoJobIsNone DEF RunEnds, IInv, NoJob
<1>2. /\ job' \in [Jobs -> JobRec \cup {NoJob}] /\ running' \subseteq Agents
      /\ chains' \in [Agents -> SUBSET Agents] /\ KindsOK' /\ SlotsHonest'
  BY <1>1, EndKeeps DEF RunEnds, Finally
<1>3. held' \subseteq Agents
  BY <1>1 DEF RunEnds, KeepsSession, IInv, TypeOK
<1>. QED
  BY <1>2, <1>3 DEF RunEnds, IInv, TypeOK, money

LEMMA RunTimesOutKeeps ==
    ASSUME IInv, NEW j \in Jobs, RunTimesOut(j)
    PROVE  IInv'
<1>1. job[j] # NoJob /\ job[j] \in JobRec /\ job[j].kind = "run" /\ job[j].agent \in Agents
  BY NoJobIsNone DEF RunTimesOut, IInv, NoJob
<1>2. due' \subseteq Agents /\ UNCHANGED <<stale, held, hired, ask, money, upsets>>
  BY DEF RunTimesOut, IInv, TypeOK
<1>3. CASE Finally(j)
  <2>1. /\ job' \in [Jobs -> JobRec \cup {NoJob}] /\ running' \subseteq Agents
        /\ chains' \in [Agents -> SUBSET Agents] /\ KindsOK' /\ SlotsHonest'
    BY <1>1, <1>2, <1>3, EndKeeps DEF Finally
  <2>. QED
    BY <1>2, <2>1 DEF IInv, TypeOK, money
<1>4. CASE May("deaf") /\ job' = [job EXCEPT ![j].pc = "late"] /\ running' = running \ {job[j].agent} /\ UNCHANGED chains
  <2> DEFINE J == [job[j] EXCEPT !.pc = "late"]
  <2>1. J \in JobRec /\ J.agent = job[j].agent /\ J.trigger = job[j].trigger /\ J.kind = "run" /\ J.pc = "late"
    BY <1>1 DEF JobRec
  <2>2. J # NoJob
    BY <2>1 DEF NoJob
  <2>3. job' = [job EXCEPT ![j] = J] /\ job \in [Jobs -> JobRec \cup {NoJob}]
    BY <1>4 DEF IInv, TypeOK
  <2>4. job' \in [Jobs -> JobRec \cup {NoJob}] /\ job'[j] = J /\ \A i \in Jobs \ {j} : job'[i] = job[i]
    BY <2>1, <2>3
  <2>5. \A i \in Jobs : /\ job'[i] # NoJob <=> job[i] # NoJob
                        /\ job'[i].agent = job[i].agent /\ job'[i].trigger = job[i].trigger
    BY <1>1, <2>1, <2>2, <2>4
  <2>6. KindsOK'
    BY <2>1, <2>4 DEF IInv, KindsOK
  <2>7. {i \in Jobs : job'[i] # NoJob} = {i \in Jobs : job[i] # NoJob}
    BY <2>5
  <2>8. running' \subseteq {job'[i].agent : i \in {h \in Jobs : job'[h] # NoJob}}
    <3>1. running \subseteq {job[i].agent : i \in {h \in Jobs : job[h] # NoJob}}
      BY DEF IInv, SlotsHonest
    <3>2. {job'[i].agent : i \in {h \in Jobs : job'[h] # NoJob}} = {job[i].agent : i \in {h \in Jobs : job[h] # NoJob}}
      BY <2>5
    <3>. QED
      BY <1>4, <3>1, <3>2
  <2>9. SlotsHonest'
    BY <1>2, <1>4, <2>5, <2>7, <2>8 DEF IInv, SlotsHonest, May
  <2>. QED
    BY <1>2, <1>4, <2>4, <2>6, <2>9 DEF IInv, TypeOK, money
<1>. QED
  BY <1>3, <1>4 DEF RunTimesOut

LEMMA TalkEndsKeeps ==
    ASSUME IInv, NEW j \in Jobs, TalkEnds(j)
    PROVE  IInv'
<1>1. job[j] # NoJob /\ job[j].agent \in Agents /\ job[j].trigger = "manual"
  BY NoJobIsNone DEF TalkEnds, IInv, KindsOK, NoJob
<1>2. /\ job' \in [Jobs -> JobRec \cup {NoJob}] /\ running' \subseteq Agents
      /\ chains' \in [Agents -> SUBSET Agents] /\ KindsOK' /\ SlotsHonest'
  BY <1>1, EndKeeps DEF TalkEnds
<1>3. held' \subseteq Agents
  BY <1>1 DEF TalkEnds, KeepsSession, IInv, TypeOK
<1>. QED
  BY <1>2, <1>3 DEF TalkEnds, IInv, TypeOK, money

LEMMA StanddownKeeps ==
    ASSUME IInv, NEW a \in Agents \ running, Standdown(a), "deaf" \in upsets' <=> "deaf" \in upsets,
           UNCHANGED chains
    PROVE  /\ job' \in [Jobs -> JobRec \cup {NoJob}] /\ running' \subseteq Agents
           /\ chains' \in [Agents -> SUBSET Agents] /\ KindsOK' /\ SlotsHonest'
  BY TalkKeeps DEF Standdown

LEMMA TickKeeps ==
    ASSUME IInv, Tick
    PROVE  IInv'
<1>1. PICK fired \in SUBSET hired, gone \in SUBSET (held \ running) :
          /\ Released(gone)
          /\ LET B == Expired(ask)
                 trigger == [a \in Agents |-> DueTrigger(B, a, fired)]
                 A == First(trigger)
             IN  IF running = {} /\ A # {}
                 THEN \E a \in A \ gone : CanStart(a, trigger[a]) /\ Start(a, trigger[a], B, chains)
                 ELSE /\ ask' = B /\ UNCHANGED <<chains, stale, due>>
                      /\ \/ \E a \in held \ (running \cup gone) : Standdown(a)
                         \/ UNCHANGED <<job, running>>
  BY DEF Tick
<1>2. ("deaf" \in upsets' <=> "deaf" \in upsets) /\ upsets' \subseteq upsets
  BY DEF Tick
<1>3. UNCHANGED <<hired, money>> /\ held' \subseteq Agents
  BY <1>1 DEF Tick, Released, IInv, TypeOK
<1> DEFINE B == Expired(ask)
           trigger == [a \in Agents |-> DueTrigger(B, a, fired)]
<1>4. B \in BoardType
  BY BoardTypes DEF BoardType, IInv, TypeOK
<1>5. ASSUME NEW a \in First(trigger), CanStart(a, trigger[a]), Start(a, trigger[a], B, chains)
      PROVE  IInv'
  <2>1. a \in Agents /\ trigger[a] # "none"
    BY DEF First, IInv, TypeOK
  <2>2. trigger[a] = DueTrigger(B, a, fired)
    BY <2>1
  <2>3. trigger[a] \in Triggers
    <3>1. DueTrigger(B, a, fired) \in {"answer", "none", "interval", "event"}
      BY DEF DueTrigger
    <3>. QED
      BY <2>1, <2>2, <3>1 DEF Triggers
  <2>4. PICK t \in Triggers : t = trigger[a]
    BY <2>3
  <2> HIDE DEF B, trigger
  <2>5. /\ job' \in [Jobs -> JobRec \cup {NoJob}] /\ running' \subseteq Agents
        /\ chains' \in [Agents -> SUBSET Agents] /\ KindsOK' /\ SlotsHonest'
        /\ stale' \in [Agents -> Agents] /\ due' \subseteq Agents /\ ask' \in [Asks -> AskRec]
    BY <1>2, <1>4, <1>5, <2>1, <2>4, StartKeeps
  <2>. QED
    BY <1>2, <1>3, <1>5, <2>5 DEF IInv, TypeOK, money
<1>6. ASSUME NEW a \in held \ running, Standdown(a), ask' = B, UNCHANGED <<chains, stale, due>>
      PROVE  IInv'
  <2>1. a \in Agents \ running
    BY DEF IInv, TypeOK
  <2>2. /\ job' \in [Jobs -> JobRec \cup {NoJob}] /\ running' \subseteq Agents
        /\ chains' \in [Agents -> SUBSET Agents] /\ KindsOK' /\ SlotsHonest'
    BY <1>2, <1>6, <2>1, StanddownKeeps
  <2>. HIDE DEF B
  <2>. QED
    BY <1>2, <1>3, <1>4, <1>6, <2>2 DEF IInv, TypeOK, BoardType, money
<1>7. CASE ask' = B /\ UNCHANGED desk
  <2>1. KindsOK' /\ SlotsHonest'
    BY <1>2, <1>7, DeskKeeps DEF desk
  <2>. QED
    BY <1>2, <1>3, <1>4, <1>7, <2>1 DEF IInv, TypeOK, BoardType, desk, money
<1>. QED
  BY <1>1, <1>5, <1>6, <1>7 DEF desk

LEMMA ChatKeeps ==
    ASSUME IInv, NEW a \in Agents, Chat(a)
    PROVE  IInv'
<1>1. a \in Agents \ running /\ Free # {} /\ upsets' = upsets \ {"chat"}
      /\ job' = [job EXCEPT ![NextFree] = [kind |-> "chat", agent |-> a, trigger |-> "manual", pc |-> "live"]]
      /\ running' = running \cup {a} /\ UNCHANGED <<chains, stale, due, held, hired, ask, money>>
  BY DEF Chat, Spend
<1>2. /\ job' \in [Jobs -> JobRec \cup {NoJob}] /\ running' \subseteq Agents
      /\ chains' \in [Agents -> SUBSET Agents] /\ KindsOK' /\ SlotsHonest'
  BY <1>1, TalkKeeps
<1>. QED
  BY <1>1, <1>2 DEF IInv, TypeOK, money

LEMMA RaiseKeeps ==
    ASSUME IInv, NEW j \in Jobs, NEW b \in Agents \cup {Human}, Raise(j, b)
    PROVE  IInv'
<1> DEFINE a == job[j].agent
           B == Raised(a, b)
           chain == chains[a] \cup {a}
<1>1. a \in Agents
  BY NoJobIsNone DEF Raise, Alive, IInv, NoJob
<1>2. B \in BoardType
  <2>1. PICK q \in Unused : q = CHOOSE x \in Unused : TRUE
    BY DEF Raise
  <2>2. q \in Asks
    BY DEF Unused
  <2>3. [by |-> a, of |-> b, st |-> "open"] \in AskRec
    BY <1>1 DEF AskRec
  <2>4. [ask EXCEPT ![q] = [by |-> a, of |-> b, st |-> "open"]] \in BoardType
    BY <2>2, <2>3 DEF BoardType, IInv, TypeOK
  <2>. QED
    BY <2>1, <2>4 DEF Raised, BoardType, IInv, TypeOK
<1>3. UNCHANGED <<held, hired, money, upsets>>
  BY DEF Raise
<1>4. CASE dispatchInlineAnswer(b, chain) /\ Start(b, "inline-answer", B, [chains EXCEPT ![b] = chain \cup {b}])
  <2>1. b \in Agents /\ CanStart(b, "inline-answer") /\ "inline-answer" \in Triggers
    BY <1>4 DEF dispatchInlineAnswer, canAnswerInline, IInv, TypeOK, Triggers
  <2>2. chain \cup {b} \in SUBSET Agents
    BY <1>1, <2>1 DEF IInv, TypeOK
  <2> HIDE DEF B, chain
  <2>3. /\ job' \in [Jobs -> JobRec \cup {NoJob}] /\ running' \subseteq Agents
        /\ chains' \in [Agents -> SUBSET Agents] /\ KindsOK' /\ SlotsHonest'
        /\ stale' \in [Agents -> Agents] /\ due' \subseteq Agents /\ ask' \in [Asks -> AskRec]
    BY <1>2, <1>3, <1>4, <2>1, <2>2, StartKeeps
  <2>. QED
    BY <1>3, <2>3 DEF IInv, TypeOK, money
<1>5. CASE ask' = B /\ UNCHANGED desk
  BY <1>2, <1>3, <1>5, DeskKeeps DEF desk, IInv, TypeOK, money, BoardType
<1>. QED
  BY <1>4, <1>5 DEF Raise

LEMMA BoardKeeps ==
    ASSUME IInv, UNCHANGED <<desk, money>>, ask' \in BoardType, held' \subseteq held, hired' \subseteq hired,
           upsets' \subseteq upsets, "deaf" \in upsets' <=> "deaf" \in upsets
    PROVE  IInv'
  BY DeskKeeps DEF IInv, TypeOK, desk, money, BoardType

LEMMA MoneyKeeps ==
    ASSUME IInv, UNCHANGED <<desk, held, hired, ask>>,
           upsets' \subseteq upsets, "deaf" \in upsets' <=> "deaf" \in upsets,
           spent' \in [Agents -> Int], trade' \in [Trades -> TradeRec]
    PROVE  IInv'
  BY DeskKeeps DEF IInv, TypeOK, desk

LEMMA AnswerKeeps ==
    ASSUME IInv, NEW q \in Asks, Answer(q) \/ GrowsOld(q)
    PROVE  IInv'
<1>1. ask \in BoardType /\ UNCHANGED <<desk, held, hired, money, upsets>>
  BY DEF Answer, GrowsOld, IInv, TypeOK, BoardType
<1>2. (\E s \in States : ask' = Stamped(ask, {q}, s)) \/ ask' = Without(ask, {q})
  BY DEF Answer, GrowsOld, States
<1>3. ask' \in BoardType
  BY <1>1, <1>2, StampedType, WithoutType
<1>. QED
  BY <1>1, <1>3, BoardKeeps

LEMMA FireKeeps ==
    ASSUME IInv, NEW a \in Agents, Fire(a)
    PROVE  IInv'
<1>1. PICK Q : ask' = Without(ask, Q)
  BY DEF Fire
<1>2. ask' \in BoardType
  BY <1>1, WithoutType DEF IInv, TypeOK, BoardType
<1>3. UNCHANGED <<desk, money>> /\ held' \subseteq held /\ hired' \subseteq hired /\ upsets' = upsets \ {"remove"}
  BY DEF Fire, Spend
<1>. QED
  BY <1>2, <1>3, BoardKeeps

LEMMA ProposeKeeps ==
    ASSUME IInv, NEW j \in Jobs, NEW t \in Trades, NEW usd \in Amounts, Propose(j, t, usd)
    PROVE  IInv'
<1>1. job[j].agent \in Agents
  BY NoJobIsNone DEF Propose, Alive, IInv, NoJob
<1>2. usd \in Int /\ [agent |-> job[j].agent, usd |-> usd, st |-> "flying"] \in TradeRec
  BY <1>1, AgentFleetConstants DEF TradeRec
<1>3. spent' \in [Agents -> Int]
  BY <1>1, <1>2 DEF Propose, IInv, TypeOK
<1>4. trade' \in [Trades -> TradeRec]
  BY <1>2 DEF Propose, IInv, TypeOK
<1>. QED
  BY <1>3, <1>4, MoneyKeeps DEF Propose

LEMMA ExecutesKeeps ==
    ASSUME IInv, NEW t \in Trades, Executes(t)
    PROVE  IInv'
<1>1. PICK s \in {"placed", "executed"} : trade' = [trade EXCEPT ![t].st = s]
  BY DEF Executes
<1>2. trade[t] \in TradeRec
  BY DEF IInv, TypeOK
<1>3. [trade[t] EXCEPT !.st = s] \in TradeRec
  BY <1>2 DEF TradeRec
<1>4. trade' \in [Trades -> TradeRec]
  BY <1>1, <1>3 DEF IInv, TypeOK
<1>5. spent' \in [Agents -> Int] /\ UNCHANGED <<desk, held, hired, ask, upsets>>
  BY DEF Executes, IInv, TypeOK
<1>. QED
  BY <1>4, <1>5, MoneyKeeps

LEMMA RefusedKeeps ==
    ASSUME IInv, NEW t \in Trades, Refused(t)
    PROVE  IInv'
<1>1. trade[t] \in TradeRec /\ trade[t].usd \in Int
  <2>1. trade[t] \in TradeRec
    BY DEF IInv, TypeOK
  <2>2. trade[t].usd \in Amounts \cup {0}
    BY <2>1 DEF TradeRec
  <2>3. \A usd \in Amounts : usd \in Int
    BY AgentFleetConstants
  <2>. QED
    BY <2>1, <2>2, <2>3
<1>2. \A s \in {"refused", "orphaned"} : [trade[t] EXCEPT !.st = s] \in TradeRec
  BY <1>1 DEF TradeRec
<1>5. PICK s \in {"refused", "orphaned"} : trade' = [trade EXCEPT ![t].st = s]
  BY DEF Refused
<1>3. trade' \in [Trades -> TradeRec]
  BY <1>2, <1>5 DEF IInv, TypeOK
<1>6. upsets' \subseteq upsets /\ ("deaf" \in upsets' <=> "deaf" \in upsets)
  BY DEF Refused, Spend
<1>4. spent' \in [Agents -> Int]
  <2>1. PICK a : a = trade[t].agent
    OBVIOUS
  <2>2. PICK u \in Int : u = trade[t].usd
    BY <1>1
  <2>3. spent' = [spent EXCEPT ![a] = @ - u] /\ spent \in [Agents -> Int]
    BY <2>1, <2>2 DEF Refused, IInv, TypeOK
  <2>4. ASSUME NEW b \in Agents
        PROVE  (IF b = a THEN spent[b] - u ELSE spent[b]) \in Int
    BY <2>3
  <2>5. spent' = [b \in Agents |-> IF b = a THEN spent[b] - u ELSE spent[b]]
    BY <2>3
  <2>. QED
    BY <2>4, <2>5
<1>. QED
  BY <1>3, <1>4, <1>6, MoneyKeeps DEF Refused

TradeStates == {"none", "flying", "placed", "executed", "refused", "orphaned", "unknown"}
LEMMA CrashKeeps ==
    ASSUME IInv, Crash
    PROVE  IInv'
<1>1. job' = [j \in Jobs |-> NoJob] /\ running' = {} /\ chains' = [a \in Agents |-> {}]
      /\ UNCHANGED <<stale, due, held, hired, ask, spent>> /\ upsets' = upsets \ {"crash"}
  BY DEF Crash, Spend
<1>2. trade' \in [Trades -> TradeRec]
  <2>1. ASSUME NEW t \in Trades
        PROVE  trade'[t] \in TradeRec
    <3>1. trade[t] \in TradeRec /\ "executed" \in TradeStates /\ "unknown" \in TradeStates /\ trade[t].st \in TradeStates
      BY DEF IInv, TypeOK, TradeRec, TradeStates
    <3>2. PICK s \in TradeStates : trade'[t] = [trade[t] EXCEPT !.st = s]
      BY <2>1, <3>1 DEF Crash
    <3>. QED
      BY <3>1, <3>2 DEF TradeRec, TradeStates
  <2>2. trade' = [t \in Trades |-> trade'[t]]
    BY DEF Crash
  <2>. QED
    BY <2>1, <2>2
<1>3. \A j \in Jobs : job'[j] = NoJob
  BY <1>1
<1>4. KindsOK'
  BY <1>3 DEF KindsOK, NoJob
<1>5. SlotsHonest'
  <2>1. {j \in Jobs : job'[j] # NoJob} = {}
    BY <1>3
  <2>. QED
    BY <1>1, <2>1 DEF SlotsHonest
<1>. QED
  BY <1>1, <1>2, <1>4, <1>5 DEF IInv, TypeOK

------------------------------------------------------------------------------
LEMMA InitHolds == Init => IInv
<1> SUFFICES ASSUME Init
             PROVE  IInv
  OBVIOUS
<1>1. \A j \in Jobs : job[j] = NoJob
  BY DEF Init
<1>2. KindsOK
  BY <1>1 DEF KindsOK, NoJob
<1>3. {j \in Jobs : job[j] # NoJob} = {}
  BY <1>1
<1>4. SlotsHonest
  BY <1>3 DEF SlotsHonest, Init
<1>5. NoAsk \in AskRec /\ [agent |-> Human, usd |-> 0, st |-> "none"] \in TradeRec
  BY DEF NoAsk, AskRec, TradeRec
<1>6. TypeOK
  BY <1>5, Small DEF Init, TypeOK
<1>. QED
  BY <1>2, <1>4, <1>6 DEF IInv

LEMMA StepKeeps == IInv /\ [Next]_vars => IInv'
<1> SUFFICES ASSUME IInv, [Next]_vars
             PROVE  IInv'
  OBVIOUS
<1>1. CASE UNCHANGED vars
  BY <1>1, DeskKeeps DEF vars, IInv, TypeOK
<1>2. CASE Tick \/ Crash
  BY <1>2, TickKeeps, CrashKeeps
<1>3. CASE \E a \in Agents : StartManual(a) \/ WakeFromAlert(a) \/ Chat(a) \/ Fire(a) \/ ClearTranscript(a)
  BY <1>3, StartManualKeeps, WakeFromAlertKeeps, ChatKeeps, FireKeeps, ClearTranscriptKeeps
<1>4. ASSUME NEW a \in Agents, Elapses(a)
      PROVE  IInv'
  BY <1>4, DeskKeeps DEF Elapses, IInv, TypeOK, money
<1>5. CASE \E j \in Jobs : SessionEnds(j)
  BY <1>5, ProbeEndsKeeps, RunEndsKeeps, RunTimesOutKeeps, TalkEndsKeeps DEF SessionEnds
<1>6. CASE \E j \in Jobs : \E b \in Agents \cup {Human} : Raise(j, b)
  BY <1>6, RaiseKeeps
<1>7. CASE \E j \in Jobs : \E usd \in Amounts, t \in Trades : Propose(j, t, usd)
  BY <1>7, ProposeKeeps
<1>8. CASE \E q \in Asks : Answer(q) \/ GrowsOld(q)
  BY <1>8, AnswerKeeps
<1>9. CASE \E t \in Trades : Executes(t) \/ Refused(t)
  BY <1>9, ExecutesKeeps, RefusedKeeps
<1>. QED
  BY <1>1, <1>2, <1>3, <1>4, <1>5, <1>6, <1>7, <1>8, <1>9 DEF Next

THEOREM InvariantHolds == Spec => []IInv
  BY InitHolds, StepKeeps, PTL DEF Spec

\* Type correctness: every slot, chain, question and trade is well formed, through
\* timeouts, questions between agents, departures and restarts.
THEOREM TypeCorrect == Spec => []TypeOK
<1>1. IInv => TypeOK
  BY DEF IInv
<1>. QED
  BY <1>1, InvariantHolds, PTL

\* The slots and chains of the fleet are those of its sessions; while every SDK heeds its
\* abort, the running set names exactly the agents in session and no agent has two.
THEOREM SlotsStayHonest == Spec => []SlotsHonest
<1>1. IInv => SlotsHonest
  BY DEF IInv
<1>. QED
  BY <1>1, InvariantHolds, PTL

------------------------------------------------------------------------------
\* Induction over 0..n, on a set rather than on a predicate.
LEMMA NatSetInduction ==
    ASSUME NEW n \in Nat, NEW S, 0 \in S, \A k \in 0..(n-1) : k \in S => k + 1 \in S
    PROVE  \A k \in 0..n : k \in S
<1>. DEFINE T == {k \in 0..n : k \notin S}
<1>1. SUFFICES ASSUME T # {} PROVE FALSE
  OBVIOUS
<1>2. T \subseteq Nat /\ T # {}
  BY <1>1
<1>3. \E x \in T : \A y \in T : ~(<<y, x>> \in OpToRel(<, Nat))
  <2>. HIDE DEF T
  <2>. QED
    BY <1>2, NatLessThanWellFounded, WFMin
<1>4. PICK x \in T : \A y \in T : ~(y < x)
  BY <1>2, <1>3 DEF OpToRel
<1>5. x # 0 /\ x \in 0..n /\ x - 1 \in 0..(n-1)
  BY <1>4
<1>6. x - 1 \in S
  BY <1>4, <1>5
<1>. QED
  BY <1>4, <1>5, <1>6

\* f starts with a and takes the step h[i] at each place i.
Iterates(f, n, A, a, h) == f \in [0..n -> A] /\ f[0] = a /\ \A i \in 1..n : f[i] = h[i][f[i - 1]]

\* A recursive function on 0..n whose steps stay in A satisfies its equation.
LEMMA Recursion ==
    ASSUME NEW n \in Nat, NEW A, NEW a \in A, NEW h \in [1..n -> [A -> A]]
    PROVE  \E f : Iterates(f, n, A, a, h)
<1>. DEFINE Good(k) == {f \in [0..n -> A] : \A i \in 0..k : f[i] = IF i = 0 THEN a ELSE h[i][f[i - 1]]}
<1>. DEFINE S == {k \in 0..n : Good(k) # {}}
<1>1. 0 \in S
  <2>1. [i \in 0..n |-> a] \in Good(0)
    OBVIOUS
  <2>. QED
    BY <2>1
<1>2. ASSUME NEW k \in 0..(n-1), k \in S
      PROVE  k + 1 \in S
  <2>1. PICK f \in [0..n -> A] : \A i \in 0..k : f[i] = IF i = 0 THEN a ELSE h[i][f[i - 1]]
    BY <1>2
  <2>2. f[k] \in A /\ k + 1 \in 1..n /\ h[k + 1][f[k]] \in A
    BY <2>1
  <2>. DEFINE g == [f EXCEPT ![k + 1] = h[k + 1][f[k]]]
  <2>3. g \in [0..n -> A]
    BY <2>2
  <2>4. ASSUME NEW i \in 0..(k + 1)
        PROVE  g[i] = IF i = 0 THEN a ELSE h[i][g[i - 1]]
    <3>1. CASE i = k + 1
      BY <2>2, <3>1
    <3>2. CASE i # k + 1
      <4>1. i \in 0..k /\ g[i] = f[i] /\ i \in 0..n
        BY <2>2, <3>2
      <4>2. i # 0 => g[i - 1] = f[i - 1]
        BY <4>1, <2>2
      <4>. QED
        BY <2>1, <4>1, <4>2
    <3>. QED
      BY <3>1, <3>2
  <2>5. g \in Good(k + 1)
    BY <2>3, <2>4
  <2>. HIDE DEF Good, g
  <2>6. Good(k + 1) # {} /\ k + 1 \in 0..n
    BY <2>2, <2>5
  <2>. QED
    BY <2>6
<1>3. n \in S
  <2>. HIDE DEF S
  <2>1. \A k \in 0..n : k \in S
    BY <1>1, <1>2, NatSetInduction
  <2>. QED
    BY <2>1
<1>4. PICK f \in [0..n -> A] : \A i \in 0..n : f[i] = IF i = 0 THEN a ELSE h[i][f[i - 1]]
  BY <1>3
<1>. QED
  BY <1>4 DEF Iterates

\* A total goes from trade to trade.
LEMMA TotalBy ==
    ASSUME NEW f \in [Trades -> Int]
    PROVE  \E F \in [0..MaxTrades -> Int] :
              Total(f) = F[MaxTrades] /\ F[0] = 0 /\ \A i \in 1..MaxTrades : F[i] = F[i - 1] + f[i]
<1>. DEFINE n == MaxTrades
<1>. DEFINE h == [i \in 1..n |-> [x \in Int |-> x + f[i]]]
<1>. DEFINE P(F) == F = [i \in 0..n |-> IF i = 0 THEN 0 ELSE F[i - 1] + f[i]]
<1>1. n \in Nat /\ 0 \in Int /\ h \in [1..n -> [Int -> Int]]
  BY AgentFleetConstants DEF Trades
<1>2. PICK F \in [0..n -> Int] : F[0] = 0 /\ \A i \in 1..n : F[i] = h[i][F[i - 1]]
  <2>1. \E F : Iterates(F, n, Int, 0, h)
    <3>. HIDE DEF h
    <3>. QED
      BY <1>1, Recursion
  <2>. HIDE DEF h
  <2>. QED
    BY <2>1 DEF Iterates
<1>3. \A i \in 1..n : F[i] = F[i - 1] + f[i]
  <2>1. ASSUME NEW i \in 1..n PROVE F[i] = F[i - 1] + f[i]
    <3>1. F[i - 1] \in Int /\ h[i] = [x \in Int |-> x + f[i]]
      BY <1>1
    <3>. QED
      BY <1>2, <3>1
  <2>. QED
    BY <2>1
<1>4. P(F)
  <2>1. \A i \in 0..n : F[i] = IF i = 0 THEN 0 ELSE F[i - 1] + f[i]
    <3>. HIDE DEF h
    <3>. QED
      BY <1>1, <1>2, <1>3
  <2>2. F = [i \in 0..n |-> F[i]]
    BY <1>2
  <2>. QED
    BY <2>1, <2>2
<1>5. PICK G : P(G) /\ Total(f) = G[n]
  BY <1>4 DEF Total
<1>6. G[0] = 0 /\ \A i \in 1..n : G[i] = G[i - 1] + f[i]
  <2>1. ASSUME NEW i \in 0..n PROVE G[i] = IF i = 0 THEN 0 ELSE G[i - 1] + f[i]
    BY <1>5
  <2>2. 0 \in 0..n /\ \A i \in 1..n : i \in 0..n /\ i # 0
    BY <1>1
  <2>. QED
    BY <2>1, <2>2
<1>7. \A i \in 0..n : G[i] \in Int
  <2>. DEFINE S == {i \in 0..n : G[i] \in Int}
  <2>1. 0 \in S
    BY <1>1, <1>6
  <2>2. ASSUME NEW k \in 0..(n - 1), k \in S PROVE k + 1 \in S
    <3>1. k + 1 \in 1..n /\ (k + 1) - 1 = k /\ k + 1 \in 0..n
      BY <1>1
    <3>2. G[k + 1] = G[k] + f[k + 1] /\ f[k + 1] \in Int
      BY <1>6, <3>1 DEF Trades
    <3>. QED
      BY <2>2, <3>1, <3>2
  <2>. HIDE DEF S
  <2>3. \A k \in 0..n : k \in S
    BY <1>1, <2>1, <2>2, NatSetInduction
  <2>. QED
    BY <2>3 DEF S
<1>. QED
  BY <1>5, <1>6, <1>7

\* One trade changes, and the total with it.
LEMMA TotalMoves ==
    ASSUME NEW f \in [Trades -> Int], NEW g \in [Trades -> Int], NEW t \in Trades, NEW d \in Int,
           \A s \in Trades : g[s] = f[s] + (IF s = t THEN d ELSE 0)
    PROVE  Total(g) = Total(f) + d /\ Total(f) \in Int
<1>. DEFINE n == MaxTrades
<1>1. n \in Nat /\ Trades = 1..n
  BY AgentFleetConstants DEF Trades
<1>2. PICK F \in [0..n -> Int] : Total(f) = F[n] /\ F[0] = 0 /\ \A i \in 1..n : F[i] = F[i - 1] + f[i]
  BY TotalBy
<1>3. PICK G \in [0..n -> Int] : Total(g) = G[n] /\ G[0] = 0 /\ \A i \in 1..n : G[i] = G[i - 1] + g[i]
  BY TotalBy
<1>. DEFINE S == {i \in 0..n : G[i] = F[i] + IF t <= i THEN d ELSE 0}
<1>4. 0 \in S
  BY <1>1, <1>2, <1>3
<1>5. ASSUME NEW k \in 0..(n - 1), k \in S PROVE k + 1 \in S
  <2>1. k + 1 \in 1..n /\ (k + 1) - 1 = k /\ k + 1 \in 0..n /\ k \in 0..n
    BY <1>1
  <2>2. /\ F[k + 1] = F[k] + f[k + 1] /\ G[k + 1] = G[k] + g[k + 1]
        /\ g[k + 1] = f[k + 1] + (IF k + 1 = t THEN d ELSE 0)
        /\ F[k] \in Int /\ f[k + 1] \in Int
    BY <1>1, <1>2, <1>3, <2>1
  <2>3. G[k] = F[k] + IF t <= k THEN d ELSE 0
    BY <1>5
  <2>4. t \in Int /\ (t <= k + 1 <=> (t <= k \/ k + 1 = t))
    BY <1>1
  <2>5. ~(t <= k /\ k + 1 = t)
    BY <1>1
  <2>6. G[k + 1] = F[k + 1] + IF t <= k + 1 THEN d ELSE 0
    <3>1. CASE k + 1 = t
      BY <2>2, <2>3, <2>4, <2>5, <3>1
    <3>2. CASE k + 1 # t /\ t <= k
      BY <2>2, <2>3, <2>4, <3>2
    <3>3. CASE k + 1 # t /\ ~(t <= k)
      <4>1. ~(t <= k + 1) /\ g[k + 1] = f[k + 1] /\ G[k] = F[k]
        BY <2>2, <2>3, <2>4, <3>3
      <4>2. F[k + 1] = F[k] + f[k + 1] /\ F[k + 1] \in Int
        BY <2>2
      <4>3. G[k + 1] = F[k + 1]
        BY <2>2, <4>1, <4>2
      <4>. QED
        BY <4>1, <4>2, <4>3
    <3>. QED
      BY <3>1, <3>2, <3>3
  <2>. QED
    BY <2>1, <2>6
<1>6. \A i \in 0..n : i \in S
  <2>. HIDE DEF S
  <2>. QED
    BY <1>1, <1>4, <1>5, NatSetInduction
<1>7. n \in 0..n /\ t <= n
  BY <1>1
<1>. QED
  BY <1>2, <1>3, <1>6, <1>7

LEMMA TotalOfNone ==
    ASSUME NEW f \in [Trades -> Int], \A s \in Trades : f[s] = 0
    PROVE  Total(f) = 0
<1>. DEFINE n == MaxTrades
<1>1. n \in Nat /\ Trades = 1..n
  BY AgentFleetConstants DEF Trades
<1>2. PICK F \in [0..n -> Int] : Total(f) = F[n] /\ F[0] = 0 /\ \A i \in 1..n : F[i] = F[i - 1] + f[i]
  BY TotalBy
<1>. DEFINE S == {i \in 0..n : F[i] = 0}
<1>3. 0 \in S
  BY <1>1, <1>2
<1>4. ASSUME NEW k \in 0..(n - 1), k \in S PROVE k + 1 \in S
  <2>1. k + 1 \in 1..n /\ (k + 1) - 1 = k /\ k + 1 \in 0..n
    BY <1>1
  <2>2. F[k + 1] = F[k] + f[k + 1] /\ f[k + 1] = 0
    BY <1>1, <1>2, <2>1
  <2>. QED
    BY <1>4, <2>1, <2>2
<1>5. \A i \in 0..n : i \in S
  <2>. HIDE DEF S
  <2>. QED
    BY <1>1, <1>3, <1>4, NatSetInduction
<1>6. n \in 0..n
  BY <1>1
<1>. QED
  BY <1>2, <1>5, <1>6

------------------------------------------------------------------------------
\* The trades an agent's budget pays for: those that may stand at the exchange.
Reserving == {"flying", "placed", "executed", "unknown"}

\* What an agent has spent is what its reserving trades amount to, and within its budget.
Ledger ==
    \A a \in Agents : spent[a] <= Budget /\ Total(Amount(a, Reserving)) = spent[a]

LEMMA TradesTyped ==
    ASSUME TypeOK, NEW t \in Trades
    PROVE  /\ trade[t] \in TradeRec /\ trade[t].usd \in Nat /\ trade[t].agent \in Agents \cup {Human}
<1>1. trade[t] \in TradeRec
  BY DEF TypeOK
<1>2. trade[t].usd \in Amounts \cup {0} /\ trade[t].agent \in Agents \cup {Human}
  BY <1>1 DEF TradeRec
<1>. QED
  <2>1. \A usd \in Amounts \cup {0} : usd \in Nat
    BY AgentFleetConstants
  <2>. QED
    BY <1>1, <1>2, <2>1

LEMMA AmountTyped ==
    ASSUME TypeOK, NEW a, NEW states
    PROVE  Amount(a, states) \in [Trades -> Int]
<1>1. ASSUME NEW t \in Trades PROVE (IF trade[t].agent = a /\ trade[t].st \in states THEN trade[t].usd ELSE 0) \in Int
  BY TradesTyped
<1>. QED
  BY <1>1 DEF Amount

\* A step that leaves the money alone.
LEMMA LedgerStays ==
    ASSUME TypeOK, Ledger, UNCHANGED <<spent, trade>>
    PROVE  Ledger'
  BY DEF Ledger, Amount

LEMMA ProposePays ==
    ASSUME IInv, TypeOK', Ledger, NEW j \in Jobs, NEW t \in Trades, NEW usd \in Amounts, Propose(j, t, usd)
    PROVE  Ledger'
<1>. DEFINE b == job[j].agent
<1>1. b \in Agents /\ TypeOK /\ usd \in Nat
  BY NoJobIsNone, AgentFleetConstants DEF Propose, Alive, IInv, NoJob
<1>2. /\ trade[t].st = "none" /\ spent[b] + usd <= Budget
      /\ spent' = [spent EXCEPT ![b] = @ + usd]
      /\ trade' = [trade EXCEPT ![t] = [agent |-> b, usd |-> usd, st |-> "flying"]]
  BY DEF Propose
<1>. HIDE DEF b
<1>3. ASSUME NEW a \in Agents
      PROVE  spent'[a] <= Budget /\ Total(Amount(a, Reserving)') = spent'[a]
  <2>. DEFINE f == Amount(a, Reserving)
  <2>. DEFINE g == Amount(a, Reserving)'
  <2>. DEFINE d == IF a = b THEN usd ELSE 0
  <2>1. f \in [Trades -> Int]
    BY <1>1, AmountTyped
  <2>2. g = [s \in Trades |-> IF trade'[s].agent = a /\ trade'[s].st \in Reserving THEN trade'[s].usd ELSE 0]
    BY DEF Amount, Reserving
  <2>3. ASSUME NEW s \in Trades
        PROVE  g[s] = f[s] + (IF s = t THEN d ELSE 0) /\ f[s] \in Int
    <3>1. CASE s = t
      <4>1. f[s] = 0
        BY <1>2, <3>1 DEF Amount, Reserving
      <4>2. trade'[s] = [agent |-> b, usd |-> usd, st |-> "flying"]
        BY <1>1, <1>2, <3>1 DEF TypeOK
      <4>3. g[s] = d
        BY <2>2, <4>2 DEF Reserving
      <4>. HIDE DEF f, g, d
      <4>4. d \in Int
        BY <1>1 DEF d
      <4>. QED
        BY <3>1, <4>1, <4>3, <4>4
    <3>2. CASE s # t
      <4>1. trade'[s] = trade[s]
        BY <1>1, <1>2, <3>2 DEF TypeOK
      <4>2. g[s] = f[s]
        BY <2>2, <4>1 DEF Amount
      <4>. HIDE DEF f, g
      <4>. QED
        BY <2>1, <3>2, <4>2
    <3>. QED
      BY <3>1, <3>2
  <2>4. g \in [Trades -> Int]
    <3>1. \A s \in Trades : g[s] \in Int
      <4>. HIDE DEF f, g
      <4>1. d \in Int
        BY <1>1
      <4>. HIDE DEF d
      <4>. QED
        BY <2>3, <4>1
    <3>2. g = [s \in Trades |-> g[s]]
      <4>. HIDE DEF f
      <4>. QED
        BY <2>2
    <3>. HIDE DEF f, g
    <3>. QED
      BY <3>1, <3>2
  <2>5. d \in Int
    BY <1>1
  <2>6. Total(g) = Total(f) + d
    <3>. HIDE DEF f, g, d
    <3>1. \A s \in Trades : g[s] = f[s] + (IF s = t THEN d ELSE 0)
      BY <2>3
    <3>. QED
      BY <2>1, <3>1, <2>4, <2>5, TotalMoves
  <2>7. Total(f) = spent[a] /\ spent[a] <= Budget /\ spent[a] \in Int /\ spent \in [Agents -> Int]
    BY <1>1 DEF Ledger, TypeOK
  <2>8. spent'[a] = spent[a] + d /\ spent'[a] <= Budget
    <3>. HIDE DEF f, g
    <3>. QED
      BY <1>1, <1>2, <2>7, AgentFleetConstants
  <2>. HIDE DEF f, g, d
  <2>. QED
    BY <2>6, <2>7, <2>8 DEF g
<1>. QED
  BY <1>3 DEF Ledger

\* A trade changes its state and nothing else.
LEMMA StateMoves ==
    ASSUME TypeOK, NEW t \in Trades, NEW s, trade' = [trade EXCEPT ![t].st = s], NEW a \in Agents,
           trade[t].st \in Reserving, TypeOK'
    PROVE  /\ s \in Reserving => Total(Amount(a, Reserving)') = Total(Amount(a, Reserving))
           /\ s \notin Reserving => Total(Amount(a, Reserving)')
                 = Total(Amount(a, Reserving)) - (IF trade[t].agent = a THEN trade[t].usd ELSE 0)
<1>. DEFINE f == Amount(a, Reserving)
<1>. DEFINE g == Amount(a, Reserving)'
<1>. DEFINE mine == IF trade[t].agent = a THEN trade[t].usd ELSE 0
<1>. DEFINE d == IF s \in Reserving THEN 0 ELSE 0 - mine
<1>1. f \in [Trades -> Int] /\ mine \in Int /\ d \in Int
  BY AmountTyped, TradesTyped
<1>2. g = [r \in Trades |-> IF trade'[r].agent = a /\ trade'[r].st \in Reserving THEN trade'[r].usd ELSE 0]
  BY DEF Amount, Reserving
<1>3. ASSUME NEW r \in Trades
      PROVE  g[r] = f[r] + (IF r = t THEN d ELSE 0) /\ g[r] \in Int
  <2>1. CASE r = t
    <3>1. trade'[r].st = s /\ trade'[r].agent = trade[t].agent /\ trade'[r].usd = trade[t].usd
      <4>1. trade[t] \in TradeRec
        BY TradesTyped
      <4>. QED
        BY <2>1, <4>1 DEF TypeOK, TradeRec
    <3>2. f[r] = mine
      BY <2>1 DEF Amount
    <3>3. g[r] = IF s \in Reserving THEN mine ELSE 0
      BY <1>2, <3>1, <2>1
    <3>. HIDE DEF f, g, mine
    <3>. QED
      BY <1>1, <2>1, <3>2, <3>3
  <2>2. CASE r # t
    <3>1. trade'[r] = trade[r]
      BY <2>2 DEF TypeOK
    <3>2. g[r] = f[r]
      <4>1. f[r] = IF trade[r].agent = a /\ trade[r].st \in Reserving THEN trade[r].usd ELSE 0
        BY DEF Amount
      <4>. HIDE DEF f, g
      <4>. QED
        BY <1>2, <3>1, <4>1
    <3>. HIDE DEF f, g, d
    <3>. QED
      BY <1>1, <2>2, <3>2
  <2>. QED
    BY <2>1, <2>2
<1>4. g \in [Trades -> Int]
  <2>1. g = [r \in Trades |-> g[r]]
    <3>. HIDE DEF f
    <3>. QED
      BY <1>2
  <2>. HIDE DEF f, g, d
  <2>. QED
    BY <1>3, <2>1
<1>5. \A r \in Trades : g[r] = f[r] + (IF r = t THEN d ELSE 0)
  BY <1>3
<1>6. Total(g) = Total(f) + d /\ Total(f) \in Int
  <2>. HIDE DEF f, g, d
  <2>. QED
    BY <1>1, <1>4, <1>5, TotalMoves
<1>7. /\ s \in Reserving => Total(g) = Total(f)
      /\ s \notin Reserving => Total(g) = Total(f) - mine
  <2>. HIDE DEF f, g, mine
  <2>. QED
    BY <1>1, <1>6
<1>. QED
  BY <1>7

LEMMA ExecutesPays ==
    ASSUME IInv, TypeOK', Ledger, NEW t \in Trades, Executes(t)
    PROVE  Ledger'
<1>1. PICK s \in Reserving : trade' = [trade EXCEPT ![t].st = s] /\ trade[t].st \in Reserving
  BY DEF Executes, Reserving
<1>2. \A a \in Agents : Total(Amount(a, Reserving)') = Total(Amount(a, Reserving))
  BY <1>1, StateMoves DEF IInv
<1>3. spent' = spent
  BY DEF Executes
<1>. QED
  BY <1>2, <1>3 DEF Ledger

LEMMA RefusedPays ==
    ASSUME IInv, TypeOK', Ledger, NEW t \in Trades, Refused(t)
    PROVE  Ledger'
<1>1. PICK s \in {"refused", "orphaned"} :
      /\ trade[t].st \in Reserving /\ trade' = [trade EXCEPT ![t].st = s] /\ s \notin Reserving
      /\ spent' = [spent EXCEPT ![trade[t].agent] = @ - trade[t].usd]
  BY DEF Refused, Reserving
<1>2. trade[t].usd \in Nat /\ spent \in [Agents -> Int] /\ TypeOK
  BY TradesTyped DEF IInv, TypeOK
<1>3. ASSUME NEW a \in Agents
      PROVE  spent'[a] <= Budget /\ Total(Amount(a, Reserving)') = spent'[a]
  <2>1. Total(Amount(a, Reserving)') = Total(Amount(a, Reserving)) - (IF trade[t].agent = a THEN trade[t].usd ELSE 0)
    BY <1>1, <1>2, StateMoves
  <2>2. spent'[a] = spent[a] - (IF trade[t].agent = a THEN trade[t].usd ELSE 0)
    BY <1>1, <1>2
  <2>3. Total(Amount(a, Reserving)) = spent[a] /\ spent[a] <= Budget /\ spent[a] \in Int
    BY <1>2 DEF Ledger
  <2>4. spent'[a] <= Budget
    BY <1>2, <2>2, <2>3, AgentFleetConstants
  <2>. QED
    BY <2>1, <2>2, <2>3, <2>4
<1>. QED
  BY <1>3 DEF Ledger

LEMMA CrashPays ==
    ASSUME IInv, TypeOK', Ledger, Crash
    PROVE  Ledger'
<1>1. spent' = spent /\ trade' = [t \in Trades |-> [trade[t] EXCEPT !.st =
                    CASE @ = "flying" -> "unknown" [] @ = "placed" -> "executed" [] OTHER -> @]]
  BY DEF Crash
<1>2. ASSUME NEW t \in Trades
      PROVE  /\ trade'[t].agent = trade[t].agent /\ trade'[t].usd = trade[t].usd
             /\ trade'[t].st \in Reserving <=> trade[t].st \in Reserving
  <2>1. trade[t] \in TradeRec
    BY TradesTyped DEF IInv
  <2>2. PICK s : /\ trade'[t] = [trade[t] EXCEPT !.st = s]
                 /\ s = CASE trade[t].st = "flying" -> "unknown" [] trade[t].st = "placed" -> "executed" [] OTHER -> trade[t].st
    BY <1>1
  <2>3. s \in Reserving <=> trade[t].st \in Reserving
    BY <2>2 DEF Reserving
  <2>. QED
    BY <2>1, <2>2, <2>3 DEF TradeRec
<1>3. \A a \in Agents : Amount(a, Reserving)' = Amount(a, Reserving)
  BY <1>2 DEF Amount, Reserving
<1>4. \A a \in Agents : Total(Amount(a, Reserving)') = Total(Amount(a, Reserving))
  BY <1>3
<1>. QED
  BY <1>1, <1>4 DEF Ledger

LEMMA LedgerStarts == Init => Ledger
<1>. SUFFICES ASSUME Init PROVE Ledger
  OBVIOUS
<1>1. TypeOK
  BY InitHolds DEF IInv
<1>2. ASSUME NEW a \in Agents
      PROVE  spent[a] <= Budget /\ Total(Amount(a, Reserving)) = spent[a]
  <2>1. \A t \in Trades : Amount(a, Reserving)[t] = 0
    BY DEF Init, Amount, Reserving
  <2>2. Total(Amount(a, Reserving)) = 0
    BY <1>1, <2>1, AmountTyped, TotalOfNone
  <2>3. spent[a] = 0
    BY DEF Init
  <2>. QED
    BY <2>2, <2>3, AgentFleetConstants
<1>. QED
  BY <1>2 DEF Ledger

LEMMA LedgerStep ==
    ASSUME IInv, IInv', Ledger, [Next]_vars
    PROVE  Ledger'
<1>0. TypeOK /\ TypeOK'
  BY DEF IInv
<1>1. CASE \E j \in Jobs : \E usd \in Amounts, t \in Trades : Propose(j, t, usd)
  BY <1>0, <1>1, ProposePays
<1>2. CASE \E t \in Trades : Executes(t) \/ Refused(t)
  BY <1>0, <1>2, ExecutesPays, RefusedPays
<1>3. CASE Crash
  BY <1>0, <1>3, CrashPays
<1>4. CASE UNCHANGED money
  BY <1>0, <1>4, LedgerStays DEF money
<1>5. Tick => UNCHANGED money
  BY DEF Tick
<1>6. \A a \in Agents : StartManual(a) \/ WakeFromAlert(a) \/ Chat(a) \/ Fire(a) \/ ClearTranscript(a) \/ Elapses(a)
         => UNCHANGED money
  BY DEF StartManual, WakeFromAlert, Chat, Fire, ClearTranscript, Elapses
<1>7. \A j \in Jobs : SessionEnds(j) => UNCHANGED money
  BY DEF SessionEnds, ProbeEnds, RunEnds, RunTimesOut, TalkEnds
<1>8. \A j \in Jobs : \A b : Raise(j, b) => UNCHANGED money
  BY DEF Raise
<1>9. \A q \in Asks : Answer(q) \/ GrowsOld(q) => UNCHANGED money
  BY DEF Answer, GrowsOld
<1>10. UNCHANGED vars => UNCHANGED money
  BY DEF vars, money
<1>. QED
  BY <1>1, <1>2, <1>3, <1>4, <1>5, <1>6, <1>7, <1>8, <1>9, <1>10 DEF Next

\* The spend recorded of an agent is the sum of its reserving trades, and within its budget.
THEOREM LedgerHolds == Spec => []Ledger
<1>1. IInv /\ IInv' /\ Ledger /\ [Next]_vars => Ledger'
  BY LedgerStep
<1>. QED
  BY <1>1, LedgerStarts, InvariantHolds, PTL DEF Spec

\* What an agent has standing at the exchange, orders that were reported to it as failed
\* aside, never exceeds its budget, however its sessions, refusals and restarts interleave.
THEOREM BudgetIsKept == Spec => []BudgetHolds
<1>1. ASSUME TypeOK, Ledger PROVE BudgetHolds
  <2>1. ASSUME NEW a \in Agents
        PROVE  Total(Amount(a, {"flying", "placed", "executed", "unknown"})) <= Budget
    <3>1. Total(Amount(a, Reserving)) = spent[a] /\ spent[a] <= Budget
      BY <1>1 DEF Ledger
    <3>. QED
      BY <3>1 DEF Reserving
  <2>. QED
    BY <2>1 DEF BudgetHolds
<1>2. IInv /\ Ledger => BudgetHolds
  BY <1>1 DEF IInv
<1>. QED
  BY <1>2, LedgerHolds, InvariantHolds, PTL
=============================================================================
