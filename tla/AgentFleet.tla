------------------------------ MODULE AgentFleet ------------------------------
(***************************************************************************)
(* The desk of trading agents: server/agents.ts with its blocker board     *)
(* (server/blockers.ts).                                                   *)
(*                                                                         *)
(* Agents work in sessions of the Claude SDK: runs, which the 30-second    *)
(* tick or the operator starts and a deadline ends, chats with the         *)
(* operator, and the handoff of an idle agent.  One slot is shared by all  *)
(* of them, except that a question one agent puts to another may wake the  *)
(* other at once.  An agent that waits for an answer is not woken by its   *)
(* interval.  A session may trade: within a rolling budget of its agent    *)
(* the order goes out, beyond it the trade is only staged.                 *)
(*                                                                         *)
(* Time is abstracted: an agent is due once its interval has elapsed, its  *)
(* cooldown is over and its timeouts no longer hold it back; the budget's  *)
(* window does not move.  Personnel files, the manager's file and what is  *)
(* said in a session are left out.                                         *)
(***************************************************************************)
EXTENDS Integers, FiniteSets

CONSTANTS
    NAgents,    \* agent ids are numbers: ties are broken by id
    Gated,      \* agents with a wake gate
    MaxJobs,    \* bound: sessions alive at once
    MaxAsks,    \* bound: questions that are open or answered and not yet delivered
    MaxTrades,  \* bound: trades proposed
    Amounts,    \* notionals of a trade
    Budget,     \* maxUsd * ROLLING_BUDGET_MULTIPLIER
    Scenarios   \* bound: sets of what may happen; each upset happens at most once

Agents == 1..NAgents
MAX_CONCURRENT_RUNS == 1
MAX_CONCURRENT_INLINE == 1
MAX_INLINE_DEPTH == 3
Human == 0   \* 'operator' on the blocker board

UpsetKind == {"manual", "alert", "chat", "crash", "remove", "lost"}
Uses == {"ask", "idle", "trade", "event", "deaf"}

ASSUME AgentFleetConstants ==
    /\ NAgents \in Nat \ {0} /\ Gated \subseteq Agents
    /\ MaxJobs \in Nat \ {0} /\ MaxAsks \in Nat /\ MaxTrades \in Nat
    /\ Amounts \subseteq Nat \ {0} /\ Budget \in Nat /\ Scenarios \subseteq SUBSET (UpsetKind \cup Uses)

Jobs == 1..MaxJobs
Asks == 1..MaxAsks
Trades == 1..MaxTrades

Triggers == {"manual", "alert", "answer", "event", "interval", "inline-answer"}

\* pc: "probe" in the wake gate, "live" in the SDK's stream, "late" past its deadline with
\* the stream still open.  A run's state is 'running' in the first two.
JobRec == [kind : {"run", "chat", "handoff"}, agent : Agents, trigger : Triggers,
           pc : {"probe", "live", "late"}]
NoJob == [kind |-> "none", agent |-> Human, trigger |-> "manual", pc |-> "live"]

\* "overdue" is an open question older than BLOCKER_EXPIRY_MS.  One that was delivered, has
\* expired or was withdrawn is read by nobody: its place is free.
AskRec == [by : Agents \cup {Human}, of : Agents \cup {Human},
           st : {"none", "open", "overdue", "answered"}]
NoAsk == [by |-> Human, of |-> Human, st |-> "none"]

\* "placed" is at the exchange with the answer still to come, "orphaned" there while the
\* agent was told that the execution failed.
TradeRec == [agent : Agents \cup {Human}, usd : Amounts \cup {0},
             st : {"none", "flying", "placed", "executed", "refused", "orphaned", "unknown"}]

VARIABLES
    job,     \* the sessions
    running, \* AgentFleet.running
    chains,  \* inlineChains: the agents of each chain, {} for no entry
    stale,   \* each agent's place by lastAutoRunAt, the longest ago first
    due,     \* agents their interval may wake
    held,    \* agents with a sessionId: a conversation kept open
    hired,   \* AgentFleet.records
    ask,     \* blockers.json
    spent,   \* rollingSpend of each agent
    trade,   \* the trades handed to CryptoHub.executeTrade
    upsets   \* the scenario's uses and the upsets still to come

vars == <<job, running, chains, stale, due, held, hired, ask, spent, trade, upsets>>
desk == <<job, running, chains, stale, due>>
money == <<spent, trade>>

Init ==
    /\ job = [j \in Jobs |-> NoJob] /\ running = {} /\ chains = [a \in Agents |-> {}]
    /\ stale = [a \in Agents |-> a] /\ due = {} /\ held = {} /\ hired = Agents
    /\ ask = [q \in Asks |-> NoAsk]
    /\ spent = [a \in Agents |-> 0]
    /\ trade = [t \in Trades |-> [agent |-> Human, usd |-> 0, st |-> "none"]]
    /\ upsets \in Scenarios

May(u) == u \in upsets
Spend(u) == u \in upsets /\ upsets' = upsets \ {u}

------------------------------------------------------------------------------
\* The blocker board.

Free == {j \in Jobs : job[j] = NoJob}
NextFree == CHOOSE j \in Free : TRUE
Unused == {q \in Asks : ask[q].st = "none"}
Open(q) == ask[q].st \in {"open", "overdue"}

\* Of a board B, which is ask but for what the current step has already changed.
isBlocked(B, a) == \E q \in Asks : B[q].st \in {"open", "overdue"} /\ B[q].by = a
Undelivered(B, a) == {q \in Asks : B[q].st = "answered" /\ B[q].by = a}

Stamped(B, Q, s) == [q \in Asks |-> IF q \in Q THEN [B[q] EXCEPT !.st = s] ELSE B[q]]
Without(B, Q) == [q \in Asks |-> IF q \in Q THEN NoAsk ELSE B[q]]
Delivered(B, a) == Without(B, Undelivered(B, a))
Expired(B) == Without(B, {q \in Asks : B[q].st = "overdue"})

------------------------------------------------------------------------------
\* Runs.

CanStart(a, trigger) ==
    /\ a \in hired /\ a \notin running /\ Free # {}
    /\ trigger # "inline-answer" => Cardinality(running) < MAX_CONCURRENT_RUNS

\* lastAutoRunAt of a becomes the latest.
Later(a) ==
    [b \in Agents |-> IF b = a THEN NAgents
                      ELSE IF stale[b] > stale[a] THEN stale[b] - 1 ELSE stale[b]]

\* start(): the run, and without a wake gate execute() up to its first await, which hands
\* the answers over.  B is the board by then, C the chains.
Start(a, trigger, B, C) ==
    LET gated == a \in Gated /\ trigger = "interval"
        auto == trigger # "manual"
    IN  /\ job' = [job EXCEPT ![NextFree] =
                      [kind |-> "run", agent |-> a, trigger |-> trigger,
                       pc |-> IF gated THEN "probe" ELSE "live"]]
        /\ running' = running \cup {a}
        /\ stale' = IF auto THEN Later(a) ELSE stale
        /\ due' = IF auto THEN due \ {a} ELSE due
        /\ ask' = IF gated THEN B ELSE Delivered(B, a)
        /\ chains' = C

StartManual(a) ==
    /\ Spend("manual") /\ CanStart(a, "manual")
    /\ Start(a, "manual", ask, chains)
    /\ UNCHANGED <<held, hired, money>>

\* wakeFromAlert(): a price alert wakes its agent at once if the slot is free and its
\* cooldown is over, also while the agent waits for an answer.
WakeFromAlert(a) ==
    /\ Spend("alert") /\ CanStart(a, "alert")
    /\ Start(a, "alert", ask, chains)
    /\ UNCHANGED <<held, hired, money>>

\* finishSkipped(), or on to execute().
ProbeEnds(j) ==
    /\ job[j].pc = "probe"
    /\ \/ /\ job' = [job EXCEPT ![j] = NoJob]
          /\ running' = running \ {job[j].agent}
          /\ UNCHANGED ask
       \/ /\ job' = [job EXCEPT ![j].pc = "live"]
          /\ ask' = Delivered(ask, job[j].agent)
          /\ UNCHANGED running
    /\ UNCHANGED <<chains, stale, due, held, hired, money, upsets>>

\* Mutant: "leaving the chain behind".
FinallyKeepsChain(j) ==
    /\ job' = [job EXCEPT ![j] = NoJob] /\ running' = running \ {job[j].agent}
    /\ UNCHANGED chains

\* The finally of execute(), which runs whatever became of the run.
Finally(j) ==
    /\ job' = [job EXCEPT ![j] = NoJob]
    /\ running' = running \ {job[j].agent}
    /\ chains' = [chains EXCEPT ![job[j].agent] = {}]

\* A run whose record is gone keeps its session: nothing of it is persisted.
KeepsSession(a) == held' = IF a \in hired THEN held \cup {a} ELSE held

\* The stream of a run ends, by itself, with an error, or stopped by the operator.
RunEnds(j) ==
    /\ job[j].kind = "run" /\ job[j].pc \in {"live", "late"}
    /\ Finally(j)
    /\ KeepsSession(job[j].agent) \/ UNCHANGED held
    /\ UNCHANGED <<stale, due, hired, ask, money, upsets>>

\* RUN_TIMEOUT_MS: the deadline aborts the session and frees the slot; the finally comes
\* with the stream's end, which an SDK deaf to the abort delays.
RunTimesOut(j) ==
    /\ job[j].kind = "run" /\ job[j].pc = "live"
    /\ due' = due \ {job[j].agent}
    /\ \/ Finally(j)
       \/ /\ May("deaf")
          /\ job' = [job EXCEPT ![j].pc = "late"]
          /\ running' = running \ {job[j].agent}
          /\ UNCHANGED chains
    /\ UNCHANGED <<stale, held, hired, ask, money, upsets>>

------------------------------------------------------------------------------
\* The watch tick.

\* Why an agent should wake: an answer is ahead of the cooldown and the breaker, a
\* blocking question holds it back.  fired: an event of the portfolio that it watches.
DueTrigger(B, a, fired) ==
    CASE Undelivered(B, a) # {} -> "answer"
      [] isBlocked(B, a) -> "none"
      [] a \in due -> "interval"
      [] a \in fired -> "event"
      [] OTHER -> "none"

Priority == [answer |-> 100, event |-> 60, interval |-> 40]

\* Mutant: creation order, as the desk once did.
earliestHire(s, a, t, b) == Priority[s] > Priority[t] \/ (s = t /\ a < b)

\* pickRunOrder: by what the wake is for, then by who has waited longest.
pickRunOrder(s, a, t, b) == Priority[s] > Priority[t] \/ (s = t /\ stale[a] < stale[b])

\* Of the agents that this tick may start, the one that gets the slot.
First(trigger) ==
    LET candidates == {a \in hired \ running : trigger[a] # "none"}
    IN  {a \in candidates : \A b \in candidates \ {a} : pickRunOrder(trigger[a], a, trigger[b], b)}

\* standdown(): an idle conversation hands off in the slot, if that is free.
Standdown(a) ==
    /\ May("idle") /\ Cardinality(running) < MAX_CONCURRENT_RUNS /\ Free # {}
    /\ job' = [job EXCEPT ![NextFree] = [kind |-> "handoff", agent |-> a,
                                           trigger |-> "manual", pc |-> "live"]]
    /\ running' = running \cup {a}

\* standdownSweep(): idle conversations that hold little, or have waited long, are released.
Released(gone) == (gone # {} => May("idle")) /\ held' = held \ gone

\* tick(): expires old questions, gives the slot to the first of the due agents, and sweeps,
\* where nobody got the slot perhaps with a handoff.
Tick ==
    /\ \E fired \in SUBSET hired, gone \in SUBSET (held \ running) :
          /\ fired # {} => May("event")
          /\ Released(gone)
          /\ LET B == Expired(ask)
                 trigger == [a \in Agents |-> DueTrigger(B, a, fired)]
                 A == First(trigger)
             IN  IF running = {} /\ A # {}
                 THEN \E a \in A \ gone : CanStart(a, trigger[a]) /\ Start(a, trigger[a], B, chains)
                 ELSE /\ ask' = B /\ UNCHANGED <<chains, stale, due>>
                      /\ \/ \E a \in held \ (running \cup gone) : Standdown(a)
                         \/ UNCHANGED <<job, running>>
    /\ UNCHANGED <<hired, money, upsets>>

\* Time passes: an interval elapses, a question grows old.
Elapses(a) ==
    /\ a \notin due /\ due' = due \cup {a}
    /\ UNCHANGED <<job, running, chains, stale, held, hired, ask, money, upsets>>

GrowsOld(q) ==
    /\ ask[q].st = "open" /\ ask' = Stamped(ask, {q}, "overdue")
    /\ UNCHANGED <<desk, held, hired, money, upsets>>
------------------------------------------------------------------------------
\* Chats and handoffs, which have no deadline.

\* The slot's cap does not bound chat().
Chat(a) ==
    /\ Spend("chat") /\ a \in hired \ running /\ Free # {}
    /\ job' = [job EXCEPT ![NextFree] = [kind |-> "chat", agent |-> a, trigger |-> "manual", pc |-> "live"]]
    /\ running' = running \cup {a}
    /\ UNCHANGED <<chains, stale, due, held, hired, ask, money>>

\* A failed chat forgets the conversation, a handoff releases it whether it failed or not.
TalkEnds(j) ==
    /\ job[j].kind \in {"chat", "handoff"}
    /\ job' = [job EXCEPT ![j] = NoJob]
    /\ running' = running \ {job[j].agent}
    /\ \/ job[j].kind = "chat" /\ KeepsSession(job[j].agent)
       \/ held' = held \ {job[j].agent}
    /\ UNCHANGED <<chains, stale, due, hired, ask, money, upsets>>

------------------------------------------------------------------------------
\* What sessions do.

Alive(j) == job[j].kind # "none" /\ job[j].pc # "probe"

canAnswerInline(b, chain) == b \in hired \ chain /\ Cardinality(chain) < MAX_INLINE_DEPTH

\* dispatchInlineAnswer(): whether b is woken for a question of the agent with this chain.
dispatchInlineAnswer(b, chain) ==
    /\ canAnswerInline(b, chain)
    /\ Cardinality({a \in Agents : chains[a] # {}}) < MAX_CONCURRENT_INLINE
    /\ CanStart(b, "inline-answer")

\* raise() files a question unless the agent has the same one open.
Raised(a, b) ==
    IF \E q \in Asks : Open(q) /\ ask[q].by = a /\ ask[q].of = b THEN ask
    ELSE [ask EXCEPT ![CHOOSE q \in Unused : TRUE] = [by |-> a, of |-> b, st |-> "open"]]

\* POST .../blockers: a fresh question wakes the agent asked, if that is possible.
Raise(j, b) ==
    /\ May("ask") /\ Alive(j) /\ b # job[j].agent /\ Unused # {} /\ Free # {}
    /\ LET a == job[j].agent
           B == Raised(a, b)
           chain == chains[a] \cup {a}
       IN  /\ B # ask
           /\ IF dispatchInlineAnswer(b, chain)
              THEN Start(b, "inline-answer", B, [chains EXCEPT ![b] = chain \cup {b}])
              ELSE ask' = B /\ UNCHANGED desk
    /\ UNCHANGED <<held, hired, money, upsets>>

\* answer() by the agent asked or the operator; withdraw() by the agent that asked.
Answer(q) ==
    /\ Open(q)
    /\ \/ /\ ask[q].of = Human \/ \E j \in Jobs : Alive(j) /\ job[j].agent = ask[q].of
          /\ ask' = Stamped(ask, {q}, "answered")
       \/ /\ \E j \in Jobs : Alive(j) /\ job[j].agent = ask[q].by
          /\ ask' = Without(ask, {q})
    /\ UNCHANGED <<desk, held, hired, money, upsets>>

\* Mutant: only the single trade is bounded.
ProposePerTrade(j, t, usd) ==
    /\ May("trade") /\ Alive(j) /\ job[j].agent \in hired /\ trade[t].st = "none"
    /\ usd <= Budget
    /\ spent' = [spent EXCEPT ![job[j].agent] = @ + usd]
    /\ trade' = [trade EXCEPT ![t] = [agent |-> job[j].agent, usd |-> usd, st |-> "flying"]]
    /\ UNCHANGED <<desk, held, hired, ask, upsets>>

\* propose() of an auto agent: within the budget the spend is reserved before the order
\* is awaited.  Beyond it the trade is staged, which changes nothing here.
Propose(j, t, usd) ==
    /\ May("trade") /\ Alive(j) /\ job[j].agent \in hired /\ trade[t].st = "none"
    /\ spent[job[j].agent] + usd <= Budget
    /\ spent' = [spent EXCEPT ![job[j].agent] = @ + usd]
    /\ trade' = [trade EXCEPT ![t] = [agent |-> job[j].agent, usd |-> usd, st |-> "flying"]]
    /\ UNCHANGED <<desk, held, hired, ask, upsets>>

\* The exchange takes the order, and later executeTrade() returns.
Executes(t) ==
    /\ \/ trade[t].st = "flying" /\ trade' = [trade EXCEPT ![t].st = "placed"]
       \/ trade[t].st = "placed" /\ trade' = [trade EXCEPT ![t].st = "executed"]
    /\ UNCHANGED <<desk, held, hired, ask, spent, upsets>>

\* executeTrade() fails, because the exchange refuses the order or because its answer is
\* lost or cannot be recorded: the reservation is released.
Refused(t) ==
    /\ \/ /\ trade[t].st = "flying" /\ UNCHANGED upsets
          /\ trade' = [trade EXCEPT ![t].st = "refused"]
       \/ /\ trade[t].st = "placed" /\ Spend("lost")
          /\ trade' = [trade EXCEPT ![t].st = "orphaned"]
    /\ spent' = [spent EXCEPT ![trade[t].agent] = @ - trade[t].usd]
    /\ UNCHANGED <<desk, held, hired, ask>>

------------------------------------------------------------------------------
\* The operator clears a conversation; a session that is under way will keep its own.
ClearTranscript(a) ==
    /\ a \in hired \cap held /\ held' = held \ {a}
    /\ UNCHANGED <<desk, hired, ask, money, upsets>>

\* remove(): a session of the agent goes on, its questions are closed.
Fire(a) ==
    /\ Spend("remove") /\ a \in hired
    /\ hired' = hired \ {a} /\ held' = held \ {a}
    /\ ask' = Without(ask, {q \in Asks : Open(q) /\ a \in {ask[q].by, ask[q].of}})
    /\ UNCHANGED <<desk, money>>

\* The process dies and starts again: agents.json and blockers.json survive, reservations
\* included, no session does.
Crash ==
    /\ Spend("crash")
    /\ job' = [j \in Jobs |-> NoJob] /\ running' = {} /\ chains' = [a \in Agents |-> {}]
    /\ trade' = [t \in Trades |-> [trade[t] EXCEPT !.st =
                    CASE @ = "flying" -> "unknown" [] @ = "placed" -> "executed" [] OTHER -> @]]
    /\ UNCHANGED <<stale, due, held, hired, ask, spent>>

SessionEnds(j) == ProbeEnds(j) \/ RunEnds(j) \/ RunTimesOut(j) \/ TalkEnds(j)

Next ==
    \/ Tick \/ Crash
    \/ \E a \in Agents : StartManual(a) \/ WakeFromAlert(a) \/ Chat(a) \/ Fire(a)
                          \/ ClearTranscript(a) \/ Elapses(a)
    \/ \E j \in Jobs :
          \/ SessionEnds(j)
          \/ \E b \in Agents \cup {Human} : Raise(j, b)
          \/ \E usd \in Amounts, t \in Trades : Propose(j, t, usd)
    \/ \E q \in Asks : Answer(q) \/ GrowsOld(q)
    \/ \E t \in Trades : Executes(t) \/ Refused(t)

Spec == Init /\ [][Next]_vars

\* The interval timer ticks and time passes.  A run ends, if only by its deadline; that a
\* chat and a handoff end is the SDK's doing, no deadline of the code's.
FairSpec ==
    /\ Spec /\ WF_vars(Tick)
    /\ \A j \in Jobs : WF_vars(SessionEnds(j))
    /\ \A a \in Agents : WF_vars(Elapses(a))
    /\ \A q \in Asks : WF_vars(GrowsOld(q))

------------------------------------------------------------------------------
\* Types of the variables.
TypeOK ==
    /\ job \in [Jobs -> JobRec \cup {NoJob}] /\ running \subseteq Agents
    /\ chains \in [Agents -> SUBSET Agents]
    /\ stale \in [Agents -> Agents]
    /\ due \subseteq Agents /\ held \subseteq Agents /\ hired \subseteq Agents
    /\ ask \in [Asks -> AskRec] /\ spent \in [Agents -> Int] /\ trade \in [Trades -> TradeRec]
    /\ upsets \subseteq UpsetKind \cup Uses

\* The set of running agents is kept by eight places that add and remove an id.  No slot
\* and no cascade outlives its session; and while every SDK heeds its abort, the set names
\* exactly the agents in session, and no agent has two.
SlotsHonest ==
    LET busy == {j \in Jobs : job[j] # NoJob}
    IN  /\ running \subseteq {job[j].agent : j \in busy}
        /\ \A a \in Agents : chains[a] # {} =>
              \E j \in busy : job[j].agent = a /\ job[j].trigger = "inline-answer"
        /\ ~May("deaf") =>
              /\ running = {job[j].agent : j \in busy}
              /\ \A i, j \in busy : i # j => job[i].agent # job[j].agent

\* The sum of an amount of each trade.
Total(usd) == LET sum[n \in 0..MaxTrades] == IF n = 0 THEN 0 ELSE sum[n - 1] + usd[n]
              IN  sum[MaxTrades]

\* What the trades of an agent in the given states amount to.
Amount(a, states) ==
    [t \in Trades |-> IF trade[t].agent = a /\ trade[t].st \in states THEN trade[t].usd ELSE 0]

\* What stands or may come to stand at the exchange is within the budget, orders that were
\* reported as failed aside, however the proposals of a run and a chat, refusals and
\* restarts interleave.
BudgetHolds ==
    \A a \in Agents : Total(Amount(a, {"flying", "placed", "executed", "unknown"})) <= Budget

\* Liveness: an agent whose question was answered is woken, or gets the answer in the run it
\* is in, before the answers of others hold the slot for ever (agentScheduling.ts 45).
AnswersArrive ==
    \A a \in Agents : []<>(Undelivered(ask, a) = {} \/ a \notin hired)

\* Liveness: every employee is woken again and again, whoever asks, waits, times out or
\* chats meanwhile, unless answers and events go on waking others, which are ahead of it.
Works(a) == \E j \in Jobs : job[j].agent = a /\ job[j].kind = "run"
Ahead(a) == \E j \in Jobs : job[j].agent # a /\ job[j].trigger \in {"answer", "event"}
NobodyStarves == \A a \in Agents : []<>(Works(a) \/ a \notin hired \/ Ahead(a))

\* "MAX_CONCURRENT_RUNS exists precisely so there is never more than one of those at a
\* time. One inline answer is the exception": at most one other run has state 'running'.
OneRun ==
    Cardinality({j \in Jobs : /\ job[j].kind = "run" /\ job[j].pc # "late"
                              /\ job[j].trigger # "inline-answer"}) <= MAX_CONCURRENT_RUNS
=============================================================================
