---------------------------- MODULE StrategySchedule ----------------------------
(***************************************************************************)
(* Strategy runs and what starts them: server/strategyRunner.ts, the live  *)
(* sessions of server/claudeProcesses.ts, and the schedule of CryptoHub    *)
(* (server/crypto.ts): the operator's RUN, one interval timer for the      *)
(* enabled strategy or one per strategy, a queue for the fires that meet   *)
(* a run in flight, and loop mode, which runs after a position closed.     *)
(*                                                                         *)
(* The runner drives one session at a time.  Routines run the same skills  *)
(* in processes of their own and only announce themselves by heartbeats,   *)
(* as the skill of an in-app session does too.  Time is abstracted: a      *)
(* timer fires, a heartbeat lapses or a deadline passes at any moment.     *)
(***************************************************************************)
EXTENDS Naturals, Sequences, SequencesExt

CONSTANTS
    Strategies,   \* STRATEGIES
    Default,      \* DEFAULT_ENABLED_STRATEGY
    Routines,     \* the headless routines there may be
    MaxSessions,  \* bound: sessions alive at once
    MaxCalls      \* bound: calls, fires, closes and restarts

ASSUME ScheduleConstants ==
    Default \in Strategies /\ MaxSessions \in Nat \ {0} /\ MaxCalls \in Nat

Sessions == 1..MaxSessions

\* A session of the SDK: streaming, or aborted (by its deadline or the operator) with the
\* stream still open.
SessionRec == [strategy : Strategies, pc : {"live", "aborted"}]
NoSession == [strategy |-> Default, pc |-> "none"]

VARIABLES
    session,   \* run() coroutines with their sessions
    running,   \* StrategyRunner.state = 'running'
    external,  \* StrategyRunner.external: none, with a fresh beat, or with one past its TTL
    recent,    \* lastRunAt within LOOP_MIN_GAP_MS
    routine,   \* the routines at work
    queue,     \* CryptoHub.scheduledQueue
    setting,   \* enabled-strategy, strategy-interval, strategy-intervals, loop-mode .json
    timer,     \* intervalTimer, perStrategyTimers, loopTimer
    held,      \* whether a bracket holds coins, and whether the last refresh saw it
    calls      \* bound

vars == <<session, running, external, recent, routine, queue, setting, timer, held, calls>>
runner == <<session, running, external, recent>>
hub == <<queue, setting, timer, held>>

Init ==
    /\ session = [k \in Sessions |-> NoSession] /\ running = FALSE
    /\ external = "none" /\ recent = FALSE /\ routine = {}
    /\ queue = <<>>
    /\ setting = [enabled |-> Default, interval |-> FALSE, intervals |-> {}, loop |-> FALSE]
    /\ timer = [interval |-> FALSE, strategies |-> {}, loop |-> FALSE]
    /\ held = [now |-> FALSE, seen |-> FALSE]
    /\ calls = 0

Call == calls < MaxCalls /\ calls' = calls + 1

------------------------------------------------------------------------------
\* The runner.

externalRunning == external = "fresh"
isRunning == running \/ externalRunning

Live(s) == \E k \in Sessions : session[k].pc # "none" /\ session[k].strategy = s

\* start() when nothing runs: run() up to its first await.
Start(s) ==
    /\ ~isRunning
    /\ \E k \in Sessions :
          /\ session[k] = NoSession
          /\ session' = [session EXCEPT ![k] = [strategy |-> s, pc |-> "live"]]
    /\ running' = TRUE /\ recent' = TRUE
    /\ UNCHANGED <<external, routine>>

\* POST /strategy/run, refused with a 409 while something runs.
Run(s) == Call /\ Start(s) /\ UNCHANGED hub

\* The stream ends, with a result, an error or after an abort: try, catch and finally.
RunEnds(k) ==
    /\ session[k].pc # "none"
    /\ session' = [session EXCEPT ![k] = NoSession] /\ running' = FALSE
    /\ UNCHANGED <<external, recent, routine, hub, calls>>

\* Mutant: the deadline frees the state, as the agents' fleet does.
TimesOutFrees(k) ==
    /\ session[k].pc = "live" /\ running
    /\ session' = [session EXCEPT ![k].pc = "aborted"]
    /\ running' = FALSE
    /\ UNCHANGED <<external, recent, routine, hub, calls>>

\* Mutant: "a strategy run had neither a turn limit nor a deadline".
NoDeadline(k) == FALSE /\ UNCHANGED vars

\* RUN_TIMEOUT_MS: the deadline aborts the session and leaves the state to the stream's end.
TimesOut(k) ==
    /\ session[k].pc = "live" /\ running
    /\ session' = [session EXCEPT ![k].pc = "aborted"]
    /\ UNCHANGED <<running, external, recent, routine, hub, calls>>

\* claudeProcesses.stop(), the operator's STOP.
StopSession(k) ==
    /\ Call /\ session[k].pc = "live"
    /\ session' = [session EXCEPT ![k].pc = "aborted"]
    /\ UNCHANGED <<running, external, recent, routine, hub>>

\* externalHeartbeat(): "begin" starts an entry, "beat" keeps or starts one, "end" clears it.
Heartbeat(phase) ==
    /\ external' = IF phase = "end" THEN "none" ELSE "fresh"
    /\ recent' = (recent \/ phase = "begin")
    /\ UNCHANGED <<session, running>>

\* A routine's life: its first script begins, others beat, the last one ends; or it dies.
RoutineBegins(r) ==
    /\ Call /\ r \notin routine /\ routine' = routine \cup {r}
    /\ Heartbeat("begin") /\ UNCHANGED hub

RoutineBeats(r) ==
    /\ Call /\ r \in routine
    /\ Heartbeat("beat") /\ UNCHANGED <<routine, hub>>

RoutineEnds(r) ==
    /\ r \in routine /\ routine' = routine \ {r}
    /\ Heartbeat("end") \/ UNCHANGED runner
    /\ UNCHANGED <<hub, calls>>

\* The skill of an in-app session runs the same scripts.
SessionPings(k) ==
    /\ Call /\ session[k].pc = "live"
    /\ \E phase \in {"begin", "end"} : Heartbeat(phase)
    /\ UNCHANGED <<routine, hub>>

\* EXTERNAL_RUN_TTL_MS and LOOP_MIN_GAP_MS pass.
Lapses ==
    /\ external = "fresh" /\ external' = "lapsed"
    /\ UNCHANGED <<session, running, recent, routine, hub, calls>>

GapPasses ==
    /\ recent /\ recent' = FALSE
    /\ UNCHANGED <<session, running, external, routine, hub, calls>>
------------------------------------------------------------------------------
\* The schedule.

\* armIntervalTimer() and armPerStrategyTimers(): what is armed under settings S.
armIntervalTimer(S) == S.interval /\ S.intervals = {}
armPerStrategyTimers(S) == S.intervals

\* setStrategyInterval(), on or off.
SetStrategyInterval ==
    /\ Call
    /\ \E on \in BOOLEAN :
          LET S == [setting EXCEPT !.interval = on]
          IN  setting' = S /\ timer' = [timer EXCEPT !.interval = armIntervalTimer(S)]
    /\ UNCHANGED <<runner, routine, queue, held>>

\* Mutant: only the strategy's own timers are armed anew.
IntervalsForOnly(s) ==
    /\ Call
    /\ \E on \in BOOLEAN :
          LET S == [setting EXCEPT !.intervals = IF on THEN @ \cup {s} ELSE @ \ {s}]
          IN  /\ setting' = S
              /\ timer' = [timer EXCEPT !.strategies = armPerStrategyTimers(S)]
    /\ UNCHANGED <<runner, routine, queue, held>>

\* setStrategyIntervalFor(): both kinds are armed anew.
SetStrategyIntervalFor(s) ==
    /\ Call
    /\ \E on \in BOOLEAN :
          LET S == [setting EXCEPT !.intervals = IF on THEN @ \cup {s} ELSE @ \ {s}]
          IN  /\ setting' = S
              /\ timer' = [timer EXCEPT !.strategies = armPerStrategyTimers(S),
                                        !.interval = armIntervalTimer(S)]
    /\ UNCHANGED <<runner, routine, queue, held>>

SetEnabledStrategy(s) ==
    /\ Call /\ setting' = [setting EXCEPT !.enabled = s]
    /\ UNCHANGED <<runner, routine, queue, timer, held>>

\* setLoopMode(): turning it off cancels a run that is about to start.
SetLoopMode(on) ==
    /\ Call
    /\ setting' = [setting EXCEPT !.loop = on]
    /\ timer' = [timer EXCEPT !.loop = @ /\ on]
    /\ UNCHANGED <<runner, routine, queue, held>>

\* Started at once, or queued unless it is queued already.
enqueueOrRun(s) ==
    IF isRunning
    THEN /\ queue' = IF Contains(queue, s) THEN queue ELSE Append(queue, s)
         /\ UNCHANGED <<runner, routine>>
    ELSE Start(s) /\ UNCHANGED queue

\* An interval timer fires.
IntervalFires ==
    /\ Call /\ timer.interval /\ enqueueOrRun(setting.enabled)
    /\ UNCHANGED <<setting, timer, held>>

StrategyFires(s) ==
    /\ Call /\ s \in timer.strategies /\ enqueueOrRun(s)
    /\ UNCHANGED <<setting, timer, held>>

\* drainScheduledQueue(), polled every five seconds.
DrainScheduledQueue ==
    /\ queue # <<>> /\ queue' = Tail(queue)
    /\ Start(Head(queue))
    /\ UNCHANGED <<setting, timer, held, calls>>

\* A bracket comes to hold coins, or closes; detectPositionClose() is every refresh's.
PositionMoves ==
    /\ Call /\ held' = [held EXCEPT !.now = ~@]
    /\ UNCHANGED <<runner, routine, queue, setting, timer>>

DetectPositionClose ==
    /\ held.now # held.seen /\ held' = [held EXCEPT !.seen = held.now]
    /\ timer' = [timer EXCEPT !.loop = @ \/ (~held.now /\ setting.loop)]
    /\ UNCHANGED <<runner, routine, queue, setting, calls>>

\* LOOP_FIRE_DELAY_MS later: a run, unless one is in flight or was within the last ten minutes.
LoopFires ==
    /\ timer.loop /\ timer' = [timer EXCEPT !.loop = FALSE]
    /\ IF isRunning \/ recent THEN UNCHANGED <<runner, routine>> ELSE Start(setting.enabled)
    /\ UNCHANGED <<queue, setting, held, calls>>

\* The process dies with its sessions and its queue, and starts again from the settings;
\* routines live on.
Restart ==
    /\ Call
    /\ session' = [k \in Sessions |-> NoSession] /\ running' = FALSE
    /\ external' = "none" /\ recent' = FALSE
    /\ queue' = <<>> /\ held' = [held EXCEPT !.seen = FALSE]
    /\ timer' = [interval |-> armIntervalTimer(setting), loop |-> FALSE,
                 strategies |-> armPerStrategyTimers(setting)]
    /\ UNCHANGED <<routine, setting>>

Next ==
    \/ SetStrategyInterval \/ IntervalFires \/ DrainScheduledQueue
    \/ PositionMoves \/ DetectPositionClose \/ LoopFires \/ Lapses \/ GapPasses \/ Restart
    \/ \E on \in BOOLEAN : SetLoopMode(on)
    \/ \E s \in Strategies : Run(s) \/ SetStrategyIntervalFor(s) \/ SetEnabledStrategy(s) \/ StrategyFires(s)
    \/ \E k \in Sessions : RunEnds(k) \/ TimesOut(k) \/ StopSession(k) \/ SessionPings(k)
    \/ \E r \in Routines : RoutineBegins(r) \/ RoutineBeats(r) \/ RoutineEnds(r)

Spec == Init /\ [][Next]_vars

\* Timers fire, the queue is polled, time passes, and a session unwinds once it is aborted.
\* Nothing is assumed of a session that is not: only its deadline ends it.
FairSpec ==
    /\ Spec /\ WF_vars(DrainScheduledQueue) /\ WF_vars(Lapses)
    /\ \A k \in Sessions :
          WF_vars(TimesOut(k)) /\ WF_vars(session[k].pc = "aborted" /\ RunEnds(k))

------------------------------------------------------------------------------
\* Types of the variables.
TypeOK ==
    /\ session \in [Sessions -> SessionRec \cup {NoSession}] /\ running \in BOOLEAN
    /\ external \in {"none", "fresh", "lapsed"} /\ recent \in BOOLEAN
    /\ routine \subseteq Routines /\ queue \in Seq(Strategies)
    /\ setting \in [enabled : Strategies, interval : BOOLEAN, intervals : SUBSET Strategies, loop : BOOLEAN]
    /\ timer \in [interval : BOOLEAN, strategies : SUBSET Strategies, loop : BOOLEAN]
    /\ held \in [now : BOOLEAN, seen : BOOLEAN] /\ calls \in 0..MaxCalls

\* "One run at a time": the state that start() trusts is that of the sessions, through
\* deadlines, stops, heartbeats and late endings, and there is never a second session.
OneSession ==
    /\ running <=> \E k \in Sessions : session[k].pc # "none"
    /\ \A j, k \in Sessions : session[j].pc # "none" /\ session[k].pc # "none" => j = k

\* What is armed is what the settings ask for: a strategy is on one schedule, never on both
\* ("rather than double-firing the same strategy") and not on none; loop mode that was
\* turned off starts nothing.
TimersMatch ==
    /\ timer.strategies = setting.intervals
    /\ timer.interval <=> (setting.interval /\ setting.intervals = {})
    /\ timer.loop => setting.loop

\* Liveness: what is queued is started (or the process with its queue ends), however the
\* session in flight hangs and whichever routine died without its "end".
QueueMoves == \A s \in Strategies : Contains(queue, s) ~> ~Contains(queue, s)
=============================================================================
