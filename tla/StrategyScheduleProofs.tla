------------------------- MODULE StrategyScheduleProofs -------------------------
(***************************************************************************)
(* Proofs about StrategySchedule for any strategies, routines, numbers of  *)
(* sessions and of calls: its types, that the runner never drives two      *)
(* sessions, and that the armed timers are those of the settings.          *)
(***************************************************************************)
EXTENDS StrategySchedule, TLAPS

IInv == TypeOK /\ OneSession /\ TimersMatch

------------------------------------------------------------------------------
\* What start() does, for the actions that end in it.
LEMMA StartKeeps ==
    ASSUME IInv, NEW s \in Strategies, Start(s)
    PROVE  /\ session' \in [Sessions -> SessionRec \cup {NoSession}] /\ running' \in BOOLEAN
           /\ recent' \in BOOLEAN /\ external' = external /\ routine' = routine
           /\ OneSession'
<1>1. PICK k \in Sessions : session' = [session EXCEPT ![k] = [strategy |-> s, pc |-> "live"]]
  BY DEF Start
<1>2. ~running /\ running' /\ \A j \in Sessions : session[j].pc = "none"
  BY DEF Start, IInv, OneSession, isRunning
<1>3. session \in [Sessions -> SessionRec \cup {NoSession}]
  BY DEF IInv, TypeOK
<1>4. [strategy |-> s, pc |-> "live"] \in SessionRec
  BY DEF SessionRec
<1>5. session' \in [Sessions -> SessionRec \cup {NoSession}]
  BY <1>1, <1>3, <1>4
<1>6. session'[k].pc = "live" /\ \A j \in Sessions \ {k} : session'[j].pc = "none"
  BY <1>1, <1>2, <1>3
<1>7. OneSession'
  BY <1>2, <1>6 DEF OneSession
<1>. QED
  BY <1>5, <1>7 DEF Start

\* A session that is aborted or ends leaves at most one.
LEMMA AbortKeeps ==
    ASSUME IInv, NEW k \in Sessions, session[k].pc = "live",
           session' = [session EXCEPT ![k].pc = "aborted"], running' = running
    PROVE  session' \in [Sessions -> SessionRec \cup {NoSession}] /\ OneSession'
<1>1. session \in [Sessions -> SessionRec \cup {NoSession}]
  BY DEF IInv, TypeOK
<1>2. session[k] \in SessionRec
  BY <1>1 DEF NoSession
<1>3. [session[k] EXCEPT !.pc = "aborted"] \in SessionRec
  BY <1>2 DEF SessionRec
<1>4. session' \in [Sessions -> SessionRec \cup {NoSession}]
  BY <1>1, <1>3
<1>5. \A j \in Sessions : session'[j].pc = "none" <=> session[j].pc = "none"
  BY <1>1, <1>2 DEF SessionRec
<1>. QED
  BY <1>4, <1>5 DEF IInv, OneSession

LEMMA EndKeeps ==
    ASSUME IInv, NEW k \in Sessions, RunEnds(k)
    PROVE  session' \in [Sessions -> SessionRec \cup {NoSession}] /\ OneSession'
<1>1. session \in [Sessions -> SessionRec \cup {NoSession}]
  BY DEF IInv, TypeOK
<1>2. session' = [session EXCEPT ![k] = NoSession] /\ ~running' /\ session[k].pc # "none"
  BY DEF RunEnds
<1>3. session' \in [Sessions -> SessionRec \cup {NoSession}]
  BY <1>1, <1>2
<1>4. \A j \in Sessions : j # k => session[j].pc = "none"
  BY <1>2 DEF IInv, OneSession
<1>5. \A j \in Sessions : session'[j].pc = "none"
  BY <1>1, <1>2, <1>4 DEF NoSession
<1>. QED
  BY <1>2, <1>3, <1>5 DEF OneSession

\* A queue stays one when a strategy joins it or its head leaves.
LEMMA QueueKeeps ==
    ASSUME NEW q \in Seq(Strategies)
    PROVE  /\ \A s \in Strategies : Append(q, s) \in Seq(Strategies)
           /\ q # <<>> => Tail(q) \in Seq(Strategies) /\ Head(q) \in Strategies
OBVIOUS

\* A fire: the timers and settings stay, the rest is as after start() or as before.
LEMMA FireKeeps ==
    ASSUME IInv, NEW s \in Strategies, enqueueOrRun(s), UNCHANGED <<setting, timer, held>>,
           calls' \in 0..MaxCalls
    PROVE  IInv'
<1>1. CASE isRunning
  <2>1. queue' \in Seq(Strategies)
    BY <1>1, QueueKeeps DEF enqueueOrRun, IInv, TypeOK
  <2>. QED
    BY <1>1, <2>1 DEF enqueueOrRun, IInv, TypeOK, OneSession, TimersMatch, runner
<1>2. CASE ~isRunning
  <2>1. Start(s) /\ queue' = queue
    BY <1>2 DEF enqueueOrRun
  <2>. QED
    BY <2>1, StartKeeps DEF IInv, TypeOK, TimersMatch
<1>. QED
  BY <1>1, <1>2

------------------------------------------------------------------------------
LEMMA Initially == Init => IInv
<1>. SUFFICES ASSUME Init PROVE IInv
  OBVIOUS
<1>1. TypeOK
  <2>1. session \in [Sessions -> SessionRec \cup {NoSession}]
    BY DEF Init
  <2>2. /\ setting \in [enabled : Strategies, interval : BOOLEAN, intervals : SUBSET Strategies, loop : BOOLEAN]
        /\ timer \in [interval : BOOLEAN, strategies : SUBSET Strategies, loop : BOOLEAN]
        /\ held \in [now : BOOLEAN, seen : BOOLEAN]
    BY ScheduleConstants DEF Init
  <2>3. queue \in Seq(Strategies) /\ calls \in 0..MaxCalls /\ routine \subseteq Routines
    BY ScheduleConstants DEF Init
  <2>. QED
    BY <2>1, <2>2, <2>3 DEF Init, TypeOK
<1>2. OneSession
  BY DEF Init, OneSession, NoSession
<1>3. TimersMatch
  BY DEF Init, TimersMatch
<1>. QED
  BY <1>1, <1>2, <1>3 DEF IInv

LEMMA Inductive == IInv /\ [Next]_vars => IInv'
<1>. SUFFICES ASSUME IInv, [Next]_vars PROVE IInv'
  OBVIOUS
<1>. USE ScheduleConstants
<1>1. Call => calls' \in 0..MaxCalls
  BY DEF Call, IInv, TypeOK
<1>2. ASSUME NEW s \in Strategies, Run(s) PROVE IInv'
  BY <1>1, <1>2, StartKeeps DEF Run, hub, IInv, TypeOK, TimersMatch
<1>3. ASSUME NEW k \in Sessions, RunEnds(k) PROVE IInv'
  BY <1>3, EndKeeps DEF RunEnds, hub, IInv, TypeOK, TimersMatch
<1>4. ASSUME NEW k \in Sessions, TimesOut(k) PROVE IInv'
  BY <1>4, AbortKeeps DEF TimesOut, hub, IInv, TypeOK, TimersMatch
<1>5. ASSUME NEW k \in Sessions, StopSession(k) PROVE IInv'
  BY <1>1, <1>5, AbortKeeps DEF StopSession, hub, IInv, TypeOK, TimersMatch
<1>6. ASSUME NEW r \in Routines, RoutineBegins(r) \/ RoutineBeats(r) \/ RoutineEnds(r) PROVE IInv'
  <2>1. session' = session /\ running' = running /\ UNCHANGED hub /\ calls' \in 0..MaxCalls
    BY <1>1, <1>6 DEF RoutineBegins, RoutineBeats, RoutineEnds, Heartbeat, runner, IInv, TypeOK
  <2>2. external' \in {"none", "fresh", "lapsed"} /\ recent' \in BOOLEAN
    BY <1>6 DEF RoutineBegins, RoutineBeats, RoutineEnds, Heartbeat, runner, IInv, TypeOK
  <2>3. routine' \subseteq Routines
    BY <1>6 DEF RoutineBegins, RoutineBeats, RoutineEnds, IInv, TypeOK
  <2>4. OneSession' /\ TimersMatch'
    BY <2>1 DEF hub, IInv, OneSession, TimersMatch
  <2>. QED
    BY <2>1, <2>2, <2>3, <2>4 DEF hub, IInv, TypeOK
<1>7. ASSUME NEW k \in Sessions, SessionPings(k) PROVE IInv'
  BY <1>1, <1>7 DEF SessionPings, Heartbeat, hub, IInv, TypeOK, OneSession, TimersMatch
<1>8. ASSUME Lapses \/ GapPasses PROVE IInv'
  <2>1. CASE Lapses
    BY <2>1 DEF Lapses, hub, IInv, TypeOK, OneSession, TimersMatch
  <2>2. CASE GapPasses
    BY <2>2 DEF GapPasses, hub, IInv, TypeOK, OneSession, TimersMatch
  <2>. QED
    BY <1>8, <2>1, <2>2
<1>9. ASSUME SetStrategyInterval PROVE IInv'
  BY <1>1, <1>9 DEF SetStrategyInterval, armIntervalTimer, runner, IInv, TypeOK, OneSession, TimersMatch
<1>10. ASSUME NEW s \in Strategies, SetStrategyIntervalFor(s) PROVE IInv'
  <2>1. PICK on \in BOOLEAN :
          LET S == [setting EXCEPT !.intervals = IF on THEN @ \cup {s} ELSE @ \ {s}]
          IN  /\ setting' = S
              /\ timer' = [timer EXCEPT !.strategies = armPerStrategyTimers(S),
                                        !.interval = armIntervalTimer(S)]
    BY <1>10 DEF SetStrategyIntervalFor
  <2>2. setting' = [setting EXCEPT !.intervals = IF on THEN @ \cup {s} ELSE @ \ {s}]
        /\ timer' = [timer EXCEPT !.strategies = setting'.intervals,
                                  !.interval = setting'.interval /\ setting'.intervals = {}]
    BY <2>1 DEF armPerStrategyTimers, armIntervalTimer
  <2>3. (IF on THEN setting.intervals \cup {s} ELSE setting.intervals \ {s}) \subseteq Strategies
    BY DEF IInv, TypeOK
  <2>4. setting' \in [enabled : Strategies, interval : BOOLEAN, intervals : SUBSET Strategies, loop : BOOLEAN]
    BY <2>2, <2>3 DEF IInv, TypeOK
  <2>5. timer' \in [interval : BOOLEAN, strategies : SUBSET Strategies, loop : BOOLEAN]
    BY <2>2, <2>4 DEF IInv, TypeOK
  <2>6. TimersMatch'
    BY <2>2, <2>4 DEF IInv, TypeOK, TimersMatch
  <2>7. UNCHANGED <<session, running, external, recent, routine, queue, held>> /\ calls' \in 0..MaxCalls
    BY <1>1, <1>10 DEF SetStrategyIntervalFor, runner
  <2>. QED
    BY <2>4, <2>5, <2>6, <2>7 DEF IInv, TypeOK, OneSession
<1>11. ASSUME NEW s \in Strategies, SetEnabledStrategy(s) PROVE IInv'
  BY <1>1, <1>11 DEF SetEnabledStrategy, runner, IInv, TypeOK, OneSession, TimersMatch
<1>12. ASSUME NEW on \in BOOLEAN, SetLoopMode(on) PROVE IInv'
  BY <1>1, <1>12 DEF SetLoopMode, runner, IInv, TypeOK, OneSession, TimersMatch
<1>13. ASSUME IntervalFires PROVE IInv'
  <2>1. setting.enabled \in Strategies
    BY DEF IInv, TypeOK
  <2>. QED
    BY <1>1, <1>13, <2>1, FireKeeps DEF IntervalFires
<1>14. ASSUME NEW s \in Strategies, StrategyFires(s) PROVE IInv'
  BY <1>1, <1>14, FireKeeps DEF StrategyFires
<1>15. ASSUME DrainScheduledQueue PROVE IInv'
  <2>1. Head(queue) \in Strategies /\ queue' \in Seq(Strategies)
    BY <1>15, QueueKeeps DEF DrainScheduledQueue, IInv, TypeOK
  <2>. QED
    BY <1>15, <2>1, StartKeeps DEF DrainScheduledQueue, IInv, TypeOK, TimersMatch
<1>16. ASSUME PositionMoves \/ DetectPositionClose PROVE IInv'
  <2>1. CASE PositionMoves
    BY <1>1, <2>1 DEF PositionMoves, runner, IInv, TypeOK, OneSession, TimersMatch
  <2>2. CASE DetectPositionClose
    <3>1. held' \in [now : BOOLEAN, seen : BOOLEAN] /\ timer' \in [interval : BOOLEAN, strategies : SUBSET Strategies, loop : BOOLEAN]
      BY <2>2 DEF DetectPositionClose, IInv, TypeOK
    <3>2. TimersMatch'
      BY <2>2 DEF DetectPositionClose, IInv, TypeOK, TimersMatch
    <3>. QED
      BY <2>2, <3>1, <3>2 DEF DetectPositionClose, runner, IInv, TypeOK, OneSession
  <2>. QED
    BY <1>16, <2>1, <2>2
<1>17. ASSUME LoopFires PROVE IInv'
  <2>1. setting.enabled \in Strategies /\ TimersMatch'
    BY <1>17 DEF LoopFires, IInv, TypeOK, TimersMatch
  <2>2. timer' \in [interval : BOOLEAN, strategies : SUBSET Strategies, loop : BOOLEAN]
        /\ UNCHANGED <<queue, setting, held, calls>>
    BY <1>17 DEF LoopFires, IInv, TypeOK
  <2>3. CASE isRunning \/ recent
    <3>1. UNCHANGED <<session, running, external, recent, routine>>
      BY <1>17, <2>3 DEF LoopFires, runner
    <3>. QED
      BY <2>1, <2>2, <3>1 DEF IInv, TypeOK, OneSession
  <2>4. CASE ~(isRunning \/ recent)
    <3>1. Start(setting.enabled)
      BY <1>17, <2>4 DEF LoopFires
    <3>. QED
      BY <2>1, <2>2, <3>1, StartKeeps DEF IInv, TypeOK
  <2>. QED
    BY <2>3, <2>4
<1>18. ASSUME Restart PROVE IInv'
  <2>1. OneSession'
    BY <1>18 DEF Restart, OneSession, NoSession
  <2>2. TimersMatch'
    BY <1>18 DEF Restart, TimersMatch, armIntervalTimer, armPerStrategyTimers
  <2>3. session' \in [Sessions -> SessionRec \cup {NoSession}]
    BY <1>18 DEF Restart
  <2>4. timer' \in [interval : BOOLEAN, strategies : SUBSET Strategies, loop : BOOLEAN]
        /\ held' \in [now : BOOLEAN, seen : BOOLEAN]
    BY <1>18 DEF Restart, IInv, TypeOK, armIntervalTimer, armPerStrategyTimers
  <2>5. queue' \in Seq(Strategies)
    BY <1>18 DEF Restart
  <2>6. TypeOK'
    BY <1>1, <1>18, <2>3, <2>4, <2>5 DEF Restart, IInv, TypeOK
  <2>. QED
    BY <2>1, <2>2, <2>6 DEF IInv
<1>19. CASE UNCHANGED vars
  BY <1>19 DEF vars, IInv, TypeOK, OneSession, TimersMatch
<1>. QED
  BY <1>2, <1>3, <1>4, <1>5, <1>6, <1>7, <1>8, <1>9, <1>10, <1>11, <1>12, <1>13, <1>14,
     <1>15, <1>16, <1>17, <1>18, <1>19 DEF Next

LEMMA Always == Spec => []IInv
  BY Initially, Inductive, PTL DEF Spec

\* The types of the schedule's state, whatever is called and whatever fires.
THEOREM TypeCorrect == Spec => []TypeOK
<1>1. IInv => TypeOK
  BY DEF IInv
<1>. QED
  BY <1>1, Always, PTL

\* start() trusts the runner's state, and it is that of the one session there may be
\* (strategyRunner.ts 194).
THEOREM NeverTwoSessions == Spec => []OneSession
<1>1. IInv => OneSession
  BY DEF IInv
<1>. QED
  BY <1>1, Always, PTL

\* No strategy is on two schedules or on none (crypto.ts 7234, 7271), and loop mode that is
\* off has no run pending.
THEOREM TimersAreTheSettings == Spec => []TimersMatch
<1>1. IInv => TimersMatch
  BY DEF IInv
<1>. QED
  BY <1>1, Always, PTL
=============================================================================
