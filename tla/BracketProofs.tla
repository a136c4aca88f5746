---------------------------- MODULE BracketProofs ----------------------------
\* Proofs about Bracket for every size of it, by the invariants of BracketInvariants.
EXTENDS BracketInvariants, FiniteSetTheorems, WellFoundedInduction, TLAPS

LEMMA Rec ==
  /\ NoBracket \in Brackets /\ Idle \in Jobs
  /\ 0 \in Ids /\ Orders \subseteq Ids /\ NoOrder \in OrderRec /\ 0 \in Int
  /\ MaxOrders \in Nat /\ Tp1Level \in Int /\ TopLevel \in Int /\ Buy \in Int /\ Wallet \in Int
<1>1. MaxOrders \in Nat /\ Tp1Level \in Int /\ TopLevel \in Int /\ Buy \in Int /\ Wallet \in Int
  BY ConstantsAssumption
<1>2. 0 \in Ids /\ Orders \subseteq Ids BY <1>1 DEF Ids, Orders
<1>3. NoBracket \in Brackets BY <1>2 DEF NoBracket, Brackets, Phase
<1>4. Idle \in Jobs BY <1>2 DEF Idle, Jobs, Pc, Why
<1>5. NoOrder \in OrderRec BY DEF NoOrder, OrderRec
<1>. QED BY <1>1, <1>2, <1>3, <1>4, <1>5

\* The bracket a coroutine starts with, once its entry is named.
LEMMA Called ==
  ASSUME NEW S \in Starts, NEW T, T = [S EXCEPT !.client = TRUE]
  PROVE  /\ T \in Brackets /\ (S \in Brackets \/ FirstAwait(S) = "enter")
         /\ T.phase = S.phase /\ T.entryId = S.entryId /\ T.stopId = S.stopId /\ T.tp1Id = S.tp1Id
         /\ T.stopPrice = S.stopPrice /\ T.filled = S.filled /\ T.position = S.position
<1>1. CASE S \in Brackets BY <1>1 DEF Brackets
<1>2. CASE S = NewBracket
  <2>1. T \in Brackets BY <1>2, Rec DEF NewBracket, NoBracket, Brackets, Phase
  <2>. QED BY <1>2, <2>1 DEF NewBracket, NoBracket, FirstAwait
<1>. QED BY <1>1, <1>2 DEF Starts

LEMMA Starters == Brackets \subseteq Starts /\ NewBracket \in Starts
  BY DEF Starts

LEMMA EndsTyped == ASSUME NEW c, Ends(c) PROVE c \in Jobs /\ c.why = "" /\ c.pc \in {"asleep", "idle"}
<1>1. [Idle EXCEPT !.pc = "asleep"] \in Jobs BY Rec DEF Jobs, Pc
<1>. QED
  <2>1. CASE c = [Idle EXCEPT !.pc = "asleep"] BY <1>1, <2>1 DEF Idle
  <2>2. CASE c = Idle BY <2>2, Rec DEF Idle
  <2>. QED BY <2>1, <2>2 DEF Ends

LEMMA JobOf ==
  ASSUME NEW pc \in Pc, NEW why \in Why, NEW last \in Int, NEW amt \in Int, NEW lvl \in Int, NEW id \in Ids,
         NEW ids \in SUBSET Orders
  PROVE  /\ [Idle EXCEPT !.pc = pc, !.why = why, !.last = last, !.amt = amt, !.lvl = lvl] \in Jobs
         /\ [Idle EXCEPT !.pc = pc, !.why = why, !.last = last, !.id = id, !.lvl = lvl] \in Jobs
         /\ [Idle EXCEPT !.pc = pc, !.why = why, !.last = last, !.id = id, !.lvl = lvl, !.ids = ids] \in Jobs
         /\ [Idle EXCEPT !.pc = pc] \in Jobs
         /\ [Idle EXCEPT !.pc = pc, !.why = why, !.ids = ids] \in Jobs
         /\ [Idle EXCEPT !.pc = pc, !.last = last, !.id = id] \in Jobs
         /\ [Idle EXCEPT !.pc = pc, !.why = why] \in Jobs
<1>. ids \subseteq Orders /\ {} \subseteq Orders /\ 0 \in Ids /\ "" \in Why BY Rec DEF Why
<1>. QED BY Rec DEF Idle, Jobs

LEMMA Quantities ==
  ASSUME NEW n \in Int, spec \in SpecRec
  PROVE Tranche(n) \in Int /\ n - Tranche(n) \in Int BY DEF Tranche

LEMMA ImageOf == ASSUME NEW S PROVE Image(S) = S \/ Image(S) = NoBracket
  BY DEF Image

LEMMA TickEndsLeads ==
  ASSUME NEW S \in Brackets, NEW D, TickEnds(S)
  PROVE \E c : Leads("run", S, D, c) /\ Ends(c) /\ st'.phase = S.phase
<1>1. PICK c : Become("run", c) /\ Ends(c) BY DEF TickEnds, Monitor, Ended, Ends
<1>2. c \in Jobs BY <1>1, EndsTyped
<1>3. st' = S /\ disk' = Image(S) /\ status' = status BY DEF TickEnds, persistBracket
<1>. QED BY <1>1, <1>2, <1>3, ImageOf DEF Leads, Alike

LEMMA FreedLeads ==
  ASSUME NEW p \in Procs, NEW S \in Brackets, NEW D, NEW why \in Why, NEW last \in Int, NEW lvl \in Int,
         spec \in SpecRec, Freed(p, S, D, why, last, lvl)
  PROVE \E c : Leads(p, S, D, c) /\ Freeing(S, why, lvl, c)
<1>. DEFINE rest == S.position - Tranche(S.position)
            floor == IF spec.even THEN Higher(Entry, S.stopPrice)
                     ELSE IF S.stopPrice = 0 THEN StopLevel ELSE S.stopPrice
            exiting == [S EXCEPT !.phase = "exiting"]
<1>1. /\ S.position \in Int /\ S.stopPrice \in Int /\ rest \in Int /\ Tranche(S.position) \in Int
      /\ floor \in Int /\ floor >= S.stopPrice /\ (0 <= S.stopPrice => floor >= StopLevel)
  <2>1. S.position \in Int /\ S.stopPrice \in Int BY DEF Brackets
  <2>. QED BY <2>1, Quantities DEF Higher, Entry, StopLevel
<1>2. exiting \in Brackets /\ Alike(S, exiting) /\ exiting.phase = "exiting" BY DEF Brackets, Phase, Alike
<1>3. Alike(S, S) BY DEF Alike
<1>. DEFINE J(pc, amt, l) == [Idle EXCEPT !.pc = pc, !.why = why, !.last = last, !.amt = amt, !.lvl = l]
<1>4. \A pc \in {"sell", "findStop"}, amt \in Int, l \in Int :
          /\ J(pc, amt, l) \in Jobs /\ J(pc, amt, l).pc = pc /\ J(pc, amt, l).why = why
          /\ J(pc, amt, l).amt = amt /\ J(pc, amt, l).lvl = l
  <2>1. "sell" \in Pc /\ "findStop" \in Pc BY DEF Pc
  <2>2. \A pc \in {"sell", "findStop"}, amt \in Int, l \in Int : J(pc, amt, l) \in Jobs BY <2>1, JobOf, Rec
  <2>. QED BY <2>2 DEF Idle
<1>. HIDE DEF J, rest, floor, exiting
<1>5. \/ why = "scale" /\ st' = S /\ disk' = D /\ status' = status /\ Become(p, J("findStop", rest, floor))
      \/ why = "scale" /\ st' = S /\ disk' = D /\ status' = status /\ Become(p, J("sell", Tranche(S.position), last))
      \/ why \in {"final", "time"} /\ st' = exiting /\ disk' = D /\ status' = status /\ Become(p, J("sell", S.position, last))
      \/ why \in {"ratchet", "adjust"} /\ st' = S /\ disk' = D /\ status' = status /\ Become(p, J("findStop", S.position, lvl))
  BY DEF Freed, PlaceStop, Awaits, Tick, J, rest, floor, exiting
<1>6. CASE why = "scale" /\ st' = S /\ disk' = D /\ status' = status /\ Become(p, J("findStop", rest, floor))
  <2>1. Leads(p, S, D, J("findStop", rest, floor)) BY <1>6, <1>1, <1>3, <1>4 DEF Leads
  <2>2. Freeing(S, why, lvl, J("findStop", rest, floor)) BY <1>6, <1>1, <1>4 DEF Freeing, rest
  <2>. QED BY <2>1, <2>2
<1>7. CASE why = "scale" /\ st' = S /\ disk' = D /\ status' = status /\ Become(p, J("sell", Tranche(S.position), last))
  <2>1. Leads(p, S, D, J("sell", Tranche(S.position), last)) BY <1>7, <1>1, <1>3, <1>4 DEF Leads
  <2>2. Freeing(S, why, lvl, J("sell", Tranche(S.position), last)) BY <1>7, <1>1, <1>4 DEF Freeing
  <2>. QED BY <2>1, <2>2
<1>8. CASE why \in {"final", "time"} /\ st' = exiting /\ disk' = D /\ status' = status /\ Become(p, J("sell", S.position, last))
  <2>1. Leads(p, S, D, J("sell", S.position, last)) BY <1>8, <1>1, <1>2, <1>4 DEF Leads
  <2>2. Freeing(S, why, lvl, J("sell", S.position, last)) BY <1>8, <1>1, <1>2, <1>4 DEF Freeing
  <2>. QED BY <2>1, <2>2
<1>9. CASE why \in {"ratchet", "adjust"} /\ st' = S /\ disk' = D /\ status' = status /\ Become(p, J("findStop", S.position, lvl))
  <2>1. Leads(p, S, D, J("findStop", S.position, lvl)) BY <1>9, <1>1, <1>3, <1>4 DEF Leads
  <2>2. Freeing(S, why, lvl, J("findStop", S.position, lvl)) BY <1>9, <1>1, <1>4 DEF Freeing
  <2>. QED BY <2>1, <2>2
<1>. QED BY <1>5, <1>6, <1>7, <1>8, <1>9

LEMMA UnstopLeads ==
  ASSUME NEW p \in Procs, NEW S \in Brackets, NEW D, NEW why \in Why, NEW last \in Int, NEW lvl \in Int,
         spec \in SpecRec, Unstop(p, S, D, why, last, lvl)
  PROVE \E c : Leads(p, S, D, c) /\ Unstopping(S, why, lvl, c)
<1>1. CASE S.stopId = 0 /\ Freed(p, S, D, why, last, lvl) BY <1>1, FreedLeads DEF Unstopping
<1>2. CASE S.stopId # 0 /\ ~(S.stopId = 0 /\ Freed(p, S, D, why, last, lvl))
  <2>. DEFINE c == [Idle EXCEPT !.pc = "unstop", !.why = why, !.last = last, !.id = S.stopId, !.lvl = lvl]
  <2>1. st' = S /\ disk' = D /\ status' = status /\ Become(p, c) BY <1>2 DEF Unstop, Tick
  <2>2. c \in Jobs
    <3>1. S.stopId \in Ids /\ "unstop" \in Pc /\ {} \in SUBSET Orders /\ 0 \in Int BY DEF Brackets, Pc
    <3>. QED BY <3>1, JobOf
  <2>3. c.pc = "unstop" /\ c.why = why /\ c.id = S.stopId /\ c.lvl = lvl BY DEF Idle
  <2>. HIDE DEF c
  <2>4. Leads(p, S, D, c) BY <2>1, <2>2 DEF Leads, Alike
  <2>. QED BY <1>2, <2>1, <2>3, <2>4 DEF Unstopping
<1>. QED BY <1>1, <1>2 DEF Unstop

LEMMA TimeStopLeads ==
  ASSUME NEW S \in Brackets, NEW D, NEW last \in Int, spec \in SpecRec, TimeStop(S, D, last)
  PROVE \E c : Leads("run", S, D, c) /\ TimeStopping(S, c)
<1>1. CASE S.tp1Id = 0 /\ aged /\ Unstop("run", S, D, "time", last, 0)
  <2>1. "run" \in Procs /\ "time" \in Why /\ 0 \in Int BY DEF Procs, Why
  <2>2. \E c : Leads("run", S, D, c) /\ Unstopping(S, "time", 0, c) BY <1>1, <2>1, UnstopLeads
  <2>. QED BY <1>1, <2>2 DEF TimeStopping
<1>2. CASE TickEnds(S) BY <1>2, TickEndsLeads DEF TimeStopping
<1>. QED BY <1>1, <1>2 DEF TimeStop

\* What differs only in its high water and its trail goes on in the same way.
LEMMA AlikeLeads ==
  ASSUME NEW S \in Brackets, NEW T \in Brackets, Alike(S, T), T.phase = S.phase, NEW p \in Procs, NEW D, NEW E,
         E = D \/ E = Image(T), NEW c, Leads(p, T, E, c)
  PROVE  /\ Leads(p, S, D, c)
         /\ \A why, lvl : Unstopping(T, why, lvl, c) => Unstopping(S, why, lvl, c)
<1>1. Image(T) = T \/ Image(T) = NoBracket BY ImageOf
<1>2. Alike(S, st') BY DEF Alike, Leads
<1>3. disk' = D \/ disk' = NoBracket \/ (Alike(S, disk') /\ disk'.phase \in {S.phase, st'.phase})
  BY <1>1 DEF Alike, Leads
<1>. QED BY <1>2, <1>3 DEF Leads, Unstopping, Freeing, Alike

LEMMA ManageLeads ==
  ASSUME NEW S \in Brackets, NEW D, NEW last \in Int, spec \in SpecRec, Manage(S, D, last)
  PROVE \E c : Leads("run", S, D, c) /\ Manages(S, c)
<1>. DEFINE S1 == [S EXCEPT !.highWater = Higher(@, last)]
            S2 == [S1 EXCEPT !.trail = @ \/ shouldArmTrail(S1)]
            D2 == IF shouldArmTrail(S1) THEN Image(S2) ELSE D
            scaling == S1.tp1Id = 0 /\ S1.phase = "protected" /\ spec.scale /\ last >= Tp1Level
            final == S1.tp1Id = 0 /\ last >= FinalLevel
            ratchet == S2.trail /\ S2.stopPrice # 0 /\ Desired(S2) > S2.stopPrice /\ Desired(S2) < last
<1>1. /\ S1 \in Brackets /\ Alike(S, S1) /\ S1.phase = S.phase /\ S1.trail = S.trail
  <2>1. S.highWater \in Int /\ Higher(S.highWater, last) \in Int BY DEF Brackets, Higher
  <2>2. S1 \in Brackets BY <2>1 DEF Brackets
  <2>. QED BY <2>2 DEF Alike, Brackets
<1>2. /\ S2 \in Brackets /\ Alike(S, S2) /\ S2.phase = S.phase
      /\ S2.trail => spec.arm \/ S.trail
  <2>. HIDE DEF S1
  <2>0. S1.trail \in BOOLEAN /\ spec.arm \in BOOLEAN BY <1>1 DEF Brackets, SpecRec
  <2>1. shouldArmTrail(S1) \in BOOLEAN /\ (shouldArmTrail(S1) => spec.arm) BY DEF shouldArmTrail
  <2>2. (S1.trail \/ shouldArmTrail(S1)) \in BOOLEAN BY <2>0, <2>1
  <2>3. S2 \in Brackets /\ S2.trail = (S1.trail \/ shouldArmTrail(S1)) BY <1>1, <2>2 DEF Brackets
  <2>4. Alike(S, S2) /\ S2.phase = S.phase BY <1>1, <2>3 DEF Alike, Brackets
  <2>. QED BY <1>1, <2>1, <2>3, <2>4
<1>3. D2 = D \/ D2 = Image(S2) OBVIOUS
<1>4. \/ S1.locked /\ TickEnds(S1)
      \/ ~S1.locked /\ scaling /\ Unstop("run", S1, D, "scale", last, 0)
      \/ ~S1.locked /\ ~scaling /\ final /\ Unstop("run", S1, D, "final", last, 0)
      \/ ~S1.locked /\ ratchet /\ Unstop("run", S2, D2, "ratchet", last, Desired(S2))
      \/ ~S1.locked /\ TimeStop(S2, D2, last) BY DEF Manage, Frozen
<1>5. Desired(S2) \in Int /\ S2.stopPrice = S.stopPrice /\ S1.locked = S.locked /\ S2.locked = S.locked
      /\ S1.tp1Id = S.tp1Id /\ S2.tp1Id = S.tp1Id /\ S1.stopId = S.stopId /\ S2.stopId = S.stopId
  BY <1>1, <1>2 DEF Alike, Brackets, Desired
<1>6. "run" \in Procs /\ {"scale", "final", "time", "ratchet"} \subseteq Why /\ 0 \in Int BY DEF Procs, Why
<1>. HIDE DEF S1, S2, D2
<1>7. CASE S1.locked /\ TickEnds(S1)
  <2>1. PICK c : Leads("run", S1, D, c) /\ Ends(c) /\ st'.phase = S1.phase BY <1>1, <1>7, TickEndsLeads
  <2>. QED BY <2>1, <1>1, <1>6, AlikeLeads DEF Manages
<1>8. CASE ~S1.locked /\ scaling /\ Unstop("run", S1, D, "scale", last, 0)
  <2>1. PICK c : Leads("run", S1, D, c) /\ Unstopping(S1, "scale", 0, c) BY <1>1, <1>6, <1>8, UnstopLeads
  <2>2. Leads("run", S, D, c) /\ Unstopping(S, "scale", 0, c) BY <2>1, <1>1, <1>6, AlikeLeads
  <2>. QED BY <2>2, <1>1, <1>5, <1>8 DEF Managed, Manages
<1>9. CASE ~S1.locked /\ ~scaling /\ final /\ Unstop("run", S1, D, "final", last, 0)
  <2>1. PICK c : Leads("run", S1, D, c) /\ Unstopping(S1, "final", 0, c) BY <1>1, <1>6, <1>9, UnstopLeads
  <2>2. Leads("run", S, D, c) /\ Unstopping(S, "final", 0, c) BY <2>1, <1>1, <1>6, AlikeLeads
  <2>. QED BY <2>2, <1>5, <1>9 DEF Managed, Manages
<1>10. CASE ~S1.locked /\ ratchet /\ Unstop("run", S2, D2, "ratchet", last, Desired(S2))
  <2>1. PICK c : Leads("run", S2, D2, c) /\ Unstopping(S2, "ratchet", Desired(S2), c)
    BY <1>2, <1>5, <1>6, <1>10, UnstopLeads
  <2>2. Leads("run", S, D, c) /\ Unstopping(S, "ratchet", Desired(S2), c) BY <2>1, <1>2, <1>3, <1>6, AlikeLeads
  <2>3. S.stopPrice # 0 /\ (spec.arm \/ S.trail) /\ Desired(S2) > S.stopPrice BY <1>2, <1>5, <1>10
  <2>. QED BY <2>2, <2>3, <1>5, <1>10 DEF Managed, Manages
<1>11. CASE ~S1.locked /\ TimeStop(S2, D2, last)
  <2>1. PICK c : Leads("run", S2, D2, c) /\ TimeStopping(S2, c) BY <1>2, <1>11, TimeStopLeads
  <2>2. Leads("run", S, D, c) /\ \A why, lvl : Unstopping(S2, why, lvl, c) => Unstopping(S, why, lvl, c)
    BY <2>1, <1>2, <1>3, <1>6, AlikeLeads
  <2>3. TimeStopping(S, c) BY <2>1, <2>2, <1>2, <1>5 DEF TimeStopping
  <2>. QED BY <2>2, <2>3, <1>5, <1>11 DEF Managed, Manages
<1>. QED BY <1>4, <1>7, <1>8, <1>9, <1>10, <1>11

LEMMA ProtectedLeads ==
  ASSUME NEW S \in Brackets, NEW D, Protected(S) PROVE \E c : Leads("run", S, D, c) /\ Protects(S, c)
<1>1. st' = S /\ disk' = Image(S) /\ status' = status BY DEF Protected, persistBracket
<1>2. CASE /\ job["run"].why = "first" /\ ~aborted
           /\ S.phase = "protected" /\ S.stopId = 0 /\ S.tp1Id = 0
           /\ Awaits("run", "protect", "again", 0, 0, 0)
  <2>. DEFINE c == [Idle EXCEPT !.pc = "protect", !.why = "again", !.last = 0, !.amt = 0, !.lvl = 0]
  <2>1. Become("run", c) BY <1>2 DEF Awaits
  <2>2. c \in Jobs
    <3>1. "protect" \in Pc /\ "again" \in Why /\ 0 \in Int /\ 0 \in Ids /\ {} \in SUBSET Orders BY Rec DEF Pc, Why
    <3>. QED BY <3>1, JobOf
  <2>3. c.pc = "protect" /\ c.why = "again" BY DEF Idle
  <2>. HIDE DEF c
  <2>4. Leads("run", S, D, c) BY <1>1, <2>1, <2>2, ImageOf DEF Leads, Alike
  <2>. QED BY <1>1, <1>2, <2>3, <2>4 DEF Again, Protects
<1>3. CASE Monitor
  <2>1. PICK c : Become("run", c) /\ Ends(c) BY <1>3 DEF Monitor, Ended, Ends
  <2>2. Leads("run", S, D, c) BY <1>1, <2>1, ImageOf, EndsTyped DEF Leads, Alike
  <2>. QED BY <1>1, <2>1, <2>2 DEF Protects
<1>. QED BY <1>2, <1>3 DEF Protected

LEMMA StopDoneLeads ==
  ASSUME TypeOK, NEW p \in Procs, NEW S \in Brackets, NEW D, StopDone(p, S, D), Errand(p)
  PROVE \E c : Leads(p, S, D, c) /\ Arrives(p, S, c)
<1>. DEFINE why == job[p].why  last == job[p].last
<1>1. why \in Why /\ last \in Int /\ spec \in SpecRec /\ Tranche(S.position) \in Int
  <2>1. job[p] \in Jobs /\ spec \in SpecRec BY ConstantsAssumption DEF TypeOK
  <2>2. S.position \in Int BY DEF Brackets
  <2>. QED BY <2>1, <2>2, Quantities DEF Jobs
<1>. HIDE DEF why, last
<1>2. CASE why \in {"first", "again"} /\ Protected(S)
  <2>1. p = "run" BY <1>2 DEF why, Errand
  <2>2. PICK c : Leads("run", S, D, c) /\ Protects(S, c) BY <1>2, ProtectedLeads
  <2>3. Arrived(why, S, c) BY <1>2, <2>2 DEF Arrived, Protects
  <2>. QED BY <2>1, <2>2, <2>3 DEF why, Arrives
<1>3. CASE why = "heal" /\ Manage(S, D, last)
  <2>1. p = "run" BY <1>3 DEF why, Errand
  <2>2. PICK c : Leads("run", S, D, c) /\ Manages(S, c) BY <1>1, <1>3, ManageLeads
  <2>3. Arrived(why, S, c) BY <1>3, <2>2 DEF Arrived, Manages
  <2>. QED BY <2>1, <2>2, <2>3 DEF why, Arrives
<1>4. CASE /\ why = "scale" /\ Tick(S, D)
           /\ Awaits(p, "sell", why, last, Tranche(S.position), last)
  <2>. DEFINE c == [Idle EXCEPT !.pc = "sell", !.why = why, !.last = last, !.amt = Tranche(S.position), !.lvl = last]
  <2>1. c \in Jobs
    <3>1. "sell" \in Pc /\ {} \in SUBSET Orders /\ 0 \in Ids BY Rec DEF Pc
    <3>. QED BY <1>1, <3>1, JobOf
  <2>2. Become(p, c) /\ st' = S /\ disk' = D /\ status' = status BY <1>4 DEF Awaits, Tick
  <2>3. c.pc = "sell" /\ c.why = why /\ c.amt = Tranche(S.position) BY DEF Idle
  <2>. HIDE DEF c
  <2>4. Leads(p, S, D, c) BY <2>1, <2>2 DEF Leads, Alike
  <2>. QED BY <1>4, <2>2, <2>3, <2>4 DEF Arrived, why, Arrives, Errand
<1>5. CASE why = "ratchet" /\ TimeStop(S, D, last)
  <2>1. p = "run" BY <1>5 DEF why, Errand
  <2>2. PICK c : Leads("run", S, D, c) /\ TimeStopping(S, c) BY <1>1, <1>5, TimeStopLeads
  <2>. QED BY <1>5, <2>1, <2>2 DEF Arrived, why, Arrives, Errand
<1>6. CASE why = "force" /\ TickEnds(S)
  <2>1. p = "run" BY <1>6 DEF why, Errand
  <2>. QED BY <1>6, <2>1, TickEndsLeads DEF Arrived, Arrives, why
<1>7. CASE why = "adjust" /\ st' = S /\ persistBracket(S) /\ Become(p, Idle) /\ UNCHANGED status
  <2>1. Leads(p, S, D, Idle) BY <1>7, Rec, ImageOf DEF Leads, Alike, persistBracket
  <2>. QED BY <1>7, <2>1 DEF Arrived, why, Arrives, Errand
<1>. QED BY <1>2, <1>3, <1>4, <1>5, <1>6, <1>7 DEF StopDone, why, last

LEMMA SellDoneLeads ==
  ASSUME TypeOK, Whose, NEW S \in Brackets, SellDone(S)
  PROVE \E c : Leads("run", S, Image(S), c) /\ Sold(S, c)
<1>. DEFINE why == job["run"].why  last == job["run"].last
<1>1. why \in Why /\ last \in Int /\ spec \in SpecRec
  <2>1. job["run"] \in Jobs /\ spec \in SpecRec BY ConstantsAssumption DEF TypeOK, Procs
  <2>. QED BY <2>1 DEF Jobs
<1>. HIDE DEF last
<1>2. CASE why \in {"first", "again"} /\ Protected(S)
  <2>1. PICK c : Leads("run", S, Image(S), c) /\ Protects(S, c) BY <1>2, ProtectedLeads
  <2>2. Arrived(why, S, c) BY <1>2, <2>1 DEF Arrived, Protects
  <2>. QED BY <1>2, <2>1, <2>2 DEF Sold
<1>3. CASE why = "heal" /\ Manage(S, Image(S), last)
  <2>1. PICK c : Leads("run", S, Image(S), c) /\ Manages(S, c) BY <1>1, <1>3, ManageLeads
  <2>2. Arrived(why, S, c) BY <1>3, <2>1 DEF Arrived, Manages
  <2>. QED BY <1>3, <2>1, <2>2 DEF Sold
<1>4. CASE why \in {"scale", "final", "time", "force"} /\ TickEnds(S)
  <2>1. PICK c : Leads("run", S, Image(S), c) /\ Ends(c) /\ st'.phase = S.phase BY <1>4, TickEndsLeads
  <2>2. Arrived(why, S, c) BY <2>1 DEF Arrived
  <2>. QED BY <1>4, <2>1, <2>2 DEF Sold
<1>. QED BY <1>2, <1>3, <1>4 DEF SellDone, last

LEMMA Here ==
  ASSUME TypeOK, NEW p \in Procs
  PROVE  /\ job[p] \in Jobs /\ job[p].pc \in Pc /\ job[p].why \in Why /\ job[p].last \in Int
         /\ job[p].id \in Ids /\ job[p].amt \in Int /\ job[p].lvl \in Int /\ job[p].ids \subseteq Orders
         /\ job["run"] \in Jobs /\ job["adjust"] \in Jobs /\ job["kill"] \in Jobs
         /\ spec \in SpecRec /\ "run" \in Procs /\ "adjust" \in Procs /\ "kill" \in Procs
<1>1. job[p] \in Jobs /\ "run" \in Procs /\ "adjust" \in Procs /\ "kill" \in Procs BY DEF TypeOK, Procs
<1>2. spec \in SpecRec BY ConstantsAssumption DEF TypeOK
<1>3. job["run"] \in Jobs /\ job["adjust"] \in Jobs /\ job["kill"] \in Jobs BY <1>1 DEF TypeOK
<1>. QED BY <1>1, <1>2, <1>3 DEF Jobs

LEMMA RunHere ==
  ASSUME TypeOK
  PROVE  /\ job["run"] \in Jobs /\ job["run"].why \in Why /\ job["run"].last \in Int
         /\ job["run"].id \in Ids /\ job["run"].amt \in Int /\ job["run"].lvl \in Int
         /\ spec \in SpecRec
<1>1. "run" \in Procs BY DEF Procs
<1>. QED BY <1>1, Here

LEMMA StateTyped ==
  ASSUME TypeOK
  PROVE  /\ st.phase \in Phase /\ st.entryId \in Ids /\ st.stopId \in Ids /\ st.tp1Id \in Ids
         /\ st.filled \in Int /\ st.position \in Int /\ st.stopPrice \in Int
         /\ st.highWater \in Int /\ st.trail \in BOOLEAN /\ st.locked \in BOOLEAN
         /\ \A o \in Orders : book[o].got \in Int /\ book[o].lvl \in Int /\ Left(o) \in Int
<1>1. \A o \in Orders : book[o] \in OrderRec BY DEF TypeOK
<1>. QED BY <1>1 DEF TypeOK, Brackets, OrderRec, Left

LEMMA Moves ==
  ASSUME IInv, NEW p, NEW c \in Jobs, Become(p, c), May(p, c), Env, UNCHANGED <<world, aborted>>, st' \in Brackets,
         disk' \in Brackets, status' \in {"pending", "executing", "failed", "filled", "skipped", "gone"}
  PROVE Keeps
<1>1. p \in {"run", "adjust"} BY DEF May
<1>2. TypeOK BY DEF IInv
<1>3. /\ job' \in [Procs -> Jobs] /\ job'[p] = c
      /\ \A q \in Procs : q # p => job'[q] = job[q] BY <1>1, <1>2 DEF Become, TypeOK, Procs
<1>4. TypeOK' BY <1>2, <1>3 DEF TypeOK, Env, world
<1>5. "run" \in Procs /\ "adjust" \in Procs /\ "kill" \in Procs BY DEF Procs
<1>6. CASE p = "run" /\ RunMay(c)
  <2>1. job'["run"] = c /\ job'["adjust"] = job["adjust"] /\ job'["kill"] = job["kill"] BY <1>3, <1>5, <1>6
  <2>2. Whose' /\ Awaited' BY <1>6, <2>1 DEF Whose, Awaited, IInv, RunMay
  <2>3. NotForgotten' BY <1>6, <2>1 DEF NotForgotten, RunMay, At
  <2>4. LockStep BY <1>6, <2>1 DEF LockStep, RunMay, GoesOn
  <2>. QED BY <1>4, <2>2, <2>3, <2>4 DEF Keeps, IInv
<1>7. CASE p = "adjust" /\ AdjustMay(c)
  <2>1. job'["adjust"] = c /\ job'["run"] = job["run"] /\ job'["kill"] = job["kill"] BY <1>3, <1>5, <1>7
  <2>2. Whose' /\ Awaited' BY <1>7, <2>1 DEF Whose, Awaited, IInv, AdjustMay
  <2>3. NotForgotten' BY <1>7, <2>1 DEF NotForgotten, AdjustMay, At, IInv
  <2>4. LockStep BY <2>1 DEF LockStep, GoesOn
  <2>. QED BY <1>4, <2>2, <2>3, <2>4 DEF Keeps, IInv
<1>. QED BY <1>6, <1>7 DEF May

LEMMA LeadsOn ==
  ASSUME IInv, NEW p, NEW S \in Brackets, NEW D \in Brackets, NEW c, Leads(p, S, D, c), May(p, c), Env,
         UNCHANGED <<world, aborted>>
  PROVE Keeps
<1>1. c \in Jobs /\ Become(p, c) /\ status' = status /\ st' \in Brackets BY DEF Leads, Alike
<1>2. disk' \in Brackets BY Rec DEF Leads, Alike
<1>3. status' \in {"pending", "executing", "failed", "filled", "skipped", "gone"} BY <1>1 DEF IInv, TypeOK
<1>. QED BY <1>1, <1>2, <1>3, Moves

LEMMA EndsMay == ASSUME NEW c, Ends(c) PROVE RunMay(c)
  BY EndsTyped DEF Ends, RunMay, Managing, Idle

LEMMA ManagedMay ==
  ASSUME NEW S, NEW c, Managed(S, c)
  PROVE  /\ c.why \notin {"adjust", "kill"} /\ (c.pc = "idle" => aborted)
         /\ c.pc \notin {"awaitEntry", "dropEntry", "reread"}
<1>1. \A why, lvl : Unstopping(S, why, lvl, c) => c.why = why /\ c.pc \in {"sell", "findStop", "unstop"}
  BY DEF Unstopping, Freeing
<1>2. CASE Ends(c) BY <1>2, EndsTyped DEF Ends, Idle
<1>3. CASE \E why \in {"scale", "final", "time", "ratchet"} : \E lvl : Unstopping(S, why, lvl, c) BY <1>1, <1>3
<1>. QED BY <1>2, <1>3 DEF Managed, TimeStopping

LEMMA ManagesMay ==
  ASSUME NEW S, NEW c, Manages(S, c), S.locked = st.locked
  PROVE RunMay(c) BY EndsMay, ManagedMay DEF Manages, RunMay

LEMMA TimeStopMay == ASSUME NEW S, NEW c, TimeStopping(S, c), job["run"].why = "ratchet" PROVE RunMay(c)
<1>1. CASE Ends(c) BY <1>1, EndsMay
<1>2. CASE Unstopping(S, "time", 0, c)
  <2>1. c.why = "time" BY <1>2 DEF Unstopping, Freeing
  <2>. QED BY <2>1, ManagedMay DEF RunMay, Managed
<1>. QED BY <1>1, <1>2 DEF TimeStopping

LEMMA ArrivedMay ==
  ASSUME NEW S, NEW c, S.locked = st.locked, Arrived(job["run"].why, S, c), job["run"].why # "adjust"
  PROVE RunMay(c)
<1>. DEFINE why == job["run"].why
<1>1. CASE Ends(c) BY <1>1, EndsMay
<1>2. CASE Again(S, c) BY <1>2 DEF Again, RunMay, Managing
<1>3. CASE why = "heal" /\ ~S.locked /\ Managed(S, c) BY <1>3, ManagedMay DEF RunMay
<1>4. CASE why = "scale" /\ c.pc = "sell" /\ c.why = "scale" BY <1>4 DEF RunMay, Managing
<1>5. CASE why = "ratchet" /\ TimeStopping(S, c) BY <1>5, TimeStopMay
<1>. QED BY <1>1, <1>2, <1>3, <1>4, <1>5 DEF Arrived

----
\* The answers of the exchange.

LEMMA ReadTyped == ASSUME TypeOK, NEW ok, Read(ok) PROVE Env
  BY DEF Read, Calm, Upset, Env, TypeOK

LEMMA CancelTyped == ASSUME TypeOK, NEW o, NEW ok, CancelOrder(o, ok) PROVE Env
<1>1. Gone(o) => book' \in [Orders -> OrderRec]
  <2>1. SUFFICES ASSUME Gone(o) PROVE book' \in [Orders -> OrderRec] OBVIOUS
  <2>2. book \in [Orders -> OrderRec] /\ book' = [book EXCEPT ![o].st = "cancelled"] BY <2>1 DEF TypeOK, Gone
  <2>3. ASSUME NEW x \in Orders PROVE book'[x] \in OrderRec
    <3>1. book[x] \in OrderRec /\ [book[x] EXCEPT !.st = "cancelled"] \in OrderRec BY <2>2 DEF OrderRec
    <3>2. book'[x] = book[x] \/ book'[x] = [book[x] EXCEPT !.st = "cancelled"] BY <2>2
    <3>. QED BY <3>1, <3>2
  <2>4. book' = [x \in Orders |-> book'[x]] BY <2>2
  <2>. QED BY <2>3, <2>4
<1>2. book' = book => book' \in [Orders -> OrderRec] BY DEF TypeOK
<1>3. upsets' = upsets \/ upsets' \in Upsets BY DEF CancelOrder, Calm, Upset
<1>4. Gone(o) \/ book' = book BY DEF CancelOrder
<1>. QED BY <1>1, <1>2, <1>3, <1>4 DEF Env, TypeOK

LEMMA PlaceTyped ==
  ASSUME TypeOK, NEW kind \in {"buy", "stop", "sell"}, NEW amt \in Int, NEW lvl \in Int, NEW id,
         PlaceOrder(kind, amt, lvl, id)
  PROVE Env
<1>. DEFINE n == Min(Unused)
            new == [kind |-> kind, st |-> "live", amt |-> amt, got |-> 0, lvl |-> lvl]
            accepted == book' = [o \in Orders |-> IF o = n THEN new ELSE IF o \in Unused THEN NoOrder ELSE book[o]]
<1>1. new \in OrderRec BY DEF OrderRec
<1>2. accepted \/ book' = book BY DEF PlaceOrder
<1>3. upsets' = upsets \/ upsets' \in Upsets BY DEF PlaceOrder, Calm, Upset
<1>4. book \in [Orders -> OrderRec] /\ upsets \in Upsets \cup {{}} BY DEF TypeOK
<1>5. accepted => book' \in [Orders -> OrderRec]
  <2>. HIDE DEF n, new
  <2>1. SUFFICES ASSUME accepted PROVE book' \in [Orders -> OrderRec] OBVIOUS
  <2>2. \A o \in Orders : (IF o = n THEN new ELSE IF o \in Unused THEN NoOrder ELSE book[o]) \in OrderRec
    BY <1>1, <1>4, Rec
  <2>. QED BY <2>1, <2>2
<1>. HIDE DEF accepted
<1>. QED BY <1>2, <1>3, <1>4, <1>5 DEF Env

LEMMA CalmTyped == ASSUME TypeOK, UNCHANGED <<book, upsets>> PROVE Env
  BY DEF Env, TypeOK

\* The job that an await of the monitor leaves, when it is none of the entry's.
LEMMA AwaitsOf ==
  ASSUME NEW p, NEW pc \in Pc, NEW why \in Why, NEW last \in Int, NEW amt \in Int, NEW lvl \in Int,
         Awaits(p, pc, why, last, amt, lvl)
  PROVE  \E c \in Jobs : /\ Become(p, c) /\ c.pc = pc /\ c.why = why /\ c.last = last /\ c.amt = amt
                           /\ c.lvl = lvl /\ c.id = 0
<1>. DEFINE c == [Idle EXCEPT !.pc = pc, !.why = why, !.last = last, !.amt = amt, !.lvl = lvl]
<1>1. c \in Jobs
  <2>1. 0 \in Ids /\ {} \in SUBSET Orders BY Rec
  <2>. QED BY <2>1, JobOf
<1>2. Become(p, c) BY DEF Awaits
<1>3. c.pc = pc /\ c.why = why /\ c.last = last /\ c.amt = amt /\ c.lvl = lvl /\ c.id = 0 BY DEF Idle
<1>. HIDE DEF c
<1>. QED BY <1>1, <1>2, <1>3

\* A step of the monitor to an await.
LEMMA RunAwaits ==
  ASSUME IInv, NEW pc \in Pc, NEW why \in Why, NEW last \in Int, NEW amt \in Int, NEW lvl \in Int,
         Awaits("run", pc, why, last, amt, lvl), Env, UNCHANGED <<world, aborted>>, st' \in Brackets,
         disk' \in Brackets, status' \in Statuses, why \notin {"adjust", "kill"}, pc # "idle",
         pc \in {"awaitEntry", "dropEntry", "reread"} => st'.entryId # 0,
         why \in {"scale", "final", "time", "ratchet"} => job["run"].why = why \/ ~st.locked \/ spec.full
  PROVE Keeps
<1>1. PICK c \in Jobs : Become("run", c) /\ c.pc = pc /\ c.why = why BY AwaitsOf
<1>2. May("run", c) BY <1>1 DEF May, RunMay, Managing
<1>. QED BY <1>1, <1>2, Moves DEF Statuses

\* A step of the monitor that ends a tick or the coroutine.
LEMMA RunEnds ==
  ASSUME IInv, NEW c, Become("run", c), Ends(c) \/ c = Idle, Env, UNCHANGED <<world, aborted>>, st' \in Brackets,
         disk' \in Brackets, status' \in Statuses,
         Ends(c) \/ status' \in {"filled", "failed"} \/ st'.phase \notin Holding
  PROVE Keeps
<1>1. c \in Jobs BY EndsTyped, Rec
<1>2. May("run", c)
  <2>1. CASE Ends(c) BY <2>1, EndsMay DEF May
  <2>2. CASE c = Idle /\ ~Ends(c) BY <2>2 DEF May, RunMay, Idle, Managing
  <2>. QED BY <2>1, <2>2
<1>. QED BY <1>1, <1>2, Moves DEF Statuses

LEMMA MonitorEnds == ASSUME Monitor PROVE \E c : Become("run", c) /\ Ends(c)
  BY DEF Monitor, Ended, Ends

LEMMA Typed ==
  ASSUME IInv
  PROVE  /\ TypeOK /\ st \in Brackets /\ disk \in Brackets /\ status \in Statuses
         /\ {"executing", "failed", "filled", "skipped"} \subseteq Statuses BY DEF IInv, TypeOK, Statuses

LEMMA EntryLoopOf ==
  ASSUME NEW S, EntryLoop(S)
  PROVE st' = S /\ \E c \in Jobs : Become("run", c) /\ c.why = "" /\ ((c = Idle /\ aborted) \/ c.pc = "awaitEntry")
<1>. DEFINE c == [Idle EXCEPT !.pc = "awaitEntry"]
<1>1. c \in Jobs /\ c.pc = "awaitEntry" /\ c.why = "" /\ Idle.why = "" /\ Idle \in Jobs BY Rec DEF Jobs, Pc, Idle
<1>. HIDE DEF c
<1>2. (aborted /\ Become("run", Idle)) \/ Become("run", c) BY DEF EntryLoop, Ended, c
<1>3. st' = S BY DEF EntryLoop
<1>. QED BY <1>1, <1>2, <1>3

\* The entry has an id, and its wait goes on.
LEMMA EntryWaits ==
  ASSUME IInv, NEW S \in Brackets, S.entryId # 0, EntryLoop(S), Env, UNCHANGED <<world, aborted>>, disk' \in Brackets,
         status' = status
  PROVE Keeps
<1>1. PICK c \in Jobs : Become("run", c) /\ c.why = "" /\ ((c = Idle /\ aborted) \/ c.pc = "awaitEntry")
  BY EntryLoopOf
<1>2. st' = S BY EntryLoopOf
<1>3. May("run", c) BY <1>1, <1>2 DEF May, RunMay, Managing, Idle
<1>4. status' \in {"pending", "executing", "failed", "filled", "skipped", "gone"} BY Typed DEF Statuses
<1>. QED BY <1>1, <1>2, <1>3, <1>4, Moves

LEMMA FindEntryKeeps == ASSUME IInv, FindEntry PROVE Keeps
<1>1. UNCHANGED <<world, aborted>> /\ status' = status /\ TypeOK BY Typed DEF FindEntry
<1>2. ASSUME NEW o \in LiveOf("buy"), Read(TRUE), EntryLoop([st EXCEPT !.entryId = o]),
             persistBracket([st EXCEPT !.entryId = o])
      PROVE  Keeps
  <2>. DEFINE S == [st EXCEPT !.entryId = o]
  <2>1. o \in Ids /\ o # 0 BY <1>2, Rec DEF LiveOf, Live
  <2>2. S \in Brackets /\ S.entryId # 0 BY <2>1, Typed DEF Brackets
  <2>3. disk' \in Brackets BY <1>2, <2>2, ImageOf, Rec DEF persistBracket
  <2>4. Env BY <1>1, <1>2, ReadTyped
  <2>. HIDE DEF S
  <2>5. EntryLoop(S) BY <1>2 DEF S
  <2>. QED BY <1>1, <2>2, <2>3, <2>4, <2>5, EntryWaits
<1>3. ASSUME NEW ok, Read(ok), UNCHANGED <<st, disk>>, Awaits("run", "enter", "", 0, 0, 0)
      PROVE  Keeps
  <2>1. Env /\ st' \in Brackets /\ disk' \in Brackets /\ status' \in Statuses BY <1>1, <1>3, ReadTyped, Typed
  <2>2. "enter" \in Pc /\ "" \in Why /\ 0 \in Int BY DEF Pc, Why
  <2>. QED BY <1>1, <1>3, <2>1, <2>2, RunAwaits
<1>. QED BY <1>2, <1>3 DEF FindEntry

LEMMA FailsKeep == ASSUME IInv, NEW S \in Brackets, Fails(S), Env, UNCHANGED <<world, aborted>> PROVE Keeps
<1>1. st' = S /\ status' = "failed" /\ disk' = Image(S) /\ Become("run", Idle) BY DEF Fails, persistBracket, Ended
<1>2. disk' \in Brackets /\ status' \in Statuses BY <1>1, ImageOf, Rec, Typed
<1>. QED BY <1>1, <1>2, RunEnds

LEMMA failBracketKeeps == ASSUME IInv, failBracket, Env, UNCHANGED <<world, aborted>> PROVE Keeps
<1>1. st' = [st EXCEPT !.phase = "aborted"] /\ status' = "skipped" /\ disk' = NoBracket /\ Become("run", Idle)
  BY DEF failBracket, clearPersistedBracket, Ended
<1>2. st' \in Brackets /\ st'.phase \notin Holding BY <1>1, Typed DEF Brackets, Phase, Holding
<1>3. disk' \in Brackets /\ status' \in Statuses BY <1>1, Rec, Typed
<1>. QED BY <1>1, <1>2, <1>3, RunEnds

LEMMA EnterMarketKeeps == ASSUME IInv, EnterMarket PROVE Keeps
<1>1. UNCHANGED <<world, aborted>> /\ TypeOK BY Typed DEF EnterMarket
<1>2. Buy \in Int /\ Entry \in Int BY Rec DEF Entry
<1>3. CASE failBracket /\ UNCHANGED <<book, upsets>> BY <1>1, <1>3, CalmTyped, failBracketKeeps
<1>4. ASSUME NEW id \in Orders, PlaceOrder("buy", Buy, Entry, id), EntryLoop([st EXCEPT !.entryId = id]),
             persistBracket([st EXCEPT !.entryId = id]), status' = status
      PROVE  Keeps
  <2>. DEFINE S == [st EXCEPT !.entryId = id]
  <2>1. id \in Ids /\ id # 0 BY Rec DEF Orders
  <2>2. S \in Brackets /\ S.entryId # 0 BY <2>1, Typed DEF Brackets
  <2>3. disk' \in Brackets BY <1>4, <2>2, ImageOf, Rec DEF persistBracket
  <2>4. Env BY <1>1, <1>2, <1>4, PlaceTyped
  <2>. HIDE DEF S
  <2>5. EntryLoop(S) BY <1>4 DEF S
  <2>. QED BY <1>1, <1>4, <2>2, <2>3, <2>4, <2>5, EntryWaits
<1>5. CASE PlaceOrder("buy", Buy, Entry, 0) /\ Fails(st)
  <2>1. Env BY <1>1, <1>2, <1>5, PlaceTyped
  <2>. QED BY <1>1, <1>5, <2>1, Typed, FailsKeep
<1>. QED BY <1>3, <1>4, <1>5 DEF EnterMarket

LEMMA HeldTyped ==
  ASSUME TypeOK, NEW n \in Int
  PROVE  /\ Held(st, n) \in Brackets /\ [Held(st, n) EXCEPT !.phase = "protected"] \in Brackets
         /\ [Held(st, n) EXCEPT !.phase = "protected"].entryId = st.entryId
<1>1. st \in Brackets /\ Entry \in Int BY DEF TypeOK, Entry
<1>2. Held(st, n) \in Brackets BY <1>1 DEF Held, Brackets
<1>3. [Held(st, n) EXCEPT !.phase = "protected"] \in Brackets BY <1>2 DEF Brackets, Phase
<1>4. [Held(st, n) EXCEPT !.phase = "protected"].entryId = st.entryId BY <1>1 DEF Held, Brackets
<1>. QED BY <1>2, <1>3, <1>4

LEMMA adoptKeeps ==
  ASSUME IInv, NEW n \in Int, adoptPartialEntry(n), Env, UNCHANGED <<world, aborted>> PROVE Keeps
<1>1. CASE failBracket BY <1>1, failBracketKeeps
<1>2. CASE /\ st' = [Held(st, n) EXCEPT !.phase = "protected"]
           /\ Awaits("run", "protect", "first", 0, 0, 0) /\ UNCHANGED <<disk, status>>
  <2>1. st' \in Brackets /\ disk' \in Brackets /\ status' \in Statuses BY <1>2, Typed, HeldTyped
  <2>2. "protect" \in Pc /\ "first" \in Why /\ 0 \in Int BY DEF Pc, Why
  <2>. QED BY <1>2, <2>1, <2>2, RunAwaits
<1>. QED BY <1>1, <1>2 DEF adoptPartialEntry

LEMMA EntryOrder ==
  ASSUME IInv, job["run"].pc \in {"awaitEntry", "dropEntry", "reread"}
  PROVE st.entryId \in Orders /\ st.entryId # 0 /\ book[st.entryId].got \in Int
<1>1. st.entryId # 0 /\ st.entryId \in Ids /\ TypeOK BY Typed, StateTyped DEF IInv, Awaited
<1>2. st.entryId \in Orders BY <1>1, ConstantsAssumption DEF Ids, Orders
<1>. QED BY <1>1, <1>2, StateTyped

LEMMA PollEntryKeeps == ASSUME IInv, PollEntry PROVE Keeps
<1>. DEFINE o == st.entryId
<1>1. UNCHANGED <<world, aborted>> /\ TypeOK /\ o \in Orders /\ o # 0 /\ book[o].got \in Int
  BY Typed, EntryOrder DEF PollEntry, At
<1>2. CASE /\ Read(TRUE) /\ persistBracket(Held(st, book[o].got))
           /\ st' = [Held(st, book[o].got) EXCEPT !.phase = "protected"]
           /\ Awaits("run", "protect", "first", 0, 0, 0) /\ UNCHANGED status
  <2>. HIDE DEF o
  <2>1. Held(st, book[o].got) \in Brackets /\ st' \in Brackets BY <1>1, <1>2, HeldTyped
  <2>2. disk' \in Brackets /\ Env /\ status' \in Statuses
    BY <1>1, <1>2, <2>1, ImageOf, Rec, ReadTyped, Typed DEF persistBracket
  <2>3. "protect" \in Pc /\ "first" \in Why /\ 0 \in Int BY DEF Pc, Why
  <2>. QED BY <1>1, <1>2, <2>1, <2>2, <2>3, RunAwaits
<1>3. CASE Read(TRUE) /\ adoptPartialEntry(book[o].got)
  <2>. HIDE DEF o
  <2>. QED BY <1>1, <1>3, ReadTyped, adoptKeeps
<1>4. CASE Read(TRUE) /\ UNCHANGED <<st, disk, status>> /\ Awaits("run", "dropEntry", "", 0, book[o].got, 0)
  <2>1. "dropEntry" \in Pc /\ "" \in Why /\ 0 \in Int BY DEF Pc, Why
  <2>2. st' \in Brackets /\ disk' \in Brackets /\ status' \in Statuses /\ st'.entryId # 0 /\ Env
    BY <1>1, <1>4, Typed, ReadTyped
  <2>. HIDE DEF o
  <2>. QED BY <1>1, <1>4, <2>1, <2>2, RunAwaits
<1>5. CASE aborted /\ Read(TRUE) /\ Ended /\ UNCHANGED <<st, disk, status>>
  <2>1. Become("run", Idle) /\ Ends(Idle) BY <1>5 DEF Ended, Ends
  <2>2. st' \in Brackets /\ disk' \in Brackets /\ status' \in Statuses /\ Env BY <1>1, <1>5, Typed, ReadTyped
  <2>. QED BY <1>1, <2>1, <2>2, RunEnds
<1>6. CASE Read(FALSE) /\ EntryLoop(st) /\ UNCHANGED <<disk, status>>
  <2>1. disk' \in Brackets /\ Env BY <1>1, <1>6, Typed, ReadTyped
  <2>. QED BY <1>1, <1>6, <2>1, Typed, EntryWaits
<1>. QED BY <1>2, <1>3, <1>4, <1>5, <1>6 DEF PollEntry

LEMMA DropEntryKeeps == ASSUME IInv, DropEntry PROVE Keeps
<1>1. UNCHANGED <<world, aborted>> /\ TypeOK /\ st.entryId # 0 BY Typed, EntryOrder DEF DropEntry, At
<1>2. Env BY <1>1, CancelTyped DEF DropEntry
<1>3. st' \in Brackets /\ disk' \in Brackets /\ status' \in Statuses /\ st'.entryId # 0 BY <1>1, Typed DEF DropEntry
<1>4. "reread" \in Pc /\ "" \in Why /\ 0 \in Int /\ job["run"].amt \in Int
  <2>1. job["run"].amt \in Int BY <1>1, RunHere
  <2>. QED BY <2>1 DEF Pc, Why
<1>5. Awaits("run", "reread", "", 0, job["run"].amt, 0) BY DEF DropEntry
<1>. QED BY <1>1, <1>2, <1>3, <1>4, <1>5, RunAwaits

LEMMA RereadEntryKeeps == ASSUME IInv, RereadEntry PROVE Keeps
<1>1. UNCHANGED <<world, aborted>> /\ TypeOK /\ book[st.entryId].got \in Int BY Typed, EntryOrder DEF RereadEntry, At
<1>2. job["run"].amt \in Int BY <1>1, RunHere
<1>3. CASE Read(TRUE) /\ adoptPartialEntry(book[st.entryId].got) BY <1>1, <1>3, ReadTyped, adoptKeeps
<1>4. CASE Read(FALSE) /\ adoptPartialEntry(job["run"].amt) BY <1>1, <1>2, <1>4, ReadTyped, adoptKeeps
<1>. QED BY <1>3, <1>4 DEF RereadEntry

----
\* The stop: its cancel, its search, its order.

LEMMA TickAwaits ==
  ASSUME IInv, NEW S \in Brackets, NEW D \in Brackets, Tick(S, D), NEW pc \in Pc, NEW why \in Why, NEW last \in Int,
         NEW amt \in Int, NEW lvl \in Int, Awaits("run", pc, why, last, amt, lvl), Env, UNCHANGED <<world, aborted>>,
         why \notin {"adjust", "kill"}, pc \notin {"idle", "awaitEntry", "dropEntry", "reread"},
         why \in {"scale", "final", "time", "ratchet"} => job["run"].why = why \/ ~st.locked \/ spec.full
  PROVE Keeps
<1>1. st' \in Brackets /\ disk' \in Brackets /\ status' \in Statuses BY Typed DEF Tick
<1>. QED BY <1>1, RunAwaits

LEMMA AdjustAwaits ==
  ASSUME IInv, NEW S \in Brackets, NEW D \in Brackets, Tick(S, D), S.phase = st.phase, S.entryId = st.entryId,
         NEW pc \in {"freed", "findStop", "placeStop"}, NEW last \in Int, NEW amt \in Int, NEW lvl \in Int,
         Awaits("adjust", pc, "adjust", last, amt, lvl), Env, UNCHANGED <<world, aborted>>
  PROVE Keeps
<1>1. st' = S /\ disk' = D /\ status' = status BY DEF Tick
<1>2. "adjust" \in Why /\ pc \in Pc BY DEF Why, Pc
<1>3. PICK c \in Jobs : Become("adjust", c) /\ c.pc = pc /\ c.why = "adjust" BY <1>2, AwaitsOf
<1>4. May("adjust", c) BY <1>1, <1>3 DEF May, AdjustMay
<1>. QED BY <1>1, <1>3, <1>4, Moves, Typed DEF Statuses

LEMMA TickEndsKeep ==
  ASSUME IInv, NEW S \in Brackets, TickEnds(S), Env, UNCHANGED <<world, aborted>> PROVE Keeps
<1>1. st' = S /\ disk' = Image(S) /\ status' = status /\ Monitor BY DEF TickEnds, persistBracket
<1>2. disk' \in Brackets /\ status' \in Statuses BY <1>1, ImageOf, Rec, Typed
<1>. QED BY <1>1, <1>2, MonitorEnds, RunEnds

LEMMA TickThrowsKeep == ASSUME IInv, TickThrows(st), Env, UNCHANGED <<world, aborted>> PROVE Keeps
<1>1. st' = st /\ disk' = disk /\ status' = status /\ Monitor BY DEF TickThrows
<1>. QED BY <1>1, Typed, MonitorEnds, RunEnds

LEMMA ManageKeeps ==
  ASSUME IInv, NEW S \in Brackets, S.locked = st.locked, NEW D \in Brackets, NEW last \in Int, Manage(S, D, last),
         Env, UNCHANGED <<world, aborted>>
  PROVE Keeps
<1>1. PICK c : Leads("run", S, D, c) /\ Manages(S, c) BY ManageLeads, Typed, RunHere
<1>2. May("run", c) BY <1>1, ManagesMay DEF May
<1>. QED BY <1>1, <1>2, LeadsOn

LEMMA TimeStopKeeps ==
  ASSUME IInv, NEW S \in Brackets, NEW D \in Brackets, NEW last \in Int, job["run"].why = "ratchet",
         TimeStop(S, D, last), Env, UNCHANGED <<world, aborted>>
  PROVE Keeps
<1>1. PICK c : Leads("run", S, D, c) /\ TimeStopping(S, c) BY TimeStopLeads, Typed, RunHere
<1>2. May("run", c) BY <1>1, TimeStopMay DEF May
<1>. QED BY <1>1, <1>2, LeadsOn

LEMMA StopDoneKeeps ==
  ASSUME IInv, NEW p, Errand(p), NEW S \in Brackets, S.locked = st.locked, S.phase = st.phase, S.entryId = st.entryId,
         NEW D \in Brackets, StopDone(p, S, D), Env, UNCHANGED <<world, aborted>>
  PROVE Keeps
<1>1. TypeOK /\ p \in Procs BY Typed DEF Procs, Errand
<1>2. PICK c : Leads(p, S, D, c) /\ Arrives(p, S, c) BY <1>1, StopDoneLeads
<1>3. May(p, c)
  <2>1. CASE p = "run" BY <1>2, <2>1, ArrivedMay DEF May, Arrives, Errand
  <2>2. CASE p = "adjust"
    <3>1. c = Idle BY <1>2, <2>2 DEF Arrives
    <3>2. st'.phase = S.phase
      <4>1. Arrived("adjust", S, c) BY <1>2, <2>2 DEF Arrives, Errand
      <4>. QED BY <4>1 DEF Arrived
    <3>3. st'.entryId = S.entryId /\ status' = status BY <1>2 DEF Leads, Alike
    <3>. QED BY <2>2, <3>1, <3>2, <3>3 DEF May, AdjustMay, Idle
  <2>. QED BY <2>1, <2>2 DEF Errand
<1>. QED BY <1>2, <1>3, LeadsOn

LEMMA Worker ==
  ASSUME IInv, NEW p \in Procs, job[p].pc \notin {"idle", "sweep"}
  PROVE  /\ Errand(p) /\ p \in {"run", "adjust"} /\ (p = "adjust" <=> job[p].why = "adjust")
         /\ p = "run" => job[p].why \notin {"adjust", "kill"} BY DEF IInv, Whose, Procs, Errand

\* What a cancel forgets and an adoption learns of the stop.
LEMMA StopTyped ==
  ASSUME TypeOK, NEW id \in Ids, NEW lvl \in Int, NEW ok
  PROVE  /\ ForgetStop(st, ok) \in Brackets /\ Adopts(st, id, lvl) \in Brackets
         /\ ForgetStop(st, ok).phase = st.phase /\ Adopts(st, id, lvl).phase = st.phase
         /\ ForgetStop(st, ok).entryId = st.entryId /\ Adopts(st, id, lvl).entryId = st.entryId
         /\ ForgetStop(st, ok).locked = st.locked /\ Adopts(st, id, lvl).locked = st.locked
<1>1. st \in Brackets /\ 0 \in Ids BY Rec DEF TypeOK
<1>2. [st EXCEPT !.stopId = 0] \in Brackets BY <1>1 DEF Brackets
<1>3. [st EXCEPT !.stopId = id, !.stopPrice = lvl] \in Brackets BY <1>1 DEF Brackets
<1>4. /\ ForgetStop(st, ok).phase = st.phase /\ ForgetStop(st, ok).entryId = st.entryId
      /\ ForgetStop(st, ok).locked = st.locked BY <1>1 DEF ForgetStop, Brackets
<1>5. /\ Adopts(st, id, lvl).phase = st.phase /\ Adopts(st, id, lvl).entryId = st.entryId
      /\ Adopts(st, id, lvl).locked = st.locked BY <1>1 DEF Adopts, Brackets
<1>. QED BY <1>1, <1>2, <1>3, <1>4, <1>5 DEF ForgetStop, Adopts

LEMMA ImageTyped == ASSUME NEW S \in Brackets PROVE Image(S) \in Brackets
  BY ImageOf, Rec

\* A job of either coroutine moves on to another await of the stop.
LEMMA WorkerAwaits ==
  ASSUME IInv, NEW p, Errand(p), p = "run" => job[p].why \notin {"adjust", "kill"}, NEW S \in Brackets,
         S.phase = st.phase, S.entryId = st.entryId, NEW D \in Brackets, Tick(S, D),
         NEW pc \in {"freed", "findStop", "placeStop"}, NEW amt \in Int, NEW lvl \in Int,
         Awaits(p, pc, job[p].why, job[p].last, amt, lvl), Env, UNCHANGED <<world, aborted>>
  PROVE Keeps
<1>1. TypeOK /\ p \in Procs /\ pc \in Pc /\ pc \notin {"idle", "awaitEntry", "dropEntry", "reread"}
  BY Typed DEF Errand, Procs, Pc
<1>2. job[p].why \in Why /\ job[p].last \in Int BY <1>1, Here
<1>3. CASE p = "run"
  <2>1. job["run"].why = job["run"].why OBVIOUS
  <2>2. job["run"].why \notin {"adjust", "kill"} /\ job["run"].why \in Why /\ job["run"].last \in Int BY <1>2, <1>3
  <2>3. Awaits("run", pc, job["run"].why, job["run"].last, amt, lvl) BY <1>3
  <2>. QED BY <1>1, <2>1, <2>2, <2>3, TickAwaits
<1>4. CASE p = "adjust"
  <2>1. Awaits("adjust", pc, "adjust", job[p].last, amt, lvl) BY <1>4 DEF Errand
  <2>. QED BY <1>2, <2>1, AdjustAwaits
<1>. QED BY <1>3, <1>4 DEF Errand

LEMMA CancelStopKeeps == ASSUME IInv, NEW p \in Procs, CancelStop(p) PROVE Keeps
<1>. DEFINE j == job[p]
<1>1. UNCHANGED <<world, aborted>> /\ j.pc = "unstop" BY DEF CancelStop, At
<1>2. Errand(p) /\ p \in {"run", "adjust"} /\ (p = "run" => j.why \notin {"adjust", "kill"}) BY <1>1, Worker
<1>3. TypeOK /\ disk \in Brackets /\ j.last \in Int /\ j.lvl \in Int /\ 0 \in Int /\ 0 \in Ids BY Typed, Here, Rec
<1>4. PICK ok \in BOOLEAN :
         /\ CancelOrder(j.id, ok)
         /\ \/ Tick(ForgetStop(st, ok), disk) /\ Awaits(p, "freed", j.why, j.last, 0, j.lvl)
            \/ j.why \in {"scale", "final", "time"} /\ TickEnds(ForgetStop(st, ok))
            \/ j.why = "ratchet" /\ TimeStop(ForgetStop(st, ok), disk, j.last)
            \/ /\ j.why = "adjust" /\ Tick(ForgetStop(st, ok), Image(ForgetStop(st, ok)))
               /\ Become(p, Idle) BY DEF CancelStop
<1>. DEFINE S == ForgetStop(st, ok)
<1>5. S \in Brackets /\ S.phase = st.phase /\ S.entryId = st.entryId /\ Image(S) \in Brackets
  BY <1>3, StopTyped, ImageTyped
<1>6. Env BY <1>3, <1>4, CancelTyped
<1>. HIDE DEF S
<1>7. CASE Tick(S, disk) /\ Awaits(p, "freed", j.why, j.last, 0, j.lvl)
  BY <1>1, <1>2, <1>3, <1>5, <1>6, <1>7, WorkerAwaits
<1>8. CASE TickEnds(S) BY <1>1, <1>5, <1>6, <1>8, TickEndsKeep
<1>9. CASE j.why = "ratchet" /\ TimeStop(S, disk, j.last)
  <2>1. p = "run" /\ job["run"].why = "ratchet" BY <1>2, <1>9 DEF Errand
  <2>. QED BY <1>1, <1>3, <1>5, <1>6, <1>9, <2>1, TimeStopKeeps
<1>10. CASE j.why = "adjust" /\ Tick(S, Image(S)) /\ Become(p, Idle)
  <2>1. p = "adjust" BY <1>2, <1>10
  <2>2. st' = S /\ disk' = Image(S) /\ status' = status BY <1>10 DEF Tick
  <2>3. May("adjust", Idle) BY <1>5, <2>2 DEF May, AdjustMay, Idle
  <2>. QED BY <1>1, <1>5, <1>6, <1>10, <2>1, <2>2, <2>3, Moves, Rec, Typed DEF Statuses
<1>. QED BY <1>4, <1>7, <1>8, <1>9, <1>10 DEF S

LEMMA FreedMay ==
  ASSUME NEW S, NEW why, NEW lvl, NEW c, Freeing(S, why, lvl, c), why = job["run"].why, why # "adjust"
  PROVE RunMay(c) BY DEF Freeing, RunMay, Managing

LEMMA StopFreedKeeps == ASSUME IInv, NEW p \in Procs, StopFreed(p) PROVE Keeps
<1>. DEFINE j == job[p]
<1>1. UNCHANGED <<world, aborted, book, upsets>> /\ j.pc = "freed" BY DEF StopFreed, At
<1>2. Errand(p) /\ p \in {"run", "adjust"} /\ (p = "run" => j.why \notin {"adjust", "kill"}) BY <1>1, Worker
<1>3. /\ TypeOK /\ st \in Brackets /\ disk \in Brackets /\ spec \in SpecRec
      /\ j.last \in Int /\ j.lvl \in Int /\ j.why \in Why BY Typed, Here
<1>4. Freed(p, st, disk, j.why, j.last, j.lvl) BY DEF StopFreed
<1>5. PICK c : Leads(p, st, disk, c) /\ Freeing(st, j.why, j.lvl, c) BY <1>3, <1>4, FreedLeads
<1>6. May(p, c)
  <2>1. CASE p = "run" BY <1>2, <1>5, <2>1, FreedMay DEF May
  <2>2. CASE p = "adjust"
    <3>1. j.why = "adjust" BY <1>2, <2>2 DEF Errand
    <3>2. c.why = "adjust" /\ c.pc = "findStop" /\ st'.phase = st.phase BY <1>5, <3>1 DEF Freeing
    <3>3. st'.entryId = st.entryId /\ status' = status BY <1>5 DEF Leads, Alike
    <3>. QED BY <2>2, <3>2, <3>3 DEF May, AdjustMay
  <2>. QED BY <1>2, <2>1, <2>2
<1>. QED BY <1>1, <1>3, <1>5, <1>6, CalmTyped, LeadsOn

LEMMA FindStopKeeps == ASSUME IInv, NEW p \in Procs, FindStop(p) PROVE Keeps
<1>. DEFINE j == job[p]
<1>1. UNCHANGED <<world, aborted>> /\ j.pc = "findStop" BY DEF FindStop, At
<1>2. /\ Errand(p) /\ p \in {"run", "adjust"} /\ (p = "adjust" <=> j.why = "adjust")
      /\ (p = "run" => j.why \notin {"adjust", "kill"}) BY <1>1, Worker
<1>3. /\ TypeOK /\ st \in Brackets /\ disk \in Brackets
      /\ j.last \in Int /\ j.lvl \in Int /\ j.amt \in Int /\ j.why \in Why BY Typed, Here
<1>4. CASE StopDone(p, st, disk) /\ UNCHANGED <<book, upsets>> BY <1>1, <1>2, <1>3, <1>4, CalmTyped, StopDoneKeeps
<1>5. ASSUME NEW ok, Read(ok), Tick(st, disk), Awaits(p, "placeStop", j.why, j.last, j.amt, j.lvl)
      PROVE  Keeps BY <1>1, <1>2, <1>3, <1>5, ReadTyped, WorkerAwaits
<1>6. ASSUME NEW o \in LiveOf("stop"), Read(TRUE), Tick(st, disk),
             Become(p, [Idle EXCEPT !.pc = "sweep", !.why = j.why, !.last = j.last, !.id = o,
                                    !.lvl = book[o].lvl, !.ids = LiveOf("stop") \ {o}])
      PROVE  Keeps
  <2>. DEFINE rest == LiveOf("stop") \ {o}
              level == book[o].lvl
              c == [Idle EXCEPT !.pc = "sweep", !.why = j.why, !.last = j.last, !.id = o,
                                !.lvl = level, !.ids = rest]
  <2>1. o \in Orders /\ o \in Ids /\ level \in Int /\ rest \in SUBSET Orders BY <1>3, <1>6, Rec, StateTyped DEF LiveOf
  <2>2. c \in Jobs
    <3>1. "sweep" \in Pc BY DEF Pc
    <3>. HIDE DEF rest, level, j
    <3>. QED BY <1>3, <2>1, <3>1, JobOf
  <2>3. c.pc = "sweep" /\ c.why = j.why BY DEF Idle
  <2>4. Become(p, c) /\ st' = st /\ disk' = disk /\ status' = status BY <1>6 DEF Tick
  <2>. HIDE DEF c, j
  <2>5. May(p, c)
    <3>1. CASE p = "run" BY <1>2, <2>3, <3>1 DEF May, RunMay, Managing, j
    <3>2. CASE p = "adjust" BY <1>2, <2>3, <2>4, <3>2 DEF May, AdjustMay
    <3>. QED BY <1>2, <3>1, <3>2
  <2>6. Env BY <1>3, <1>6, ReadTyped
  <2>. QED BY <1>1, <1>3, <2>2, <2>4, <2>5, <2>6, Moves, Typed DEF Statuses
<1>7. ASSUME NEW o \in LiveOf("stop"), Read(TRUE),
             StopDone(p, Adopts(st, o, book[o].lvl), Image(Adopts(st, o, book[o].lvl)))
      PROVE  Keeps
  <2>. DEFINE S == Adopts(st, o, book[o].lvl)
  <2>1. o \in Orders /\ o \in Ids /\ book[o].lvl \in Int BY <1>3, <1>7, Rec, StateTyped DEF LiveOf
  <2>2. S \in Brackets /\ S.phase = st.phase /\ S.entryId = st.entryId /\ S.locked = st.locked
    BY <1>3, <2>1, StopTyped
  <2>. HIDE DEF S
  <2>3. Image(S) \in Brackets /\ Env /\ StopDone(p, S, Image(S)) BY <1>3, <1>7, <2>2, ImageTyped, ReadTyped DEF S
  <2>. QED BY <1>1, <1>2, <2>2, <2>3, StopDoneKeeps
<1>8. \A o : o \in Nearest(LiveOf("stop"), j.lvl) => o \in LiveOf("stop") BY DEF Nearest
<1>. QED BY <1>4, <1>5, <1>6, <1>7, <1>8 DEF FindStop

LEMMA PlaceNewStopKeeps == ASSUME IInv, NEW p \in Procs, PlaceNewStop(p) PROVE Keeps
<1>. DEFINE j == job[p]
<1>1. UNCHANGED <<world, aborted>> /\ j.pc = "placeStop" BY DEF PlaceNewStop, At
<1>2. Errand(p) BY <1>1, Worker
<1>3. /\ TypeOK /\ st \in Brackets /\ disk \in Brackets
      /\ j.last \in Int /\ j.lvl \in Int /\ j.amt \in Int /\ j.why \in Why BY Typed, Here
<1>4. PICK id \in Ids : LET S == IF id = 0 THEN st ELSE Adopts(st, id, j.lvl) IN
         PlaceOrder("stop", j.amt, j.lvl, id) /\ StopDone(p, S, Image(S)) BY DEF PlaceNewStop
<1>. DEFINE S == IF id = 0 THEN st ELSE Adopts(st, id, j.lvl)
<1>5. S \in Brackets /\ S.phase = st.phase /\ S.entryId = st.entryId /\ S.locked = st.locked BY <1>3, StopTyped
<1>. HIDE DEF S
<1>6. PlaceOrder("stop", j.amt, j.lvl, id) /\ StopDone(p, S, Image(S)) BY <1>4 DEF S
<1>7. Env /\ Image(S) \in Brackets BY <1>3, <1>5, <1>6, PlaceTyped, ImageTyped
<1>. QED BY <1>1, <1>2, <1>5, <1>6, <1>7, StopDoneKeeps

----
\* The protection and the sells.

LEMMA ProtectedKeeps ==
  ASSUME IInv, NEW S \in Brackets, Protected(S), Env, UNCHANGED <<world, aborted>> PROVE Keeps
<1>1. PICK c : Leads("run", S, NoBracket, c) /\ Protects(S, c) BY ProtectedLeads
<1>2. May("run", c) BY <1>1, EndsMay DEF Protects, Again, May, RunMay, Managing
<1>. QED BY <1>1, <1>2, Rec, LeadsOn

LEMMA SellDoneKeeps ==
  ASSUME IInv, NEW S \in Brackets, S.locked = st.locked, SellDone(S), Env, UNCHANGED <<world, aborted>>
  PROVE Keeps
<1>1. PICK c : Leads("run", S, Image(S), c) /\ Sold(S, c)
  <2>1. TypeOK /\ Whose BY DEF IInv
  <2>. QED BY <2>1, SellDoneLeads
<1>2. May("run", c) BY <1>1, ArrivedMay DEF May, Sold
<1>. QED BY <1>1, <1>2, ImageTyped, LeadsOn

\* The same bracket with another exit order.
LEMMA ExitTyped ==
  ASSUME TypeOK, NEW id \in Ids
  PROVE  /\ [st EXCEPT !.tp1Id = id] \in Brackets /\ [st EXCEPT !.tp1Id = id].locked = st.locked
         /\ [st EXCEPT !.stopId = 0] \in Brackets /\ [st EXCEPT !.stopId = 0].locked = st.locked
         /\ [st EXCEPT !.stopId = 0, !.tp1Id = 0] \in Brackets
<1>1. st \in Brackets /\ 0 \in Ids BY Rec DEF TypeOK
<1>2. [st EXCEPT !.tp1Id = id] \in Brackets /\ [st EXCEPT !.tp1Id = id].locked = st.locked BY <1>1 DEF Brackets
<1>3. [st EXCEPT !.stopId = 0] \in Brackets /\ [st EXCEPT !.stopId = 0].locked = st.locked BY <1>1 DEF Brackets
<1>4. [st EXCEPT !.stopId = 0, !.tp1Id = 0] \in Brackets BY <1>1 DEF Brackets
<1>. QED BY <1>2, <1>3, <1>4

\* The same bracket in another phase, or with another position.
LEMMA PhaseTyped ==
  ASSUME NEW S \in Brackets, NEW ph \in Phase, NEW n \in Int
  PROVE  /\ [S EXCEPT !.phase = ph] \in Brackets /\ [S EXCEPT !.phase = ph].phase = ph
         /\ [S EXCEPT !.phase = ph].locked = S.locked
         /\ [S EXCEPT !.position = n] \in Brackets /\ [S EXCEPT !.position = n].locked = S.locked
         /\ [S EXCEPT !.phase = ph].entryId = S.entryId
<1>1. [S EXCEPT !.phase = ph] \in Brackets /\ [S EXCEPT !.phase = ph].phase = ph BY DEF Brackets
<1>2. [S EXCEPT !.phase = ph].locked = S.locked /\ [S EXCEPT !.phase = ph].entryId = S.entryId BY DEF Brackets
<1>3. [S EXCEPT !.position = n] \in Brackets /\ [S EXCEPT !.position = n].locked = S.locked BY DEF Brackets
<1>. QED BY <1>1, <1>2, <1>3

LEMMA LowerTyped == ASSUME NEW a \in Int, NEW b \in Int PROVE Lower(a, b) \in Int
  BY DEF Lower

LEMMA placeProtectionKeeps == ASSUME IInv, placeProtection PROVE Keeps
<1>. DEFINE S == [st EXCEPT !.position = Lower(st.filled, coins)]
            why == job["run"].why
<1>1. UNCHANGED <<world, aborted>> /\ job["run"].pc = "protect" BY DEF placeProtection, At
<1>2. /\ TypeOK /\ st \in Brackets /\ disk \in Brackets /\ status \in Statuses /\ why \in Why
      /\ why \notin {"adjust", "kill"} /\ spec \in SpecRec BY Typed, RunHere DEF IInv, Whose
<1>3. S \in Brackets
  <2>1. st.filled \in Int /\ coins \in Int BY <1>2, StateTyped DEF TypeOK
  <2>2. Lower(st.filled, coins) \in Int BY <2>1, LowerTyped
  <2>. QED BY <1>2, <2>2 DEF Brackets
<1>4. /\ Tp1Level \in Int /\ 0 \in Int /\ StopLevel \in Int /\ S.position \in Int /\ Tranche(S.position) \in Int
      /\ "sell" \in Pc /\ "findTp" \in Pc /\ "findStop" \in Pc
  <2>1. S.position \in Int BY <1>3 DEF Brackets
  <2>2. Tranche(S.position) \in Int BY <1>2, <2>1, Quantities
  <2>. HIDE DEF S
  <2>. QED BY <2>1, <2>2, Rec DEF StopLevel, Pc
<1>. HIDE DEF S
<1>5. ASSUME NEW T \in Brackets, Read(TRUE), st' = T, UNCHANGED <<disk, status>>, NEW pc \in {"sell", "findTp", "findStop"},
             NEW amt \in Int, NEW lvl \in Int, Awaits("run", pc, why, 0, amt, lvl)
      PROVE  Keeps
  <2>1. Env /\ Tick(T, disk) BY <1>2, <1>5, ReadTyped DEF Tick
  <2>2. job["run"].why = why OBVIOUS
  <2>. HIDE DEF why
  <2>. QED BY <1>1, <1>2, <1>4, <1>5, <2>1, <2>2, TickAwaits
<1>6. CASE /\ Read(TRUE) /\ st' = [S EXCEPT !.stopPrice = IF spec.stop THEN StopLevel ELSE 0]
           /\ Awaits("run", "sell", why, 0, S.position, Tp1Level) /\ UNCHANGED <<disk, status>>
  <2>. DEFINE l == IF spec.stop THEN StopLevel ELSE 0
  <2>1. l \in Int BY <1>4
  <2>. HIDE DEF l
  <2>2. [S EXCEPT !.stopPrice = l] \in Brackets BY <1>3, <2>1 DEF Brackets
  <2>3. st' = [S EXCEPT !.stopPrice = l] BY <1>6 DEF l
  <2>. HIDE DEF why
  <2>. QED BY <1>4, <1>5, <1>6, <2>2, <2>3
<1>7. CASE /\ Read(TRUE) /\ st' = S /\ UNCHANGED <<disk, status>>
           /\ Awaits("run", "findTp", why, 0, Tranche(S.position), Tp1Level)
  <2>. HIDE DEF why
  <2>. QED BY <1>3, <1>4, <1>5, <1>7
<1>8. CASE Read(TRUE) /\ Protected(S) BY <1>1, <1>2, <1>3, <1>8, ReadTyped, ProtectedKeeps
<1>9. CASE Read(TRUE) /\ st' = S /\ UNCHANGED <<disk, status>> /\ PlaceStop("run", why, 0, S.position, StopLevel)
  <2>. HIDE DEF why
  <2>. QED BY <1>3, <1>4, <1>5, <1>9 DEF PlaceStop
<1>10. CASE Read(FALSE) /\ Fails(st) BY <1>1, <1>2, <1>10, ReadTyped, FailsKeep
<1>. QED BY <1>6, <1>7, <1>8, <1>9, <1>10 DEF placeProtection, S, why

LEMMA FindTpKeeps == ASSUME IInv, FindTp PROVE Keeps
<1>. DEFINE j == job["run"]
<1>1. UNCHANGED <<world, aborted>> /\ j.pc = "findTp" BY DEF FindTp, At
<1>2. /\ TypeOK /\ st \in Brackets /\ disk \in Brackets /\ j.why \in Why /\ j.last \in Int /\ j.amt \in Int
      /\ j.lvl \in Int /\ j.why \notin {"adjust", "kill"} BY Typed, RunHere DEF IInv, Whose
<1>3. ASSUME NEW ok, Read(ok), Tick(st, disk), Awaits("run", "sell", j.why, j.last, j.amt, j.lvl)
      PROVE  Keeps
  <2>1. job["run"].why = j.why OBVIOUS
  <2>2. Env /\ "sell" \in Pc BY <1>2, <1>3, ReadTyped DEF Pc
  <2>. QED BY <1>1, <1>2, <1>3, <2>1, <2>2, TickAwaits
<1>4. ASSUME NEW o \in LiveOf("sell"), Read(TRUE),
             \/ Manage([st EXCEPT !.tp1Id = o], Image([st EXCEPT !.tp1Id = o]), j.last)
             \/ Protected([st EXCEPT !.tp1Id = o])
      PROVE  Keeps
  <2>. DEFINE S == [st EXCEPT !.tp1Id = o]
  <2>1. o \in Ids BY Rec DEF LiveOf
  <2>2. S \in Brackets /\ S.locked = st.locked BY <1>2, <2>1, ExitTyped
  <2>. HIDE DEF S
  <2>3. Image(S) \in Brackets /\ Env BY <1>2, <1>4, <2>2, ImageTyped, ReadTyped
  <2>4. CASE Manage(S, Image(S), j.last) BY <1>1, <1>2, <2>2, <2>3, <2>4, ManageKeeps
  <2>5. CASE Protected(S) BY <1>1, <2>2, <2>3, <2>5, ProtectedKeeps
  <2>. QED BY <1>4, <2>4, <2>5 DEF S
<1>. QED BY <1>3, <1>4 DEF FindTp

LEMMA PlaceSellKeeps == ASSUME IInv, PlaceSell PROVE Keeps
<1>. DEFINE j == job["run"]
<1>1. UNCHANGED <<world, aborted>> /\ j.pc = "sell" BY DEF PlaceSell, At
<1>2. /\ TypeOK /\ st \in Brackets /\ disk \in Brackets /\ j.why \in Why /\ j.last \in Int /\ j.amt \in Int
      /\ j.lvl \in Int /\ j.why \notin {"adjust", "kill"} /\ 0 \in Ids /\ Orders \subseteq Ids
  BY Typed, RunHere, Rec DEF IInv, Whose
<1>3. ASSUME NEW id \in Ids, SellDone([st EXCEPT !.tp1Id = id]), Env
      PROVE  Keeps
  <2>. DEFINE S == [st EXCEPT !.tp1Id = id]
  <2>1. S \in Brackets /\ S.locked = st.locked BY <1>2, ExitTyped
  <2>. HIDE DEF S
  <2>2. SellDone(S) BY <1>3 DEF S
  <2>. QED BY <1>1, <1>3, <2>1, <2>2, SellDoneKeeps
<1>4. CASE SellDone([st EXCEPT !.tp1Id = 0]) /\ UNCHANGED <<book, upsets>> BY <1>2, <1>3, <1>4, CalmTyped
<1>5. ASSUME NEW id \in Orders, PlaceOrder("sell", j.amt, j.lvl, id), SellDone([st EXCEPT !.tp1Id = id])
      PROVE  Keeps BY <1>2, <1>3, <1>5, PlaceTyped
<1>6. CASE PlaceOrder("sell", j.amt, j.lvl, 0) /\ SellThrows
  <2>1. Env BY <1>2, <1>6, PlaceTyped
  <2>2. CASE Fails(st) BY <1>1, <1>2, <2>1, <2>2, FailsKeep
  <2>3. CASE TickThrows(st) BY <1>1, <2>1, <2>3, TickThrowsKeep
  <2>4. CASE Tick(st, disk) /\ Awaits("run", "readHeld", "", j.last, 0, 0)
    <3>1. "readHeld" \in Pc /\ "" \in Why /\ 0 \in Int BY DEF Pc, Why
    <3>. QED BY <1>1, <1>2, <2>1, <2>4, <3>1, TickAwaits
  <2>. QED BY <1>6, <2>2, <2>3, <2>4 DEF SellThrows
<1>. QED BY <1>4, <1>5, <1>6 DEF PlaceSell

----
\* The tick of the monitor.

LEMMA JobAt ==
  ASSUME NEW pc \in Pc, NEW last \in Int, NEW id \in Ids
  PROVE  /\ [Idle EXCEPT !.pc = pc, !.last = last, !.id = id] \in Jobs
         /\ [Idle EXCEPT !.pc = pc, !.last = last, !.id = id].pc = pc
         /\ [Idle EXCEPT !.pc = pc, !.last = last, !.id = id].why = ""
<1>1. [Idle EXCEPT !.pc = pc, !.last = last, !.id = id] \in Jobs BY Rec DEF Jobs
<1>. QED BY <1>1 DEF Idle

LEMMA JobSweeps ==
  ASSUME NEW why \in Why, NEW ids \in SUBSET Orders
  PROVE  /\ [Idle EXCEPT !.pc = "sweep", !.why = why, !.ids = ids] \in Jobs
         /\ [Idle EXCEPT !.pc = "sweep", !.why = why, !.ids = ids].pc = "sweep"
         /\ [Idle EXCEPT !.pc = "sweep", !.why = why, !.ids = ids].why = why
<1>1. [Idle EXCEPT !.pc = "sweep", !.why = why, !.ids = ids] \in Jobs BY Rec DEF Jobs, Pc
<1>. QED BY <1>1 DEF Idle

\* A step of the monitor to an await of the tick with no reason.
LEMMA RunGoes ==
  ASSUME IInv, NEW c \in Jobs, Become("run", c), c.why \in {"", "close", "heal", "stop", "time", "force"},
         c.why = "time" => ~st.locked \/ spec.full \/ job["run"].why = "time",
         c.pc \notin {"idle", "awaitEntry", "dropEntry", "reread"}, Env, UNCHANGED <<world, aborted>>,
         st' \in Brackets, disk' \in Brackets, status' \in Statuses
  PROVE Keeps
<1>1. May("run", c) BY DEF May, RunMay, Managing
<1>. QED BY <1>1, Moves DEF Statuses

LEMMA ReadsTp1Keep ==
  ASSUME IInv, NEW S \in Brackets, NEW last \in Int, ReadsTp1(S, last), st' = S, disk' = disk, status' = status, Env,
         UNCHANGED <<world, aborted>>
  PROVE Keeps
<1>1. st' \in Brackets /\ disk' \in Brackets /\ status' \in Statuses /\ S.tp1Id \in Ids BY Typed DEF Brackets
<1>2. "readTp1" \in Pc /\ "readHeld" \in Pc /\ "" \in Why /\ 0 \in Int BY DEF Pc, Why
<1>3. CASE Become("run", [Idle EXCEPT !.pc = "readTp1", !.last = last, !.id = S.tp1Id])
  <2>. DEFINE id == S.tp1Id
              c == [Idle EXCEPT !.pc = "readTp1", !.last = last, !.id = id]
  <2>0. id \in Ids /\ "readTp1" \in Pc BY <1>1, <1>2
  <2>. HIDE DEF id
  <2>1. c \in Jobs /\ c.pc = "readTp1" /\ c.why = "" BY <2>0, JobAt
  <2>. HIDE DEF c
  <2>2. Become("run", c) BY <1>3 DEF c, id
  <2>. QED BY <1>1, <2>1, <2>2, RunGoes
<1>4. CASE Awaits("run", "readHeld", "", last, 0, 0) BY <1>1, <1>2, <1>4, RunAwaits
<1>. QED BY <1>3, <1>4 DEF ReadsTp1

LEMMA TickStartsKeeps == ASSUME IInv, NEW last \in 1..FinalLevel, TickStarts(last) PROVE Keeps
<1>1. UNCHANGED <<world, st, status, aborted, disk, book, upsets>> /\ TypeOK BY Typed DEF TickStarts
<1>2. /\ last \in Int /\ Env /\ st' \in Brackets /\ disk' \in Brackets /\ status' \in Statuses
      /\ st \in Brackets /\ st.stopId \in Ids
  <2>1. st.stopId \in Ids BY <1>1, StateTyped
  <2>. QED BY <1>1, <2>1, CalmTyped, Typed
<1>3. CASE Become("run", [Idle EXCEPT !.pc = "readStop", !.last = last, !.id = st.stopId])
  <2>. DEFINE id == st.stopId
              c == [Idle EXCEPT !.pc = "readStop", !.last = last, !.id = id]
  <2>1. c \in Jobs /\ c.pc = "readStop" /\ c.why = ""
    <3>1. "readStop" \in Pc /\ id \in Ids BY <1>2 DEF Pc
    <3>. HIDE DEF id
    <3>. QED BY <1>2, <3>1, JobAt
  <2>. HIDE DEF c
  <2>2. Become("run", c) BY <1>3 DEF c
  <2>. QED BY <1>1, <1>2, <2>1, <2>2, RunGoes
<1>4. CASE ReadsTp1(st, last) BY <1>1, <1>2, <1>4, ReadsTp1Keep
<1>. QED BY <1>3, <1>4 DEF TickStarts

LEMMA finalizeKeeps ==
  ASSUME IInv, NEW S \in Brackets, finalizeBracket(S), Env, UNCHANGED <<world, aborted>> PROVE Keeps
<1>. DEFINE ids == Named(S) \ {0}
            c == [Idle EXCEPT !.pc = "sweep", !.why = "close", !.ids = ids]
<1>1. "sweep" \in Pc /\ "close" \in Why /\ "exiting" \in Phase /\ 0 \in Int /\ 0 \in Ids BY Rec DEF Pc, Why, Phase
<1>2. ids \in SUBSET Orders BY ConstantsAssumption DEF Named, Brackets, Ids, Orders
<1>. HIDE DEF ids
<1>3. c \in Jobs /\ c.pc = "sweep" /\ c.why = "close" BY <1>1, <1>2, JobSweeps
<1>. HIDE DEF c
<1>4. Become("run", c) BY DEF finalizeBracket, c, ids
<1>5. [S EXCEPT !.phase = "exiting"] \in Brackets BY <1>1, PhaseTyped
<1>6. st' \in Brackets /\ disk' \in Brackets /\ status' \in Statuses BY <1>5, Typed DEF finalizeBracket
<1>. QED BY <1>3, <1>4, <1>6, RunGoes

LEMMA ReadStopKeeps == ASSUME IInv, ReadStop PROVE Keeps
<1>. DEFINE j == job["run"]
            S == [st EXCEPT !.stopId = 0]
<1>1. UNCHANGED <<world, aborted>> /\ TypeOK /\ st \in Brackets /\ j.last \in Int BY Typed, RunHere DEF ReadStop
<1>2. S \in Brackets BY <1>1, Rec, ExitTyped
<1>. HIDE DEF S
<1>3. CASE Read(TRUE) /\ finalizeBracket(S) BY <1>1, <1>2, <1>3, ReadTyped, finalizeKeeps
<1>4. CASE Read(TRUE) /\ st' = S /\ UNCHANGED <<disk, status>> /\ ReadsTp1(S, j.last)
  BY <1>1, <1>2, <1>4, ReadTyped, ReadsTp1Keep
<1>5. CASE (Read(TRUE) \/ Read(FALSE)) /\ UNCHANGED <<st, disk, status>> /\ ReadsTp1(st, j.last)
  BY <1>1, <1>5, ReadTyped, ReadsTp1Keep
<1>. QED BY <1>3, <1>4, <1>5 DEF ReadStop, S

LEMMA ClosesKeep ==
  ASSUME IInv, NEW S \in Brackets, ClosesFlat(S), Env, UNCHANGED <<world, aborted>> PROVE Keeps
<1>1. status' = "filled" /\ disk' = NoBracket /\ Become("run", Idle) /\ st' = [S EXCEPT !.phase = "flat"]
  BY DEF ClosesFlat, clearPersistedBracket, Ended
<1>2. "flat" \in Phase /\ 0 \in Int BY DEF Phase
<1>3. st' \in Brackets BY <1>1, <1>2, PhaseTyped
<1>. QED BY <1>1, <1>3, Rec, RunEnds, Typed

LEMMA HeldNext ==
  ASSUME IInv, NEW S \in Brackets, NEW D \in Brackets, NEW last \in Int, Tick(S, D),
         Awaits("run", "readHeld", "", last, 0, 0), Env, UNCHANGED <<world, aborted>>
  PROVE Keeps
<1>1. "readHeld" \in Pc BY DEF Pc
<1>2. "" \in Why BY DEF Why
<1>. QED BY <1>1, <1>2, Rec, TickAwaits

LEMMA ReadTp1Keeps == ASSUME IInv, ReadTp1 PROVE Keeps
<1>. DEFINE j == job["run"]
            S == [st EXCEPT !.tp1Id = 0]
            banked == [S EXCEPT !.phase = "tp1_filled"]
            hit == st.stopPrice # 0 /\ j.last <= st.stopPrice
            forced == spec.full /\ st.phase = "protected" /\ (hit \/ aged)
<1>1. UNCHANGED <<world, aborted>> /\ j.pc = "readTp1" BY DEF ReadTp1, At
<1>2. /\ TypeOK /\ st \in Brackets /\ disk \in Brackets /\ status \in Statuses
      /\ j \in Jobs /\ j.last \in Int /\ j.id \in Ids /\ 0 \in Ids
      /\ j.why \notin {"adjust", "kill"} /\ 0 \in Int /\ "tp1_filled" \in Phase
  BY Typed, RunHere, Rec DEF IInv, Whose, Phase
<1>3. S \in Brackets BY <1>2, ExitTyped
<1>. HIDE DEF S
<1>4. banked \in Brackets BY <1>2, <1>3, PhaseTyped
<1>5. Image(banked) \in Brackets BY <1>4, ImageTyped
<1>. HIDE DEF banked
<1>6. Read(TRUE) \/ Read(FALSE) => Env BY <1>2, ReadTyped
<1>7. CASE Read(TRUE) /\ ClosesFlat(S) BY <1>1, <1>3, <1>6, <1>7, ClosesKeep
<1>8. CASE Read(TRUE) /\ Tick(banked, Image(banked)) /\ Awaits("run", "readHeld", "", j.last, 0, 0)
  BY <1>1, <1>2, <1>4, <1>5, <1>6, <1>8, HeldNext
<1>9. CASE Read(TRUE) /\ Tick(S, disk) /\ Awaits("run", "readHeld", "", j.last, 0, 0)
  BY <1>1, <1>2, <1>3, <1>6, <1>9, HeldNext
<1>10. CASE Live(j.id) /\ Read(TRUE) /\ Tick(st, disk) /\ Become("run", [j EXCEPT !.pc = "chase", !.amt = Left(j.id)])
  <2>. DEFINE amt == Left(j.id)
              c == [j EXCEPT !.pc = "chase", !.amt = amt]
  <2>1. amt \in Int
    <3>1. j.id \in Orders BY <1>2, <1>10, ConstantsAssumption DEF Live, Ids, Orders
    <3>. QED BY <1>2, <3>1, StateTyped
  <2>. HIDE DEF amt
  <2>2. c \in Jobs
    <3>1. "chase" \in Pc BY DEF Pc
    <3>. HIDE DEF j
    <3>. QED BY <1>2, <2>1, <3>1 DEF Jobs
  <2>3. c.pc = "chase" /\ c.why = j.why
    <3>. HIDE DEF j
    <3>. QED BY <1>2 DEF Jobs
  <2>4. Become("run", c) BY <1>10 DEF amt
  <2>. HIDE DEF c
  <2>5. May("run", c) BY <1>2, <2>3 DEF May, RunMay, Managing
  <2>6. st' \in Brackets /\ disk' \in Brackets /\ status' \in Statuses BY <1>2, <1>10 DEF Tick
  <2>. QED BY <1>1, <1>6, <1>10, <2>2, <2>4, <2>5, <2>6, Moves DEF Statuses
<1>11. CASE /\ forced /\ Read(TRUE) /\ Tick(st, disk)
            /\ Become("run", [j EXCEPT !.pc = "force", !.why = IF hit THEN "stop" ELSE "time"])
  <2>. DEFINE why == IF hit THEN "stop" ELSE "time"
              c == [j EXCEPT !.pc = "force", !.why = why]
  <2>1. why \in Why /\ why \in {"stop", "time"} BY DEF Why
  <2>. HIDE DEF why
  <2>2. c \in Jobs
    <3>1. "force" \in Pc BY DEF Pc
    <3>. HIDE DEF j
    <3>. QED BY <1>2, <2>1, <3>1 DEF Jobs
  <2>3. c.pc = "force" /\ c.why = why
    <3>. HIDE DEF j
    <3>. QED BY <1>2 DEF Jobs
  <2>4. Become("run", c) BY <1>11 DEF why
  <2>. HIDE DEF c
  <2>5. st' \in Brackets /\ disk' \in Brackets /\ status' \in Statuses BY <1>2, <1>11 DEF Tick
  <2>. QED BY <1>1, <1>6, <1>11, <2>1, <2>2, <2>3, <2>4, <2>5, RunGoes
<1>12. CASE Read(TRUE) /\ TickEnds(st) BY <1>1, <1>2, <1>6, <1>12, TickEndsKeep
<1>13. CASE Read(FALSE) /\ Tick(st, disk) /\ Awaits("run", "readHeld", "", j.last, 0, 0)
  BY <1>1, <1>2, <1>6, <1>13, HeldNext
<1>. QED BY <1>7, <1>8, <1>9, <1>10, <1>11, <1>12, <1>13 DEF ReadTp1, S, banked

----
\* What the resting sells lock is a number.

LEMMA NatSetInduction ==
  ASSUME NEW n \in Nat, NEW S, 0 \in S, \A k \in 0..(n-1) : k \in S => k + 1 \in S
  PROVE \A k \in 0..n : k \in S
<1>. DEFINE T == {k \in 0..n : k \notin S}
<1>1. SUFFICES ASSUME T # {} PROVE FALSE OBVIOUS
<1>2. T \subseteq Nat /\ T # {} BY <1>1
<1>3. \E x \in T : \A y \in T : ~(<<y, x>> \in OpToRel(<, Nat))
  <2>. HIDE DEF T
  <2>. QED BY <1>2, NatLessThanWellFounded, WFMin
<1>4. PICK x \in T : \A y \in T : ~(y < x) BY <1>2, <1>3 DEF OpToRel
<1>5. x # 0 /\ x \in 0..n /\ x - 1 \in 0..(n-1) BY <1>4
<1>6. x - 1 \in S BY <1>4, <1>5
<1>. QED BY <1>4, <1>5, <1>6

\* A recursive function on 0..n whose steps stay in A satisfies its equation.
LEMMA Recursion ==
  ASSUME NEW n \in Nat, NEW A, NEW a \in A, NEW h \in [1..n -> [A -> A]]
  PROVE \E f : Iterates(f, n, A, a, h)
<1>. DEFINE Good(k) == {f \in [0..n -> A] : \A i \in 0..k : f[i] = IF i = 0 THEN a ELSE h[i][f[i - 1]]}
<1>. DEFINE S == {k \in 0..n : Good(k) # {}}
<1>1. 0 \in S
  <2>1. [i \in 0..n |-> a] \in Good(0) OBVIOUS
  <2>. QED BY <2>1
<1>2. ASSUME NEW k \in 0..(n-1), k \in S
      PROVE  k + 1 \in S
  <2>1. PICK f \in [0..n -> A] : \A i \in 0..k : f[i] = IF i = 0 THEN a ELSE h[i][f[i - 1]] BY <1>2
  <2>2. f[k] \in A /\ k + 1 \in 1..n /\ h[k + 1][f[k]] \in A BY <2>1
  <2>. DEFINE g == [f EXCEPT ![k + 1] = h[k + 1][f[k]]]
  <2>3. g \in [0..n -> A] BY <2>2
  <2>4. ASSUME NEW i \in 0..(k + 1)
        PROVE  g[i] = IF i = 0 THEN a ELSE h[i][g[i - 1]]
    <3>1. CASE i = k + 1 BY <2>2, <3>1
    <3>2. CASE i # k + 1
      <4>1. i \in 0..k /\ g[i] = f[i] /\ i \in 0..n BY <2>2, <3>2
      <4>2. i # 0 => g[i - 1] = f[i - 1] BY <4>1, <2>2
      <4>. QED BY <2>1, <4>1, <4>2
    <3>. QED BY <3>1, <3>2
  <2>5. g \in Good(k + 1) BY <2>3, <2>4
  <2>. HIDE DEF Good, g
  <2>6. Good(k + 1) # {} /\ k + 1 \in 0..n BY <2>2, <2>5
  <2>. QED BY <2>6
<1>3. n \in S
  <2>. HIDE DEF S
  <2>1. \A k \in 0..n : k \in S BY <1>1, <1>2, NatSetInduction
  <2>. QED BY <2>1
<1>4. PICK f \in [0..n -> A] : \A i \in 0..n : f[i] = IF i = 0 THEN a ELSE h[i][f[i - 1]] BY <1>3
<1>. QED BY <1>4 DEF Iterates

\* A total goes from order to order.
LEMMA TotalBy ==
  ASSUME NEW f \in [Orders -> Int] PROVE \E F \in [0..MaxOrders -> Int] :
            Total(f) = F[MaxOrders] /\ F[0] = 0 /\ \A i \in 1..MaxOrders : F[i] = F[i - 1] + f[i]
<1>. DEFINE n == MaxOrders
<1>. DEFINE h == [i \in 1..n |-> [x \in Int |-> x + f[i]]]
<1>. DEFINE P(F) == F = [i \in 0..n |-> IF i = 0 THEN 0 ELSE F[i - 1] + f[i]]
<1>1. n \in Nat /\ 0 \in Int /\ h \in [1..n -> [Int -> Int]] BY ConstantsAssumption DEF Orders
<1>2. PICK F \in [0..n -> Int] : F[0] = 0 /\ \A i \in 1..n : F[i] = h[i][F[i - 1]]
  <2>1. \E F : Iterates(F, n, Int, 0, h)
    <3>. HIDE DEF h
    <3>. QED BY <1>1, Recursion
  <2>. HIDE DEF h
  <2>. QED BY <2>1 DEF Iterates
<1>3. \A i \in 1..n : F[i] = F[i - 1] + f[i]
  <2>1. ASSUME NEW i \in 1..n PROVE F[i] = F[i - 1] + f[i]
    <3>1. F[i - 1] \in Int /\ h[i] = [x \in Int |-> x + f[i]] BY <1>1
    <3>. QED BY <1>2, <3>1
  <2>. QED BY <2>1
<1>4. P(F)
  <2>1. \A i \in 0..n : F[i] = IF i = 0 THEN 0 ELSE F[i - 1] + f[i]
    <3>. HIDE DEF h
    <3>. QED BY <1>1, <1>2, <1>3
  <2>2. F = [i \in 0..n |-> F[i]] BY <1>2
  <2>. QED BY <2>1, <2>2
<1>5. PICK G : P(G) /\ Total(f) = G[n] BY <1>4 DEF Total
<1>6. G[0] = 0 /\ \A i \in 1..n : G[i] = G[i - 1] + f[i]
  <2>1. ASSUME NEW i \in 0..n PROVE G[i] = IF i = 0 THEN 0 ELSE G[i - 1] + f[i] BY <1>5
  <2>2. 0 \in 0..n /\ \A i \in 1..n : i \in 0..n /\ i # 0 BY <1>1
  <2>. QED BY <2>1, <2>2
<1>7. \A i \in 0..n : G[i] \in Int
  <2>. DEFINE S == {i \in 0..n : G[i] \in Int}
  <2>1. 0 \in S BY <1>1, <1>6
  <2>2. ASSUME NEW k \in 0..(n - 1), k \in S PROVE k + 1 \in S
    <3>1. k + 1 \in 1..n /\ (k + 1) - 1 = k /\ k + 1 \in 0..n BY <1>1
    <3>2. G[k + 1] = G[k] + f[k + 1] /\ f[k + 1] \in Int BY <1>6, <3>1 DEF Orders
    <3>. QED BY <2>2, <3>1, <3>2
  <2>. HIDE DEF S
  <2>3. \A k \in 0..n : k \in S BY <1>1, <2>1, <2>2, NatSetInduction
  <2>. QED BY <2>3 DEF S
<1>. QED BY <1>5, <1>6, <1>7

LEMMA FreeTyped == ASSUME TypeOK PROVE Locked \in Int /\ Free \in Int
<1>. DEFINE f == [o \in Orders |-> Claim(o)]
<1>1. f \in [Orders -> Int]
  <2>1. \A o \in Orders : Claim(o) \in Int BY StateTyped DEF Claim
  <2>. QED BY <2>1
<1>. HIDE DEF f
<1>2. PICK F \in [0..MaxOrders -> Int] : Total(f) = F[MaxOrders] BY <1>1, TotalBy
<1>3. Total(f) \in Int BY <1>2, Rec
<1>. QED BY <1>3 DEF Locked, Free, f, TypeOK

LEMMA ChaseKeeps == ASSUME IInv, Chase PROVE Keeps
<1>. DEFINE j == job["run"]
<1>1. UNCHANGED <<world, aborted>> /\ j.pc = "chase" BY DEF Chase, At
<1>2. /\ TypeOK /\ st \in Brackets /\ disk \in Brackets /\ status \in Statuses
      /\ j \in Jobs /\ j.why \notin {"adjust", "kill"} BY Typed, RunHere DEF IInv, Whose
<1>3. CASE CancelOrder(j.id, TRUE) /\ Tick(st, disk) /\ Become("run", [j EXCEPT !.pc = "rechase"])
  <2>. DEFINE c == [j EXCEPT !.pc = "rechase"]
  <2>1. c \in Jobs
    <3>1. "rechase" \in Pc BY DEF Pc
    <3>. HIDE DEF j
    <3>. QED BY <1>2, <3>1 DEF Jobs
  <2>2. c.pc = "rechase" /\ c.why = j.why
    <3>. HIDE DEF j
    <3>. QED BY <1>2 DEF Jobs
  <2>. HIDE DEF c
  <2>3. Become("run", c) BY <1>3 DEF c
  <2>4. May("run", c) BY <1>2, <2>2 DEF May, RunMay, Managing
  <2>5. st' \in Brackets /\ disk' \in Brackets /\ status' \in Statuses BY <1>2, <1>3 DEF Tick
  <2>. QED BY <1>1, <1>2, <1>3, <2>1, <2>3, <2>4, <2>5, CancelTyped, Moves DEF Statuses
<1>4. CASE CancelOrder(j.id, FALSE) /\ TickEnds(st) BY <1>1, <1>2, <1>4, CancelTyped, TickEndsKeep
<1>. QED BY <1>3, <1>4 DEF Chase

LEMMA RechaseKeeps == ASSUME IInv, Rechase PROVE Keeps
<1>. DEFINE j == job["run"]
<1>1. UNCHANGED <<world, aborted>> BY DEF Rechase
<1>2. TypeOK /\ st \in Brackets /\ j.amt \in Int /\ j.last \in Int BY Typed, RunHere
<1>3. PICK id \in Ids : PlaceOrder("sell", j.amt, j.last, id) /\ TickEnds([st EXCEPT !.tp1Id = id]) BY DEF Rechase
<1>. DEFINE S == [st EXCEPT !.tp1Id = id]
<1>4. S \in Brackets BY <1>2, ExitTyped
<1>. HIDE DEF S
<1>5. TickEnds(S) /\ Env BY <1>2, <1>3, PlaceTyped DEF S
<1>. QED BY <1>1, <1>4, <1>5, TickEndsKeep

LEMMA ForceExitKeeps == ASSUME IInv, ForceExit PROVE Keeps
<1>. DEFINE j == job["run"]
            S == [st EXCEPT !.tp1Id = 0]
<1>1. UNCHANGED <<world, aborted>> /\ j.pc = "force" BY DEF ForceExit, At
<1>2. /\ TypeOK /\ st \in Brackets /\ disk \in Brackets /\ j.last \in Int /\ j.why \in Why
      /\ j.why \notin {"adjust", "kill"} BY Typed, RunHere DEF IInv, Whose
<1>3. S \in Brackets BY <1>2, Rec, ExitTyped
<1>. HIDE DEF S
<1>4. Env /\ Tick(S, disk) /\ Awaits("run", "forced", j.why, j.last, 0, 0) BY <1>2, CancelTyped DEF ForceExit, S
<1>5. "forced" \in Pc BY DEF Pc
<1>6. job["run"].why = j.why OBVIOUS
<1>. QED BY <1>1, <1>2, <1>3, <1>4, <1>5, <1>6, Rec, TickAwaits

LEMMA HoldsTyped ==
  ASSUME TypeOK, NEW n \in Int
  PROVE bracketPosition(st, n) \in Int BY StateTyped, LowerTyped DEF bracketPosition

LEMMA ForcedExitKeeps == ASSUME IInv, ForcedExit PROVE Keeps
<1>. DEFINE j == job["run"]
            n == bracketPosition(st, coins)
            exiting == [st EXCEPT !.phase = "exiting"]
<1>1. UNCHANGED <<world, aborted>> /\ j.pc = "forced" BY DEF ForcedExit, At
<1>2. /\ TypeOK /\ st \in Brackets /\ disk \in Brackets /\ j.last \in Int
      /\ st.stopPrice \in Int /\ coins \in Int BY Typed, RunHere, StateTyped DEF TypeOK
<1>3. n \in Int /\ exiting \in Brackets
  <2>1. "exiting" \in Phase BY DEF Phase
  <2>. QED BY <1>2, <2>1, HoldsTyped, PhaseTyped
<1>. HIDE DEF n, exiting
<1>4. "findStop" \in Pc /\ "sell" \in Pc /\ "force" \in Why BY DEF Pc, Why
<1>5. CASE Read(TRUE) /\ Tick(st, disk) /\ PlaceStop("run", "force", j.last, n, st.stopPrice)
  BY <1>1, <1>2, <1>3, <1>4, <1>5, ReadTyped, TickAwaits DEF PlaceStop
<1>6. CASE Read(TRUE) /\ Tick(exiting, disk) /\ Awaits("run", "sell", "force", j.last, n, j.last)
  BY <1>1, <1>2, <1>3, <1>4, <1>6, ReadTyped, TickAwaits
<1>7. CASE Read(FALSE) /\ Tick(st, disk) /\ Awaits("run", "readHeld", "", j.last, 0, 0)
  BY <1>1, <1>2, <1>7, ReadTyped, HeldNext
<1>. QED BY <1>5, <1>6, <1>7 DEF ForcedExit, n, exiting

LEMMA ReadHeldKeeps == ASSUME IInv, ReadHeld PROVE Keeps
<1>. DEFINE last == job["run"].last
            n == bracketPosition(st, coins)
            S == [st EXCEPT !.position = n]
<1>1. UNCHANGED <<world, aborted>> BY DEF ReadHeld
<1>2. /\ TypeOK /\ st \in Brackets /\ disk \in Brackets /\ last \in Int /\ spec \in SpecRec /\ coins \in Int
  BY Typed, RunHere DEF TypeOK
<1>3. n \in Int BY <1>2, HoldsTyped
<1>. HIDE DEF n
<1>4. S \in Brackets /\ S.locked = st.locked
  <2>1. "exiting" \in Phase BY DEF Phase
  <2>. QED BY <1>2, <1>3, <2>1, PhaseTyped
<1>. HIDE DEF S
<1>5. /\ Tranche(n) \in Int /\ HealLevel(S) \in Int /\ Entry \in Int /\ "heal" \in Why
      /\ "findTp" \in Pc /\ "findStop" \in Pc /\ Tp1Level \in Int
  <2>1. Tranche(n) \in Int BY <1>2, <1>3, Quantities
  <2>2. S.stopPrice \in Int BY <1>4 DEF Brackets
  <2>3. HealLevel(S) \in Int /\ Entry \in Int BY <2>2 DEF HealLevel, StopLevel, Entry
  <2>. QED BY <2>1, <2>3, Rec DEF Why, Pc
<1>6. Read(TRUE) \/ Read(FALSE) => Env BY <1>2, ReadTyped
<1>7. CASE Read(TRUE) /\ finalizeBracket(S) BY <1>1, <1>4, <1>6, <1>7, finalizeKeeps
<1>8. CASE /\ Read(TRUE) /\ Tick(S, disk)
           /\ Awaits("run", "findTp", "heal", last, IF spec.full THEN n ELSE Tranche(n), Tp1Level)
  <2>. DEFINE amt == IF spec.full THEN n ELSE Tranche(n)
  <2>1. amt \in Int BY <1>3, <1>5
  <2>. HIDE DEF amt
  <2>2. Awaits("run", "findTp", "heal", last, amt, Tp1Level) BY <1>8 DEF amt
  <2>. QED BY <1>1, <1>2, <1>4, <1>5, <1>6, <1>8, <2>1, <2>2, TickAwaits
<1>9. CASE Read(TRUE) /\ Tick(S, disk) /\ PlaceStop("run", "heal", last, n, Entry)
  BY <1>1, <1>2, <1>3, <1>4, <1>5, <1>6, <1>9, TickAwaits DEF PlaceStop
<1>10. CASE Read(TRUE) /\ Tick(S, disk) /\ PlaceStop("run", "heal", last, n, HealLevel(S))
  BY <1>1, <1>2, <1>3, <1>4, <1>5, <1>6, <1>10, TickAwaits DEF PlaceStop
<1>11. CASE Read(TRUE) /\ Manage(S, disk, last) BY <1>1, <1>2, <1>4, <1>6, <1>11, ManageKeeps
<1>12. CASE Read(FALSE) /\ TickThrows(st) BY <1>1, <1>6, <1>12, TickThrowsKeep
<1>. QED BY <1>7, <1>8, <1>9, <1>10, <1>11, <1>12 DEF ReadHeld, S, n

----
\* The cancels, the close, and what happens beside the monitor.

LEMMA SameErrands ==
  ASSUME IInv, job' \in [Procs -> Jobs], \A q \in Procs : job'[q].pc = job[q].pc /\ job'[q].why = job[q].why, Env,
         UNCHANGED <<spec, aborted>>, aged' \in BOOLEAN, coins' \in Int, bought' \in Int, st' \in Brackets,
         st'.phase = st.phase, st'.entryId = st.entryId, disk' \in Brackets, status' = status
  PROVE Keeps
<1>1. TypeOK' BY DEF IInv, TypeOK, Env
<1>2. /\ job'["run"].pc = job["run"].pc /\ job'["run"].why = job["run"].why
      /\ job'["adjust"].pc = job["adjust"].pc /\ job'["adjust"].why = job["adjust"].why
      /\ job'["kill"].pc = job["kill"].pc /\ job'["kill"].why = job["kill"].why BY DEF Procs
<1>3. Whose' /\ Awaited' BY <1>2 DEF IInv, Whose, Awaited
<1>4. NotForgotten' BY <1>2 DEF IInv, NotForgotten, At
<1>5. LockStep BY <1>2 DEF LockStep, GoesOn
<1>. QED BY <1>1, <1>3, <1>4, <1>5 DEF Keeps, IInv

LEMMA JobsStay == ASSUME TypeOK, job' = job
                  PROVE  /\ job' \in [Procs -> Jobs]
                         /\ \A q \in Procs : job'[q].pc = job[q].pc /\ job'[q].why = job[q].why BY DEF TypeOK

LEMMA WorldTyped == ASSUME TypeOK, UNCHANGED world
                    PROVE  spec' = spec /\ aged' \in BOOLEAN /\ coins' \in Int /\ bought' \in Int BY DEF TypeOK, world

LEMMA SweepKeeps == ASSUME IInv, NEW p \in Procs, Sweep(p) PROVE Keeps
<1>. DEFINE o == Min(job[p].ids)
            rest == job[p].ids \ {o}
            c == [job[p] EXCEPT !.ids = rest]
<1>1. UNCHANGED <<world, st, status, aborted, disk>> /\ Become(p, c) BY DEF Sweep
<1>2. TypeOK /\ job[p] \in Jobs /\ rest \in SUBSET Orders BY Typed, Here
<1>3. Env BY <1>2, CancelTyped DEF Sweep
<1>. HIDE DEF rest
<1>4. c \in Jobs /\ c.pc = job[p].pc /\ c.why = job[p].why BY <1>2 DEF Jobs
<1>. HIDE DEF c
<1>5. /\ job' \in [Procs -> Jobs]
      /\ \A q \in Procs : job'[q].pc = job[q].pc /\ job'[q].why = job[q].why BY <1>1, <1>2, <1>4 DEF Become, TypeOK
<1>6. st' \in Brackets /\ disk' \in Brackets BY <1>1, Typed
<1>. QED BY <1>1, <1>2, <1>3, <1>5, <1>6, WorldTyped, SameErrands

LEMMA SweptKeeps == ASSUME IInv, NEW p \in Procs, Swept(p) PROVE Keeps
<1>. DEFINE j == job[p]
            S == Adopts(st, j.id, j.lvl)
<1>1. UNCHANGED <<world, aborted, book, upsets>> /\ j.pc = "sweep" BY DEF Swept, At
<1>2. /\ TypeOK /\ st \in Brackets /\ disk \in Brackets /\ status \in Statuses
      /\ j.id \in Ids /\ j.lvl \in Int /\ 0 \in Ids BY Typed, Here, Rec
<1>3. Env BY <1>1, <1>2, CalmTyped
<1>4. S \in Brackets /\ S.phase = st.phase /\ S.entryId = st.entryId /\ S.locked = st.locked BY <1>2, StopTyped
<1>. HIDE DEF S
<1>5. Image(S) \in Brackets BY <1>4, ImageTyped
<1>6. CASE j.why \notin {"close", "kill"} /\ StopDone(p, S, Image(S))
  <2>1. Errand(p) BY <1>1, <1>6 DEF Errand, IInv, Whose, Procs
  <2>. QED BY <1>1, <1>3, <1>4, <1>5, <1>6, <2>1, StopDoneKeeps
<1>7. CASE j.why = "close" /\ Tick([st EXCEPT !.stopId = 0, !.tp1Id = 0], disk) /\ Awaits(p, "balance", "", 0, 0, 0)
  <2>1. p = "run" BY <1>1, <1>7 DEF IInv, Whose, Procs
  <2>2. [st EXCEPT !.stopId = 0, !.tp1Id = 0] \in Brackets BY <1>2, ExitTyped
  <2>3. "balance" \in Pc BY DEF Pc
  <2>4. "" \in Why BY DEF Why
  <2>. QED BY <1>1, <1>2, <1>3, <1>7, <2>1, <2>2, <2>3, <2>4, Rec, TickAwaits
<1>8. CASE /\ j.why = "kill" /\ st' = [st EXCEPT !.phase = "aborted"]
           /\ clearPersistedBracket /\ Become(p, Idle) /\ UNCHANGED status
  <2>1. p = "kill" BY <1>1, <1>8 DEF IInv, Whose, Procs
  <2>2. "aborted" \in Phase /\ "aborted" \notin Holding BY DEF Phase, Holding
  <2>3. st' \in Brackets /\ st'.phase = "aborted" /\ st'.entryId = st.entryId /\ disk' \in Brackets
    BY <1>2, <1>8, <2>2, PhaseTyped, Rec DEF clearPersistedBracket
  <2>4. /\ job' \in [Procs -> Jobs] /\ job'["kill"] = Idle
        /\ job'["run"] = job["run"] /\ job'["adjust"] = job["adjust"]
    BY <1>2, <1>8, <2>1, Rec DEF Become, TypeOK, Procs
  <2>5. TypeOK' BY <1>1, <1>2, <1>3, <1>8, <2>3, <2>4 DEF TypeOK, Env, world
  <2>6. Whose' /\ Awaited'
    <3>0. Idle.pc = "idle" BY DEF Idle
    <3>1. job'["kill"].pc = "idle" BY <2>4, <3>0
    <3>. QED BY <2>3, <2>4, <3>1 DEF IInv, Whose, Awaited
  <2>7. NotForgotten' /\ LockStep BY <2>2, <2>3, <2>4 DEF NotForgotten, LockStep, GoesOn
  <2>. QED BY <2>5, <2>6, <2>7 DEF Keeps, IInv
<1>. QED BY <1>6, <1>7, <1>8 DEF Swept, S

LEMMA BalanceKeeps == ASSUME IInv, Balance PROVE Keeps
<1>. DEFINE n == bracketPosition(st, Free)
<1>1. UNCHANGED <<world, aborted>> BY DEF Balance
<1>2. TypeOK /\ st \in Brackets /\ disk \in Brackets BY Typed
<1>3. n \in Int BY <1>2, FreeTyped, HoldsTyped
<1>. HIDE DEF n
<1>4. CASE Read(TRUE) /\ ClosesFlat(st) BY <1>1, <1>2, <1>4, ReadTyped, ClosesKeep
<1>5. CASE Read(TRUE) /\ Tick(st, disk) /\ Awaits("run", "closing", "", 0, n, 0)
  <2>1. "closing" \in Pc BY DEF Pc
  <2>2. "" \in Why BY DEF Why
  <2>. QED BY <1>1, <1>2, <1>3, <1>5, <2>1, <2>2, Rec, ReadTyped, TickAwaits
<1>6. CASE Read(FALSE) /\ TickThrows(st) BY <1>1, <1>2, <1>6, ReadTyped, TickThrowsKeep
<1>. QED BY <1>4, <1>5, <1>6 DEF Balance, n

LEMMA SellToUsdKeeps == ASSUME IInv, SellToUsd PROVE Keeps
<1>1. UNCHANGED <<world, aborted>> BY DEF SellToUsd
<1>2. TypeOK /\ st \in Brackets /\ disk \in Brackets /\ job["run"].amt \in Int BY Typed, RunHere
<1>3. ASSUME NEW id \in Orders, PlaceOrder("sell", job["run"].amt, Tp1Level, id), Tick(st, disk),
             Awaits("run", "closed", "", 0, 0, 0)
      PROVE  Keeps
  <2>1. "closed" \in Pc BY DEF Pc
  <2>2. "" \in Why BY DEF Why
  <2>. QED BY <1>1, <1>2, <1>3, <2>1, <2>2, Rec, PlaceTyped, TickAwaits
<1>4. CASE PlaceOrder("sell", job["run"].amt, Tp1Level, 0) /\ TickThrows(st)
  BY <1>1, <1>2, <1>4, Rec, PlaceTyped, TickThrowsKeep
<1>. QED BY <1>3, <1>4 DEF SellToUsd

LEMMA CloseKeeps == ASSUME IInv, Close PROVE Keeps
  BY Typed, CalmTyped, ClosesKeep DEF Close

LEMMA KillKeeps == ASSUME IInv, Kill PROVE Keeps
<1>. DEFINE ids == Named(st) \ {0}
            c == [Idle EXCEPT !.pc = "sweep", !.why = "kill", !.ids = ids]
<1>1. UNCHANGED <<world, st, status, disk, book>> /\ aborted' = TRUE /\ upsets' \in Upsets BY DEF Kill, Upset
<1>2. TypeOK /\ st.entryId \in Ids /\ st.stopId \in Ids /\ st.tp1Id \in Ids BY Typed, StateTyped
<1>3. ids \in SUBSET Orders BY <1>2, ConstantsAssumption DEF Named, Ids, Orders
<1>4. Become("kill", c) BY DEF Kill
<1>. HIDE DEF ids
<1>5. c \in Jobs /\ c.pc = "sweep" /\ c.why = "kill"
  <2>1. "kill" \in Why BY DEF Why
  <2>. QED BY <1>3, <2>1, JobSweeps
<1>. HIDE DEF c
<1>6. /\ job' \in [Procs -> Jobs] /\ job'["kill"] = c
      /\ job'["run"] = job["run"] /\ job'["adjust"] = job["adjust"] BY <1>2, <1>4, <1>5 DEF Become, TypeOK, Procs
<1>7. TypeOK' BY <1>1, <1>2, <1>6 DEF TypeOK, world
<1>8. Whose' /\ Awaited' /\ NotForgotten' /\ LockStep
  BY <1>1, <1>5, <1>6 DEF IInv, Whose, Awaited, NotForgotten, LockStep, GoesOn
<1>. QED BY <1>7, <1>8 DEF Keeps, IInv

LEMMA LockKeeps == ASSUME IInv, NEW on \in BOOLEAN, Lock(on) PROVE Keeps
<1>1. UNCHANGED <<world, status, aborted, job, book>> /\ upsets' \in Upsets BY DEF Lock, Upset
<1>2. TypeOK /\ st' = [st EXCEPT !.locked = on] /\ disk' = Image(st') BY Typed DEF Lock, persistBracket
<1>3. st' \in Brackets /\ st'.phase = st.phase /\ st'.entryId = st.entryId BY <1>2 DEF TypeOK, Brackets
<1>4. disk' \in Brackets /\ Env BY <1>1, <1>2, <1>3, ImageTyped DEF Env, TypeOK
<1>. QED BY <1>1, <1>2, <1>3, <1>4, WorldTyped, JobsStay, SameErrands

LEMMA AdjustKeeps == ASSUME IInv, NEW lvl \in StopLevel..Entry, Adjust(lvl) PROVE Keeps
<1>. DEFINE S == [st EXCEPT !.stopPrice = lvl]
<1>1. UNCHANGED <<world, aborted, book>> /\ upsets' \in Upsets BY DEF Adjust, Upset
<1>2. /\ TypeOK /\ st \in Brackets /\ disk \in Brackets /\ lvl \in Int /\ 0 \in Int /\ spec \in SpecRec
      /\ "adjust" \in Procs /\ "adjust" \in Why
  <2>1. lvl \in Int BY DEF StopLevel, Entry
  <2>2. "adjust" \in Procs /\ "adjust" \in Why BY DEF Procs, Why
  <2>. QED BY <2>1, <2>2, Rec, Typed, RunHere
<1>3. S \in Brackets /\ S.phase = st.phase /\ S.entryId = st.entryId BY <1>2 DEF Brackets
<1>4. Env /\ Image(S) \in Brackets BY <1>1, <1>2, <1>3, ImageTyped DEF Env, TypeOK
<1>. HIDE DEF S
<1>5. CASE Unstop("adjust", S, disk, "adjust", 0, lvl)
  <2>1. PICK c : Leads("adjust", S, disk, c) /\ Unstopping(S, "adjust", lvl, c) BY <1>2, <1>3, <1>5, UnstopLeads
  <2>2. c.why = "adjust" /\ c.pc \in {"findStop", "unstop"} /\ st'.phase = S.phase BY <2>1 DEF Unstopping, Freeing
  <2>3. st'.entryId = S.entryId /\ status' = status BY <2>1 DEF Leads, Alike
  <2>4. May("adjust", c) BY <1>3, <2>2, <2>3 DEF May, AdjustMay
  <2>. QED BY <1>1, <1>2, <1>3, <1>4, <2>1, <2>4, LeadsOn
<1>6. CASE Tick(S, Image(S)) /\ UNCHANGED job
  BY <1>1, <1>2, <1>3, <1>4, <1>6, WorldTyped, JobsStay, SameErrands DEF Tick
<1>. QED BY <1>5, <1>6 DEF Adjust, S

\* A bracket starts, or starts again, with the coroutines J beside it.
LEMMA runBracketKeeps ==
  ASSUME IInv, NEW S \in Starts, NEW J \in [Procs -> Jobs], runBracket(S, J),
         J["adjust"] = job["adjust"] \/ J["adjust"] = Idle, J["kill"] = job["kill"] \/ J["kill"] = Idle,
         UNCHANGED <<spec, coins, bought, aged, book>>, upsets' = upsets \/ upsets' \in Upsets
  PROVE Keeps
<1>. DEFINE pc == FirstAwait(S)
            named == [S EXCEPT !.client = TRUE]
            why == IF pc = "protect" THEN "again" ELSE ""
            c == [Idle EXCEPT !.pc = pc, !.why = why]
<1>1. /\ status' = "executing" /\ aborted' = FALSE /\ job' = [J EXCEPT !["run"] = c]
      /\ \/ st' = named /\ disk' = Image(named)
         \/ st' = S /\ disk' = disk /\ pc # "enter" BY DEF runBracket, persistBracket
<1>2. /\ pc \in {"awaitEntry", "find", "enter", "protect", "asleep"} /\ pc \in Pc
      /\ (pc = "awaitEntry" => S.entryId # 0) /\ why \in {"", "again"} /\ why \in Why BY DEF FirstAwait, Pc, Why
<1>3. named \in Brackets /\ named.entryId = S.entryId /\ (pc # "enter" => S \in Brackets) BY Called
<1>. HIDE DEF pc, named, why
<1>4. c \in Jobs /\ c.pc = pc /\ c.why = why
  <2>1. c \in Jobs BY <1>2, Rec DEF Jobs
  <2>. QED BY <2>1 DEF Idle
<1>. HIDE DEF c
<1>5. /\ job' \in [Procs -> Jobs] /\ job'["run"] = c
      /\ job'["adjust"] = J["adjust"] /\ job'["kill"] = J["kill"] BY <1>1, <1>4 DEF Procs
<1>6. st' \in Brackets /\ disk' \in Brackets /\ st'.entryId = S.entryId
  <2>1. disk \in Brackets /\ Image(named) \in Brackets BY <1>3, Typed, ImageTyped
  <2>. QED BY <1>1, <1>3, <2>1
<1>7. TypeOK' BY <1>1, <1>5, <1>6 DEF IInv, TypeOK
<1>8. Whose'
  <2>1. Idle.pc = "idle" BY DEF Idle
  <2>. QED BY <1>2, <1>4, <1>5, <2>1 DEF IInv, Whose
<1>9. Awaited' /\ NotForgotten' /\ LockStep
  BY <1>2, <1>4, <1>5, <1>6 DEF Awaited, NotForgotten, At, LockStep, Managing
<1>. QED BY <1>7, <1>8, <1>9 DEF Keeps, IInv

LEMMA ConfirmKeeps == ASSUME IInv, Confirm PROVE Keeps
<1>. QED BY Starters, runBracketKeeps DEF Confirm, IInv, TypeOK

LEMMA ReviveKeeps == ASSUME IInv, Revive PROVE Keeps
<1>1. job \in [Procs -> Jobs] /\ st \in Brackets BY DEF IInv, TypeOK
<1>. QED BY <1>1, Starters, runBracketKeeps DEF Revive

LEMMA RestartKeeps == ASSUME IInv, Restart PROVE Keeps
<1>1. NoJobs \in [Procs -> Jobs] /\ \A q \in Procs : NoJobs[q] = Idle BY Rec DEF NoJobs
<1>2. "run" \in Procs /\ "adjust" \in Procs /\ "kill" \in Procs BY DEF Procs
<1>3. upsets' \in Upsets /\ UNCHANGED <<spec, coins, bought, aged, book>> BY DEF Restart, Upset
<1>4. CASE Resumes BY <1>1, <1>2, <1>3, <1>4, Typed, Starters, runBracketKeeps DEF Resumes
<1>5. CASE /\ st' = NoBracket /\ job' = NoJobs /\ status' = "gone" /\ UNCHANGED <<aborted, disk>>
  <2>1. TypeOK' BY <1>1, <1>3, <1>5, Rec DEF IInv, TypeOK
  <2>2. Idle.pc = "idle" /\ Idle.why = "" /\ NoBracket.phase = "none" BY DEF Idle, NoBracket
  <2>3. job'["run"] = Idle /\ job'["adjust"] = Idle /\ job'["kill"] = Idle BY <1>1, <1>2, <1>5
  <2>4. Whose' /\ Awaited' /\ LockStep BY <2>2, <2>3 DEF Whose, Awaited, LockStep, Managing
  <2>5. NotForgotten' BY <1>5, <2>2 DEF NotForgotten, Holding
  <2>. QED BY <2>1, <2>4, <2>5 DEF Keeps, IInv
<1>. QED BY <1>4, <1>5 DEF Restart

LEMMA TradeKeeps == ASSUME IInv, NEW o \in Orders, Trade(o) PROVE Keeps
<1>1. TypeOK /\ UNCHANGED <<spec, st, status, aborted, job, disk, aged, upsets>> BY Typed DEF Trade
<1>2. coins' \in Int /\ bought' \in Int BY <1>1 DEF Trade, TypeOK
<1>3. book' \in [Orders -> OrderRec]
  <2>1. book[o] \in OrderRec /\ book \in [Orders -> OrderRec] BY <1>1 DEF TypeOK
  <2>. DEFINE got == book[o].got + 1
              now == IF Left(o) = 1 THEN "filled" ELSE book[o].st
              r == [book[o] EXCEPT !.got = got, !.st = now]
  <2>2. r \in OrderRec
    <3>1. got \in Int /\ now \in {"none", "live", "filled", "cancelled"} BY <2>1 DEF OrderRec
    <3>. HIDE DEF got, now
    <3>. QED BY <2>1, <3>1 DEF OrderRec
  <2>3. book' = [book EXCEPT ![o] = r]
    <3>1. book' = [book EXCEPT ![o].got = @ + 1, ![o].st = IF Left(o) = 1 THEN "filled" ELSE @] BY DEF Trade
    <3>. QED BY <2>1, <3>1
  <2>. HIDE DEF r
  <2>. QED BY <2>1, <2>2, <2>3
<1>4. st' \in Brackets /\ disk' \in Brackets /\ Env /\ aged' \in BOOLEAN BY <1>1, <1>3 DEF TypeOK, Env
<1>. QED BY <1>1, <1>2, <1>4, JobsStay, SameErrands

LEMMA CancelledElsewhereKeeps == ASSUME IInv, NEW o \in Orders, CancelledElsewhere(o) PROVE Keeps
<1>1. TypeOK /\ UNCHANGED <<world, st, status, aborted, job, disk>> BY Typed DEF CancelledElsewhere
<1>2. Env
  <2>1. book \in [Orders -> OrderRec] /\ book' = [book EXCEPT ![o].st = "cancelled"]
    BY <1>1 DEF CancelledElsewhere, Gone, TypeOK
  <2>2. [book[o] EXCEPT !.st = "cancelled"] \in OrderRec BY <2>1 DEF OrderRec
  <2>. QED BY <2>1, <2>2 DEF CancelledElsewhere, Upset, Env
<1>3. st' \in Brackets /\ disk' \in Brackets BY <1>1 DEF TypeOK
<1>. QED BY <1>1, <1>2, <1>3, JobsStay, WorldTyped, SameErrands

LEMMA PositionDeadlineKeeps == ASSUME IInv, PositionDeadline PROVE Keeps
<1>1. /\ TypeOK /\ UNCHANGED <<spec, st, status, aborted, job, disk, book, coins, bought, upsets>>
      /\ aged' = TRUE BY Typed DEF PositionDeadline
<1>2. st' \in Brackets /\ disk' \in Brackets /\ Env /\ aged' \in BOOLEAN /\ coins' \in Int /\ bought' \in Int
  BY <1>1 DEF TypeOK, Env
<1>. QED BY <1>1, <1>2, JobsStay, SameErrands

LEMMA StutterKeeps == ASSUME IInv, UNCHANGED vars PROVE Keeps
  BY DEF vars, Keeps, IInv, TypeOK, Whose, Awaited, NotForgotten, At, LockStep, GoesOn

LEMMA NextKeeps == IInv /\ [Next]_vars => Keeps
<1>1. SUFFICES ASSUME IInv, [Next]_vars PROVE Keeps OBVIOUS
<1>2. ASSUME RunStep PROVE Keeps
  BY <1>1, <1>2, FindEntryKeeps, EnterMarketKeeps, PollEntryKeeps, DropEntryKeeps, RereadEntryKeeps,
     placeProtectionKeeps, FindTpKeeps, PlaceSellKeeps, ReadStopKeeps, ReadTp1Keeps, ChaseKeeps,
     RechaseKeeps, ForceExitKeeps, ForcedExitKeeps, ReadHeldKeeps, BalanceKeeps, SellToUsdKeeps,
     CloseKeeps, TickStartsKeeps DEF RunStep
<1>3. ASSUME NEW p \in Procs, StopStep(p) PROVE Keeps
  BY <1>1, <1>3, CancelStopKeeps, StopFreedKeeps, FindStopKeeps, PlaceNewStopKeeps, SweepKeeps,
     SweptKeeps DEF StopStep
<1>4. ASSUME NEW o \in Orders, Trade(o) \/ CancelledElsewhere(o) PROVE Keeps
  BY <1>1, <1>4, TradeKeeps, CancelledElsewhereKeeps
<1>. QED BY <1>1, <1>2, <1>3, <1>4, ConfirmKeeps, KillKeeps, LockKeeps, AdjustKeeps, ReviveKeeps,
     RestartKeeps, PositionDeadlineKeeps, StutterKeeps DEF Next

LEMMA InitHolds == Init => IInv
<1>1. SUFFICES ASSUME Init PROVE IInv OBVIOUS
<1>2. job = [p \in Procs |-> Idle] /\ st = NoBracket /\ st.phase = "none" BY <1>1 DEF Init, NoBracket
<1>3. TypeOK BY <1>1, Rec DEF Init, TypeOK
<1>4. job["run"] = Idle /\ job["adjust"] = Idle /\ job["kill"] = Idle BY <1>2 DEF Procs
<1>5. Idle.pc = "idle" /\ Idle.why = "" BY DEF Idle
<1>6. Whose /\ Awaited BY <1>4, <1>5 DEF Whose, Awaited
<1>7. NotForgotten BY <1>2 DEF NotForgotten, Holding
<1>. QED BY <1>3, <1>6, <1>7 DEF IInv

\* The invariant of every bracket: types, the errands of its coroutines, an entry's id.
THEOREM InvariantHolds == Spec => []IInv
<1>1. IInv /\ [Next]_vars => IInv' BY NextKeeps DEF Keeps
<1>. QED BY InitHolds, <1>1, PTL DEF Spec

\* Whatever happens to a bracket, its state, its file, its coroutines and its orders keep
\* their types.
THEOREM TypeCorrect == Spec => []TypeOK
<1>1. IInv => TypeOK BY DEF IInv
<1>. QED BY InvariantHolds, <1>1, PTL

\* No bracket that holds a position is without a coroutine: runBracket() (crypto.ts) ends
\* only when it closed, was killed, or failed in the way that the watchdog revives.
THEOREM NeverForgotten == Spec => []NotForgotten
<1>1. IInv => NotForgotten BY DEF IInv
<1>. QED BY InvariantHolds, <1>1, PTL

\* Once a bracket is locked, no step of its tick begins a scale-out, a final exit, a ratchet
\* or a time-stop, but for the time-stop after a ratchet that was under way.
THEOREM LockIsHeld == Spec => LockHolds
<1>1. IInv /\ [Next]_vars => [st.locked /\ ~spec.full /\ Managing(job'["run"]) => GoesOn(job["run"], job'["run"])]_vars
  BY NextKeeps DEF Keeps, LockStep
<1>. QED BY InvariantHolds, <1>1, PTL DEF Spec, LockHolds

LEMMA LostStays == ASSUME upsets \subseteq upsets', LostBoth PROVE LostBoth'
  BY DEF LostBoth

LEMMA PassesPresent == ASSUME Absent, Passes PROVE status \notin {"pending", "gone"}
<1>1. NoBracket.phase = "none" /\ ~(NoBracket.filled > 0) BY DEF NoBracket
<1>. QED BY <1>1 DEF Absent, Passes

LEMMA NoNewBuyKeeps ==
  ASSUME NoNewBuy, bought' = bought
  PROVE  /\ LiveOf("buy")' \subseteq LiveOf("buy")
         /\ \A o \in LiveOf("buy")' : Left(o)' = Left(o)
         /\ Unbought => Unbought'
         /\ OneEntry => OneEntry'
         /\ NoFault' => NoFault
<1>1. LiveOf("buy")' \subseteq LiveOf("buy") BY DEF NoNewBuy, LiveOf, Live
<1>2. \A o \in LiveOf("buy")' : Left(o)' = Left(o) BY DEF NoNewBuy, LiveOf, Live, Left
<1>3. Unbought => Unbought' BY <1>1 DEF Unbought
<1>4. OneEntry => OneEntry' BY <1>1, <1>2 DEF OneEntry
<1>5. NoFault' => NoFault BY DEF NoNewBuy, NoFault
<1>. QED BY <1>1, <1>2, <1>3, <1>4, <1>5

LEMMA PlainEnters == ASSUME EInv, Plain PROVE EInv'
<1>1. upsets \subseteq upsets' /\ NoNewBuy /\ bought' = bought BY DEF Plain, NoNewBuy
<1>2. CASE LostBoth BY <1>1, <1>2, LostStays DEF EInv
<1>3. CASE Unsent /\ OneEntry /\ Absent
  <2>1. /\ Unbought => Unbought'
        /\ OneEntry' /\ (NoFault' => NoFault) BY <1>1, <1>3, NoNewBuyKeeps
  <2>2. CASE UNCHANGED <<st, status, job, disk>>
    <3>1. Unsent' BY <1>3, <2>1, <2>2 DEF Unsent
    <3>2. Absent' BY <1>3, <2>2 DEF Absent
    <3>. QED BY <2>1, <3>1, <3>2 DEF EInv
  <2>3. ASSUME Passes, NEW p \in Procs, Goes(p) PROVE EInv'
    <3>1. status \notin {"pending", "gone"} BY <1>3, <2>3, PassesPresent
    <3>2. status' \notin {"pending", "gone"} BY <2>3, <3>1 DEF Goes
    <3>3. Entering(job'["run"].pc) => Entering(job["run"].pc) BY <2>3 DEF Goes
    <3>4. Unsent' BY <1>3, <2>1, <2>3, <3>1, <3>2, <3>3 DEF Unsent, Goes, Kept
    <3>5. Absent' BY <3>2 DEF Absent
    <3>. QED BY <2>1, <3>4, <3>5 DEF EInv
  <2>. QED BY <2>2, <2>3 DEF Plain
<1>. QED BY <1>2, <1>3 DEF EInv

LEMMA ReadSends == ASSUME NEW ok, Read(ok) PROVE NoNewBuy
  BY DEF Read, Calm, Upset, NoNewBuy

LEMMA CancelSends == ASSUME TypeOK, NEW o, NEW ok, CancelOrder(o, ok) PROVE NoNewBuy
<1>1. Gone(o) \/ book' = book BY DEF CancelOrder
<1>2. upsets \subseteq upsets' BY DEF CancelOrder, Calm, Upset
<1>3. Gone(o) => \A x \in Orders : book'[x].st = "live" => book'[x] = book[x] BY DEF Gone, TypeOK, OrderRec
<1>. QED BY <1>1, <1>2, <1>3 DEF NoNewBuy

LEMMA PlaceSends ==
  ASSUME TypeOK, NEW kind \in {"stop", "sell"}, NEW amt, NEW lvl, NEW id, PlaceOrder(kind, amt, lvl, id)
  PROVE NoNewBuy
<1>. DEFINE n == Min(Unused)
            new == [kind |-> kind, st |-> "live", amt |-> amt, got |-> 0, lvl |-> lvl]
            accepted == book' = [o \in Orders |-> IF o = n THEN new ELSE IF o \in Unused THEN NoOrder ELSE book[o]]
<1>1. accepted \/ book' = book BY DEF PlaceOrder
<1>2. upsets \subseteq upsets' BY DEF PlaceOrder, Calm, Upset
<1>3. new.kind # "buy" /\ NoOrder.kind # "buy" BY DEF NoOrder
<1>. HIDE DEF n, new
<1>4. accepted => NoNewBuy BY <1>2, <1>3 DEF NoNewBuy
<1>. HIDE DEF accepted
<1>. QED BY <1>1, <1>2, <1>4 DEF NoNewBuy

LEMMA CalmSends == ASSUME UNCHANGED <<book, upsets>> PROVE NoNewBuy
  BY DEF NoNewBuy

LEMMA Going ==
  ASSUME TypeOK, NEW p \in Procs, NEW c, Become(p, c), p = "run" => ~Entering(c.pc), st'.entryId = st.entryId,
         Kept(disk'), status' \in {status, "filled", "skipped", "failed", "executing"}
  PROVE Goes(p) BY DEF Become, Goes, TypeOK, Procs

LEMMA AwaitGoes ==
  ASSUME TypeOK, NEW p \in Procs, NEW pc, NEW why, NEW last, NEW amt, NEW lvl, Awaits(p, pc, why, last, amt, lvl),
         ~Entering(pc), st'.entryId = st.entryId, Kept(disk'), status' = status
  PROVE Goes(p)
<1>. DEFINE c == [Idle EXCEPT !.pc = pc, !.why = why, !.last = last, !.amt = amt, !.lvl = lvl]
<1>1. Become(p, c) BY DEF Awaits
<1>2. c.pc = pc BY DEF Idle
<1>. HIDE DEF c
<1>. QED BY <1>1, <1>2, Going

LEMMA EndsGo == ASSUME NEW c, Ends(c) PROVE ~Entering(c.pc)
  BY EndsTyped DEF Entering

LEMMA ManagedGo == ASSUME NEW S, NEW c, Managed(S, c) PROVE ~Entering(c.pc)
<1>1. \A why, lvl : Unstopping(S, why, lvl, c) => ~Entering(c.pc) BY DEF Unstopping, Freeing, Entering
<1>. QED BY <1>1, EndsGo DEF Managed, TimeStopping

LEMMA ArrivedGo == ASSUME NEW why, NEW S, NEW c, Arrived(why, S, c) PROVE ~Entering(c.pc)
<1>1. TimeStopping(S, c) => ~Entering(c.pc) BY ManagedGo DEF Managed
<1>2. Idle.pc = "idle" BY DEF Idle
<1>. QED BY <1>1, <1>2, EndsGo, ManagedGo DEF Arrived, Again, Entering

LEMMA LeadsGo ==
  ASSUME TypeOK, NEW p \in Procs, NEW S, S.entryId = st.entryId, NEW D, Kept(D), NEW c, Leads(p, S, D, c),
         p = "run" => ~Entering(c.pc)
  PROVE Goes(p)
<1>1. Kept(disk') BY DEF Leads, Alike, Kept
<1>. QED BY <1>1, Going DEF Leads, Alike

LEMMA ImageKept == ASSUME NEW S, S.entryId = st.entryId PROVE Kept(Image(S)) /\ Kept(NoBracket) /\ Kept(disk)
  BY ImageOf DEF Kept

LEMMA RunPlain ==
  ASSUME NEW p \in Procs, job[p].pc # "idle", Goes(p), NoNewBuy, UNCHANGED world
  PROVE Plain BY DEF Plain, Passes, world

LEMMA TickEndsGoes ==
  ASSUME TypeOK, NEW S \in Brackets, S.entryId = st.entryId, TickEnds(S) PROVE Goes("run")
<1>1. PICK c : Leads("run", S, disk, c) /\ Ends(c) BY TickEndsLeads
<1>. QED BY <1>1, EndsGo, LeadsGo, ImageKept, RunHere DEF Procs

LEMMA MonitorGoes ==
  ASSUME TypeOK, Monitor, st'.entryId = st.entryId, Kept(disk'), status' = status PROVE Goes("run")
<1>1. PICK c : Become("run", c) /\ Ends(c) BY MonitorEnds
<1>. QED BY <1>1, EndsGo, Going DEF Procs

LEMMA EndedGoes ==
  ASSUME TypeOK, Ended, st'.entryId = st.entryId, Kept(disk'), status' \in {status, "filled", "skipped", "failed"}
  PROVE Goes("run")
<1>1. Become("run", Idle) /\ ~Entering(Idle.pc) /\ "run" \in Procs BY DEF Ended, Idle, Entering, Procs
<1>. QED BY <1>1, Going

LEMMA FailsGoes == ASSUME TypeOK, Fails(st) PROVE Goes("run")
  BY ImageKept, EndedGoes DEF Fails, persistBracket

LEMMA TickThrowsGoes == ASSUME TypeOK, TickThrows(st) PROVE Goes("run")
  BY ImageKept, MonitorGoes DEF TickThrows

LEMMA failBracketGoes == ASSUME TypeOK, failBracket PROVE Goes("run")
<1>1. st'.entryId = st.entryId BY DEF failBracket, TypeOK, Brackets
<1>. QED BY <1>1, ImageKept, EndedGoes DEF failBracket, clearPersistedBracket

LEMMA ClosesGoes ==
  ASSUME TypeOK, NEW S \in Brackets, S.entryId = st.entryId, ClosesFlat(S) PROVE Goes("run")
<1>1. st'.entryId = st.entryId BY DEF ClosesFlat, Brackets
<1>. QED BY <1>1, ImageKept, EndedGoes DEF ClosesFlat, clearPersistedBracket

LEMMA EntryLoopGoes == ASSUME TypeOK, EntryLoop(st), UNCHANGED <<disk, status>> PROVE Goes("run")
<1>1. PICK c \in Jobs : Become("run", c) /\ (c = Idle \/ c.pc = "awaitEntry") BY EntryLoopOf
<1>2. Idle.pc = "idle" BY DEF Idle
<1>3. ~Entering(c.pc) BY <1>1, <1>2 DEF Entering
<1>. QED BY <1>1, <1>3, ImageKept, Going DEF EntryLoop, Procs

LEMMA ProtectedGoes ==
  ASSUME TypeOK, NEW S \in Brackets, S.entryId = st.entryId, Protected(S) PROVE Goes("run")
<1>1. PICK c : Leads("run", S, disk, c) /\ Protects(S, c) BY ProtectedLeads
<1>2. ~Entering(c.pc) BY <1>1, EndsGo DEF Protects, Again, Entering
<1>. QED BY <1>1, <1>2, LeadsGo, ImageKept DEF Procs

LEMMA ManageGoes ==
  ASSUME TypeOK, NEW S \in Brackets, S.entryId = st.entryId, NEW D, Kept(D), NEW last \in Int, Manage(S, D, last)
  PROVE Goes("run")
<1>1. PICK c : Leads("run", S, D, c) /\ Manages(S, c) BY ManageLeads, RunHere
<1>2. ~Entering(c.pc) BY <1>1, EndsGo, ManagedGo DEF Manages
<1>. QED BY <1>1, <1>2, LeadsGo DEF Procs

LEMMA TimeStopGoes ==
  ASSUME TypeOK, NEW S \in Brackets, S.entryId = st.entryId, NEW D, Kept(D), NEW last \in Int, TimeStop(S, D, last)
  PROVE Goes("run")
<1>1. PICK c : Leads("run", S, D, c) /\ TimeStopping(S, c) BY TimeStopLeads, RunHere
<1>2. ~Entering(c.pc) BY <1>1, ManagedGo DEF Managed
<1>. QED BY <1>1, <1>2, LeadsGo DEF Procs

LEMMA StopDoneGoes ==
  ASSUME TypeOK, NEW p, Errand(p), NEW S \in Brackets, S.entryId = st.entryId, NEW D, Kept(D), StopDone(p, S, D)
  PROVE Goes(p)
<1>1. p \in Procs BY DEF Errand, Procs
<1>2. PICK c : Leads(p, S, D, c) /\ Arrives(p, S, c) BY <1>1, StopDoneLeads
<1>3. ~Entering(c.pc) BY <1>2, ArrivedGo DEF Arrives
<1>. QED BY <1>1, <1>2, <1>3, LeadsGo

LEMMA SellDoneGoes ==
  ASSUME TypeOK, Whose, NEW S \in Brackets, S.entryId = st.entryId, SellDone(S) PROVE Goes("run")
<1>1. PICK c : Leads("run", S, Image(S), c) /\ Sold(S, c) BY SellDoneLeads
<1>2. ~Entering(c.pc) BY <1>1, ArrivedGo DEF Sold
<1>. QED BY <1>1, <1>2, LeadsGo, ImageKept DEF Procs

LEMMA UnstopGoes ==
  ASSUME TypeOK, NEW p \in Procs, NEW S \in Brackets, S.entryId = st.entryId, NEW D, Kept(D), NEW why \in Why,
         NEW last \in Int, NEW lvl \in Int, Unstop(p, S, D, why, last, lvl) \/ Freed(p, S, D, why, last, lvl)
  PROVE Goes(p)
<1>1. spec \in SpecRec BY RunHere
<1>2. PICK c : Leads(p, S, D, c) /\ (Unstopping(S, why, lvl, c) \/ Freeing(S, why, lvl, c))
  BY <1>1, UnstopLeads, FreedLeads
<1>3. ~Entering(c.pc) BY <1>2 DEF Unstopping, Freeing, Entering
<1>. QED BY <1>2, <1>3, LeadsGo

LEMMA ReadsTp1Goes ==
  ASSUME TypeOK, NEW S, st' = S, S.entryId = st.entryId, NEW last, ReadsTp1(S, last), UNCHANGED <<disk, status>>
  PROVE Goes("run")
<1>. DEFINE c == [Idle EXCEPT !.pc = "readTp1", !.last = last, !.id = S.tp1Id]
<1>1. "run" \in Procs /\ ~Entering("readTp1") /\ ~Entering("readHeld") /\ c.pc = "readTp1"
  BY DEF Procs, Entering, Idle
<1>. HIDE DEF c
<1>2. CASE Become("run", c) BY <1>1, <1>2, ImageKept, Going
<1>3. CASE Awaits("run", "readHeld", "", last, 0, 0) BY <1>1, <1>3, ImageKept, AwaitGoes
<1>. QED BY <1>2, <1>3 DEF ReadsTp1, c

LEMMA finalizeGoes ==
  ASSUME TypeOK, NEW S \in Brackets, S.entryId = st.entryId, finalizeBracket(S) PROVE Goes("run")
<1>. DEFINE c == [Idle EXCEPT !.pc = "sweep", !.why = "close", !.ids = Named(S) \ {0}]
<1>1. "run" \in Procs /\ c.pc = "sweep" /\ st'.entryId = S.entryId /\ Become("run", c)
  BY DEF Procs, Idle, finalizeBracket, Brackets
<1>. HIDE DEF c
<1>. QED BY <1>1, ImageKept, Going DEF finalizeBracket, Entering

\* A tick that keeps the entry and goes on to an await.
LEMMA TickGoes ==
  ASSUME TypeOK, NEW p \in Procs, NEW S, S.entryId = st.entryId, NEW D, Kept(D), Tick(S, D), NEW pc, ~Entering(pc),
         NEW why, NEW last, NEW amt, NEW lvl, Awaits(p, pc, why, last, amt, lvl)
  PROVE Goes(p) BY AwaitGoes DEF Tick

----
\* Each action that sends no entry.

\* The step of a coroutine that is under way.
LEMMA Steps ==
  ASSUME NEW p \in Procs, job[p].pc # "idle", UNCHANGED world, NoNewBuy, Goes(p)
  PROVE Plain BY RunPlain

LEMMA Parts ==
  ASSUME IInv
  PROVE  /\ TypeOK /\ Whose /\ st \in Brackets /\ disk \in Brackets /\ "run" \in Procs
         /\ Kept(disk) /\ Kept(NoBracket) BY Typed, RunHere DEF IInv, Kept, Procs

LEMMA PollEntryPlain == ASSUME IInv, PollEntry PROVE Plain
<1>. DEFINE o == st.entryId
            n == book[o].got
<1>1. UNCHANGED <<world, aborted>> /\ TypeOK /\ n \in Int /\ job["run"].pc # "idle" /\ "run" \in Procs
  BY Parts, EntryOrder DEF PollEntry, At
<1>2. NoNewBuy BY ReadSends DEF PollEntry
<1>. HIDE DEF n
<1>3. Held(st, n).entryId = st.entryId /\ [Held(st, n) EXCEPT !.phase = "protected"].entryId = st.entryId
  BY <1>1, HeldTyped DEF Held, TypeOK, Brackets
<1>4. ~Entering("protect") /\ ~Entering("dropEntry") BY DEF Entering
<1>. SUFFICES Goes("run") BY <1>1, <1>2, Steps
<1>5. CASE st' = [Held(st, n) EXCEPT !.phase = "protected"] /\ Awaits("run", "protect", "first", 0, 0, 0)
           /\ (persistBracket(Held(st, n)) \/ disk' = disk) /\ UNCHANGED status
  BY <1>1, <1>3, <1>4, <1>5, ImageKept, AwaitGoes DEF persistBracket
<1>6. CASE failBracket BY <1>1, <1>6, failBracketGoes
<1>7. CASE UNCHANGED <<st, disk, status>> /\ Awaits("run", "dropEntry", "", 0, n, 0)
  BY <1>1, <1>4, <1>7, ImageKept, AwaitGoes
<1>8. CASE Ended /\ UNCHANGED <<st, disk, status>> BY <1>1, <1>8, ImageKept, EndedGoes
<1>9. CASE EntryLoop(st) /\ UNCHANGED <<disk, status>> BY <1>1, <1>9, EntryLoopGoes
<1>. QED BY <1>5, <1>6, <1>7, <1>8, <1>9 DEF PollEntry, adoptPartialEntry, n

LEMMA DropEntryPlain == ASSUME IInv, DropEntry PROVE Plain
<1>1. TypeOK /\ "run" \in Procs /\ ~Entering("reread") /\ job["run"].pc # "idle" BY Parts DEF Entering, DropEntry, At
<1>2. NoNewBuy BY <1>1, CancelSends DEF DropEntry
<1>3. Goes("run") BY <1>1, ImageKept, AwaitGoes DEF DropEntry
<1>. QED BY <1>1, <1>2, <1>3, Steps DEF DropEntry

LEMMA adoptGoes == ASSUME TypeOK, NEW n \in Int, adoptPartialEntry(n) PROVE Goes("run")
<1>1. [Held(st, n) EXCEPT !.phase = "protected"].entryId = st.entryId /\ "run" \in Procs /\ ~Entering("protect")
  BY HeldTyped DEF Procs, Entering
<1>. QED BY <1>1, failBracketGoes, ImageKept, AwaitGoes DEF adoptPartialEntry

LEMMA RereadEntryPlain == ASSUME IInv, RereadEntry PROVE Plain
<1>1. TypeOK /\ "run" \in Procs /\ job["run"].pc # "idle" /\ book[st.entryId].got \in Int /\ job["run"].amt \in Int
  BY Parts, EntryOrder, RunHere DEF RereadEntry, At
<1>2. NoNewBuy BY ReadSends DEF RereadEntry
<1>3. Goes("run") BY <1>1, adoptGoes DEF RereadEntry
<1>. QED BY <1>1, <1>2, <1>3, Steps DEF RereadEntry

LEMMA placeProtectionPlain == ASSUME IInv, placeProtection PROVE Plain
<1>. DEFINE S == [st EXCEPT !.position = Lower(st.filled, coins)]
            l == IF spec.stop THEN StopLevel ELSE 0
            T == [S EXCEPT !.stopPrice = l]
            why == job["run"].why
<1>1. TypeOK /\ "run" \in Procs /\ job["run"].pc # "idle" /\ st.filled \in Int /\ coins \in Int
  BY Parts, StateTyped DEF placeProtection, At, TypeOK
<1>2. NoNewBuy BY ReadSends DEF placeProtection
<1>3. S \in Brackets /\ S.entryId = st.entryId
  <2>1. Lower(st.filled, coins) \in Int BY <1>1, LowerTyped
  <2>. QED BY <1>1, <2>1 DEF TypeOK, Brackets
<1>4. T.entryId = st.entryId BY <1>3 DEF Brackets
<1>5. ~Entering("sell") /\ ~Entering("findTp") /\ ~Entering("findStop") BY DEF Entering
<1>6. \/ Fails(st) \/ Protected(S)
      \/ /\ st' = S \/ st' = T
         /\ \E pc \in {"sell", "findTp", "findStop"} : \E amt, lvl : Awaits("run", pc, why, 0, amt, lvl)
         /\ UNCHANGED <<disk, status>> BY DEF placeProtection, PlaceStop
<1>. HIDE DEF S, T
<1>7. Goes("run") BY <1>1, <1>3, <1>4, <1>5, <1>6, ImageKept, FailsGoes, ProtectedGoes, AwaitGoes
<1>. QED BY <1>1, <1>2, <1>7, Steps DEF placeProtection

LEMMA CancelStopPlain == ASSUME IInv, NEW p \in Procs, CancelStop(p) PROVE Plain
<1>. DEFINE j == job[p]
<1>1. TypeOK /\ UNCHANGED world /\ j.pc = "unstop" /\ j.pc # "idle" /\ j.last \in Int /\ Errand(p)
  BY Parts, Here, Worker DEF CancelStop, At
<1>2. NoNewBuy BY <1>1, CancelSends DEF CancelStop
<1>3. PICK ok \in BOOLEAN :
         LET S == ForgetStop(st, ok) IN
         \/ Tick(S, disk) /\ Awaits(p, "freed", j.why, j.last, 0, j.lvl)
         \/ j.why \in {"scale", "final", "time"} /\ TickEnds(S)
         \/ j.why = "ratchet" /\ TimeStop(S, disk, j.last)
         \/ Tick(S, Image(S)) /\ Become(p, Idle) BY DEF CancelStop
<1>. DEFINE S == ForgetStop(st, ok)
<1>4. S \in Brackets /\ S.entryId = st.entryId BY <1>1, Rec, StopTyped
<1>5. Kept(disk) /\ Kept(Image(S)) /\ ~Entering("freed") /\ ~Entering(Idle.pc) BY <1>4, ImageKept DEF Entering, Idle
<1>6. j.why \in {"scale", "final", "time", "ratchet"} => p = "run" BY <1>1 DEF Errand
<1>. HIDE DEF S
<1>. SUFFICES Goes(p) BY <1>1, <1>2, Steps
<1>7. CASE Tick(S, disk) /\ Awaits(p, "freed", j.why, j.last, 0, j.lvl) BY <1>1, <1>4, <1>5, <1>7, TickGoes
<1>8. CASE j.why \in {"scale", "final", "time"} /\ TickEnds(S) BY <1>1, <1>4, <1>6, <1>8, TickEndsGoes
<1>9. CASE j.why = "ratchet" /\ TimeStop(S, disk, j.last) BY <1>1, <1>4, <1>5, <1>6, <1>9, TimeStopGoes
<1>10. CASE Tick(S, Image(S)) /\ Become(p, Idle) BY <1>1, <1>4, <1>5, <1>10, Going DEF Tick
<1>. QED BY <1>3, <1>7, <1>8, <1>9, <1>10 DEF S

LEMMA StopFreedPlain == ASSUME IInv, NEW p \in Procs, StopFreed(p) PROVE Plain
<1>1. /\ TypeOK /\ st \in Brackets /\ Kept(disk) /\ job[p].pc # "idle" /\ UNCHANGED world
      /\ job[p].why \in Why /\ job[p].last \in Int /\ job[p].lvl \in Int BY Parts, Here DEF StopFreed, At
<1>2. NoNewBuy BY CalmSends DEF StopFreed
<1>3. Goes(p) BY <1>1, UnstopGoes DEF StopFreed
<1>. QED BY <1>1, <1>2, <1>3, Steps

LEMMA FindStopPlain == ASSUME IInv, NEW p \in Procs, FindStop(p) PROVE Plain
<1>. DEFINE j == job[p]
<1>1. /\ TypeOK /\ st \in Brackets /\ Kept(disk) /\ UNCHANGED world /\ j.pc = "findStop" /\ Errand(p)
      /\ j.pc # "idle" /\ ~Entering("placeStop") /\ ~Entering("sweep") BY Parts, Worker DEF FindStop, At, Entering
<1>2. NoNewBuy BY ReadSends, CalmSends DEF FindStop
<1>. SUFFICES Goes(p) BY <1>1, <1>2, Steps
<1>3. CASE StopDone(p, st, disk) BY <1>1, <1>3, StopDoneGoes
<1>4. CASE Tick(st, disk) /\ Awaits(p, "placeStop", j.why, j.last, j.amt, j.lvl) BY <1>1, <1>4, TickGoes
<1>5. ASSUME NEW o, Tick(st, disk), Become(p, [Idle EXCEPT !.pc = "sweep", !.why = j.why, !.last = j.last, !.id = o,
                                    !.lvl = book[o].lvl, !.ids = LiveOf("stop") \ {o}])
      PROVE  Goes(p)
  <2>. DEFINE c == [Idle EXCEPT !.pc = "sweep", !.why = j.why, !.last = j.last, !.id = o,
                                !.lvl = book[o].lvl, !.ids = LiveOf("stop") \ {o}]
  <2>1. Become(p, c) /\ c.pc = "sweep" BY <1>5 DEF Idle
  <2>. HIDE DEF c
  <2>. QED BY <1>1, <1>5, <2>1, Going DEF Tick
<1>6. ASSUME NEW o \in LiveOf("stop"), StopDone(p, Adopts(st, o, book[o].lvl), Image(Adopts(st, o, book[o].lvl)))
      PROVE  Goes(p)
  <2>. DEFINE S == Adopts(st, o, book[o].lvl)
  <2>1. o \in Orders /\ o \in Ids /\ book[o].lvl \in Int BY <1>1, <1>6, Rec, StateTyped DEF LiveOf
  <2>2. S \in Brackets /\ S.entryId = st.entryId BY <1>1, <2>1, StopTyped
  <2>. HIDE DEF S
  <2>3. StopDone(p, S, Image(S)) BY <1>6 DEF S
  <2>. QED BY <1>1, <2>2, <2>3, ImageKept, StopDoneGoes
<1>. QED BY <1>3, <1>4, <1>5, <1>6 DEF FindStop

LEMMA PlaceNewStopPlain == ASSUME IInv, NEW p \in Procs, PlaceNewStop(p) PROVE Plain
<1>. DEFINE j == job[p]
<1>1. TypeOK /\ UNCHANGED world /\ j.pc = "placeStop" /\ j.pc # "idle" /\ Errand(p) /\ j.lvl \in Int
  BY Parts, Worker, Here DEF PlaceNewStop, At
<1>2. PICK id \in Ids : LET S == IF id = 0 THEN st ELSE Adopts(st, id, j.lvl) IN
         PlaceOrder("stop", j.amt, j.lvl, id) /\ StopDone(p, S, Image(S)) BY DEF PlaceNewStop
<1>. DEFINE S == IF id = 0 THEN st ELSE Adopts(st, id, j.lvl)
<1>3. S \in Brackets /\ S.entryId = st.entryId BY <1>1, Parts, StopTyped
<1>. HIDE DEF S
<1>4. PlaceOrder("stop", j.amt, j.lvl, id) /\ StopDone(p, S, Image(S)) BY <1>2 DEF S
<1>5. NoNewBuy BY <1>1, <1>4, PlaceSends
<1>6. Goes(p) BY <1>1, <1>3, <1>4, ImageKept, StopDoneGoes
<1>. QED BY <1>1, <1>5, <1>6, Steps

\* The same bracket with other orders of its exit has the same entry.
LEMMA ExitKept ==
  ASSUME TypeOK, NEW id \in Ids
  PROVE  /\ [st EXCEPT !.tp1Id = id] \in Brackets /\ [st EXCEPT !.tp1Id = id].entryId = st.entryId
         /\ [st EXCEPT !.stopId = 0] \in Brackets /\ [st EXCEPT !.stopId = 0].entryId = st.entryId
         /\ [st EXCEPT !.stopId = 0, !.tp1Id = 0].entryId = st.entryId BY ExitTyped DEF TypeOK, Brackets

LEMMA FindTpPlain == ASSUME IInv, FindTp PROVE Plain
<1>. DEFINE j == job["run"]
<1>1. /\ TypeOK /\ UNCHANGED world /\ j.pc # "idle" /\ "run" \in Procs /\ j.last \in Int /\ Kept(disk)
      /\ ~Entering("sell") BY Parts, RunHere DEF FindTp, At, Entering
<1>2. NoNewBuy BY ReadSends DEF FindTp
<1>. SUFFICES Goes("run") BY <1>1, <1>2, Steps
<1>3. CASE Tick(st, disk) /\ Awaits("run", "sell", j.why, j.last, j.amt, j.lvl) BY <1>1, <1>3, TickGoes
<1>4. ASSUME NEW o \in LiveOf("sell"),
             \/ Manage([st EXCEPT !.tp1Id = o], Image([st EXCEPT !.tp1Id = o]), j.last)
             \/ Protected([st EXCEPT !.tp1Id = o])
      PROVE  Goes("run")
  <2>. DEFINE S == [st EXCEPT !.tp1Id = o]
  <2>1. o \in Ids BY Rec DEF LiveOf
  <2>2. S \in Brackets /\ S.entryId = st.entryId BY <1>1, <2>1, ExitKept
  <2>. HIDE DEF S
  <2>3. Manage(S, Image(S), j.last) \/ Protected(S) BY <1>4 DEF S
  <2>. QED BY <1>1, <2>2, <2>3, ImageKept, ManageGoes, ProtectedGoes
<1>. QED BY <1>3, <1>4 DEF FindTp

LEMMA PlaceSellPlain == ASSUME IInv, PlaceSell PROVE Plain
<1>. DEFINE j == job["run"]
<1>1. /\ TypeOK /\ Whose /\ UNCHANGED world /\ j.pc # "idle" /\ "run" \in Procs /\ Kept(disk)
      /\ ~Entering("readHeld") /\ 0 \in Ids /\ Orders \subseteq Ids BY Parts, Rec DEF PlaceSell, At, Entering
<1>2. NoNewBuy BY <1>1, PlaceSends, CalmSends DEF PlaceSell
<1>. SUFFICES Goes("run") BY <1>1, <1>2, Steps
<1>3. ASSUME NEW id \in Ids, SellDone([st EXCEPT !.tp1Id = id]) PROVE Goes("run")
  <2>. DEFINE S == [st EXCEPT !.tp1Id = id]
  <2>1. S \in Brackets /\ S.entryId = st.entryId BY <1>1, ExitKept
  <2>. HIDE DEF S
  <2>2. SellDone(S) BY <1>3 DEF S
  <2>. QED BY <1>1, <2>1, <2>2, SellDoneGoes
<1>4. CASE SellThrows BY <1>1, <1>4, FailsGoes, TickThrowsGoes, TickGoes DEF SellThrows
<1>. QED BY <1>1, <1>3, <1>4 DEF PlaceSell

LEMMA TickStartsPlain == ASSUME IInv, NEW last, TickStarts(last) PROVE Plain
<1>. DEFINE c == [Idle EXCEPT !.pc = "readStop", !.last = last, !.id = st.stopId]
<1>1. TypeOK /\ UNCHANGED world /\ job["run"].pc # "idle" /\ "run" \in Procs /\ Kept(disk) BY Parts DEF TickStarts, At
<1>2. NoNewBuy BY CalmSends DEF TickStarts
<1>3. ~Entering(c.pc) BY DEF Entering, Idle
<1>. HIDE DEF c
<1>4. UNCHANGED <<st, disk, status>> /\ (Become("run", c) \/ ReadsTp1(st, last)) BY DEF TickStarts, c
<1>5. Goes("run") BY <1>1, <1>3, <1>4, Going, ReadsTp1Goes
<1>. QED BY <1>1, <1>2, <1>5, Steps

LEMMA ReadStopPlain == ASSUME IInv, ReadStop PROVE Plain
<1>. DEFINE S == [st EXCEPT !.stopId = 0]
<1>1. TypeOK /\ UNCHANGED world /\ job["run"].pc # "idle" /\ "run" \in Procs BY Parts DEF ReadStop, At
<1>2. NoNewBuy BY ReadSends DEF ReadStop
<1>3. S \in Brackets /\ S.entryId = st.entryId BY <1>1, Rec, ExitKept
<1>. HIDE DEF S
<1>4. \/ finalizeBracket(S)
      \/ st' = S /\ UNCHANGED <<disk, status>> /\ ReadsTp1(S, job["run"].last)
      \/ st' = st /\ UNCHANGED <<disk, status>> /\ ReadsTp1(st, job["run"].last) BY DEF ReadStop, S
<1>5. Goes("run") BY <1>1, <1>3, <1>4, finalizeGoes, ReadsTp1Goes
<1>. QED BY <1>1, <1>2, <1>5, Steps

LEMMA ReadTp1Plain == ASSUME IInv, ReadTp1 PROVE Plain
<1>. DEFINE j == job["run"]
            S == [st EXCEPT !.tp1Id = 0]
            banked == [S EXCEPT !.phase = "tp1_filled"]
            hit == st.stopPrice # 0 /\ j.last <= st.stopPrice
            chasing == [j EXCEPT !.pc = "chase", !.amt = Left(j.id)]
            forcing == [j EXCEPT !.pc = "force", !.why = IF hit THEN "stop" ELSE "time"]
<1>1. TypeOK /\ UNCHANGED world /\ j.pc # "idle" /\ "run" \in Procs /\ Kept(disk) /\ j \in Jobs
  BY Parts, RunHere DEF ReadTp1, At
<1>2. NoNewBuy BY ReadSends DEF ReadTp1
<1>3. S \in Brackets /\ S.entryId = st.entryId BY <1>1, Rec, ExitKept
<1>4. banked.entryId = st.entryId BY <1>3 DEF Brackets
<1>5. ~Entering("readHeld") /\ ~Entering(chasing.pc) /\ ~Entering(forcing.pc) BY <1>1 DEF Entering, Jobs
<1>. HIDE DEF S, banked, chasing, forcing
<1>6. \/ ClosesFlat(S) \/ TickEnds(st)
      \/ /\ Tick(banked, Image(banked)) \/ Tick(S, disk) \/ Tick(st, disk)
         /\ Awaits("run", "readHeld", "", j.last, 0, 0)
      \/ Tick(st, disk) /\ (Become("run", chasing) \/ Become("run", forcing))
  BY DEF ReadTp1, S, banked, chasing, forcing
<1>. HIDE DEF j
<1>. SUFFICES Goes("run") BY <1>1, <1>2, Steps DEF j
<1>7. CASE ClosesFlat(S) \/ TickEnds(st) BY <1>1, <1>3, <1>7, Parts, ClosesGoes, TickEndsGoes
<1>8. CASE /\ Tick(banked, Image(banked)) \/ Tick(S, disk) \/ Tick(st, disk)
           /\ Awaits("run", "readHeld", "", j.last, 0, 0) BY <1>1, <1>3, <1>4, <1>5, <1>8, ImageKept, TickGoes
<1>9. CASE Tick(st, disk) /\ (Become("run", chasing) \/ Become("run", forcing)) BY <1>1, <1>5, <1>9, Going DEF Tick
<1>. QED BY <1>6, <1>7, <1>8, <1>9

LEMMA ChasePlain == ASSUME IInv, Chase PROVE Plain
<1>. DEFINE c == [job["run"] EXCEPT !.pc = "rechase"]
<1>1. TypeOK /\ UNCHANGED world /\ job["run"].pc # "idle" /\ "run" \in Procs /\ job["run"] \in Jobs
      /\ st \in Brackets BY Parts, RunHere DEF Chase, At
<1>2. NoNewBuy BY <1>1, CancelSends DEF Chase
<1>3. ~Entering(c.pc) BY <1>1 DEF Entering, Jobs
<1>. HIDE DEF c
<1>4. (Tick(st, disk) /\ Become("run", c)) \/ TickEnds(st) BY DEF Chase, c
<1>5. Goes("run") BY <1>1, <1>3, <1>4, ImageKept, Going, TickEndsGoes DEF Tick
<1>. QED BY <1>1, <1>2, <1>5, Steps

LEMMA RechasePlain == ASSUME IInv, Rechase PROVE Plain
<1>1. TypeOK /\ UNCHANGED world /\ job["run"].pc # "idle" /\ "run" \in Procs BY Parts DEF Rechase, At
<1>2. PICK id \in Ids : /\ PlaceOrder("sell", job["run"].amt, job["run"].last, id)
                        /\ TickEnds([st EXCEPT !.tp1Id = id]) BY DEF Rechase
<1>. DEFINE S == [st EXCEPT !.tp1Id = id]
<1>3. S \in Brackets /\ S.entryId = st.entryId /\ TickEnds(S) BY <1>1, <1>2, ExitKept
<1>. HIDE DEF S
<1>4. NoNewBuy /\ Goes("run") BY <1>1, <1>2, <1>3, PlaceSends, TickEndsGoes
<1>. QED BY <1>1, <1>4, Steps

LEMMA ForceExitPlain == ASSUME IInv, ForceExit PROVE Plain
<1>. DEFINE S == [st EXCEPT !.tp1Id = 0]
<1>1. TypeOK /\ UNCHANGED world /\ job["run"].pc # "idle" /\ "run" \in Procs /\ Kept(disk) /\ ~Entering("forced")
  BY Parts DEF ForceExit, At, Entering
<1>2. NoNewBuy BY <1>1, CancelSends DEF ForceExit
<1>3. S.entryId = st.entryId BY <1>1, Rec, ExitKept
<1>. HIDE DEF S
<1>4. Tick(S, disk) /\ Awaits("run", "forced", job["run"].why, job["run"].last, 0, 0) BY DEF ForceExit, S
<1>5. Goes("run") BY <1>1, <1>3, <1>4, TickGoes
<1>. QED BY <1>1, <1>2, <1>5, Steps

LEMMA ForcedExitPlain == ASSUME IInv, ForcedExit PROVE Plain
<1>. DEFINE S == [st EXCEPT !.phase = "exiting"]
<1>1. /\ TypeOK /\ UNCHANGED world /\ job["run"].pc # "idle" /\ "run" \in Procs /\ Kept(disk)
      /\ ~Entering("findStop") /\ ~Entering("sell") /\ ~Entering("readHeld") BY Parts DEF ForcedExit, At, Entering
<1>2. NoNewBuy BY ReadSends DEF ForcedExit
<1>3. S.entryId = st.entryId BY <1>1 DEF TypeOK, Brackets
<1>. HIDE DEF S
<1>4. /\ Tick(st, disk) \/ Tick(S, disk)
      /\ \E pc \in {"findStop", "sell", "readHeld"} : \E why, amt, lvl : Awaits("run", pc, why, job["run"].last, amt, lvl)
  BY DEF ForcedExit, S, PlaceStop
<1>5. Goes("run") BY <1>1, <1>3, <1>4, TickGoes
<1>. QED BY <1>1, <1>2, <1>5, Steps

LEMMA ReadHeldPlain == ASSUME IInv, ReadHeld PROVE Plain
<1>. DEFINE n == bracketPosition(st, coins)
            S == [st EXCEPT !.position = n]
            last == job["run"].last
<1>1. /\ TypeOK /\ UNCHANGED world /\ job["run"].pc # "idle" /\ "run" \in Procs /\ Kept(disk)
      /\ ~Entering("findStop") /\ ~Entering("findTp") /\ coins \in Int /\ last \in Int
  BY Parts, RunHere DEF ReadHeld, At, Entering, TypeOK
<1>2. NoNewBuy BY ReadSends DEF ReadHeld
<1>3. S \in Brackets /\ S.entryId = st.entryId
  <2>1. n \in Int BY <1>1, HoldsTyped
  <2>. HIDE DEF n
  <2>. QED BY <1>1, <2>1 DEF TypeOK, Brackets
<1>4. \/ finalizeBracket(S) \/ Manage(S, disk, last) \/ TickThrows(st)
      \/ /\ Tick(S, disk)
         /\ \E pc \in {"findStop", "findTp"} : \E amt, lvl : Awaits("run", pc, "heal", last, amt, lvl)
  BY DEF ReadHeld, PlaceStop
<1>. HIDE DEF S
<1>5. Goes("run") BY <1>1, <1>3, <1>4, finalizeGoes, ManageGoes, TickThrowsGoes, TickGoes
<1>. QED BY <1>1, <1>2, <1>5, Steps

LEMMA SweepPlain == ASSUME IInv, NEW p \in Procs, Sweep(p) PROVE Plain
<1>. DEFINE o == Min(job[p].ids)
            c == [job[p] EXCEPT !.ids = @ \ {o}]
<1>1. TypeOK /\ UNCHANGED <<world, st, status, disk>> /\ job[p].pc = "sweep" /\ job[p].pc # "idle" /\ job[p] \in Jobs
  BY Parts, Here DEF Sweep, At
<1>2. NoNewBuy BY <1>1, CancelSends DEF Sweep
<1>3. c.pc = "sweep" /\ Become(p, c) BY <1>1 DEF Sweep, Jobs
<1>. HIDE DEF c
<1>4. Goes(p) BY <1>1, <1>3, ImageKept, Going DEF Entering
<1>. QED BY <1>1, <1>2, <1>4, Steps

LEMMA SweptPlain == ASSUME IInv, NEW p \in Procs, Swept(p) PROVE Plain
<1>. DEFINE j == job[p]
            S == Adopts(st, j.id, j.lvl)
            T == [st EXCEPT !.stopId = 0, !.tp1Id = 0]
            A == [st EXCEPT !.phase = "aborted"]
<1>1. /\ TypeOK /\ UNCHANGED world /\ j.pc = "sweep" /\ j.pc # "idle" /\ Kept(disk) /\ ~Entering("balance")
      /\ ~Entering(Idle.pc) /\ j.id \in Ids /\ j.lvl \in Int BY Parts, Here DEF Swept, At, Entering, Idle
<1>2. NoNewBuy BY CalmSends DEF Swept
<1>3. S \in Brackets /\ S.entryId = st.entryId /\ T.entryId = st.entryId /\ A.entryId = st.entryId
  <2>1. A.entryId = st.entryId BY <1>1 DEF TypeOK, Brackets
  <2>. QED BY <1>1, <2>1, Rec, StopTyped, ExitKept
<1>. HIDE DEF S, T, A
<1>4. \/ j.why \notin {"close", "kill"} /\ StopDone(p, S, Image(S))
      \/ Tick(T, disk) /\ Awaits(p, "balance", "", 0, 0, 0)
      \/ st' = A /\ disk' = NoBracket /\ Become(p, Idle) /\ UNCHANGED status
  BY DEF Swept, S, T, A, clearPersistedBracket
<1>5. j.why \notin {"close", "kill"} => Errand(p) BY <1>1 DEF Errand, IInv, Whose, Procs
<1>. HIDE DEF j
<1>. SUFFICES Goes(p) BY <1>1, <1>2, Steps DEF j
<1>6. CASE j.why \notin {"close", "kill"} /\ StopDone(p, S, Image(S))
  BY <1>1, <1>3, <1>5, <1>6, ImageKept, StopDoneGoes
<1>7. CASE Tick(T, disk) /\ Awaits(p, "balance", "", 0, 0, 0) BY <1>1, <1>3, <1>7, TickGoes
<1>8. CASE st' = A /\ disk' = NoBracket /\ Become(p, Idle) /\ UNCHANGED status BY <1>1, <1>3, <1>8, ImageKept, Going
<1>. QED BY <1>4, <1>6, <1>7, <1>8

LEMMA ClosingPlain == ASSUME IInv, Balance \/ SellToUsd \/ Close PROVE Plain
<1>1. /\ TypeOK /\ UNCHANGED world /\ job["run"].pc # "idle" /\ "run" \in Procs /\ Kept(disk) /\ st \in Brackets
      /\ ~Entering("closing") /\ ~Entering("closed") BY Parts DEF Balance, SellToUsd, Close, At, Entering
<1>2. NoNewBuy BY <1>1, ReadSends, PlaceSends, CalmSends DEF Balance, SellToUsd, Close
<1>3. \/ ClosesFlat(st) \/ TickThrows(st)
      \/ /\ Tick(st, disk)
         /\ \E pc \in {"closing", "closed"} : \E amt : Awaits("run", pc, "", 0, amt, 0)
  BY DEF Balance, SellToUsd, Close
<1>4. Goes("run") BY <1>1, <1>3, ClosesGoes, TickThrowsGoes, TickGoes
<1>. QED BY <1>1, <1>2, <1>4, Steps

LEMMA KillPlain == ASSUME IInv, Kill PROVE Plain
<1>. DEFINE c == [Idle EXCEPT !.pc = "sweep", !.why = "kill", !.ids = Named(st) \ {0}]
<1>1. /\ TypeOK /\ UNCHANGED <<world, st, status, disk, book>> /\ "kill" \in Procs /\ Become("kill", c)
      /\ st.phase # "none" BY Parts DEF Kill, Procs
<1>. HIDE DEF c
<1>2. NoNewBuy BY DEF Kill, Upset, NoNewBuy
<1>3. Goes("kill") BY <1>1, ImageKept, Going
<1>. QED BY <1>1, <1>2, <1>3 DEF Plain, Passes, world

LEMMA LockPlain == ASSUME IInv, NEW on \in BOOLEAN, Lock(on) PROVE Plain
<1>1. TypeOK /\ UNCHANGED <<world, status, job, book>> /\ "kill" \in Procs /\ st.phase # "none"
  BY Parts DEF Lock, Procs
<1>2. NoNewBuy BY DEF Lock, Upset, NoNewBuy
<1>3. st'.entryId = st.entryId /\ disk' = Image(st') BY <1>1 DEF Lock, persistBracket, TypeOK, Brackets
<1>4. Goes("kill") BY <1>1, <1>3, ImageKept DEF Goes
<1>. QED BY <1>1, <1>2, <1>4 DEF Plain, Passes, world

LEMMA AdjustPlain == ASSUME IInv, NEW lvl \in StopLevel..Entry, Adjust(lvl) PROVE Plain
<1>. DEFINE S == [st EXCEPT !.stopPrice = lvl]
<1>1. /\ TypeOK /\ UNCHANGED <<world, book>> /\ "adjust" \in Procs /\ "adjust" \in Why /\ st.filled > 0 /\ Kept(disk)
      /\ lvl \in Int /\ 0 \in Int BY Parts, Rec DEF Adjust, Procs, Why, StopLevel, Entry
<1>2. NoNewBuy BY DEF Adjust, Upset, NoNewBuy
<1>3. S \in Brackets /\ S.entryId = st.entryId BY <1>1 DEF TypeOK, Brackets
<1>. HIDE DEF S
<1>4. CASE Unstop("adjust", S, disk, "adjust", 0, lvl)
  <2>1. Goes("adjust") BY <1>1, <1>3, <1>4, UnstopGoes
  <2>. QED BY <1>1, <1>2, <2>1 DEF Plain, Passes, world
<1>5. CASE Tick(S, Image(S)) /\ UNCHANGED job
  <2>1. Goes("adjust") BY <1>1, <1>3, <1>5, ImageKept DEF Tick, Goes
  <2>. QED BY <1>1, <1>2, <2>1 DEF Plain, Passes, world
<1>. QED BY <1>4, <1>5 DEF Adjust, S

LEMMA RevivePlain == ASSUME IInv, Revive PROVE Plain
<1>. DEFINE pc == FirstAwait(st)
            c == [Idle EXCEPT !.pc = pc, !.why = IF pc = "protect" THEN "again" ELSE ""]
<1>1. TypeOK /\ UNCHANGED <<spec, coins, bought, aged, book, upsets>> /\ "run" \in Procs BY Parts DEF Revive
<1>2. st.phase \in Holding /\ st.phase # "none" /\ pc \in {"protect", "asleep"} BY DEF Revive, Holding, FirstAwait
<1>3. status' = "executing" /\ UNCHANGED <<st, disk>> /\ Become("run", c) BY <1>2 DEF Revive, runBracket, Become
<1>4. c.pc = pc BY DEF Idle
<1>. HIDE DEF pc, c
<1>5. Goes("run") BY <1>1, <1>2, <1>3, <1>4, ImageKept, Going DEF Entering
<1>. QED BY <1>1, <1>2, <1>5, CalmSends DEF Plain, Passes

LEMMA BesidePlain ==
  ASSUME IInv, PositionDeadline \/ UNCHANGED vars \/ \E o \in Orders : CancelledElsewhere(o) PROVE Plain
<1>1. CASE PositionDeadline \/ UNCHANGED vars BY <1>1, CalmSends DEF Plain, PositionDeadline, vars
<1>2. ASSUME NEW o \in Orders, CancelledElsewhere(o) PROVE Plain
  <2>1. upsets \subseteq upsets' /\ Gone(o) /\ UNCHANGED <<world, st, status, job, disk>> /\ TypeOK
    BY <1>2, Parts DEF CancelledElsewhere, Upset
  <2>2. \A x \in Orders : book'[x].st = "live" => book'[x] = book[x] BY <2>1 DEF Gone, TypeOK, OrderRec
  <2>. QED BY <2>1, <2>2 DEF Plain, NoNewBuy, world
<1>. QED BY <1>1, <1>2

----
\* The steps around the entry.

\* Only a request that failed can leave an entry that nobody knows.
LEMMA Nothing == ASSUME EInv, ~LostBoth PROVE Unsent /\ OneEntry /\ Absent
  BY DEF EInv

\* With nothing bought and nothing on order, the entry may be sent.
LEMMA NothingEnters == ASSUME Unbought', status' \notin {"pending", "gone"} PROVE EInv'
<1>1. Buy \in Int /\ 0 <= Buy BY ConstantsAssumption
<1>2. Unsent' /\ OneEntry' /\ Absent' BY <1>1 DEF Unsent, OneEntry, Absent, Unbought
<1>. QED BY <1>2 DEF EInv

LEMMA ConfirmEnters == ASSUME IInv, EInv, Confirm PROVE EInv'
<1>1. UNCHANGED <<book, bought, upsets>> /\ status = "pending" /\ status' = "executing" BY DEF Confirm, runBracket
<1>2. CASE LostBoth BY <1>1, <1>2 DEF EInv, LostBoth
<1>3. CASE ~LostBoth
  <2>1. Unbought BY <1>1, <1>3, Nothing DEF Unsent
  <2>2. Unbought' BY <1>1, <2>1 DEF Unbought, LiveOf, Live
  <2>. QED BY <1>1, <2>2, NothingEnters
<1>. QED BY <1>2, <1>3

LEMMA FindEntryEnters == ASSUME IInv, EInv, FindEntry PROVE EInv'
<1>1. UNCHANGED <<book, bought, status>> /\ upsets \subseteq upsets' /\ job["run"].pc = "find" /\ TypeOK
  BY Parts DEF FindEntry, Read, Calm, Upset, world, At
<1>2. CASE LostBoth BY <1>1, <1>2, LostStays DEF EInv
<1>3. CASE ~LostBoth
  <2>1. Unbought /\ Absent BY <1>1, <1>3, Nothing DEF Unsent, Entering
  <2>2. Unbought' BY <1>1, <2>1 DEF Unbought, LiveOf, Live
  <2>3. status \notin {"pending", "gone"} BY <1>1, <2>1, Parts DEF Absent
  <2>. QED BY <1>1, <2>2, <2>3, NothingEnters
<1>. QED BY <1>2, <1>3

\* A restarted bracket sends the entry again only when the file has none and nothing was
\* bought - or when the answer of the entry was lost before.
LEMMA RestartEnters == ASSUME IInv, EInv, Restart PROVE EInv'
<1>1. UNCHANGED <<book, bought>> /\ upsets' = upsets \cup {"restart"} BY DEF Restart, Upset
<1>2. CASE ~NoFault BY <1>1, <1>2 DEF EInv, LostBoth, NoFault
<1>3. CASE NoFault
  <2>1. Unsent /\ OneEntry BY <1>3 DEF EInv, LostBoth, NoFault
  <2>2. OneEntry' BY <1>1, <2>1 DEF OneEntry, LiveOf, Live, Left
  <2>3. CASE disk = NoBracket /\ st' = NoBracket /\ job' = NoJobs /\ status' = "gone" /\ UNCHANGED disk
    <3>1. \A p \in Procs : job'[p].pc = "idle" BY <2>3 DEF NoJobs, Idle
    <3>2. Unsent' /\ Absent' BY <2>3, <3>1 DEF Unsent, Absent, Entering, Procs
    <3>. QED BY <2>2, <3>2 DEF EInv
  <2>4. CASE disk # NoBracket /\ Resumes
    <3>. DEFINE named == [disk EXCEPT !.client = TRUE]
                pc == FirstAwait(disk)
                c == [Idle EXCEPT !.pc = pc, !.why = IF pc = "protect" THEN "again" ELSE ""]
    <3>1. /\ status' = "executing" /\ job' = [NoJobs EXCEPT !["run"] = c]
          /\ (st' = named /\ disk' = Image(named)) \/ (st' = disk /\ disk' = disk)
      BY <2>4 DEF Resumes, runBracket, persistBracket
    <3>2. CASE disk.entryId = 0
      <4>1. Unbought BY <1>3, <2>1, <2>4, <3>2 DEF Unsent
      <4>2. Unbought' BY <1>1, <4>1 DEF Unbought, LiveOf, Live
      <4>. QED BY <3>1, <4>2, NothingEnters
    <3>3. CASE disk.entryId # 0
      <4>1. pc \in {"awaitEntry", "protect", "asleep"} /\ c.pc = pc BY <3>3 DEF FirstAwait, Idle
      <4>2. named.entryId = disk.entryId BY Parts DEF Brackets
      <4>. HIDE DEF c, named, pc
      <4>3. job'["run"].pc = pc BY <3>1, <4>1 DEF NoJobs, Procs
      <4>4. st'.entryId # 0 /\ (disk' = NoBracket \/ disk'.entryId # 0) BY <3>1, <3>3, <4>2, ImageOf
      <4>5. Unsent' /\ Absent' BY <3>1, <4>1, <4>3, <4>4 DEF Unsent, Absent, Entering
      <4>. QED BY <2>2, <4>5 DEF EInv
    <3>. QED BY <3>2, <3>3
  <2>. QED BY <2>3, <2>4 DEF Restart
<1>. QED BY <1>2, <1>3

LEMMA MinOf == ASSUME NEW S, S \subseteq Nat, S # {} PROVE Min(S) \in S
<1>1. \E x \in S : \A y \in S : ~(<<y, x>> \in OpToRel(<, Nat)) BY NatLessThanWellFounded, WFMin
<1>2. PICK x \in S : \A y \in S : ~(y < x) BY <1>1 DEF OpToRel
<1>3. \E m \in S : \A y \in S : m <= y BY <1>2
<1>. QED BY <1>3 DEF Min

\* The entry is on the book: the one order of its kind, for all it buys.
LEMMA EntryPlaced ==
  ASSUME TypeOK, Unbought, bought' = bought, NEW id, PlaceOrder("buy", Buy, Entry, id)
  PROVE  /\ OneEntry' /\ upsets \subseteq upsets'
         /\ id = 0 => "fault" \in upsets'
<1>. DEFINE n == Min(Unused)
            new == [kind |-> "buy", st |-> "live", amt |-> Buy, got |-> 0, lvl |-> Entry]
            accepted == book' = [o \in Orders |-> IF o = n THEN new ELSE IF o \in Unused THEN NoOrder ELSE book[o]]
<1>1. Buy \in Int /\ 1 <= Buy BY ConstantsAssumption
<1>2. /\ (id = n /\ accepted /\ Calm) \/ (id = 0 /\ (accepted \/ UNCHANGED book) /\ Upset("fault")) BY DEF PlaceOrder
<1>3. upsets \subseteq upsets' BY <1>2 DEF Calm, Upset
<1>4. ASSUME accepted PROVE OneEntry'
  <2>1. new.st = "live" /\ new.amt = Buy /\ new.got = 0 /\ NoOrder.st = "none" BY DEF NoOrder
  <2>. HIDE DEF new, n
  <2>2. \A o \in Orders : o = n => book'[o] = new BY <1>4
  <2>3. \A o \in Orders : o # n => book'[o] = NoOrder \/ book'[o] = book[o] BY <1>4
  <2>4. LiveOf("buy")' \subseteq {n} BY <2>1, <2>3 DEF Unbought, LiveOf, Live
  <2>5. \A o \in LiveOf("buy")' : Left(o)' = Buy BY <1>1, <2>1, <2>2, <2>4 DEF LiveOf, Left
  <2>6. bought' = 0 BY DEF Unbought
  <2>. QED BY <1>1, <2>4, <2>5, <2>6 DEF OneEntry
<1>5. ASSUME UNCHANGED book PROVE OneEntry'
  <2>1. LiveOf("buy")' = {} /\ bought' = 0 BY <1>5 DEF Unbought, LiveOf, Live
  <2>. QED BY <1>1, <2>1 DEF OneEntry
<1>6. n # 0
  <2>1. Unused \subseteq Nat /\ Unused \subseteq Orders /\ Unused # {} BY Rec DEF Unused, Orders, PlaceOrder
  <2>2. n \in Unused BY <2>1, MinOf
  <2>. QED BY <2>1, <2>2 DEF Orders
<1>. HIDE DEF accepted, n
<1>. QED BY <1>2, <1>3, <1>4, <1>5, <1>6 DEF Upset

LEMMA EnterMarketEnters == ASSUME IInv, EInv, EnterMarket PROVE EInv'
<1>. DEFINE Placed(id) == [st EXCEPT !.entryId = id]
            Sent(id) == /\ id \in Orders /\ PlaceOrder("buy", Buy, Entry, id) /\ UNCHANGED status
                        /\ EntryLoop(Placed(id)) /\ persistBracket(Placed(id))
            Lost == PlaceOrder("buy", Buy, Entry, 0) /\ Fails(st)
<1>1. UNCHANGED world /\ job["run"].pc = "enter" /\ TypeOK /\ "run" \in Procs /\ bought' = bought
  BY Parts DEF EnterMarket, At, world
<1>2. CASE failBracket /\ UNCHANGED <<book, upsets>>
  <2>1. Plain BY <1>1, <1>2, CalmSends, failBracketGoes, Steps
  <2>. QED BY <2>1, PlainEnters
<1>3. ASSUME NEW id, Sent(id) \/ (id = 0 /\ Lost) PROVE EInv'
  <2>0. PlaceOrder("buy", Buy, Entry, id) /\ status' \in {status, "failed"} BY <1>3 DEF Fails
  <2>1. CASE LostBoth
    <3>1. upsets \subseteq upsets' BY <2>0 DEF PlaceOrder, Calm, Upset
    <3>. QED BY <2>1, <3>1, LostStays DEF EInv
  <2>2. CASE ~LostBoth
    <3>1. Unbought /\ Absent BY <1>1, <2>2, Nothing DEF Unsent, Entering
    <3>2. status \notin {"pending", "gone"} BY <1>1, <3>1 DEF Absent
    <3>3. OneEntry' /\ (id = 0 => ~NoFault') BY <1>1, <2>0, <3>1, EntryPlaced DEF NoFault
    <3>4. Absent' BY <2>0, <3>2 DEF Absent
    <3>5. CASE id = 0 /\ Fails(st)
      <4>1. job'["run"] = Idle /\ ~Entering(Idle.pc)
        BY <1>1, <3>5 DEF Fails, Ended, Become, TypeOK, Procs, Entering, Idle
      <4>2. Unsent' BY <2>0, <3>2, <3>3, <3>5, <4>1 DEF Unsent
      <4>. QED BY <3>3, <3>4, <4>2 DEF EInv
    <3>6. CASE id \in Orders /\ EntryLoop(Placed(id))
               /\ persistBracket(Placed(id))
      <4>. DEFINE S == Placed(id)
      <4>1. S.entryId = id /\ id # 0 BY <1>1, <3>6 DEF TypeOK, Brackets, Orders
      <4>2. EntryLoop(S) /\ disk' = Image(S) BY <3>6 DEF persistBracket
      <4>. HIDE DEF S
      <4>3. PICK c \in Jobs : Become("run", c) /\ (c = Idle \/ c.pc = "awaitEntry") BY <4>2, EntryLoopOf
      <4>4. ~Entering(c.pc) /\ job'["run"] = c
        <5>1. Idle.pc = "idle" /\ job \in [Procs -> Jobs] BY <1>1 DEF Idle, TypeOK
        <5>. QED BY <1>1, <4>3, <5>1 DEF Entering, Become
      <4>5. st'.entryId # 0 /\ (disk' = NoBracket \/ disk'.entryId # 0) BY <4>1, <4>2, EntryLoopOf, ImageOf
      <4>6. Unsent' BY <2>0, <3>2, <4>4, <4>5 DEF Unsent
      <4>. QED BY <3>3, <3>4, <4>6 DEF EInv
    <3>. QED BY <1>3, <3>5, <3>6
  <2>. QED BY <2>1, <2>2
<1>4. (failBracket /\ UNCHANGED <<book, upsets>>) \/ (\E id \in Orders : Sent(id)) \/ Lost BY DEF EnterMarket
<1>. HIDE DEF Sent, Lost
<1>. QED BY <1>2, <1>3, <1>4

\* A coin that the entry trades is bought and is no longer on order.
LEMMA TradeEnters == ASSUME IInv, EInv, NEW o \in Orders, Trade(o) PROVE EInv'
<1>1. /\ UNCHANGED <<st, status, job, disk, upsets>> /\ TypeOK /\ book \in [Orders -> OrderRec]
      /\ bought \in Int /\ Live(o) BY Parts DEF Trade, TypeOK
<1>2. CASE LostBoth BY <1>1, <1>2 DEF EInv, LostBoth
<1>3. CASE ~LostBoth
  <2>1. Unsent /\ OneEntry /\ Absent BY <1>3, Nothing
  <2>. DEFINE got == book[o].got + 1
              now == IF Left(o) = 1 THEN "filled" ELSE book[o].st
              r == [book[o] EXCEPT !.got = got, !.st = now]
  <2>2. r.kind = book[o].kind /\ r.amt = book[o].amt /\ r.got = got /\ r.st = now BY <1>1 DEF OrderRec
  <2>3. book'[o] = r /\ \A x \in Orders : x # o => book'[x] = book[x]
    <3>1. book' = [book EXCEPT ![o].got = @ + 1, ![o].st = IF Left(o) = 1 THEN "filled" ELSE @] BY DEF Trade
    <3>. QED BY <1>1, <3>1
  <2>. HIDE DEF r
  <2>4. LiveOf("buy")' \subseteq LiveOf("buy") BY <1>1, <2>2, <2>3 DEF LiveOf, Live
  <2>5. Absent' BY <1>1, <2>1 DEF Absent
  <2>6. \A x \in Orders : x # o => Left(x)' = Left(x) BY <2>3 DEF Left
  <2>7. CASE book[o].kind # "buy"
    <3>1. bought' = bought /\ o \notin LiveOf("buy")' BY <2>2, <2>3, <2>7 DEF Trade, LiveOf
    <3>2. \A x \in LiveOf("buy")' : Left(x)' = Left(x) BY <2>6, <3>1 DEF LiveOf
    <3>3. OneEntry' /\ (Unbought => Unbought') BY <2>1, <2>4, <3>1, <3>2 DEF OneEntry, Unbought
    <3>4. Unsent' BY <1>1, <2>1, <3>3 DEF Unsent, NoFault
    <3>. QED BY <2>5, <3>3, <3>4 DEF EInv
  <2>8. CASE book[o].kind = "buy"
    <3>1. o \in LiveOf("buy") /\ bought' = bought + 1 BY <1>1, <2>8 DEF Trade, LiveOf
    <3>2. ~Unbought BY <3>1 DEF Unbought
    <3>3. Unsent' BY <1>1, <2>1, <3>2 DEF Unsent, NoFault
    <3>4. LiveOf("buy")' \subseteq {o} BY <2>1, <2>4, <3>1 DEF OneEntry
    <3>5. Left(o) \in Int /\ Left(o) >= 1 /\ bought + Left(o) <= Buy BY <1>1, <2>1, <3>1 DEF OneEntry, Left, OrderRec
    <3>6. Left(o)' = Left(o) - 1 BY <1>1, <2>2, <2>3 DEF Left, OrderRec
    <3>7. o \in LiveOf("buy")' => Left(o) # 1 BY <2>2, <2>3 DEF LiveOf, Live
    <3>8. OneEntry'
      <4>1. bought' <= Buy BY <1>1, <3>1, <3>5, Rec
      <4>2. ASSUME o \in LiveOf("buy")' PROVE Left(o)' >= 1 /\ bought' + Left(o)' <= Buy
        BY <1>1, <3>1, <3>5, <3>6, <3>7, <4>2, Rec
      <4>3. \A x \in LiveOf("buy")' : x = o BY <3>4
      <4>. QED BY <4>1, <4>2, <4>3 DEF OneEntry
    <3>. QED BY <2>5, <3>3, <3>8 DEF EInv
  <2>. QED BY <2>7, <2>8
<1>. QED BY <1>2, <1>3

LEMMA NextPlain ==
  ASSUME IInv, [Next]_vars
  PROVE Plain \/ Confirm \/ FindEntry \/ EnterMarket \/ Restart \/ \E o \in Orders : Trade(o)
<1>1. ASSUME RunStep PROVE Plain \/ FindEntry \/ EnterMarket
  BY <1>1, PollEntryPlain, DropEntryPlain, RereadEntryPlain,
     placeProtectionPlain, FindTpPlain, PlaceSellPlain, ReadStopPlain, ReadTp1Plain, ChasePlain,
     RechasePlain, ForceExitPlain, ForcedExitPlain, ReadHeldPlain, ClosingPlain, TickStartsPlain DEF RunStep
<1>2. ASSUME NEW p \in Procs, StopStep(p) PROVE Plain
  BY <1>2, CancelStopPlain, StopFreedPlain, FindStopPlain, PlaceNewStopPlain, SweepPlain, SweptPlain DEF StopStep
<1>. QED BY <1>1, <1>2, KillPlain, LockPlain, AdjustPlain, RevivePlain, BesidePlain DEF Next

LEMMA NextEnters == IInv /\ EInv /\ [Next]_vars => EInv'
  BY NextPlain, PlainEnters, ConfirmEnters, FindEntryEnters, EnterMarketEnters, RestartEnters, TradeEnters

LEMMA InitEnters == Init => EInv
<1>1. SUFFICES ASSUME Init PROVE EInv OBVIOUS
<1>2. LiveOf("buy") = {} /\ bought = 0 BY <1>1 DEF Init, NoOrder, LiveOf, Live
<1>3. Buy \in Int /\ 0 <= Buy BY ConstantsAssumption
<1>4. Unsent /\ OneEntry BY <1>2, <1>3 DEF Unsent, OneEntry, Unbought
<1>5. Absent BY <1>1 DEF Init, Absent, Idle
<1>. QED BY <1>4, <1>5 DEF EInv

LEMMA PlainLone == ASSUME Lone, Plain PROVE Lone'
<1>1. LiveOf("buy")' \subseteq LiveOf("buy")
  <2>1. NoNewBuy /\ bought' = bought BY DEF Plain
  <2>. QED BY <2>1, NoNewBuyKeeps
<1>2. CASE status' = status /\ job' = job BY <1>1, <1>2 DEF Lone, Entering
<1>3. ASSUME NEW p \in Procs, Goes(p) PROVE Lone'
  <2>1. status' = "pending" => status = "pending" BY <1>3 DEF Goes
  <2>2. Entering(job'["run"].pc) => job'["run"] = job["run"] BY <1>3 DEF Goes
  <2>. QED BY <1>1, <2>1, <2>2 DEF Lone, Entering
<1>. QED BY <1>2, <1>3 DEF Plain

LEMMA RestLone == ASSUME IInv, EInv, Lone, Confirm \/ FindEntry \/ Restart PROVE Lone'
<1>1. TypeOK /\ job \in [Procs -> Jobs] /\ "run" \in Procs BY Parts DEF TypeOK, Procs
<1>0. Idle.pc = "idle" BY DEF Idle
<1>2. UNCHANGED book BY DEF Confirm, FindEntry, Read, Restart
<1>3. LiveOf("buy")' = LiveOf("buy") BY <1>2 DEF LiveOf, Live
<1>4. CASE Confirm
  <2>1. status = "pending" /\ status' = "executing" BY <1>4 DEF Confirm, runBracket
  <2>. QED BY <1>3, <2>1 DEF Lone
<1>5. CASE FindEntry
  <2>1. status' = status /\ job["run"].pc = "find" BY <1>5 DEF FindEntry, At
  <2>2. status # "pending" BY <2>1 DEF Lone, Entering
  <2>3. job'["run"].pc = "enter" => LiveOf("buy") = {}
    <3>1. CASE Read(FALSE)
      <4>1. NoFault BY <3>1 DEF Read, Upset, NoFault
      <4>. QED BY <2>1, <4>1 DEF EInv, LostBoth, NoFault, Unsent, Entering, Unbought
    <3>2. ASSUME NEW S, EntryLoop(S) PROVE job'["run"].pc # "enter"
      <4>1. PICK c \in Jobs : Become("run", c) /\ (c = Idle \/ c.pc = "awaitEntry") BY <3>2, EntryLoopOf
      <4>. QED BY <1>0, <1>1, <4>1 DEF Become
    <3>. QED BY <1>5, <3>1, <3>2 DEF FindEntry
  <2>. QED BY <1>3, <2>1, <2>2, <2>3 DEF Lone
<1>6. CASE Restart
  <2>1. status' # "pending" BY <1>6 DEF Restart, Resumes, runBracket
  <2>2. job'["run"].pc # "enter"
    <3>1. FirstAwait(disk) # "enter" BY Parts DEF FirstAwait, Brackets
    <3>. DEFINE c == [Idle EXCEPT !.pc = FirstAwait(disk),
                                  !.why = IF FirstAwait(disk) = "protect" THEN "again" ELSE ""]
    <3>2. job' = NoJobs \/ job' = [NoJobs EXCEPT !["run"] = c] BY <1>6 DEF Restart, Resumes, runBracket
    <3>3. c.pc = FirstAwait(disk) BY DEF Idle
    <3>. HIDE DEF c
    <3>. QED BY <1>0, <1>1, <3>1, <3>2, <3>3 DEF NoJobs
  <2>. QED BY <1>3, <2>1, <2>2 DEF Lone
<1>. QED BY <1>4, <1>5, <1>6

LEMMA EnterMarketLone == ASSUME IInv, Lone, EnterMarket PROVE Lone'
<1>. DEFINE n == Min(Unused)
<1>1. TypeOK /\ job \in [Procs -> Jobs] /\ "run" \in Procs /\ job["run"].pc = "enter"
  BY Parts DEF EnterMarket, At, TypeOK, Procs
<1>0. Idle.pc = "idle" BY DEF Idle
<1>2. LiveOf("buy") = {} /\ status # "pending" BY <1>1 DEF Lone, Entering
<1>3. \A o \in Orders : o # n => book'[o] = book[o] \/ book'[o] = NoOrder BY <1>1 DEF EnterMarket, PlaceOrder, TypeOK
<1>4. LiveOf("buy")' \subseteq {n} BY <1>2, <1>3 DEF LiveOf, Live, NoOrder
<1>5. status' # "pending" BY <1>2 DEF EnterMarket, failBracket, Fails
<1>6. job'["run"].pc # "enter"
  <2>1. ASSUME NEW S, EntryLoop(S) PROVE job'["run"].pc # "enter"
    <3>1. PICK c \in Jobs : Become("run", c) /\ (c = Idle \/ c.pc = "awaitEntry") BY <2>1, EntryLoopOf
    <3>. QED BY <1>0, <1>1, <3>1 DEF Become
  <2>2. Ended => job'["run"].pc # "enter" BY <1>0, <1>1 DEF Ended, Become
  <2>. QED BY <2>1, <2>2 DEF EnterMarket, failBracket, Fails
<1>. QED BY <1>4, <1>5, <1>6 DEF Lone

LEMMA NextLone == IInv /\ EInv /\ Lone /\ [Next]_vars => Lone'
<1>1. SUFFICES ASSUME IInv, EInv, Lone, [Next]_vars PROVE Lone' OBVIOUS
<1>2. ASSUME NEW o \in Orders, Trade(o) PROVE Lone'
  <2>1. UNCHANGED <<status, job>> /\ book \in [Orders -> OrderRec] BY <1>1, <1>2, Parts DEF Trade, TypeOK
  <2>2. \A x \in Orders : book'[x].kind = book[x].kind /\ (book'[x].st = "live" => book[x].st = "live")
    BY <1>2, <2>1 DEF Trade, OrderRec, Live
  <2>. QED BY <1>1, <2>1, <2>2 DEF Lone, Entering, LiveOf, Live
<1>. QED BY <1>1, <1>2, NextPlain, PlainLone, RestLone, EnterMarketLone

\* However the answer of its entry and the process are lost, a bracket has one entry at most
\* on the book: a restarted one adopts what carries its client id, and the id is in the file
\* before the entry is sent.
THEOREM OneEntryOnBook == Spec => []OneEntryRests
<1>1. Init => Lone
  <2>1. ASSUME Init PROVE LiveOf("buy") = {} /\ job["run"].pc = "idle"
    BY <2>1 DEF Init, NoOrder, LiveOf, Live, Idle, Procs
  <2>. QED BY <2>1 DEF Lone, Entering
<1>2. Lone => OneEntryRests
  <2>1. ASSUME Lone, NEW o \in LiveOf("buy") PROVE OneEntryRests
    <3>1. PICK S : S = LiveOf("buy") OBVIOUS
    <3>2. \A p \in S : p = o BY <2>1, <3>1 DEF Lone
    <3>3. S = {o} BY <2>1, <3>1, <3>2
    <3>4. Cardinality(S) = 1 BY <3>3, FS_Singleton
    <3>. QED BY <3>1, <3>4 DEF OneEntryRests
  <2>. QED BY <2>1, FS_EmptySet DEF OneEntryRests
<1>3. IInv /\ EInv /\ [Next]_vars => EInv' BY NextEnters
<1>. QED BY InvariantHolds, InitEnters, NextLone, <1>1, <1>2, <1>3, PTL DEF Spec

LEMMA NoBracketSound == Sound(NoBracket)
  BY DEF Sound, NoBracket

LEMMA FaultStays == ASSUME NoNewStop, NoFault' PROVE NoFault
  BY DEF NoNewStop, NoFault

LEMMA Settled ==
  ASSUME TypeOK, SInv, ~Adjusted', upsets \subseteq upsets', \A o, p \in Stops' : o = p, Settles, spec' = spec
  PROVE SInv'
<1>1. PICK c : /\ Become("run", c) /\ (c.pc = "placeStop" => Stops' = {})
               /\ c.pc = "sweep" => c.why = "close"
               /\ NoFault' => Fits(c) BY DEF Settles
<1>2. job'["run"] = c /\ job'["adjust"] = job["adjust"] BY <1>1 DEF Become, TypeOK, Procs
<1>3. ~Adjusted /\ Alone BY DEF SInv, Adjusted
<1>4. Alone' BY <1>1, <1>2, <1>3 DEF Alone, At
<1>5. ASSUME NoFault' PROVE Agreed'
  <2>1. Fits(c) BY <1>1, <1>5
  <2>2. Sound(st)' /\ Sound(disk)' /\ Fit(st, job["run"])'
    BY <1>2, <2>1, NoBracketSound DEF Fits, Filed, Knows, Sound, Fit, FitAt
  <2>3. disk' # NoBracket => Stops' \subseteq {disk'.stopId} BY <2>1 DEF Fits, Filed, Knows
  <2>. QED BY <1>2, <2>1, <2>2, <2>3 DEF Agreed, Fits, Knows, At
<1>. QED BY <1>4, <1>5 DEF SInv

----
\* The exchange.

LEMMA ReadStops == ASSUME NEW ok, Read(ok) PROVE NoNewStop /\ Stops' = Stops
  BY DEF Read, Calm, Upset, NoNewStop, Stops, LiveOf, Live

LEMMA CalmStops == ASSUME UNCHANGED <<book, upsets>> PROVE NoNewStop /\ Stops' = Stops
  BY DEF NoNewStop, Stops, LiveOf, Live

LEMMA ReadFaults == ASSUME Read(FALSE) PROVE ~NoFault'
  BY DEF Read, Upset, NoFault

\* An order that leaves the book leaves the stops.
LEMMA GoneStops == ASSUME TypeOK, NEW o, Gone(o) PROVE Stops' \subseteq Stops \ {o}
<1>1. \A x \in Orders : book'[x].st = "live" => book'[x] = book[x] /\ x # o BY DEF Gone, TypeOK, OrderRec
<1>. QED BY <1>1 DEF Stops, LiveOf, Live

LEMMA CancelStops ==
  ASSUME TypeOK, NEW o, NEW ok \in BOOLEAN, CancelOrder(o, ok)
  PROVE NoNewStop /\ (NoFault' => Stops' \subseteq Stops \ {o})
<1>1. upsets \subseteq upsets' BY DEF CancelOrder, Calm, Upset
<1>2. Gone(o) \/ (book' = book /\ (~Live(o) \/ "fault" \in upsets')) BY DEF CancelOrder, Upset
<1>3. CASE Gone(o) BY <1>1, <1>3, GoneStops DEF NoNewStop
<1>4. CASE book' = book /\ (~Live(o) \/ "fault" \in upsets')
  <2>1. Stops' = Stops /\ (NoFault' => o \notin Stops) BY <1>4 DEF Stops, LiveOf, Live, NoFault
  <2>. QED BY <1>1, <2>1 DEF NoNewStop
<1>. QED BY <1>2, <1>3, <1>4

LEMMA PlaceStops ==
  ASSUME TypeOK, NEW kind \in {"buy", "sell"}, NEW amt, NEW lvl, NEW id, PlaceOrder(kind, amt, lvl, id)
  PROVE NoNewStop
<1>. DEFINE n == Min(Unused)
            new == [kind |-> kind, st |-> "live", amt |-> amt, got |-> 0, lvl |-> lvl]
            accepted == book' = [o \in Orders |-> IF o = n THEN new ELSE IF o \in Unused THEN NoOrder ELSE book[o]]
<1>1. accepted \/ book' = book BY DEF PlaceOrder
<1>2. upsets \subseteq upsets' BY DEF PlaceOrder, Calm, Upset
<1>3. new.kind # "stop" /\ NoOrder.kind # "stop" BY DEF NoOrder
<1>. HIDE DEF n, new
<1>4. accepted => NoNewStop BY <1>2, <1>3 DEF NoNewStop, Stops, LiveOf, Live
<1>5. book' = book => NoNewStop BY <1>2 DEF NoNewStop, Stops, LiveOf, Live
<1>. HIDE DEF accepted
<1>. QED BY <1>1, <1>4, <1>5

\* The order of a stop when none rests: it is the only one, under the id that is learnt.
LEMMA StopPlaced ==
  ASSUME TypeOK, Stops = {}, NEW amt, NEW lvl, NEW id, PlaceOrder("stop", amt, lvl, id)
  PROVE  /\ upsets \subseteq upsets' /\ (\A o, p \in Stops' : o = p)
         /\ NoFault' => Stops' \subseteq {id}
<1>. DEFINE n == Min(Unused)
            new == [kind |-> "stop", st |-> "live", amt |-> amt, got |-> 0, lvl |-> lvl]
            accepted == book' = [o \in Orders |-> IF o = n THEN new ELSE IF o \in Unused THEN NoOrder ELSE book[o]]
<1>1. (accepted /\ id = n) \/ (accepted /\ "fault" \in upsets') \/ book' = book BY DEF PlaceOrder, Upset
<1>2. upsets \subseteq upsets' BY DEF PlaceOrder, Calm, Upset
<1>3. NoOrder.kind # "stop" BY DEF NoOrder
<1>. HIDE DEF n, new
<1>4. accepted => Stops' \subseteq {n} BY <1>3 DEF Stops, LiveOf, Live
<1>5. book' = book => Stops' = {} BY DEF Stops, LiveOf, Live
<1>. HIDE DEF accepted
<1>. QED BY <1>1, <1>2, <1>4, <1>5 DEF NoFault

LEMMA LeadsSettle ==
  ASSUME NEW S, NEW D, NEW c, Leads("run", S, D, c), Tame(c),
         NoFault' => Ahead(S) /\ st'.phase # "entering" /\ Filed(D) /\ Fit(S, c)
  PROVE Settles
<1>1. Become("run", c) /\ Alike(S, st') BY DEF Leads
<1>2. ASSUME NoFault' PROVE Fits(c)
  <2>1. Knows(st') /\ Fit(st', c) BY <1>1, <1>2 DEF Ahead, Knows, Sound, Alike, Fit, FitAt
  <2>2. Filed(disk') BY <1>1, <1>2 DEF Leads, Ahead, Filed, Knows, Sound, Alike
  <2>. QED BY <2>1, <2>2 DEF Fits, Tame
<1>. QED BY <1>1, <1>2 DEF Settles, Tame

LEMMA EndsFit == ASSUME NEW c, Ends(c) PROVE Tame(c) /\ \A S : S.phase # "entering" => Fit(S, c)
<1>1. c.pc \in {"asleep", "idle"} /\ c.why = "" BY EndsTyped
<1>. QED BY <1>1 DEF Tame, Fit, FitAt

LEMMA UnstoppingFit ==
  ASSUME NEW S, S.phase # "entering", Sound(S), NEW why, NEW lvl, NEW c, Unstopping(S, why, lvl, c),
         why = "scale" => spec.scale /\ ~spec.full, why \notin {"heal", "force"},
         why = "ratchet" /\ spec.full => spec.stop /\ S.tp1Id = 0, why # "adjust"
  PROVE Fit(S, c) BY DEF Unstopping, Freeing, Sound, Fit, FitAt, Early

LEMMA UnstoppingTame == ASSUME NEW S, NEW why, NEW lvl, NEW c, Unstopping(S, why, lvl, c) PROVE Tame(c)
  BY DEF Unstopping, Freeing, Tame

LEMMA Kinds == ASSUME TypeOK PROVE ~(spec.full /\ spec.scale)
  BY ConstantsAssumption DEF TypeOK

LEMMA TimeStoppingFit ==
  ASSUME NEW S, NEW c, TimeStopping(S, c) PROVE Tame(c) /\ (S.phase # "entering" /\ Sound(S) => Fit(S, c))
<1>1. CASE Ends(c) BY <1>1, EndsFit
<1>2. CASE Unstopping(S, "time", 0, c) BY <1>2, UnstoppingFit, UnstoppingTame
<1>. QED BY <1>1, <1>2 DEF TimeStopping

LEMMA ManagedFit ==
  ASSUME TypeOK, NEW S, NEW c, Managed(S, c)
  PROVE Tame(c) /\ (S.phase # "entering" /\ Sound(S) /\ OneExit(S) => Fit(S, c))
<1>1. CASE TimeStopping(S, c) BY <1>1, TimeStoppingFit
<1>2. CASE spec.scale /\ Unstopping(S, "scale", 0, c) BY <1>2, Kinds, UnstoppingFit, UnstoppingTame
<1>3. CASE Unstopping(S, "final", 0, c) BY <1>3, UnstoppingFit, UnstoppingTame
<1>4. ASSUME S.stopPrice # 0, NEW lvl, Unstopping(S, "ratchet", lvl, c)
      PROVE  Tame(c) /\ (S.phase # "entering" /\ Sound(S) /\ OneExit(S) => Fit(S, c))
  <2>1. Sound(S) /\ OneExit(S) /\ spec.full => spec.stop /\ S.tp1Id = 0 BY <1>4, RunHere DEF Sound, OneExit
  <2>. QED BY <1>4, <2>1, UnstoppingFit, UnstoppingTame
<1>. QED BY <1>1, <1>2, <1>3, <1>4 DEF Managed

LEMMA ManagesFit ==
  ASSUME TypeOK, NEW S, NEW c, Manages(S, c)
  PROVE Tame(c) /\ (S.phase # "entering" /\ Sound(S) /\ OneExit(S) => Fit(S, c)) BY EndsFit, ManagedFit DEF Manages

LEMMA ArrivedFit ==
  ASSUME TypeOK, NEW S, NEW why, why # "adjust", NEW c, Arrived(why, S, c)
  PROVE  /\ Tame(c)
         /\ S.phase # "entering" /\ Sound(S) /\ (why = "heal" => OneExit(S)) /\ (why = "scale" => spec.scale)
            => Fit(S, c)
<1>1. CASE Ends(c) BY <1>1, EndsFit
<1>2. CASE Again(S, c) BY <1>2 DEF Again, Tame, Fit, FitAt
<1>3. CASE why = "heal" /\ Managed(S, c) BY <1>3, ManagedFit
<1>4. CASE why = "scale" /\ c.pc = "sell" /\ c.why = "scale" BY <1>4, Kinds DEF Tame, Fit, FitAt
<1>5. CASE TimeStopping(S, c) BY <1>5, TimeStoppingFit
<1>. QED BY <1>1, <1>2, <1>3, <1>4, <1>5 DEF Arrived

----
\* The ways a step of the monitor ends.

LEMMA KnowingNow ==
  ASSUME SInv, EInv, ~Adjusted', upsets \subseteq upsets', job["run"].pc # "idle", NoFault
  PROVE Agreed /\ status # "gone"
<1>1. Agreed BY DEF SInv, Adjusted
<1>2. Absent /\ "run" \in Procs BY DEF EInv, LostBoth, NoFault, Procs
<1>. QED BY <1>1, <1>2 DEF Absent

LEMMA Knowing ==
  ASSUME TypeOK, SInv, EInv, ~Adjusted', NoNewStop, job["run"].pc # "idle", NoFault'
  PROVE  /\ Agreed /\ Knows(st) /\ Filed(disk) /\ Filed(NoBracket)
         /\ job["run"].pc \notin Early => Ahead(st)
<1>1. Agreed /\ NoFault BY FaultStays DEF SInv, Adjusted, NoNewStop
<1>2. status # "gone"
  <2>1. Absent /\ "run" \in Procs BY <1>1 DEF EInv, LostBoth, NoFault, Procs
  <2>. QED BY <2>1 DEF Absent
<1>3. Knows(st) BY <1>1, <1>2 DEF Agreed, Knows, NoNewStop
<1>. QED BY <1>1, <1>3 DEF Agreed, Filed, Knows, NoNewStop, Ahead, Fit, FitAt

LEMMA ImageFiled == ASSUME NEW S, Knows(S) PROVE Filed(Image(S))
  BY ImageOf DEF Filed

LEMMA AwaitSettles ==
  ASSUME NEW pc, NEW why, NEW last, NEW amt, NEW lvl, Awaits("run", pc, why, last, amt, lvl),
         pc \notin {"placeStop", "sweep"}, NoFault' => Knows(st') /\ Filed(disk') /\ FitFor(st', pc, why)
  PROVE Settles
<1>. DEFINE c == [Idle EXCEPT !.pc = pc, !.why = why, !.last = last, !.amt = amt, !.lvl = lvl]
<1>1. Become("run", c) BY DEF Awaits
<1>2. c.pc = pc /\ c.why = why /\ c.id = 0 BY DEF Idle
<1>. HIDE DEF c
<1>. QED BY <1>1, <1>2 DEF Settles, Fits, Fit, FitFor

LEMMA PauseSettles ==
  ASSUME NEW pc, NEW last, NEW amt, Pauses(pc, last, amt), pc \notin {"placeStop", "sweep"},
         NoFault' => Knows(st') /\ Filed(disk') /\ FitTick(st', pc)
  PROVE Settles
<1>1. PICK why : why = "" OBVIOUS
<1>2. Awaits("run", pc, why, last, amt, 0) /\ (NoFault' => FitFor(st', pc, why)) BY <1>1 DEF Pauses, FitTick, FitFor
<1>. QED BY <1>2, AwaitSettles

LEMMA JobSettles ==
  ASSUME NEW c, Become("run", c), Tame(c), NoFault' => Knows(st') /\ Filed(disk') /\ Fit(st', c)
  PROVE Settles BY DEF Settles, Fits, Tame

LEMMA IdleFit == Tame(Idle) /\ \A S : Fit(S, Idle)
<1>1. Idle.pc = "idle" /\ Idle.why = "" BY DEF Idle
<1>. QED BY <1>1 DEF Fit, FitAt, Early, Tame

LEMMA MonitorSettles == ASSUME Monitor, NoFault' => Ahead(st') /\ Filed(disk') PROVE Settles
<1>1. PICK c : Become("run", c) /\ Ends(c) BY MonitorEnds
<1>. QED BY <1>1, EndsFit, JobSettles DEF Ahead

LEMMA EndedSettles ==
  ASSUME Ended, NoFault' => Knows(st') /\ Filed(disk')
  PROVE Settles BY IdleFit, JobSettles DEF Ended

LEMMA TickEndsSettles ==
  ASSUME NEW S, TickEnds(S), NoFault' => Ahead(S)
  PROVE Settles BY MonitorSettles, ImageFiled DEF TickEnds, persistBracket, Ahead

LEMMA TickThrowsSettles ==
  ASSUME NEW S, TickThrows(S), NoFault' => Ahead(S) /\ Filed(disk)
  PROVE Settles BY MonitorSettles DEF TickThrows, Filed

LEMMA FailsSettles ==
  ASSUME NEW S, Fails(S), NoFault' => Knows(S)
  PROVE Settles BY EndedSettles, ImageFiled DEF Fails, persistBracket

\* The same bracket in another phase than that of its entry.
LEMMA PhaseKnows ==
  ASSUME NEW S \in Brackets, NEW phase, phase # "entering", Knows(S)
  PROVE Ahead([S EXCEPT !.phase = phase]) BY DEF Ahead, Knows, Sound, Brackets

LEMMA failBracketSettles == ASSUME TypeOK, failBracket, NoFault' => Knows(st) PROVE Settles
<1>1. NoFault' => Ahead([st EXCEPT !.phase = "aborted"]) BY PhaseKnows DEF TypeOK
<1>. QED BY <1>1, EndedSettles DEF failBracket, clearPersistedBracket, Filed, Ahead

LEMMA ClosesSettle == ASSUME NEW S \in Brackets, ClosesFlat(S), NoFault' => Knows(S) PROVE Settles
<1>1. NoFault' => Ahead([S EXCEPT !.phase = "flat"]) BY PhaseKnows
<1>. QED BY <1>1, EndedSettles DEF ClosesFlat, clearPersistedBracket, Filed, Ahead

LEMMA EntryLoopSettles ==
  ASSUME NEW S, EntryLoop(S), NoFault' => Knows(S) /\ S.stopId = 0 /\ Filed(disk') PROVE Settles
<1>1. PICK c \in Jobs : Become("run", c) /\ (c = Idle \/ (c.pc = "awaitEntry" /\ c.why = ""))
  <2>1. [Idle EXCEPT !.pc = "awaitEntry"].why = "" BY DEF Idle
  <2>. QED BY <2>1, EntryLoopOf DEF EntryLoop, Ended
<1>2. Tame(c) /\ (NoFault' => Fit(S, c)) BY <1>1, IdleFit DEF Tame, Fit, FitAt, Early
<1>. QED BY <1>1, <1>2, JobSettles DEF EntryLoop

LEMMA ProtectedSettles == ASSUME NEW S \in Brackets, Protected(S), NoFault' => Ahead(S) PROVE Settles
<1>1. PICK c : Leads("run", S, NoBracket, c) /\ Protects(S, c) BY ProtectedLeads
<1>2. Tame(c) /\ (S.phase # "entering" => Fit(S, c)) /\ st' = S
  BY <1>1, EndsFit DEF Protects, Again, Tame, Fit, FitAt, Early
<1>. QED BY <1>1, <1>2, LeadsSettle DEF Ahead, Filed

LEMMA ManageSettles ==
  ASSUME TypeOK, NEW S \in Brackets, NEW D, NEW last \in Int, Manage(S, D, last),
         NoFault' => Ahead(S) /\ Filed(D) /\ OneExit(S)
  PROVE Settles
<1>1. PICK c : Leads("run", S, D, c) /\ Manages(S, c) BY ManageLeads, RunHere
<1>2. S.phase # "entering" => st'.phase # "entering" BY <1>1 DEF Manages, Managed, TimeStopping, Unstopping, Freeing
<1>. QED BY <1>1, <1>2, ManagesFit, LeadsSettle DEF Ahead, Knows

LEMMA TimeStopSettles ==
  ASSUME TypeOK, NEW S \in Brackets, NEW D, NEW last \in Int, TimeStop(S, D, last), NoFault' => Ahead(S) /\ Filed(D)
  PROVE Settles
<1>1. PICK c : Leads("run", S, D, c) /\ TimeStopping(S, c) BY TimeStopLeads, RunHere
<1>2. S.phase # "entering" => st'.phase # "entering" BY <1>1 DEF TimeStopping, Unstopping, Freeing
<1>. QED BY <1>1, <1>2, TimeStoppingFit, LeadsSettle DEF Ahead, Knows

LEMMA ArrivedPhase ==
  ASSUME NEW why, NEW S, NEW c, Arrived(why, S, c), S.phase # "entering"
  PROVE st'.phase # "entering" BY DEF Arrived, Managed, TimeStopping, Unstopping, Freeing

LEMMA StopDoneSettles ==
  ASSUME TypeOK, Errand("run"), NEW S \in Brackets, NEW D, StopDone("run", S, D),
         NoFault' => /\ Ahead(S) /\ Filed(D) /\ OneExit(S)
                     /\ job["run"].why = "scale" => spec.scale
  PROVE Settles
<1>1. PICK c : Leads("run", S, D, c) /\ Arrives("run", S, c) BY StopDoneLeads, RunHere DEF Procs
<1>2. Arrived(job["run"].why, S, c) /\ job["run"].why # "adjust" BY <1>1 DEF Arrives, Errand
<1>. QED BY <1>1, <1>2, ArrivedPhase, ArrivedFit, LeadsSettle DEF Ahead, Knows

LEMMA SellDoneSettles ==
  ASSUME TypeOK, Whose, NEW S \in Brackets, SellDone(S),
         NoFault' => /\ Ahead(S) /\ (job["run"].why = "heal" => OneExit(S))
                     /\ job["run"].why = "scale" => spec.scale
  PROVE Settles
<1>1. PICK c : Leads("run", S, Image(S), c) /\ Sold(S, c) BY SellDoneLeads
<1>2. Arrived(job["run"].why, S, c) /\ job["run"].why # "adjust" BY <1>1 DEF Sold
<1>. QED BY <1>1, <1>2, ArrivedPhase, ArrivedFit, ImageFiled, LeadsSettle DEF Ahead, Knows

LEMMA ReadsTp1Settles ==
  ASSUME NEW S, st' = S, NEW last, ReadsTp1(S, last), UNCHANGED disk, NoFault' => Ahead(S) /\ Filed(disk)
  PROVE Settles
<1>. DEFINE c == [Idle EXCEPT !.pc = "readTp1", !.last = last, !.id = S.tp1Id]
<1>1. c.pc = "readTp1" /\ c.id = S.tp1Id /\ c.why = "" BY DEF Idle
<1>2. NoFault' => Filed(disk') OBVIOUS
<1>. HIDE DEF c
<1>3. CASE S.tp1Id # 0 /\ Become("run", c) BY <1>1, <1>2, <1>3, JobSettles DEF Tame, Fit, FitAt, Ahead
<1>4. CASE S.tp1Id = 0 /\ Awaits("run", "readHeld", "", last, 0, 0)
  <2>1. Pauses("readHeld", last, 0) /\ (NoFault' => Knows(st') /\ FitTick(st', "readHeld"))
    BY <1>4 DEF Pauses, FitTick, FitAt, Ahead
  <2>. QED BY <1>2, <2>1, PauseSettles
<1>. QED BY <1>3, <1>4 DEF ReadsTp1, c

LEMMA finalizeSettles ==
  ASSUME NEW S \in Brackets, finalizeBracket(S), NoFault' => Knows(S) /\ Filed(disk) PROVE Settles
<1>. DEFINE c == [Idle EXCEPT !.pc = "sweep", !.why = "close", !.ids = Named(S) \ {0}]
<1>1. c.pc = "sweep" /\ c.why = "close" /\ c.ids = Named(S) \ {0} /\ Become("run", c) /\ disk' = disk
  BY DEF Idle, finalizeBracket
<1>2. NoFault' => Ahead(st') BY PhaseKnows DEF finalizeBracket
<1>3. S.stopId \in Named(S) /\ (NoFault' => Stops' \subseteq {S.stopId}) BY DEF Named, Knows
<1>. HIDE DEF c
<1>4. 0 \notin Stops' BY DEF Orders, Stops, LiveOf
<1>. QED BY <1>1, <1>2, <1>3, <1>4 DEF Settles, Fits, Filed, Ahead, Fit, FitAt

LEMMA Found ==
  ASSUME Before, NEW pc, At("run", pc), pc # "idle", NoNewStop
  PROVE NoFault' => Finds(pc) BY Knowing DEF Before, IInv, At, Finds, Knows, Agreed, Fit

\* A step that sends no stop lands where it settles.
LEMMA Landing == ASSUME Before, NoNewStop, spec' = spec, Settles PROVE Lands
  BY DEF Before, SInv, Adjusted, Alone, NoNewStop, Lands

LEMMA FindEntryLands == ASSUME Before, FindEntry PROVE Lands
<1>1. NoNewStop /\ spec' = spec /\ At("run", "find") /\ st \in Brackets
  BY ReadStops, Parts DEF FindEntry, world, Before
<1>2. NoFault' => Finds("find") /\ st.stopId = 0 BY <1>1, Found DEF Finds, FitAt
<1>. SUFFICES Settles BY <1>1, Landing
<1>3. ASSUME NEW o \in LiveOf("buy"), EntryLoop([st EXCEPT !.entryId = o]), persistBracket([st EXCEPT !.entryId = o])
      PROVE  Settles
  <2>. DEFINE S == [st EXCEPT !.entryId = o]
  <2>1. S.stopId = st.stopId /\ (Knows(st) => Knows(S)) BY <1>1 DEF Knows, Sound, Brackets
  <2>. HIDE DEF S
  <2>2. EntryLoop(S) /\ disk' = Image(S) BY <1>3 DEF S, persistBracket
  <2>. QED BY <1>2, <2>1, <2>2, ImageFiled, EntryLoopSettles DEF Finds
<1>4. CASE UNCHANGED <<st, disk>> /\ Awaits("run", "enter", "", 0, 0, 0)
  <2>1. Pauses("enter", 0, 0) /\ (NoFault' => Knows(st') /\ Filed(disk') /\ FitTick(st', "enter"))
    BY <1>2, <1>4 DEF Pauses, FitTick, FitAt, Finds, Early
  <2>. QED BY <2>1, PauseSettles
<1>. QED BY <1>1, <1>3, <1>4 DEF FindEntry

LEMMA EnterMarketLands == ASSUME Before, EnterMarket PROVE Lands
<1>1. TypeOK /\ NoNewStop /\ spec' = spec /\ At("run", "enter") /\ st \in Brackets
  BY PlaceStops, CalmStops, Parts DEF EnterMarket, world, Before
<1>2. NoFault' => Finds("enter") /\ Knows(st) /\ st.stopId = 0 BY <1>1, Found DEF Finds, FitAt
<1>. SUFFICES Settles BY <1>1, Landing
<1>3. CASE failBracket BY <1>1, <1>2, <1>3, failBracketSettles
<1>a. CASE Fails(st) BY <1>2, <1>a, FailsSettles
<1>4. ASSUME NEW id, EntryLoop([st EXCEPT !.entryId = id]), persistBracket([st EXCEPT !.entryId = id])
      PROVE  Settles
  <2>. DEFINE S == [st EXCEPT !.entryId = id]
  <2>1. S.stopId = st.stopId /\ (Knows(st) => Knows(S)) BY <1>1 DEF Knows, Sound, Brackets
  <2>. HIDE DEF S
  <2>2. EntryLoop(S) /\ disk' = Image(S) BY <1>4 DEF S, persistBracket
  <2>. QED BY <1>2, <2>1, <2>2, ImageFiled, EntryLoopSettles DEF Finds
<1>. QED BY <1>1, <1>3, <1>a, <1>4 DEF EnterMarket

\* What the entry executed is held without a stop yet.
LEMMA HeldKnows ==
  ASSUME TypeOK, NEW n \in Int, Knows(st), st.stopId = 0
  PROVE  /\ Knows(Held(st, n))
         /\ Ahead([Held(st, n) EXCEPT !.phase = "protected"])
         /\ FitFor([Held(st, n) EXCEPT !.phase = "protected"], "protect", "first")
<1>1. Held(st, n) \in Brackets BY HeldTyped
<1>2. Knows(Held(st, n)) /\ Held(st, n).stopId = 0 BY DEF Knows, Sound, Held, TypeOK, Brackets
<1>. DEFINE T == [Held(st, n) EXCEPT !.phase = "protected"]
<1>3. Ahead(T) /\ T.stopId = 0 BY <1>1, <1>2, PhaseKnows DEF Brackets
<1>. HIDE DEF T
<1>4. FitFor(T, "protect", "first") BY <1>3 DEF FitFor, FitAt, Ahead
<1>. QED BY <1>2, <1>3, <1>4 DEF T

LEMMA adoptSettles ==
  ASSUME TypeOK, NEW n \in Int, adoptPartialEntry(n), NoFault' => Knows(st) /\ Filed(disk) /\ st.stopId = 0
  PROVE Settles
<1>1. CASE failBracket BY <1>1, failBracketSettles
<1>2. CASE /\ st' = [Held(st, n) EXCEPT !.phase = "protected"]
           /\ Awaits("run", "protect", "first", 0, 0, 0) /\ UNCHANGED <<disk, status>>
  BY <1>2, HeldKnows, AwaitSettles DEF Ahead
<1>. QED BY <1>1, <1>2 DEF adoptPartialEntry

LEMMA PollEntryLands == ASSUME Before, PollEntry PROVE Lands
<1>. DEFINE n == book[st.entryId].got
<1>1. /\ TypeOK /\ NoNewStop /\ spec' = spec /\ At("run", "awaitEntry") /\ st \in Brackets
      /\ n \in Int BY ReadStops, Parts, EntryOrder DEF PollEntry, world, Before, At
<1>2. NoFault' => Finds("awaitEntry") /\ st.stopId = 0 BY <1>1, Found DEF Finds, FitAt
<1>. HIDE DEF n
<1>. SUFFICES Settles BY <1>1, Landing
<1>3. CASE /\ persistBracket(Held(st, n)) /\ st' = [Held(st, n) EXCEPT !.phase = "protected"]
           /\ Awaits("run", "protect", "first", 0, 0, 0)
  <2>1. NoFault' => Knows(st') /\ FitFor(st', "protect", "first") /\ Filed(disk')
    BY <1>1, <1>2, <1>3, HeldKnows, ImageFiled DEF Finds, Ahead, persistBracket
  <2>. QED BY <1>3, <2>1, AwaitSettles
<1>4. CASE adoptPartialEntry(n) BY <1>1, <1>2, <1>4, adoptSettles DEF Finds
<1>5. CASE UNCHANGED <<st, disk, status>> /\ Awaits("run", "dropEntry", "", 0, n, 0)
  <2>1. Pauses("dropEntry", 0, n) /\ (NoFault' => Knows(st') /\ Filed(disk') /\ FitTick(st', "dropEntry"))
    BY <1>2, <1>5 DEF Pauses, FitTick, FitAt, Finds, Early
  <2>. QED BY <2>1, PauseSettles
<1>6. CASE Ended /\ UNCHANGED <<st, disk, status>> BY <1>2, <1>6, EndedSettles DEF Finds
<1>7. CASE EntryLoop(st) /\ UNCHANGED <<disk, status>> BY <1>2, <1>7, EntryLoopSettles DEF Finds
<1>. QED BY <1>1, <1>3, <1>4, <1>5, <1>6, <1>7 DEF PollEntry, n

LEMMA DropEntryLands == ASSUME Before, DropEntry PROVE Lands
<1>1. TypeOK /\ spec' = spec /\ At("run", "dropEntry") BY Parts DEF DropEntry, world, Before
<1>2. NoNewStop BY <1>1, CancelStops DEF DropEntry
<1>3. NoFault' => Finds("dropEntry") /\ st.stopId = 0 BY <1>1, <1>2, Found DEF Finds, FitAt
<1>4. /\ Pauses("reread", 0, job["run"].amt)
      /\ NoFault' => Knows(st') /\ Filed(disk') /\ FitTick(st', "reread")
  BY <1>3 DEF DropEntry, Pauses, FitTick, FitAt, Finds, Early
<1>. QED BY <1>1, <1>2, <1>4, PauseSettles, Landing

LEMMA RereadEntryLands == ASSUME Before, RereadEntry PROVE Lands
<1>1. /\ TypeOK /\ spec' = spec /\ At("run", "reread") /\ NoNewStop /\ book[st.entryId].got \in Int
      /\ job["run"].amt \in Int BY Parts, ReadStops, EntryOrder, RunHere DEF RereadEntry, world, Before, At
<1>2. NoFault' => Finds("reread") /\ st.stopId = 0 BY <1>1, Found DEF Finds, FitAt
<1>3. Settles BY <1>1, <1>2, adoptSettles DEF RereadEntry, Finds
<1>. QED BY <1>1, <1>3, Landing

LEMMA placeProtectionLands == ASSUME Before, placeProtection PROVE Lands
<1>. DEFINE S == [st EXCEPT !.position = Lower(st.filled, coins)]
            T == [S EXCEPT !.stopPrice = IF spec.stop THEN StopLevel ELSE 0]
            why == job["run"].why
<1>1. /\ TypeOK /\ spec' = spec /\ At("run", "protect") /\ NoNewStop /\ st \in Brackets
      /\ st.filled \in Int /\ coins \in Int BY Parts, ReadStops, StateTyped DEF placeProtection, world, Before, TypeOK
<1>2. NoFault' => Finds("protect") /\ st.stopId = 0 /\ Ahead(st) /\ (why = "scale" => spec.scale)
  BY <1>1, Found DEF Finds, FitAt, Early
<1>3. S \in Brackets /\ S.stopId = st.stopId /\ S.phase = st.phase /\ (Ahead(st) => Ahead(S))
  <2>1. Lower(st.filled, coins) \in Int BY <1>1, LowerTyped
  <2>. QED BY <1>1, <2>1 DEF Brackets, Ahead, Knows, Sound
<1>4. T.stopId = st.stopId /\ (Ahead(S) /\ S.stopId = 0 => Ahead(T))
  BY <1>3 DEF Brackets, Ahead, Knows, Sound, StopLevel
<1>5. \/ Fails(st) \/ Protected(S)
      \/ /\ st' = T /\ spec.full /\ UNCHANGED <<disk, status>> /\ \E amt : Awaits("run", "sell", why, 0, amt, Tp1Level)
      \/ /\ st' = S /\ ~spec.full /\ UNCHANGED <<disk, status>>
         /\ \E amt : \/ ~spec.stop /\ Awaits("run", "findTp", why, 0, amt, Tp1Level)
                     \/ Awaits("run", "findStop", why, 0, amt, StopLevel) BY DEF placeProtection, PlaceStop
<1>. SUFFICES Settles BY <1>1, Landing
<1>6. NoFault' => Ahead(S) /\ Ahead(T) /\ Filed(disk) /\ S.stopId = 0 /\ T.stopId = 0 /\ why \in {"first", "again"}
  BY <1>2, <1>3, <1>4 DEF Finds, FitAt
<1>. HIDE DEF S, T, why
<1>7. CASE Fails(st) \/ Protected(S) BY <1>2, <1>3, <1>6, <1>7, FailsSettles, ProtectedSettles DEF Ahead
<1>8. ASSUME NEW amt, st' = T, UNCHANGED disk, Awaits("run", "sell", why, 0, amt, Tp1Level)
      PROVE  Settles
  <2>1. NoFault' => Knows(st') /\ Filed(disk') /\ FitFor(st', "sell", why) BY <1>6, <1>8 DEF Ahead, FitFor, FitAt
  <2>. QED BY <1>8, <2>1, AwaitSettles
<1>9. ASSUME NEW amt, NEW lvl, st' = S, ~spec.full, UNCHANGED disk, NEW pc \in {"findTp", "findStop"},
             Awaits("run", pc, why, 0, amt, lvl)
      PROVE  Settles
  <2>1. NoFault' => Knows(st') /\ Filed(disk') /\ FitFor(st', pc, why) BY <1>6, <1>9 DEF Ahead, FitFor, FitAt
  <2>. QED BY <1>9, <2>1, AwaitSettles
<1>. QED BY <1>5, <1>7, <1>8, <1>9

----
\* The stop and the sells.

\* Only the monitor works on the stop.
LEMMA Runs ==
  ASSUME Before, NEW p \in Procs, job[p].pc \notin {"idle", "sweep"}
  PROVE p = "run" /\ Errand("run") /\ job["run"].why \notin {"adjust", "kill"}
<1>1. Errand(p) /\ p # "adjust" BY Worker DEF Before, SInv, Alone, At
<1>. QED BY <1>1 DEF Errand, Before, IInv, Whose

LEMMA CancelStopLands == ASSUME Before, NEW p \in Procs, CancelStop(p) PROVE Lands
<1>. DEFINE j == job["run"]
<1>1. p = "run" /\ TypeOK /\ spec' = spec /\ At("run", "unstop") /\ j.last \in Int /\ j.why # "adjust"
  BY Runs, Parts, RunHere DEF CancelStop, At, world, Before
<1>2. PICK ok \in BOOLEAN :
         LET S == ForgetStop(st, ok) IN
         /\ CancelOrder(j.id, ok)
         /\ \/ ok /\ Tick(S, disk) /\ Awaits("run", "freed", j.why, j.last, 0, j.lvl)
            \/ TickEnds(S) \/ TimeStop(S, disk, j.last) BY <1>1 DEF CancelStop
<1>. DEFINE S == ForgetStop(st, ok)
<1>3. NoNewStop /\ (NoFault' => Stops' \subseteq Stops \ {j.id}) BY <1>1, <1>2, CancelStops
<1>4. NoFault' => Finds("unstop") /\ Ahead(st) /\ Stops' = {}
  BY <1>1, <1>3, Found, Knowing DEF Finds, FitAt, Early, Knows, Before
<1>5. S \in Brackets /\ S.phase = st.phase BY <1>1, Rec, StopTyped
<1>6. Ahead(st) /\ Stops' = {} => Ahead(S) /\ S.tp1Id = st.tp1Id /\ (ok => S.stopId = 0)
  BY <1>1 DEF S, ForgetStop, Ahead, Knows, Sound, TypeOK, Brackets
<1>. HIDE DEF S
<1>. SUFFICES Settles BY <1>1, <1>3, Landing
<1>7. CASE ok /\ Tick(S, disk) /\ Awaits("run", "freed", j.why, j.last, 0, j.lvl)
  <2>1. NoFault' => Knows(st') /\ Filed(disk') /\ FitFor(st', "freed", j.why)
    BY <1>4, <1>6, <1>7 DEF Tick, Finds, Ahead, FitFor, FitAt
  <2>. QED BY <1>7, <2>1, AwaitSettles
<1>8. CASE TickEnds(S) BY <1>4, <1>6, <1>8, TickEndsSettles
<1>9. CASE TimeStop(S, disk, j.last)
  <2>1. NoFault' => Ahead(S) /\ Filed(disk) BY <1>4, <1>6 DEF Finds
  <2>. QED BY <1>1, <1>5, <1>9, <2>1, TimeStopSettles
<1>. QED BY <1>2, <1>7, <1>8, <1>9 DEF S

LEMMA StopFreedLands == ASSUME Before, NEW p \in Procs, StopFreed(p) PROVE Lands
<1>. DEFINE j == job["run"]
<1>1. /\ p = "run" /\ TypeOK /\ spec' = spec /\ At("run", "freed") /\ j.last \in Int /\ j.why # "adjust"
      /\ NoNewStop /\ st \in Brackets /\ j.why \in Why /\ j.lvl \in Int
  BY Runs, Parts, RunHere, CalmStops DEF StopFreed, At, world, Before
<1>2. PICK c : Leads("run", st, disk, c) /\ Freeing(st, j.why, j.lvl, c)
  BY <1>1, FreedLeads, RunHere DEF StopFreed, Procs
<1>3. NoFault' => Finds("freed") /\ Ahead(st) BY <1>1, Found DEF Finds, Early
<1>4. ASSUME NoFault' PROVE Fit(st, c) /\ st'.phase # "entering"
  <2>1. Finds("freed") /\ Ahead(st) BY <1>3, <1>4
  <2>2. Unstopping(st, j.why, j.lvl, c) BY <1>2, <2>1 DEF Unstopping, Finds, FitAt
  <2>3. /\ j.why = "scale" => spec.scale /\ ~spec.full
        /\ j.why = "ratchet" /\ spec.full => spec.stop /\ st.tp1Id = 0
        /\ st.phase # "entering" /\ Sound(st) BY <1>1, <2>1, Kinds DEF Finds, FitAt, Ahead, Knows
  <2>4. j.why \notin {"heal", "force"} BY <1>2 DEF Freeing
  <2>5. Fit(st, c) BY <1>1, <2>2, <2>3, <2>4, UnstoppingFit
  <2>. QED BY <1>2, <2>3, <2>5 DEF Freeing
<1>5. Tame(c) BY <1>2 DEF Freeing, Tame
<1>6. NoFault' => Ahead(st) /\ st'.phase # "entering" /\ Filed(disk) /\ Fit(st, c) BY <1>3, <1>4 DEF Finds
<1>. QED BY <1>1, <1>2, <1>5, <1>6, LeadsSettle, Landing

\* A stop of the bracket that rests is known to it.
LEMMA AdoptKnows ==
  ASSUME TypeOK, NEW id, NEW lvl \in Int, Ahead(st), Stops' \subseteq {id}, spec.full => spec.stop /\ st.tp1Id = 0
  PROVE Ahead(Adopts(st, id, lvl)) /\ OneExit(Adopts(st, id, lvl))
  BY DEF Adopts, Ahead, Knows, Sound, OneExit, TypeOK, Brackets

LEMMA FindStopLands == ASSUME Before, NEW p \in Procs, FindStop(p) PROVE Lands
<1>. DEFINE j == job["run"]
<1>1. /\ p = "run" /\ TypeOK /\ spec' = spec /\ At("run", "findStop") /\ Errand("run")
      /\ st \in Brackets BY Runs, Parts DEF FindStop, At, world, Before
<1>2. NoNewStop /\ Stops' = Stops BY ReadStops, CalmStops DEF FindStop
<1>3. NoFault' => /\ Finds("findStop") /\ Ahead(st) /\ OneExit(st) /\ Filed(disk)
                  /\ j.why = "scale" => spec.scale
                  /\ spec.full => spec.stop /\ st.tp1Id = 0 BY <1>1, <1>2, Found DEF Finds, FitAt, Early, OneExit
<1>4. \A o, q \in Stops : o = q BY DEF Before, SInv, Alone
<1>. SUFFICES Settles BY <1>1, <1>2, Landing
<1>5. CASE StopDone("run", st, disk) BY <1>1, <1>3, <1>5, StopDoneSettles
<1>6. ASSUME Tick(st, disk), Awaits("run", "placeStop", j.why, j.last, j.amt, j.lvl), Stops = {}
      PROVE  Settles
  <2>. DEFINE c == [Idle EXCEPT !.pc = "placeStop", !.why = j.why, !.last = j.last, !.amt = j.amt, !.lvl = j.lvl]
  <2>1. Become("run", c) /\ c.pc = "placeStop" /\ c.why = j.why BY <1>6 DEF Awaits, Idle
  <2>. HIDE DEF c
  <2>2. NoFault' => Fits(c) BY <1>3, <1>6, <2>1 DEF Tick, Fits, Fit, FitAt, Finds, Ahead
  <2>. QED BY <1>2, <1>6, <2>1, <2>2 DEF Settles
<1>7. CASE Stops = {} /\ Tick(st, disk) /\ Awaits("run", "placeStop", j.why, j.last, j.amt, j.lvl) BY <1>6, <1>7
<1>8. CASE Read(FALSE) /\ Tick(st, disk) /\ Awaits("run", "placeStop", j.why, j.last, j.amt, j.lvl)
  <2>1. NoFault BY <1>8 DEF Read, Upset, NoFault
  <2>2. Agreed /\ status # "gone" BY <1>1, <1>2, <2>1, KnowingNow DEF Before, At, NoNewStop
  <2>3. Stops \subseteq {0} BY <1>1, <2>2 DEF Agreed, Fit, FitAt, At
  <2>4. Stops = {} BY <2>3 DEF Stops, LiveOf, Orders
  <2>. QED BY <1>6, <1>8, <2>4
<1>9. ASSUME NEW o \in Stops, StopDone("run", Adopts(st, o, book[o].lvl), Image(Adopts(st, o, book[o].lvl)))
      PROVE  Settles
  <2>. DEFINE S == Adopts(st, o, book[o].lvl)
  <2>1. o \in Orders /\ o \in Ids /\ book[o].lvl \in Int BY <1>1, <1>9, Rec, StateTyped DEF Stops, LiveOf
  <2>2. S \in Brackets BY <1>1, <2>1, StopTyped
  <2>3. Stops' \subseteq {o} BY <1>2, <1>4, <1>9
  <2>4. NoFault' => Ahead(S) /\ OneExit(S) BY <1>1, <1>3, <2>1, <2>3, AdoptKnows
  <2>. HIDE DEF S
  <2>5. StopDone("run", S, Image(S)) /\ (NoFault' => Filed(Image(S))) BY <1>9, <2>4, ImageFiled DEF S, Ahead
  <2>. QED BY <1>1, <1>3, <2>2, <2>4, <2>5, StopDoneSettles
<1>10. ASSUME NEW o \in Nearest(Stops, j.lvl), Stops # {o} PROVE FALSE BY <1>4, <1>10 DEF Nearest
<1>. QED BY <1>1, <1>5, <1>7, <1>8, <1>9, <1>10 DEF FindStop, Stops

\* The stop that is placed is the only one, and the bracket and its file know it.
LEMMA PlaceNewStopLands == ASSUME Before, NEW p \in Procs, PlaceNewStop(p) PROVE Lands
<1>. DEFINE j == job["run"]
<1>1. /\ p = "run" /\ TypeOK /\ spec' = spec /\ At("run", "placeStop") /\ Errand("run")
      /\ st \in Brackets /\ j.lvl \in Int BY Runs, Parts, RunHere DEF PlaceNewStop, At, world, Before
<1>2. PICK id \in Ids : LET S == IF id = 0 THEN st ELSE Adopts(st, id, j.lvl) IN
         PlaceOrder("stop", j.amt, j.lvl, id) /\ StopDone("run", S, Image(S)) BY <1>1 DEF PlaceNewStop
<1>. DEFINE S == IF id = 0 THEN st ELSE Adopts(st, id, j.lvl)
<1>3. Stops = {} /\ ~Adjusted
  <2>1. upsets \subseteq upsets' BY <1>2 DEF PlaceOrder, Calm, Upset
  <2>. QED BY <1>1, <2>1 DEF Before, SInv, Adjusted, Alone
<1>4. /\ upsets \subseteq upsets' /\ (\A o, q \in Stops' : o = q)
      /\ NoFault' => Stops' \subseteq {id} BY <1>1, <1>2, <1>3, StopPlaced
<1>5. ASSUME NoFault' PROVE /\ Ahead(S) /\ OneExit(S) /\ (j.why = "scale" => spec.scale)
  <2>1. NoFault BY <1>4, <1>5 DEF NoFault
  <2>2. Agreed BY <1>3, <2>1 DEF Before, SInv
  <2>3. /\ Sound(st) /\ st.phase # "entering" /\ (j.why = "scale" => spec.scale)
        /\ spec.full => spec.stop /\ st.tp1Id = 0 BY <1>1, <2>2 DEF Agreed, Fit, FitAt, At, Early
  <2>4. CASE id = 0
    <3>1. Stops' = {} BY <1>4, <1>5, <2>4 DEF Stops, LiveOf, Orders
    <3>. QED BY <2>3, <2>4, <3>1 DEF Ahead, Knows, OneExit
  <2>5. CASE id # 0
    <3>1. S = Adopts(st, id, j.lvl) /\ Stops' \subseteq {id} BY <1>4, <1>5, <2>5
    <3>2. S.phase = st.phase /\ S.stopId = id /\ S.tp1Id = st.tp1Id /\ id # 0 BY <1>1, <2>5, <3>1 DEF Adopts, Brackets
    <3>. HIDE DEF S
    <3>3. Ahead(S) /\ OneExit(S) BY <2>3, <3>1, <3>2 DEF Ahead, Knows, Sound, OneExit
    <3>. QED BY <2>3, <3>3
  <2>. QED BY <2>4, <2>5
<1>6. S \in Brackets BY <1>1, StopTyped
<1>. HIDE DEF S
<1>7. StopDone("run", S, Image(S)) /\ (NoFault' => Filed(Image(S))) BY <1>2, <1>5, ImageFiled DEF S, Ahead
<1>8. Settles BY <1>1, <1>5, <1>6, <1>7, StopDoneSettles
<1>. QED BY <1>1, <1>4, <1>8 DEF Lands

LEMMA TpKnows ==
  ASSUME TypeOK, NEW id, Ahead(st), id = 0 \/ (spec.full => st.stopId = 0)
  PROVE  Ahead([st EXCEPT !.tp1Id = id]) /\ [st EXCEPT !.tp1Id = id].stopId = st.stopId
         /\ [st EXCEPT !.tp1Id = id].tp1Id = id BY DEF Ahead, Knows, Sound, TypeOK, Brackets

LEMMA FindTpLands == ASSUME Before, FindTp PROVE Lands
<1>. DEFINE j == job["run"]
<1>1. TypeOK /\ spec' = spec /\ At("run", "findTp") /\ NoNewStop /\ j.last \in Int
  BY Parts, ReadStops, RunHere DEF FindTp, world, Before
<1>2. NoFault' => /\ Finds("findTp") /\ Ahead(st) /\ (spec.full => st.stopId = 0) /\ Filed(disk)
                  /\ j.why = "heal" => ~spec.stop BY <1>1, Found DEF Finds, FitAt, Early
<1>. SUFFICES Settles BY <1>1, Landing
<1>3. CASE Tick(st, disk) /\ Awaits("run", "sell", j.why, j.last, j.amt, j.lvl)
  <2>1. NoFault' => Knows(st') /\ Filed(disk') /\ FitFor(st', "sell", j.why)
    BY <1>2, <1>3 DEF Tick, Finds, Ahead, FitFor, FitAt
  <2>. QED BY <1>3, <2>1, AwaitSettles
<1>4. ASSUME NEW o \in LiveOf("sell"),
             \/ j.why = "heal" /\ Manage([st EXCEPT !.tp1Id = o], Image([st EXCEPT !.tp1Id = o]), j.last)
             \/ Protected([st EXCEPT !.tp1Id = o])
      PROVE  Settles
  <2>. DEFINE S == [st EXCEPT !.tp1Id = o]
  <2>1. o \in Ids BY Rec DEF LiveOf
  <2>2. S \in Brackets BY <1>1, <2>1, ExitKept
  <2>3. NoFault' => Ahead(S) /\ (j.why = "heal" => OneExit(S)) BY <1>1, <1>2, TpKnows DEF OneExit
  <2>. HIDE DEF S
  <2>4. NoFault' => Filed(Image(S)) BY <2>3, ImageFiled DEF Ahead
  <2>5. (j.why = "heal" /\ Manage(S, Image(S), j.last)) \/ Protected(S) BY <1>4 DEF S
  <2>. HIDE DEF j
  <2>. QED BY <1>1, <2>2, <2>3, <2>4, <2>5, ManageSettles, ProtectedSettles DEF j
<1>. QED BY <1>3, <1>4 DEF FindTp

LEMMA PlaceSellLands == ASSUME Before, PlaceSell PROVE Lands
<1>. DEFINE j == job["run"]
<1>1. /\ TypeOK /\ Whose /\ spec' = spec /\ At("run", "sell") /\ NoNewStop /\ 0 \in Ids /\ Orders \subseteq Ids
  <2>1. TypeOK /\ Whose BY Parts DEF Before
  <2>. QED BY <2>1, PlaceStops, CalmStops, Rec DEF PlaceSell, world
<1>2. NoFault' => /\ Finds("sell") /\ Ahead(st) /\ (spec.full => st.stopId = 0) /\ Filed(disk)
                  /\ j.why = "heal" => ~spec.stop
                  /\ j.why = "scale" => spec.scale
                  /\ j.why = "force" => st.tp1Id = 0 BY <1>1, Found DEF Finds, FitAt, Early
<1>. SUFFICES Settles BY <1>1, Landing
<1>3. ASSUME NEW id \in Ids, SellDone([st EXCEPT !.tp1Id = id]) PROVE Settles
  <2>. DEFINE S == [st EXCEPT !.tp1Id = id]
  <2>1. S \in Brackets BY <1>1, ExitKept
  <2>2. NoFault' => Ahead(S) /\ (j.why = "heal" => OneExit(S)) /\ (j.why = "scale" => spec.scale)
    BY <1>1, <1>2, TpKnows DEF OneExit
  <2>. HIDE DEF S
  <2>3. SellDone(S) BY <1>3 DEF S
  <2>. QED BY <1>1, <2>1, <2>2, <2>3, SellDoneSettles
<1>4. CASE Fails(st) \/ TickThrows(st) BY <1>2, <1>4, FailsSettles, TickThrowsSettles DEF Ahead
<1>5. CASE j.why = "force" /\ Tick(st, disk) /\ Awaits("run", "readHeld", "", j.last, 0, 0)
  <2>1. Pauses("readHeld", j.last, 0) /\ (NoFault' => Knows(st') /\ Filed(disk') /\ FitTick(st', "readHeld"))
    BY <1>2, <1>5 DEF Pauses, Tick, Finds, Ahead, FitTick, FitAt
  <2>. QED BY <2>1, PauseSettles
<1>. QED BY <1>1, <1>3, <1>4, <1>5 DEF PlaceSell, SellThrows

----
\* The tick.

LEMMA TickStartsLands == ASSUME Before, NEW last, TickStarts(last) PROVE Lands
<1>. DEFINE c == [Idle EXCEPT !.pc = "readStop", !.last = last, !.id = st.stopId]
<1>1. TypeOK /\ spec' = spec /\ At("run", "asleep") /\ NoNewStop /\ UNCHANGED <<st, disk>>
  BY Parts, CalmStops DEF TickStarts, world, Before
<1>2. NoFault' => Finds("asleep") /\ Ahead(st) /\ Filed(disk) BY <1>1, Found DEF Finds, Early
<1>3. c.pc = "readStop" /\ c.id = st.stopId /\ c.why = "" BY DEF Idle
<1>. HIDE DEF c
<1>. SUFFICES Settles BY <1>1, Landing
<1>4. CASE Become("run", c)
  <2>1. Tame(c) /\ (NoFault' => Knows(st') /\ Filed(disk') /\ Fit(st', c))
    BY <1>1, <1>2, <1>3 DEF Tame, Ahead, Fit, FitAt
  <2>. QED BY <1>4, <2>1, JobSettles
<1>5. CASE ReadsTp1(st, last) BY <1>1, <1>2, <1>5, ReadsTp1Settles
<1>. QED BY <1>4, <1>5 DEF TickStarts, c

LEMMA ReadStopLands == ASSUME Before, ReadStop PROVE Lands
<1>. DEFINE S == [st EXCEPT !.stopId = 0]
            j == job["run"]
<1>1. TypeOK /\ spec' = spec /\ At("run", "readStop") /\ NoNewStop /\ Stops' = Stops
  BY Parts, ReadStops DEF ReadStop, world, Before
<1>2. NoFault' => Finds("readStop") /\ Ahead(st) /\ Filed(disk) /\ Stops' \subseteq {j.id}
  BY <1>1, Found DEF Finds, Early, FitAt, Knows
<1>3. S \in Brackets BY <1>1, Rec, ExitKept
<1>4. Stops' = {} /\ Ahead(st) => Ahead(S) BY <1>1 DEF Ahead, Knows, Sound, TypeOK, Brackets
<1>5. Filled(j.id) \/ Cancelled(j.id) => j.id \notin Stops BY DEF Filled, Cancelled, Stops, LiveOf, Live
<1>. HIDE DEF S, j
<1>6. \/ (Filled(j.id) \/ Cancelled(j.id)) /\ finalizeBracket(S)
      \/ /\ Filled(j.id) \/ Cancelled(j.id)
         /\ st' = S /\ UNCHANGED disk /\ ReadsTp1(S, j.last)
      \/ st' = st /\ UNCHANGED disk /\ ReadsTp1(st, j.last) BY DEF ReadStop, S, j
<1>7. Filled(j.id) \/ Cancelled(j.id) => (NoFault' => Ahead(S) /\ Filed(disk)) BY <1>1, <1>2, <1>4, <1>5
<1>. SUFFICES Settles BY <1>1, Landing
<1>8. CASE (Filled(j.id) \/ Cancelled(j.id)) /\ finalizeBracket(S) BY <1>3, <1>7, <1>8, finalizeSettles DEF Ahead
<1>9. CASE /\ Filled(j.id) \/ Cancelled(j.id)
           /\ st' = S /\ UNCHANGED disk /\ ReadsTp1(S, j.last) BY <1>7, <1>9, ReadsTp1Settles
<1>10. CASE st' = st /\ UNCHANGED disk /\ ReadsTp1(st, j.last) BY <1>2, <1>10, ReadsTp1Settles
<1>. QED BY <1>6, <1>8, <1>9, <1>10

LEMMA ReadTp1Lands == ASSUME Before, ReadTp1 PROVE Lands
<1>. DEFINE j == job["run"]
            S == [st EXCEPT !.tp1Id = 0]
            banked == [S EXCEPT !.phase = "tp1_filled"]
            hit == st.stopPrice # 0 /\ j.last <= st.stopPrice
            chasing == [j EXCEPT !.pc = "chase", !.amt = Left(j.id)]
            forcing == [j EXCEPT !.pc = "force", !.why = IF hit THEN "stop" ELSE "time"]
<1>1. TypeOK /\ spec' = spec /\ At("run", "readTp1") /\ NoNewStop /\ j \in Jobs /\ st \in Brackets
  BY Parts, ReadStops, RunHere DEF ReadTp1, world, Before
<1>2. NoFault' => /\ Finds("readTp1") /\ Ahead(st) /\ Filed(disk)
                  /\ spec.full => st.stopId = 0
                  /\ spec.full /\ ~spec.stop => st.stopPrice = 0
                  /\ j.why = "scale" => spec.scale BY <1>1, Found DEF Finds, Early, FitAt, Sound
<1>3. S \in Brackets BY <1>1, Rec, ExitKept
<1>4. NoFault' => Ahead(S) /\ S.tp1Id = 0 BY <1>1, <1>2, TpKnows
<1>5. NoFault' => Ahead(banked) /\ banked.tp1Id = 0 BY <1>3, <1>4, PhaseKnows DEF Ahead, Brackets
<1>6. /\ chasing.pc = "chase" /\ chasing.why = j.why /\ forcing.pc = "force"
      /\ forcing.why \in {"stop", "time"} /\ (forcing.why = "stop" => hit) BY <1>1 DEF Jobs
<1>. HIDE DEF S, banked, chasing, forcing
<1>7. \/ ClosesFlat(S) \/ TickEnds(st)
      \/ /\ (st' = banked /\ disk' = Image(banked)) \/ (st' = S /\ disk' = disk)
         /\ Pauses("readHeld", j.last, 0)
      \/ Read(FALSE) /\ Pauses("readHeld", j.last, 0)
      \/ st' = st /\ disk' = disk /\ Become("run", chasing)
      \/ st' = st /\ disk' = disk /\ spec.full /\ Become("run", forcing)
  BY DEF ReadTp1, Tick, Pauses, S, banked, chasing, forcing
<1>. SUFFICES Settles BY <1>1, Landing
<1>8. CASE ClosesFlat(S) BY <1>3, <1>4, <1>8, ClosesSettle DEF Ahead
<1>9. CASE TickEnds(st) BY <1>2, <1>9, TickEndsSettles
<1>10. CASE /\ (st' = banked /\ disk' = Image(banked)) \/ (st' = S /\ disk' = disk)
            /\ Pauses("readHeld", j.last, 0)
  <2>1. NoFault' => Knows(st') /\ Filed(disk') /\ FitTick(st', "readHeld")
    BY <1>2, <1>4, <1>5, <1>10, ImageFiled DEF Ahead, FitTick, FitAt
  <2>. QED BY <1>10, <2>1, PauseSettles
<1>11. CASE Read(FALSE) /\ Pauses("readHeld", j.last, 0) BY <1>11, ReadFaults, PauseSettles
<1>12. CASE st' = st /\ disk' = disk /\ Become("run", chasing)
  <2>1. Tame(chasing) /\ (NoFault' => Knows(st') /\ Filed(disk') /\ Fit(st', chasing))
    BY <1>2, <1>6, <1>12 DEF Tame, Ahead, Fit, FitAt
  <2>. QED BY <1>12, <2>1, JobSettles
<1>13. CASE st' = st /\ disk' = disk /\ spec.full /\ Become("run", forcing)
  <2>1. NoFault' /\ hit => spec.stop BY <1>2, <1>13, RunHere DEF SpecRec
  <2>2. Tame(forcing) /\ (NoFault' => Knows(st') /\ Filed(disk') /\ Fit(st', forcing))
    BY <1>2, <1>6, <1>13, <2>1 DEF Tame, Ahead, Fit, FitAt
  <2>. QED BY <1>13, <2>2, JobSettles
<1>. QED BY <1>7, <1>8, <1>9, <1>10, <1>11, <1>12, <1>13

LEMMA ChaseLands == ASSUME Before, Chase PROVE Lands
<1>. DEFINE j == job["run"]
            c == [j EXCEPT !.pc = "rechase"]
<1>1. TypeOK /\ spec' = spec /\ At("run", "chase") /\ j \in Jobs BY Parts, RunHere DEF Chase, world, Before
<1>2. NoNewStop BY <1>1, CancelStops DEF Chase
<1>3. NoFault' => /\ Finds("chase") /\ Ahead(st) /\ Filed(disk) /\ (spec.full => st.stopId = 0)
                  /\ j.why = "scale" => spec.scale BY <1>1, <1>2, Found DEF Finds, Early, FitAt
<1>4. c.pc = "rechase" /\ c.why = j.why BY <1>1 DEF Jobs
<1>. HIDE DEF c
<1>. SUFFICES Settles BY <1>1, <1>2, Landing
<1>5. CASE st' = st /\ disk' = disk /\ Become("run", c)
  <2>1. Tame(c) /\ (NoFault' => Knows(st') /\ Filed(disk') /\ Fit(st', c))
    BY <1>3, <1>4, <1>5 DEF Tame, Ahead, Fit, FitAt
  <2>. QED BY <1>5, <2>1, JobSettles
<1>6. CASE TickEnds(st) BY <1>3, <1>6, TickEndsSettles
<1>. QED BY <1>5, <1>6 DEF Chase, Tick, c

LEMMA RechaseLands == ASSUME Before, Rechase PROVE Lands
<1>1. TypeOK /\ spec' = spec /\ At("run", "rechase") BY Parts DEF Rechase, world, Before
<1>2. PICK id \in Ids : /\ PlaceOrder("sell", job["run"].amt, job["run"].last, id)
                        /\ TickEnds([st EXCEPT !.tp1Id = id]) BY DEF Rechase
<1>3. NoNewStop BY <1>1, <1>2, PlaceStops
<1>4. NoFault' => Ahead(st) /\ (spec.full => st.stopId = 0) BY <1>1, <1>3, Found DEF Finds, Early, FitAt
<1>. DEFINE S == [st EXCEPT !.tp1Id = id]
<1>5. NoFault' => Ahead(S) BY <1>1, <1>4, TpKnows
<1>6. TickEnds(S) BY <1>2
<1>. HIDE DEF S
<1>7. Settles BY <1>5, <1>6, TickEndsSettles
<1>. QED BY <1>1, <1>3, <1>7, Landing

LEMMA ForceExitLands == ASSUME Before, ForceExit PROVE Lands
<1>. DEFINE S == [st EXCEPT !.tp1Id = 0]
            j == job["run"]
<1>1. TypeOK /\ spec' = spec /\ At("run", "force") BY Parts DEF ForceExit, world, Before
<1>2. NoNewStop BY <1>1, CancelStops DEF ForceExit
<1>3. NoFault' => /\ Finds("force") /\ Ahead(st) /\ Filed(disk) /\ st.stopId = 0
                  /\ spec.full /\ (j.why = "stop" => spec.stop) /\ (j.why = "scale" => spec.scale)
  BY <1>1, <1>2, Found DEF Finds, Early, FitAt
<1>4. NoFault' => Ahead(S) /\ S.stopId = 0 /\ S.tp1Id = 0 BY <1>1, <1>3, TpKnows
<1>. HIDE DEF S
<1>5. st' = S /\ disk' = disk /\ Awaits("run", "forced", j.why, j.last, 0, 0) BY DEF ForceExit, Tick, S
<1>6. NoFault' => Knows(st') /\ Filed(disk') /\ FitFor(st', "forced", j.why)
  BY <1>3, <1>4, <1>5 DEF Ahead, FitFor, FitAt
<1>7. Settles BY <1>5, <1>6, AwaitSettles
<1>. QED BY <1>1, <1>2, <1>7, Landing

LEMMA ForcedExitLands == ASSUME Before, ForcedExit PROVE Lands
<1>. DEFINE j == job["run"]
            S == [st EXCEPT !.phase = "exiting"]
<1>1. TypeOK /\ spec' = spec /\ At("run", "forced") /\ NoNewStop /\ st \in Brackets
  BY Parts, ReadStops DEF ForcedExit, world, Before
<1>2. NoFault' => /\ Finds("forced") /\ Ahead(st) /\ Filed(disk) /\ st.stopId = 0 /\ st.tp1Id = 0
                  /\ spec.full /\ (j.why = "stop" => spec.stop) BY <1>1, Found DEF Finds, Early, FitAt
<1>3. NoFault' => Ahead(S) /\ S.stopId = 0 /\ S.tp1Id = 0 BY <1>1, <1>2, PhaseKnows DEF Ahead, Brackets
<1>. HIDE DEF S
<1>4. \/ /\ j.why = "stop" /\ st' = st /\ disk' = disk
         /\ \E amt, lvl : Awaits("run", "findStop", "force", j.last, amt, lvl)
      \/ st' = S /\ disk' = disk /\ \E amt, lvl : Awaits("run", "sell", "force", j.last, amt, lvl)
      \/ Read(FALSE) /\ Pauses("readHeld", j.last, 0) BY DEF ForcedExit, PlaceStop, Tick, Pauses, S
<1>. HIDE DEF j
<1>. SUFFICES Settles BY <1>1, Landing
<1>5. ASSUME NEW amt, NEW lvl, j.why = "stop", st' = st, disk' = disk,
             Awaits("run", "findStop", "force", j.last, amt, lvl)
      PROVE  Settles
  <2>1. NoFault' => Knows(st') /\ Filed(disk') /\ FitFor(st', "findStop", "force")
    BY <1>2, <1>5 DEF Ahead, FitFor, FitAt
  <2>. QED BY <1>5, <2>1, AwaitSettles
<1>6. ASSUME NEW amt, NEW lvl, st' = S, disk' = disk, Awaits("run", "sell", "force", j.last, amt, lvl)
      PROVE  Settles
  <2>1. NoFault' => Knows(st') /\ Filed(disk') /\ FitFor(st', "sell", "force")
    BY <1>2, <1>3, <1>6 DEF Ahead, FitFor, FitAt
  <2>. QED BY <1>6, <2>1, AwaitSettles
<1>7. CASE Read(FALSE) /\ Pauses("readHeld", j.last, 0) BY <1>7, ReadFaults, PauseSettles
<1>. QED BY <1>4, <1>5, <1>6, <1>7

LEMMA ReadHeldLands == ASSUME Before, ReadHeld PROVE Lands
<1>. DEFINE n == bracketPosition(st, coins)
            S == [st EXCEPT !.position = n]
            j == job["run"]
<1>1. /\ TypeOK /\ spec' = spec /\ At("run", "readHeld") /\ NoNewStop /\ st \in Brackets
      /\ coins \in Int /\ j.last \in Int BY Parts, ReadStops, RunHere DEF ReadHeld, world, Before, TypeOK
<1>2. NoFault' => Ahead(st) /\ Filed(disk) /\ st.tp1Id = 0 BY <1>1, Found DEF Finds, Early, FitAt
<1>3. S \in Brackets /\ S.stopId = st.stopId /\ S.tp1Id = st.tp1Id /\ (Ahead(st) => Ahead(S))
  <2>1. n \in Int BY <1>1, HoldsTyped
  <2>. HIDE DEF n
  <2>. QED BY <1>1, <2>1 DEF Brackets, Ahead, Knows, Sound
<1>4. \/ finalizeBracket(S) \/ Manage(S, disk, j.last) \/ (Read(FALSE) /\ TickThrows(st))
      \/ /\ ~spec.stop /\ st' = S /\ disk' = disk
         /\ \E amt, lvl : Awaits("run", "findTp", "heal", j.last, amt, lvl)
      \/ /\ S.stopId = 0 /\ (spec.full => spec.stop) /\ st' = S /\ disk' = disk
         /\ \E amt, lvl : Awaits("run", "findStop", "heal", j.last, amt, lvl)
  <2>1. ~(spec.full /\ spec.scale) BY <1>1, Kinds
  <2>. QED BY <2>1 DEF ReadHeld, PlaceStop, HealsStop, Tick
<1>5. NoFault' => /\ Ahead(S) /\ Filed(disk) /\ OneExit(S) /\ S.tp1Id = 0
                  /\ spec.full /\ ~spec.stop => S.stopId = 0 BY <1>2, <1>3 DEF OneExit, Ahead, Knows, Sound
<1>. HIDE DEF S, j
<1>. SUFFICES Settles BY <1>1, Landing
<1>6. CASE finalizeBracket(S) BY <1>3, <1>5, <1>6, finalizeSettles DEF Ahead
<1>7. CASE Manage(S, disk, j.last) BY <1>1, <1>3, <1>5, <1>7, ManageSettles
<1>8. CASE Read(FALSE) /\ TickThrows(st) BY <1>8, ReadFaults, TickThrowsSettles
<1>9. ASSUME NEW amt, NEW lvl, ~spec.stop, st' = S, disk' = disk, Awaits("run", "findTp", "heal", j.last, amt, lvl)
      PROVE  Settles
  <2>1. NoFault' => Knows(st') /\ Filed(disk') /\ FitFor(st', "findTp", "heal") BY <1>5, <1>9 DEF Ahead, FitFor, FitAt
  <2>. QED BY <1>9, <2>1, AwaitSettles
<1>10. ASSUME NEW amt, NEW lvl, S.stopId = 0, spec.full => spec.stop, st' = S, disk' = disk,
              Awaits("run", "findStop", "heal", j.last, amt, lvl)
       PROVE  Settles
  <2>1. NoFault' => Knows(st') /\ Filed(disk') /\ FitFor(st', "findStop", "heal")
    BY <1>5, <1>10 DEF Ahead, FitFor, FitAt
  <2>. QED BY <1>10, <2>1, AwaitSettles
<1>. QED BY <1>4, <1>6, <1>7, <1>8, <1>9, <1>10

LEMMA BalanceLands == ASSUME Before, Balance PROVE Lands
<1>1. TypeOK /\ spec' = spec /\ At("run", "balance") /\ NoNewStop /\ st \in Brackets
  BY Parts, ReadStops DEF Balance, world, Before
<1>2. NoFault' => Ahead(st) /\ Filed(disk) BY <1>1, Found DEF Finds, Early
<1>3. \/ ClosesFlat(st) \/ (Read(FALSE) /\ TickThrows(st))
      \/ st' = st /\ disk' = disk /\ \E n : Pauses("closing", 0, n) BY DEF Balance, Tick, Pauses
<1>. SUFFICES Settles BY <1>1, Landing
<1>4. CASE ClosesFlat(st) BY <1>1, <1>2, <1>4, ClosesSettle DEF Ahead
<1>5. CASE Read(FALSE) /\ TickThrows(st) BY <1>5, ReadFaults, TickThrowsSettles
<1>6. ASSUME NEW n, st' = st, disk' = disk, Pauses("closing", 0, n) PROVE Settles
  <2>1. NoFault' => Knows(st') /\ Filed(disk') /\ FitTick(st', "closing") BY <1>2, <1>6 DEF Ahead, FitTick, FitAt
  <2>. QED BY <1>6, <2>1, PauseSettles
<1>. QED BY <1>3, <1>4, <1>5, <1>6

LEMMA SellToUsdLands == ASSUME Before, SellToUsd PROVE Lands
<1>1. TypeOK /\ spec' = spec /\ At("run", "closing") /\ NoNewStop
  <2>1. TypeOK BY Parts DEF Before
  <2>. QED BY <2>1, PlaceStops DEF SellToUsd, world
<1>2. NoFault' => Ahead(st) /\ Filed(disk) BY <1>1, Found DEF Finds, Early
<1>3. TickThrows(st) \/ (st' = st /\ disk' = disk /\ Pauses("closed", 0, 0)) BY DEF SellToUsd, Tick, Pauses
<1>. SUFFICES Settles BY <1>1, Landing
<1>4. CASE TickThrows(st) BY <1>2, <1>4, TickThrowsSettles
<1>5. CASE st' = st /\ disk' = disk /\ Pauses("closed", 0, 0)
  <2>1. NoFault' => Knows(st') /\ Filed(disk') /\ FitTick(st', "closed") BY <1>2, <1>5 DEF Ahead, FitTick, FitAt
  <2>. QED BY <1>5, <2>1, PauseSettles
<1>. QED BY <1>3, <1>4, <1>5

LEMMA CloseLands == ASSUME Before, Close PROVE Lands
<1>1. TypeOK /\ spec' = spec /\ At("run", "closed") /\ NoNewStop /\ st \in Brackets
  BY Parts, CalmStops DEF Close, world, Before
<1>2. NoFault' => Ahead(st) BY <1>1, Found DEF Finds, Early
<1>3. Settles BY <1>1, <1>2, ClosesSettle DEF Close, Ahead
<1>. QED BY <1>1, <1>3, Landing

LEMMA TwinFits ==
  ASSUME NEW S, NEW T, Twin(S, T), NEW c
  PROVE (Sound(S) => Sound(T)) /\ (Fit(S, c) => Fit(T, c)) BY DEF Twin, Sound, Fit, FitAt

LEMMA BesideRests ==
  ASSUME SInv, ~Adjusted, NoNewStop, spec' = spec, Idles, Twin(st, st'), Refiled PROVE SInv'
<1>1. Alone' BY DEF SInv, Alone, At, NoNewStop, Idles
<1>2. ASSUME NoFault' PROVE Agreed'
  <2>1. Agreed /\ NoFault BY <1>2, FaultStays DEF SInv
  <2>2. Sound(st') /\ Fit(st', job["run"]) BY <2>1, TwinFits DEF Agreed
  <2>3. Sound(disk') BY <2>1, TwinFits, NoBracketSound DEF Refiled, Agreed
  <2>4. Sound(st)' /\ Sound(disk)' /\ Fit(st, job["run"])' BY <2>2, <2>3 DEF Sound, Fit, FitAt, Idles
  <2>5. status' # "gone" => Stops' \subseteq {st'.stopId} BY <2>1 DEF Agreed, NoNewStop, Idles, Twin
  <2>6. disk' # NoBracket => Stops' \subseteq {disk'.stopId} BY <2>1 DEF Agreed, NoNewStop, Refiled, Twin
  <2>7. At("run", "sweep")' => Stops' \subseteq job'["run"].ids BY <2>1 DEF Agreed, NoNewStop, Idles, At
  <2>. QED BY <2>4, <2>5, <2>6, <2>7 DEF Agreed
<1>. QED BY <1>1, <1>2 DEF SInv

LEMMA Same == ASSUME UNCHANGED <<st, disk>> PROVE Twin(st, st') /\ Refiled
  BY DEF Twin, Refiled

LEMMA Others ==
  ASSUME TypeOK, NEW c, Become("kill", c)
  PROVE job'["run"] = job["run"] /\ job'["adjust"] = job["adjust"] BY DEF TypeOK, Become, Procs

\* The cancels at the end of a bracket.
LEMMA SweepRests == ASSUME Before, NEW p \in Procs, Sweep(p) PROVE SInv'
<1>. DEFINE o == Min(job[p].ids)
            c == [job[p] EXCEPT !.ids = @ \ {o}]
<1>1. TypeOK /\ At(p, "sweep") /\ UNCHANGED <<spec, st, status, disk>> /\ Become(p, c)
  BY Parts DEF Sweep, world, Before
<1>2. NoNewStop /\ (NoFault' => Stops' \subseteq Stops \ {o}) BY <1>1, CancelStops DEF Sweep
<1>3. SInv /\ ~Adjusted /\ ~Adjusted' /\ Alone BY DEF Before, SInv
<1>4. p \in {"run", "kill"} BY <1>1, <1>3 DEF Procs, Alone, At
<1>5. c.pc = "sweep" /\ c.why = job[p].why /\ c.ids = job[p].ids \ {o} /\ c.id = job[p].id
  BY <1>1 DEF TypeOK, Jobs, At
<1>. HIDE DEF o, c
<1>6. CASE p = "kill" BY <1>1, <1>2, <1>3, <1>6, Others, Same, BesideRests DEF Idles
<1>7. CASE p = "run"
  <2>1. c.why = "close" BY <1>1, <1>3, <1>5, <1>7 DEF Alone
  <2>2. ASSUME NoFault' PROVE Fits(c)
    <3>1. Agreed /\ Knows(st) /\ Filed(disk) BY <1>1, <1>2, <1>3, <1>7, <2>2, Knowing DEF At, Before
    <3>2. Stops' \subseteq c.ids BY <1>1, <1>2, <1>5, <1>7, <2>2, <3>1 DEF Agreed
    <3>3. Fit(st, c) BY <1>1, <1>5, <1>7, <3>1 DEF Agreed, Fit, At
    <3>. QED BY <1>1, <3>1, <3>2, <3>3 DEF Fits
  <2>3. Settles BY <1>1, <1>5, <1>7, <2>1, <2>2 DEF Settles
  <2>4. Lands BY <1>1, <1>2, <2>3, Landing
  <2>. QED BY <1>1, <1>3, <2>4, Settled DEF Lands
<1>. QED BY <1>4, <1>6, <1>7

LEMMA SweptRests == ASSUME Before, NEW p \in Procs, Swept(p) PROVE SInv'
<1>1. TypeOK /\ Whose /\ At(p, "sweep") /\ spec' = spec /\ job[p].ids = {} /\ st \in Brackets
  BY Parts DEF Swept, world, Before
<1>2. NoNewStop /\ Stops' = Stops BY CalmStops DEF Swept
<1>3. SInv /\ ~Adjusted /\ ~Adjusted' /\ Alone BY DEF Before, SInv
<1>4. p \in {"run", "kill"} BY <1>1, <1>3 DEF Procs, Alone, At
<1>6. CASE p = "kill"
  <2>1. job["kill"].why = "kill" BY <1>1, <1>6 DEF Whose, At
  <2>2. /\ st' = [st EXCEPT !.phase = "aborted"] /\ disk' = NoBracket
        /\ Become("kill", Idle) /\ status' = status BY <1>6, <2>1 DEF Swept, clearPersistedBracket
  <2>3. Twin(st, st') BY <1>1, <2>2 DEF Twin, Brackets
  <2>4. Refiled BY <2>2 DEF Refiled
  <2>. QED BY <1>1, <1>2, <1>3, <2>2, <2>3, <2>4, Others, BesideRests DEF Idles
<1>7. CASE p = "run"
  <2>. DEFINE S == [st EXCEPT !.stopId = 0, !.tp1Id = 0]
  <2>1. job["run"].why = "close" BY <1>1, <1>3, <1>7 DEF Alone
  <2>2. st' = S /\ disk' = disk /\ Pauses("balance", 0, 0) BY <1>7, <2>1 DEF Swept, Tick, Pauses
  <2>3. S.stopId = 0 /\ S.tp1Id = 0 /\ S.phase = st.phase /\ S.stopPrice = st.stopPrice BY <1>1 DEF Brackets
  <2>. HIDE DEF S
  <2>4. ASSUME NoFault' PROVE Knows(st') /\ Filed(disk') /\ FitTick(st', "balance")
    <3>1. Agreed /\ Ahead(st) /\ Filed(disk) BY <1>1, <1>2, <1>3, <1>7, <2>4, Knowing DEF At, Before, Early
    <3>2. Stops' = {} BY <1>1, <1>2, <1>7, <3>1 DEF Agreed
    <3>. QED BY <2>2, <2>3, <3>1, <3>2 DEF Ahead, Knows, Sound, FitTick, FitAt
  <2>5. Settles BY <2>2, <2>4, PauseSettles
  <2>6. Lands BY <1>1, <1>2, <2>5, Landing
  <2>. QED BY <1>1, <1>3, <2>6, Settled DEF Lands
<1>. QED BY <1>4, <1>6, <1>7

LEMMA KillRests == ASSUME Before, Kill PROVE SInv'
<1>1. TypeOK /\ SInv /\ ~Adjusted /\ UNCHANGED <<spec, st, status, disk, book>> /\ upsets \subseteq upsets'
  BY Parts DEF Kill, world, Before, Upset
<1>2. NoNewStop BY <1>1 DEF NoNewStop, Stops, LiveOf, Live
<1>3. \E c : Become("kill", c) BY DEF Kill
<1>. QED BY <1>1, <1>2, <1>3, Others, Same, BesideRests DEF Idles

LEMMA LockRests == ASSUME Before, NEW on, Lock(on) PROVE SInv'
<1>1. /\ TypeOK /\ SInv /\ EInv /\ ~Adjusted /\ UNCHANGED <<spec, status, job, book>> /\ upsets \subseteq upsets'
      /\ st \in Brackets BY Parts DEF Lock, world, Before, Upset
<1>2. NoNewStop BY <1>1 DEF NoNewStop, Stops, LiveOf, Live
<1>3. Twin(st, st') BY <1>1 DEF Lock, Twin, Brackets
<1>4. NoFault => status # "gone"
  <2>1. NoFault => Absent BY <1>1 DEF EInv, LostBoth, NoFault
  <2>2. st.phase # "none" BY DEF Lock
  <2>. QED BY <2>1, <2>2 DEF Absent, NoBracket
<1>5. disk' = st' \/ disk' = NoBracket BY ImageOf DEF Lock, persistBracket
<1>6. Refiled BY <1>3, <1>4, <1>5 DEF Refiled
<1>. QED BY <1>1, <1>2, <1>3, <1>6, BesideRests DEF Idles

\* The exchange sends no stop.
LEMMA TradeRests == ASSUME Before, NEW o, Trade(o) PROVE SInv'
<1>1. TypeOK /\ SInv /\ ~Adjusted /\ UNCHANGED <<spec, st, status, job, disk, upsets>> BY Parts DEF Trade, Before
<1>2. \A x \in Orders : book'[x].kind = book[x].kind /\ (book'[x].st = "live" => book[x].st = "live")
  BY <1>1 DEF Trade, TypeOK, OrderRec, Live
<1>3. NoNewStop BY <1>1, <1>2 DEF NoNewStop, Stops, LiveOf, Live
<1>. QED BY <1>1, <1>3, Same, BesideRests DEF Idles

LEMMA CancelledElsewhereRests == ASSUME Before, NEW o, CancelledElsewhere(o) PROVE SInv'
<1>1. /\ TypeOK /\ SInv /\ ~Adjusted /\ UNCHANGED <<spec, st, status, job, disk>>
      /\ upsets \subseteq upsets' /\ Gone(o) BY Parts DEF CancelledElsewhere, Before, world, Upset
<1>2. NoNewStop BY <1>1, GoneStops DEF NoNewStop
<1>. QED BY <1>1, <1>2, Same, BesideRests DEF Idles

LEMMA QuietRests == ASSUME Before, PositionDeadline \/ UNCHANGED vars PROVE SInv'
<1>1. SInv /\ ~Adjusted /\ UNCHANGED <<spec, st, status, job, disk, book, upsets>>
  BY DEF PositionDeadline, vars, Before
<1>. QED BY <1>1, CalmStops, Same, BesideRests DEF Idles

----
\* A bracket that starts, or starts again.

LEMMA FirstFit ==
  ASSUME NEW S, Sound(S), NEW T, T.phase = S.phase, T.stopId = S.stopId, NEW c, c.pc = FirstAwait(S),
         c.why = IF FirstAwait(S) = "protect" THEN "again" ELSE ""
  PROVE Fit(T, c) BY DEF FirstAwait, Fit, FitAt, Early, Sound

LEMMA runBracketRests ==
  ASSUME TypeOK, Alone, NEW S \in Starts, NEW J \in [Procs -> Jobs], J["adjust"].pc = "idle", runBracket(S, J),
         upsets \subseteq upsets', book' = book, spec' = spec, NoFault' => Knows(S) /\ Filed(disk)
  PROVE SInv'
<1>. DEFINE pc == FirstAwait(S)
            named == [S EXCEPT !.client = TRUE]
            c == [Idle EXCEPT !.pc = pc, !.why = IF pc = "protect" THEN "again" ELSE ""]
<1>1. job' = [J EXCEPT !["run"] = c] /\ c.pc = pc /\ c.why = IF pc = "protect" THEN "again" ELSE ""
  BY DEF runBracket, Idle
<1>2. (st' = named /\ disk' = Image(named)) \/ (st' = S /\ disk' = disk) BY DEF runBracket, persistBracket
<1>3. /\ named.phase = S.phase /\ named.stopId = S.stopId /\ (Knows(S) => Knows(named)) BY Called DEF Knows, Sound
<1>4. pc \notin {"placeStop", "sweep"} BY DEF FirstAwait
<1>. HIDE DEF named, c
<1>5. job'["run"] = c /\ job'["adjust"].pc = "idle" BY <1>1 DEF Procs
<1>6. Stops' = Stops BY DEF Stops, LiveOf, Live
<1>7. Alone' BY <1>1, <1>4, <1>5, <1>6 DEF Alone, At
<1>8. ASSUME NoFault' PROVE Agreed'
  <2>1. Knows(st') /\ st'.phase = S.phase /\ st'.stopId = S.stopId BY <1>2, <1>3, <1>8
  <2>2. Filed(disk') BY <1>2, <1>3, <1>8, ImageFiled
  <2>3. Fit(st', c) BY <1>1, <1>8, <2>1, FirstFit DEF Knows
  <2>4. Sound(st)' /\ Sound(disk)' /\ Fit(st, job["run"])'
    BY <1>5, <2>1, <2>2, <2>3, NoBracketSound DEF Filed, Knows, Sound, Fit, FitAt
  <2>5. disk' # NoBracket => Stops' \subseteq {disk'.stopId} BY <2>2 DEF Filed, Knows
  <2>. QED BY <1>1, <1>4, <1>5, <2>1, <2>4, <2>5 DEF Agreed, Knows, At
<1>. QED BY <1>7, <1>8 DEF SInv

LEMMA ConfirmRests == ASSUME Before, Confirm PROVE SInv'
<1>1. /\ TypeOK /\ SInv /\ ~Adjusted /\ Alone /\ st = NoBracket /\ status = "pending" /\ UNCHANGED <<spec, book, upsets>>
      /\ job \in [Procs -> Jobs] /\ runBracket(NewBracket, job) BY Parts, Rec DEF Confirm, Before, SInv, TypeOK
<1>2. ASSUME NoFault' PROVE Knows(NewBracket) /\ Filed(disk)
  <2>1. Agreed BY <1>1, <1>2 DEF SInv, NoFault
  <2>2. Stops' = Stops /\ Stops \subseteq {0} BY <1>1, <2>1, CalmStops DEF Agreed, NoBracket
  <2>3. NewBracket.stopId = 0 /\ NewBracket.tp1Id = 0 /\ NewBracket.stopPrice = 0 BY DEF NewBracket, NoBracket
  <2>. QED BY <2>1, <2>2, <2>3 DEF Knows, Sound, Filed, Agreed
<1>. QED BY <1>1, <1>2, Starters, runBracketRests DEF Alone, At

LEMMA ReviveRests == ASSUME Before, Revive PROVE SInv'
<1>1. /\ TypeOK /\ SInv /\ ~Adjusted /\ Alone /\ status = "failed" /\ UNCHANGED <<spec, book, upsets>>
      /\ job \in [Procs -> Jobs] /\ st \in Brackets /\ runBracket(st, job) BY Parts DEF Revive, Before, SInv, TypeOK
<1>2. NoFault' => Knows(st) /\ Filed(disk) BY <1>1, CalmStops DEF SInv, NoFault, Agreed, Knows, Filed
<1>. QED BY <1>1, <1>2, Starters, runBracketRests DEF Alone, At

\* The next process knows what the file knew.
LEMMA RestartRests == ASSUME Before, Restart PROVE SInv'
<1>1. /\ TypeOK /\ SInv /\ ~Adjusted /\ Alone /\ UNCHANGED <<spec, book>> /\ upsets \subseteq upsets'
      /\ disk \in Brackets BY Parts DEF Restart, Before, SInv, Upset
<1>2. NoJobs \in [Procs -> Jobs] /\ \A p \in Procs : NoJobs[p] = Idle BY Rec DEF NoJobs
<1>3. Idle.pc = "idle" BY DEF Idle
<1>4. Stops' = Stops /\ "run" \in Procs /\ "adjust" \in Procs BY <1>1 DEF Stops, LiveOf, Live, Procs
<1>5. CASE disk = NoBracket /\ st' = NoBracket /\ job' = NoJobs /\ status' = "gone" /\ disk' = disk
  <2>1. job'["run"] = Idle /\ job'["adjust"] = Idle BY <1>2, <1>4, <1>5
  <2>2. Alone' BY <1>1, <1>3, <1>4, <2>1 DEF Alone, At
  <2>3. Sound(st)' /\ Sound(disk)' /\ Fit(st, job["run"])'
    BY <1>1, <1>5, <2>1, NoBracketSound, IdleFit DEF Sound, Fit, FitAt
  <2>4. Agreed' BY <1>3, <1>5, <2>1, <2>3 DEF Agreed, At
  <2>. QED BY <2>2, <2>4 DEF SInv
<1>6. CASE disk # NoBracket /\ runBracket(disk, NoJobs)
  <2>1. NoFault' => Knows(disk) /\ Filed(disk) BY <1>1, <1>4, <1>6 DEF SInv, NoFault, Agreed, Knows, Filed
  <2>. QED BY <1>1, <1>2, <1>3, <1>4, <1>6, <2>1, Starters, runBracketRests
<1>. QED BY <1>5, <1>6 DEF Restart, Resumes

----
\* Nothing an upset did is undone.
LEMMA UpsetsGrow == ASSUME IInv, Next PROVE upsets \subseteq upsets'
<1>1. ASSUME NEW ok, Read(ok) PROVE upsets \subseteq upsets' BY <1>1 DEF Read, Calm, Upset
<1>2. ASSUME NEW o, NEW ok, CancelOrder(o, ok) PROVE upsets \subseteq upsets' BY <1>2 DEF CancelOrder, Calm, Upset
<1>3. ASSUME NEW kind, NEW amt, NEW lvl, NEW id, PlaceOrder(kind, amt, lvl, id) PROVE upsets \subseteq upsets'
  BY <1>3 DEF PlaceOrder, Calm, Upset
<1>4. ASSUME NEW p \in Procs, StopStep(p) PROVE upsets \subseteq upsets'
  BY <1>1, <1>2, <1>3, <1>4 DEF StopStep, CancelStop, StopFreed, FindStop, PlaceNewStop, Sweep, Swept
<1>5. ASSUME FindEntry \/ EnterMarket \/ PollEntry \/ DropEntry \/ RereadEntry \/ placeProtection
      PROVE  upsets \subseteq upsets'
  BY <1>1, <1>2, <1>3, <1>5 DEF FindEntry, EnterMarket, PollEntry, DropEntry, RereadEntry, placeProtection
<1>6. ASSUME FindTp \/ PlaceSell \/ ReadStop \/ ReadTp1 \/ Chase \/ Rechase PROVE upsets \subseteq upsets'
  BY <1>1, <1>2, <1>3, <1>6 DEF FindTp, PlaceSell, ReadStop, ReadTp1, Chase, Rechase
<1>7. ASSUME ForceExit \/ ForcedExit \/ ReadHeld \/ Balance \/ SellToUsd \/ Close PROVE upsets \subseteq upsets'
  BY <1>1, <1>2, <1>3, <1>7 DEF ForceExit, ForcedExit, ReadHeld, Balance, SellToUsd, Close
<1>8. ASSUME NEW last, TickStarts(last) PROVE upsets \subseteq upsets' BY <1>8 DEF TickStarts
<1>9. ASSUME RunStep PROVE upsets \subseteq upsets' BY <1>5, <1>6, <1>7, <1>8, <1>9 DEF RunStep
<1>. QED BY <1>4, <1>9 DEF Next, Confirm, Kill, Lock, Adjust, Revive, Restart, Trade, CancelledElsewhere,
                    PositionDeadline, Upset

LEMMA InitRests == Init => SInv
<1>1. SUFFICES ASSUME Init PROVE SInv OBVIOUS
<1>2. Stops = {} BY <1>1 DEF Init, NoOrder, Stops, LiveOf, Live
<1>3. job["run"] = Idle /\ job["adjust"] = Idle /\ Idle.pc = "idle" BY <1>1 DEF Init, Procs, Idle
<1>4. Alone BY <1>2, <1>3 DEF Alone, At
<1>5. Agreed BY <1>1, <1>2, <1>3, NoBracketSound, IdleFit DEF Init, Agreed, At
<1>. QED BY <1>4, <1>5 DEF SInv

LEMMA NextRests == IInv /\ EInv /\ SInv /\ [Next]_vars => SInv'
<1>1. SUFFICES ASSUME IInv, EInv, SInv, [Next]_vars, ~Adjusted' PROVE SInv' BY DEF SInv
<1>2. upsets \subseteq upsets' BY <1>1, UpsetsGrow DEF vars
<1>3. Before /\ TypeOK BY <1>1, <1>2, Parts DEF Before, Adjusted
<1>4. Lands => SInv' BY <1>1, <1>3, Settled DEF Lands
<1>5. ASSUME RunStep PROVE Lands
  BY <1>3, <1>5, FindEntryLands, EnterMarketLands, PollEntryLands, DropEntryLands, RereadEntryLands,
     placeProtectionLands, FindTpLands, PlaceSellLands, ReadStopLands, ReadTp1Lands, ChaseLands,
     RechaseLands, ForceExitLands, ForcedExitLands, ReadHeldLands, BalanceLands, SellToUsdLands,
     CloseLands, TickStartsLands DEF RunStep
<1>6. ASSUME NEW p \in Procs, StopStep(p) PROVE Lands \/ SInv'
  BY <1>3, <1>6, CancelStopLands, StopFreedLands, FindStopLands, PlaceNewStopLands, SweepRests,
     SweptRests DEF StopStep
<1>7. ASSUME NEW lvl, Adjust(lvl) PROVE FALSE BY <1>1, <1>7 DEF Adjust, Upset, Adjusted
<1>8. ASSUME NEW o \in Orders, Trade(o) \/ CancelledElsewhere(o) PROVE SInv'
  BY <1>3, <1>8, TradeRests, CancelledElsewhereRests
<1>9. ASSUME NEW on, Lock(on) PROVE SInv' BY <1>3, <1>9, LockRests
<1>. QED BY <1>1, <1>3, <1>4, <1>5, <1>6, <1>7, <1>8, <1>9, ConfirmRests, KillRests, ReviveRests,
     RestartRests, QuietRests DEF Next

LEMMA RestsOne == SInv => OneStop
<1>1. CASE Adjusted BY <1>1 DEF Adjusted, OneStop
<1>2. CASE Alone
  <2>1. Stops = {} \/ \E o : Stops = {o}
    <3>1. \A o, p \in Stops : o = p BY <1>2 DEF Alone
    <3>2. ASSUME NEW o \in Stops PROVE Stops = {o} BY <3>1
    <3>. QED BY <3>2
  <2>2. Cardinality(Stops) \in {0, 1} BY <2>1, FS_EmptySet, FS_Singleton
  <2>. QED BY <2>2 DEF OneStop, Stops
<1>. QED BY <1>1, <1>2 DEF SInv

\* At most one stop of a bracket rests, whichever of its requests fails or loses its answer,
\* however often the process restarts, and whether or not the operator locks or kills it:
\* placeStop() is reached only when none is known, and asks the book first.  That read and
\* the placement cannot both go wrong, as one request fails; while none has, the bracket in
\* memory and the one in the file both know the stop that rests.
THEOREM OneStopRests == Spec => []OneStop
<1>1. IInv /\ EInv /\ SInv /\ [Next]_vars => SInv' BY NextRests
<1>2. IInv /\ EInv /\ [Next]_vars => EInv' BY NextEnters
<1>. QED BY InvariantHolds, InitEnters, InitRests, RestsOne, <1>1, <1>2, PTL DEF Spec

LEMMA LevelsKeep == ASSUME Below, Levels PROVE Leveled'
<1>1. PICK c : Leveling(c) BY DEF Levels
<1>2. job'["run"] = c /\ spec' = spec /\ Restarted' = Restarted
  BY <1>1, Parts DEF Leveling, Become, Below, Before, TypeOK, Procs, Levels
<1>3. Priced(st)' /\ Priced(disk)' /\ Wants(st.stopPrice, job["run"])'
  BY <1>1, <1>2 DEF Leveling, Priced, Wants, Raises, First, Bare
<1>4. Fresh(job["run"])' <=> Fresh(c) BY <1>2 DEF Fresh, First
<1>5. ~Restarted => \A o \in Stops' : Raises(st.stopPrice, book[o].lvl)' BY <1>1, <1>2 DEF Leveling, Raises
<1>. QED BY <1>1, <1>2, <1>3, <1>4, <1>5 DEF Leveled, Leveling

LEMMA Upsetting ==
  ASSUME Calm \/ Upset("fault") PROVE upsets \subseteq upsets' /\ Restarted' = Restarted BY DEF Calm, Upset, Restarted

LEMMA ReadSame == ASSUME NEW ok, Read(ok) PROVE SameStops
  BY Upsetting DEF Read, SameStops, Stops, LiveOf, Live

LEMMA CalmSame == ASSUME UNCHANGED <<book, upsets>> PROVE SameStops
  BY DEF SameStops, Stops, LiveOf, Live, Restarted

LEMMA GoneSame == ASSUME TypeOK, NEW o, Gone(o) \/ book' = book
                  PROVE  \A x \in Stops' : x \in Stops /\ book'[x].lvl = book[x].lvl
<1>1. CASE Gone(o)
  <2>1. \A x \in Orders : book'[x].st = "live" => book'[x] = book[x] BY <1>1 DEF Gone, TypeOK, OrderRec
  <2>. QED BY <2>1 DEF Stops, LiveOf, Live
<1>2. CASE book' = book BY <1>2 DEF Stops, LiveOf, Live
<1>. QED BY <1>1, <1>2

LEMMA CancelSame == ASSUME TypeOK, NEW o, NEW ok, CancelOrder(o, ok) PROVE SameStops
<1>1. (Gone(o) \/ book' = book) /\ (Calm \/ Upset("fault")) BY DEF CancelOrder, Calm
<1>. QED BY <1>1, GoneSame, Upsetting DEF SameStops

LEMMA Placing ==
  ASSUME NEW kind, NEW amt, NEW lvl, NEW id, PlaceOrder(kind, amt, lvl, id)
  PROVE  /\ Restarted' = Restarted
         /\ \A o \in Stops' : \/ o \in Stops /\ book'[o].lvl = book[o].lvl
                              \/ kind = "stop" /\ book'[o].lvl = lvl
<1>. DEFINE n == Min(Unused)
            new == [kind |-> kind, st |-> "live", amt |-> amt, got |-> 0, lvl |-> lvl]
            accepted == book' = [o \in Orders |-> IF o = n THEN new ELSE IF o \in Unused THEN NoOrder ELSE book[o]]
<1>1. (accepted \/ book' = book) /\ (Calm \/ Upset("fault")) BY DEF PlaceOrder, Calm
<1>2. new.kind = kind /\ new.lvl = lvl /\ NoOrder.kind # "stop" BY DEF NoOrder
<1>. HIDE DEF n, new
<1>3. accepted => \A o \in Stops' : \/ o \in Stops /\ book'[o].lvl = book[o].lvl
                                    \/ kind = "stop" /\ book'[o].lvl = lvl BY <1>2 DEF Stops, LiveOf, Live
<1>4. book' = book => \A o \in Stops' : o \in Stops /\ book'[o].lvl = book[o].lvl BY DEF Stops, LiveOf, Live
<1>. HIDE DEF accepted
<1>. QED BY <1>1, <1>3, <1>4, Upsetting

LEMMA PlaceSame ==
  ASSUME NEW kind \in {"buy", "sell"}, NEW amt, NEW lvl, NEW id, PlaceOrder(kind, amt, lvl, id)
  PROVE SameStops BY Placing DEF SameStops

LEMMA LeadsKeep ==
  ASSUME NEW S, NEW D, NEW c, Leads("run", S, D, c), Wants(S.stopPrice, c),
         Fresh(c) => First(job["run"]) /\ S.stopId = 0
  PROVE Keeping(S, D, c)
<1>1. NoBracket.stopPrice = 0 BY DEF NoBracket
<1>. QED BY <1>1 DEF Leads, Alike, Keeping

LEMMA IdleWants == ~Fresh(Idle) /\ \A q : Wants(q, Idle)
<1>1. Idle.pc = "idle" /\ Idle.why = "" BY DEF Idle
<1>. QED BY <1>1 DEF Fresh, First, Wants

LEMMA EndsWants == ASSUME NEW c, Ends(c) PROVE ~Fresh(c) /\ \A q : Wants(q, c)
<1>1. c.pc \in {"asleep", "idle"} /\ c.why = "" BY EndsTyped
<1>. QED BY <1>1 DEF Fresh, First, Wants

LEMMA FreeingWants ==
  ASSUME NEW S \in Brackets, Priced(S), NEW why, NEW lvl, NEW c, Freeing(S, why, lvl, c), ~(spec.full /\ spec.scale),
         why = "ratchet" => S.stopPrice # 0 /\ Raises(S.stopPrice, lvl), why = "scale" => spec.scale,
         why \notin {"first", "again", "adjust"}
  PROVE Wants(S.stopPrice, c) /\ ~Fresh(c)
<1>1. S.stopPrice \in Int BY DEF Brackets
<1>2. CASE why = "ratchet" BY <1>1, <1>2 DEF Freeing, Wants, Fresh, First, Raises, Priced, Bare
<1>3. CASE why # "ratchet" BY <1>1, <1>3 DEF Freeing, Wants, Fresh, First, Raises, Priced, Bare
<1>. QED BY <1>2, <1>3

LEMMA UnstoppingWants ==
  ASSUME NEW S \in Brackets, Priced(S), NEW why, NEW lvl, NEW c, Unstopping(S, why, lvl, c),
         ~(spec.full /\ spec.scale), why = "ratchet" => S.stopPrice # 0 /\ Raises(S.stopPrice, lvl),
         why = "scale" => spec.scale, why \notin {"first", "again", "adjust"}
  PROVE Wants(S.stopPrice, c) /\ ~Fresh(c)
<1>1. CASE Freeing(S, why, lvl, c) BY <1>1, FreeingWants
<1>2. CASE c.pc = "unstop" /\ c.why = why /\ c.lvl = lvl BY <1>2 DEF Wants, Fresh, First
<1>. QED BY <1>1, <1>2 DEF Unstopping

LEMMA TimeStoppingWants ==
  ASSUME TypeOK, NEW S \in Brackets, Priced(S), NEW c, TimeStopping(S, c)
  PROVE Wants(S.stopPrice, c) /\ ~Fresh(c) BY Kinds, EndsWants, UnstoppingWants DEF TimeStopping

LEMMA ManagedWants ==
  ASSUME TypeOK, NEW S \in Brackets, Priced(S), NEW c, Managed(S, c)
  PROVE Wants(S.stopPrice, c) /\ ~Fresh(c)
<1>1. CASE TimeStopping(S, c) BY <1>1, TimeStoppingWants
<1>2. CASE spec.scale /\ Unstopping(S, "scale", 0, c) BY <1>2, Kinds, UnstoppingWants
<1>3. CASE Unstopping(S, "final", 0, c) BY <1>3, Kinds, UnstoppingWants
<1>4. ASSUME S.stopPrice # 0, NEW lvl \in Int, lvl > S.stopPrice, Unstopping(S, "ratchet", lvl, c)
      PROVE  Wants(S.stopPrice, c) /\ ~Fresh(c)
  <2>1. S.stopPrice \in Int BY DEF Brackets
  <2>2. Raises(S.stopPrice, lvl) BY <1>4, <2>1 DEF Raises, StopLevel, Priced
  <2>. QED BY <1>4, <2>2, Kinds, UnstoppingWants
<1>. QED BY <1>1, <1>2, <1>3, <1>4 DEF Managed

LEMMA ArrivedWants ==
  ASSUME TypeOK, NEW S \in Brackets, Priced(S), NEW why, why # "adjust", why = "scale" => spec.scale, NEW c,
         Arrived(why, S, c)
  PROVE Wants(S.stopPrice, c) /\ (Fresh(c) => why \in {"first", "again"} /\ S.stopId = 0)
<1>1. CASE Ends(c) BY <1>1, EndsWants
<1>2. CASE why \in {"first", "again"} /\ Again(S, c) BY <1>2 DEF Again, Wants, Fresh, First
<1>3. CASE Managed(S, c) BY <1>3, ManagedWants
<1>4. CASE why = "scale" /\ c.pc = "sell" /\ c.why = "scale" BY <1>4 DEF Wants, Fresh, First
<1>5. CASE TimeStopping(S, c) BY <1>5, TimeStoppingWants
<1>. QED BY <1>1, <1>2, <1>3, <1>4, <1>5 DEF Arrived

LEMMA TickEndsKeeping == ASSUME NEW S \in Brackets, NEW D, TickEnds(S) PROVE \E c : Keeping(S, D, c)
<1>1. PICK c : Leads("run", S, D, c) /\ Ends(c) BY TickEndsLeads
<1>. QED BY <1>1, EndsWants, LeadsKeep

LEMMA ProtectedKeeping == ASSUME NEW S \in Brackets, NEW D, Protected(S) PROVE \E c : Keeping(S, D, c)
<1>1. PICK c : Leads("run", S, D, c) /\ Protects(S, c) BY ProtectedLeads
<1>2. CASE Ends(c) BY <1>1, <1>2, EndsWants, LeadsKeep
<1>3. CASE job["run"].why = "first" /\ Again(S, c)
  <2>1. Wants(S.stopPrice, c) /\ First(job["run"]) /\ S.stopId = 0 BY <1>3 DEF Again, Wants, First
  <2>. QED BY <1>1, <2>1, LeadsKeep
<1>. QED BY <1>1, <1>2, <1>3 DEF Protects

LEMMA ManageKeeping ==
  ASSUME TypeOK, NEW S \in Brackets, Priced(S), NEW D, NEW last \in Int, Manage(S, D, last)
  PROVE \E c : Keeping(S, D, c)
<1>1. PICK c : Leads("run", S, D, c) /\ Manages(S, c) BY ManageLeads, RunHere
<1>. QED BY <1>1, EndsWants, ManagedWants, LeadsKeep DEF Manages

LEMMA TimeStopKeeping ==
  ASSUME TypeOK, NEW S \in Brackets, Priced(S), NEW D, NEW last \in Int, TimeStop(S, D, last)
  PROVE \E c : Keeping(S, D, c)
<1>1. PICK c : Leads("run", S, D, c) /\ TimeStopping(S, c) BY TimeStopLeads, RunHere
<1>. QED BY <1>1, TimeStoppingWants, LeadsKeep

LEMMA StopDoneKeeping ==
  ASSUME TypeOK, Errand("run"), NEW S \in Brackets, Priced(S), job["run"].why = "scale" => spec.scale, NEW D,
         StopDone("run", S, D)
  PROVE \E c : Keeping(S, D, c)
<1>1. PICK c : Leads("run", S, D, c) /\ Arrives("run", S, c) BY StopDoneLeads, RunHere DEF Procs
<1>2. Arrived(job["run"].why, S, c) /\ job["run"].why # "adjust" BY <1>1 DEF Arrives, Errand
<1>. QED BY <1>1, <1>2, ArrivedWants, LeadsKeep DEF First

LEMMA SellDoneKeeping ==
  ASSUME TypeOK, Whose, NEW S \in Brackets, Priced(S), job["run"].why = "scale" => spec.scale, SellDone(S)
  PROVE \E c : Keeping(S, Image(S), c)
<1>1. PICK c : Leads("run", S, Image(S), c) /\ Sold(S, c) BY SellDoneLeads
<1>2. Arrived(job["run"].why, S, c) /\ job["run"].why # "adjust" BY <1>1 DEF Sold
<1>. QED BY <1>1, <1>2, ArrivedWants, LeadsKeep DEF First

LEMMA SteadyLevels == ASSUME Stays, Remains, NEW c, Steady(c) PROVE Levels
<1>1. /\ TypeOK /\ Leveled /\ Restarted' = Restarted /\ spec' = spec
      /\ st.stopPrice \in Int /\ disk.stopPrice \in Int
      /\ \A o \in Stops' : o \in Stops /\ book'[o].lvl = book[o].lvl
  BY Parts DEF Stays, Below, Before, SameStops, TypeOK, Brackets
<1>2. Priced(st') /\ Priced(disk') BY <1>1 DEF Leveled, Priced, Remains
<1>3. Leveling(c) BY <1>1, <1>2 DEF Steady, Leveling, Leveled, Remains, Raises
<1>4. Rises BY <1>1 DEF Rises, Remains
<1>. QED BY <1>1, <1>3, <1>4 DEF Levels

LEMMA KeepingLevels ==
  ASSUME Stays, NEW S, NEW D, S.stopPrice = st.stopPrice, D.stopPrice \in {st.stopPrice, disk.stopPrice, 0},
         \E c : Keeping(S, D, c)
  PROVE Levels
<1>1. PICK c : Keeping(S, D, c) OBVIOUS
<1>2. Remains BY <1>1 DEF Keeping, Remains
<1>3. Steady(c) BY <1>1 DEF Keeping, Steady, Stays, Below, Leveled, Fresh
<1>. QED BY <1>2, <1>3, SteadyLevels

LEMMA JobLevels ==
  ASSUME Stays, Remains, status' = status, NEW c, Become("run", c), Wants(st.stopPrice, c),
         Fresh(c) => Fresh(job["run"])
  PROVE Levels
<1>1. Steady(c) BY DEF Steady, Stays, Below, Leveled
<1>. QED BY <1>1, SteadyLevels

LEMMA AwaitLevels ==
  ASSUME Stays, Remains, status' = status, NEW pc, NEW why, NEW last, NEW amt, NEW lvl,
         Awaits("run", pc, why, last, amt, lvl), Wanted(pc, why, lvl)
  PROVE Levels
<1>. DEFINE c == [Idle EXCEPT !.pc = pc, !.why = why, !.last = last, !.amt = amt, !.lvl = lvl]
<1>1. Become("run", c) BY DEF Awaits
<1>2. c.pc = pc /\ c.why = why /\ c.lvl = lvl BY DEF Idle
<1>. HIDE DEF c
<1>. QED BY <1>1, <1>2, JobLevels DEF Wanted

LEMMA PauseLevels ==
  ASSUME Stays, Remains, status' = status, NEW pc, NEW last, NEW amt, Pauses(pc, last, amt),
         pc \notin {"findStop", "placeStop", "protect", "find"},
         pc \in {"enter", "awaitEntry", "dropEntry", "reread"} => Fresh(job["run"])
  PROVE Levels
<1>1. PICK why, lvl : why = "" /\ lvl = 0 OBVIOUS
<1>2. Awaits("run", pc, why, last, amt, lvl) BY <1>1 DEF Pauses
<1>3. Wanted(pc, why, lvl) BY <1>1 DEF Wanted, Wants, Fresh, First
<1>. QED BY <1>2, <1>3, AwaitLevels

LEMMA ImagePriced == ASSUME NEW S PROVE Image(S).stopPrice \in {S.stopPrice, 0}
<1>1. NoBracket.stopPrice = 0 BY DEF NoBracket
<1>. QED BY <1>1 DEF Image

LEMMA EndedLevels == ASSUME Stays, Remains, Ended, status' = "failed" => Fresh(job["run"]) PROVE Levels
<1>1. Steady(Idle)
  <2>1. Idle.pc = "idle" BY DEF Idle
  <2>. QED BY <2>1, IdleWants DEF Ended, Steady
<1>. QED BY <1>1, SteadyLevels

LEMMA FailsLevels == ASSUME Stays, Fails(st), Fresh(job["run"]) PROVE Levels
  BY ImagePriced, EndedLevels DEF Fails, persistBracket, Remains

LEMMA ThrowsLevels == ASSUME Stays, TickThrows(st) PROVE Levels
<1>1. PICK c : Become("run", c) /\ Ends(c) BY MonitorEnds DEF TickThrows
<1>. QED BY <1>1, EndsWants, JobLevels DEF TickThrows, Remains

LEMMA failBracketLevels == ASSUME Stays, failBracket PROVE Levels
<1>1. st \in Brackets /\ NoBracket.stopPrice = 0 BY Parts DEF Stays, Below, Before, TypeOK, NoBracket
<1>2. Remains BY <1>1 DEF failBracket, clearPersistedBracket, Remains, Brackets
<1>. QED BY <1>2, EndedLevels DEF failBracket

LEMMA ClosesLevels ==
  ASSUME Stays, NEW S \in Brackets, S.stopPrice = st.stopPrice, ClosesFlat(S) PROVE Levels
<1>1. NoBracket.stopPrice = 0 BY DEF NoBracket
<1>2. Remains BY <1>1 DEF ClosesFlat, clearPersistedBracket, Remains, Brackets
<1>. QED BY <1>2, EndedLevels DEF ClosesFlat

LEMMA EntryLoopLevels ==
  ASSUME Stays, NEW S, EntryLoop(S), Remains, status' = status, Fresh(job["run"]) PROVE Levels
<1>1. PICK c \in Jobs : Become("run", c) /\ (c = Idle \/ (c.pc = "awaitEntry" /\ c.why = ""))
  <2>1. [Idle EXCEPT !.pc = "awaitEntry"].why = "" BY DEF Idle
  <2>. QED BY <2>1, EntryLoopOf DEF EntryLoop, Ended
<1>2. Wants(st.stopPrice, c)
  <2>1. CASE c = Idle BY <2>1, IdleWants
  <2>2. CASE c.pc = "awaitEntry" /\ c.why = "" BY <2>2 DEF Wants
  <2>. QED BY <1>1, <2>1, <2>2
<1>. QED BY <1>1, <1>2, JobLevels

LEMMA TickEndsLevels ==
  ASSUME Stays, NEW S \in Brackets, S.stopPrice = st.stopPrice, TickEnds(S) PROVE Levels
  BY TickEndsKeeping, KeepingLevels

LEMMA ReadsTp1Levels ==
  ASSUME Stays, Remains, status' = status, NEW S, NEW last, ReadsTp1(S, last) PROVE Levels
<1>. DEFINE c == [Idle EXCEPT !.pc = "readTp1", !.last = last, !.id = S.tp1Id]
<1>1. c.pc = "readTp1" /\ c.why = "" BY DEF Idle
<1>. HIDE DEF c
<1>2. CASE Become("run", c) BY <1>1, <1>2, JobLevels DEF Wants, Fresh, First
<1>3. PICK z : z = 0 OBVIOUS
<1>4. CASE Awaits("run", "readHeld", "", last, z, z)
  <2>1. Pauses("readHeld", last, z) BY <1>3, <1>4 DEF Pauses
  <2>. QED BY <2>1, PauseLevels
<1>. QED BY <1>2, <1>3, <1>4 DEF ReadsTp1, c

LEMMA finalizeLevels ==
  ASSUME Stays, NEW S \in Brackets, S.stopPrice = st.stopPrice, finalizeBracket(S) PROVE Levels
<1>. DEFINE c == [Idle EXCEPT !.pc = "sweep", !.why = "close", !.ids = Named(S) \ {0}]
<1>1. c.pc = "sweep" /\ c.why = "close" /\ Become("run", c) BY DEF Idle, finalizeBracket
<1>2. Remains /\ status' = status BY DEF finalizeBracket, Remains, Brackets
<1>. HIDE DEF c
<1>. QED BY <1>1, <1>2, JobLevels DEF Wants, Fresh, First

----
\* Each step of the monitor.

LEMMA Started == ASSUME Below, NEW pc, At("run", pc), pc # "idle", SameStops, spec' = spec
                 PROVE  /\ Stays /\ TypeOK /\ st \in Brackets /\ job["run"].pc = pc
                        /\ Wants(st.stopPrice, job["run"]) /\ Priced(st)
  BY Parts DEF Below, Before, Stays, At, Leveled

LEMMA FindEntryLevels == ASSUME Below, FindEntry PROVE Levels
<1>1. At("run", "find") /\ spec' = spec /\ SameStops BY ReadSame DEF FindEntry, world
<1>2. Stays /\ st \in Brackets /\ Fresh(job["run"]) /\ status' = status BY <1>1, Started DEF Fresh, FindEntry
<1>3. ASSUME NEW o, EntryLoop([st EXCEPT !.entryId = o]), persistBracket([st EXCEPT !.entryId = o])
      PROVE  Levels
  <2>. DEFINE S == [st EXCEPT !.entryId = o]
  <2>1. S.stopPrice = st.stopPrice BY <1>2 DEF Brackets
  <2>. HIDE DEF S
  <2>2. EntryLoop(S) /\ disk' = Image(S) BY <1>3 DEF S, persistBracket
  <2>3. Remains BY <2>1, <2>2, ImagePriced DEF EntryLoop, Remains
  <2>. QED BY <1>2, <2>2, <2>3, EntryLoopLevels
<1>4. CASE UNCHANGED <<st, disk>> /\ Awaits("run", "enter", "", 0, 0, 0)
  <2>1. Pauses("enter", 0, 0) /\ Remains BY <1>4 DEF Pauses, Remains
  <2>2. PICK z : z = 0 OBVIOUS
  <2>3. Pauses("enter", z, z) BY <2>1, <2>2
  <2>. QED BY <1>2, <2>1, <2>3, PauseLevels
<1>. QED BY <1>3, <1>4 DEF FindEntry

LEMMA EnterMarketLevels == ASSUME Below, EnterMarket PROVE Levels
<1>1. At("run", "enter") /\ spec' = spec /\ SameStops BY PlaceSame, CalmSame DEF EnterMarket, world
<1>2. Stays /\ st \in Brackets /\ Fresh(job["run"]) BY <1>1, Started DEF Fresh
<1>3. ASSUME NEW id, EntryLoop([st EXCEPT !.entryId = id]), persistBracket([st EXCEPT !.entryId = id]),
             status' = status
      PROVE  Levels
  <2>. DEFINE S == [st EXCEPT !.entryId = id]
  <2>1. S.stopPrice = st.stopPrice BY <1>2 DEF Brackets
  <2>. HIDE DEF S
  <2>2. EntryLoop(S) /\ disk' = Image(S) BY <1>3 DEF S, persistBracket
  <2>3. Remains BY <2>1, <2>2, ImagePriced DEF EntryLoop, Remains
  <2>. QED BY <1>2, <1>3, <2>2, <2>3, EntryLoopLevels
<1>. QED BY <1>2, <1>3, failBracketLevels, FailsLevels DEF EnterMarket

LEMMA HeldPrice ==
  ASSUME st \in Brackets, NEW n
  PROVE  /\ Held(st, n).stopPrice = st.stopPrice
         /\ [Held(st, n) EXCEPT !.phase = "protected"].stopPrice = st.stopPrice BY DEF Held, Brackets

LEMMA HeldLevels ==
  ASSUME Stays, Fresh(job["run"]), NEW n, st' = [Held(st, n) EXCEPT !.phase = "protected"], Remains, status' = status,
         Awaits("run", "protect", "first", 0, 0, 0)
  PROVE Levels
<1>1. PICK z : z = 0 OBVIOUS
<1>2. Awaits("run", "protect", "first", z, z, z) BY <1>1
<1>3. Wanted("protect", "first", z) BY DEF Wanted, Wants, First
<1>. QED BY <1>2, <1>3, AwaitLevels

LEMMA adoptLevels == ASSUME Stays, Fresh(job["run"]), NEW n, adoptPartialEntry(n) PROVE Levels
<1>1. st \in Brackets BY Parts DEF Stays, Below, Before
<1>2. CASE /\ st' = [Held(st, n) EXCEPT !.phase = "protected"]
           /\ Awaits("run", "protect", "first", 0, 0, 0) /\ UNCHANGED <<disk, status>>
  BY <1>1, <1>2, HeldPrice, HeldLevels DEF Remains
<1>. QED BY <1>2, failBracketLevels DEF adoptPartialEntry

LEMMA PollEntryLevels == ASSUME Below, PollEntry PROVE Levels
<1>. DEFINE n == book[st.entryId].got
<1>1. At("run", "awaitEntry") /\ spec' = spec /\ SameStops BY ReadSame DEF PollEntry, world
<1>2. Stays /\ st \in Brackets /\ Fresh(job["run"]) BY <1>1, Started DEF Fresh
<1>. HIDE DEF n
<1>3. CASE /\ persistBracket(Held(st, n)) /\ st' = [Held(st, n) EXCEPT !.phase = "protected"]
           /\ Awaits("run", "protect", "first", 0, 0, 0) /\ UNCHANGED status
  <2>1. Remains BY <1>2, <1>3, HeldPrice, ImagePriced DEF persistBracket, Remains
  <2>. QED BY <1>2, <1>3, <2>1, HeldLevels
<1>4. CASE adoptPartialEntry(n) BY <1>2, <1>4, adoptLevels
<1>5. CASE UNCHANGED <<st, disk, status>> /\ Awaits("run", "dropEntry", "", 0, n, 0)
  <2>1. PICK z : z = 0 OBVIOUS
  <2>2. Pauses("dropEntry", z, n) /\ Remains BY <1>5, <2>1 DEF Pauses, Remains
  <2>. QED BY <1>2, <1>5, <2>2, PauseLevels
<1>6. CASE Ended /\ UNCHANGED <<st, disk, status>> BY <1>2, <1>6, EndedLevels DEF Remains
<1>7. CASE EntryLoop(st) /\ UNCHANGED <<disk, status>>
  <2>1. Remains BY <1>7 DEF EntryLoop, Remains
  <2>. QED BY <1>2, <1>7, <2>1, EntryLoopLevels
<1>. QED BY <1>3, <1>4, <1>5, <1>6, <1>7 DEF PollEntry, n

LEMMA DropEntryLevels == ASSUME Below, DropEntry PROVE Levels
<1>1. At("run", "dropEntry") /\ spec' = spec /\ TypeOK /\ UNCHANGED <<st, disk, status>>
  BY Parts DEF DropEntry, world, Below, Before
<1>2. SameStops BY <1>1, CancelSame DEF DropEntry
<1>3. Stays /\ Fresh(job["run"]) BY <1>1, <1>2, Started DEF Fresh
<1>4. PICK z : z = 0 OBVIOUS
<1>5. Pauses("reread", z, job["run"].amt) /\ Remains BY <1>1, <1>4 DEF DropEntry, Pauses, Remains
<1>. QED BY <1>1, <1>3, <1>5, PauseLevels

LEMMA RereadEntryLevels == ASSUME Below, RereadEntry PROVE Levels
<1>1. At("run", "reread") /\ spec' = spec /\ SameStops BY ReadSame DEF RereadEntry, world
<1>2. Stays /\ Fresh(job["run"]) BY <1>1, Started DEF Fresh
<1>. QED BY <1>2, adoptLevels DEF RereadEntry

\* Its take-profit first: the level is the one that is only watched.
LEMMA FullLevels ==
  ASSUME Stays, spec.full, job["run"].pc = "protect", NEW T, T.stopPrice = IF spec.stop THEN StopLevel ELSE 0,
         st' = T, UNCHANGED <<disk, status>>, NEW amt, NEW lvl, Awaits("run", "sell", job["run"].why, 0, amt, lvl)
  PROVE Levels
<1>. DEFINE c == [Idle EXCEPT !.pc = "sell", !.why = job["run"].why, !.last = 0, !.amt = amt, !.lvl = lvl]
<1>1. Become("run", c) /\ c.pc = "sell" /\ c.why = job["run"].why BY DEF Awaits, Idle
<1>. HIDE DEF c
<1>2. /\ Leveled /\ Restarted' = Restarted /\ spec' = spec /\ st.stopPrice \in Int
      /\ \A o \in Stops' : o \in Stops /\ book'[o].lvl = book[o].lvl
  BY Parts DEF Stays, Below, Before, SameStops, TypeOK, Brackets
<1>3. First(job["run"]) /\ Fresh(job["run"]) /\ T.stopPrice \in {0, StopLevel} /\ (Bare => T.stopPrice = 0)
  BY <1>2 DEF Leveled, Wants, Fresh, Bare
<1>4. ~Restarted => T.stopPrice >= st.stopPrice BY <1>2, <1>3 DEF Leveled, Priced, Bare, StopLevel
<1>5. Rises BY <1>3, <1>4 DEF Rises
<1>6. Leveling(c)
  <2>1. Priced(st') /\ Priced(disk') /\ st'.stopPrice <= StopLevel BY <1>2, <1>3 DEF Leveled, Priced, StopLevel
  <2>2. Wants(st'.stopPrice, c) /\ status' # "failed" BY <1>1, <1>2, <1>3 DEF Wants, First, Stays, Leveled
  <2>3. ~Restarted => \A o \in Stops' : Raises(st'.stopPrice, book'[o].lvl)
    <3>1. \A o \in Stops : book[o].lvl \in Int BY Parts DEF Stays, Below, Before, TypeOK, OrderRec, Stops, LiveOf
    <3>. QED BY <1>2, <1>3, <2>1, <3>1 DEF Leveled, Raises, StopLevel
  <2>. QED BY <1>1, <2>1, <2>2, <2>3 DEF Leveling
<1>. QED BY <1>2, <1>5, <1>6 DEF Levels

LEMMA placeProtectionLevels == ASSUME Below, placeProtection PROVE Levels
<1>. DEFINE S == [st EXCEPT !.position = Lower(st.filled, coins)]
            T == [S EXCEPT !.stopPrice = IF spec.stop THEN StopLevel ELSE 0]
            why == job["run"].why
<1>1. At("run", "protect") /\ spec' = spec /\ SameStops BY ReadSame DEF placeProtection, world
<1>2. /\ Stays /\ st \in Brackets /\ Fresh(job["run"]) /\ First(job["run"]) /\ job["run"].pc = "protect"
      /\ TypeOK /\ Priced(st) /\ st.stopPrice \in Int BY <1>1, Started DEF Fresh, Wants, Brackets
<1>3. S.stopPrice = st.stopPrice /\ S \in Brackets
  <2>1. Lower(st.filled, coins) \in Int BY <1>2, LowerTyped, StateTyped DEF TypeOK
  <2>. QED BY <1>2, <2>1 DEF Brackets
<1>4. T.stopPrice = IF spec.stop THEN StopLevel ELSE 0 BY <1>3 DEF Brackets
<1>5. \/ Fails(st) \/ Protected(S)
      \/ /\ st' = T /\ spec.full /\ UNCHANGED <<disk, status>> /\ \E amt : Awaits("run", "sell", why, 0, amt, Tp1Level)
      \/ /\ st' = S /\ ~spec.full /\ UNCHANGED <<disk, status>>
         /\ \E amt : \/ ~spec.stop /\ Awaits("run", "findTp", why, 0, amt, Tp1Level)
                     \/ Awaits("run", "findStop", why, 0, amt, StopLevel) BY DEF placeProtection, PlaceStop
<1>. HIDE DEF S, T
<1>6. CASE Fails(st) BY <1>2, <1>6, FailsLevels
<1>7. CASE Protected(S) BY <1>2, <1>3, <1>7, ProtectedKeeping, KeepingLevels
<1>8. ASSUME NEW amt, st' = T, spec.full, UNCHANGED <<disk, status>>, Awaits("run", "sell", why, 0, amt, Tp1Level)
      PROVE  Levels BY <1>2, <1>4, <1>8, FullLevels
<1>9. ASSUME NEW amt, NEW lvl, st' = S, ~spec.full, UNCHANGED <<disk, status>>, NEW pc \in {"findTp", "findStop"},
             Awaits("run", pc, why, 0, amt, lvl), pc = "findStop" => lvl = StopLevel
      PROVE  Levels
  <2>1. pc = "findStop" => Raises(st.stopPrice, lvl) \/ Restarted
    BY <1>2, <1>9 DEF Stays, Below, Leveled, Raises, StopLevel
  <2>2. Wanted(pc, why, lvl) BY <1>2, <1>9, <2>1 DEF Wanted, Wants, Fresh, First, Bare, StopLevel
  <2>3. Remains BY <1>3, <1>9 DEF Remains
  <2>4. PICK z : z = 0 OBVIOUS
  <2>5. Awaits("run", pc, why, z, amt, lvl) BY <1>9, <2>4
  <2>. QED BY <1>2, <1>9, <2>2, <2>3, <2>5, AwaitLevels
<1>. QED BY <1>5, <1>6, <1>7, <1>8, <1>9

LEMMA CancelStopLevels == ASSUME Below, NEW p \in Procs, CancelStop(p) PROVE Levels
<1>. DEFINE j == job["run"]
<1>1. p = "run" /\ TypeOK /\ spec' = spec /\ At("run", "unstop") /\ j.last \in Int /\ j.why # "adjust"
  BY Runs, Parts, RunHere DEF CancelStop, At, world, Below, Before
<1>2. PICK ok \in BOOLEAN :
         LET S == ForgetStop(st, ok) IN
         /\ CancelOrder(j.id, ok)
         /\ \/ ok /\ Tick(S, disk) /\ Awaits("run", "freed", j.why, j.last, 0, j.lvl)
            \/ TickEnds(S) \/ TimeStop(S, disk, j.last) BY <1>1 DEF CancelStop
<1>. DEFINE S == ForgetStop(st, ok)
<1>3. SameStops BY <1>1, <1>2, CancelSame
<1>4. Stays /\ Wants(st.stopPrice, j) /\ Priced(st) BY <1>1, <1>3, Started
<1>5. S \in Brackets /\ S.stopPrice = st.stopPrice BY <1>1, Rec, StopTyped DEF ForgetStop, TypeOK, Brackets
<1>. HIDE DEF S
<1>6. Priced(S) BY <1>4, <1>5 DEF Priced
<1>7. CASE ok /\ Tick(S, disk) /\ Awaits("run", "freed", j.why, j.last, 0, j.lvl)
  <2>1. PICK z : z = 0 OBVIOUS
  <2>2. Awaits("run", "freed", j.why, j.last, z, j.lvl) BY <1>7, <2>1
  <2>3. Wanted("freed", j.why, j.lvl) BY <1>1, <1>4 DEF At, Wanted, Wants, Fresh, First
  <2>4. Remains /\ status' = status BY <1>5, <1>7 DEF Tick, Remains
  <2>. QED BY <1>4, <2>2, <2>3, <2>4, AwaitLevels
<1>8. CASE TickEnds(S) BY <1>4, <1>5, <1>8, TickEndsLevels
<1>9. CASE TimeStop(S, disk, j.last) BY <1>1, <1>4, <1>5, <1>6, <1>9, TimeStopKeeping, KeepingLevels
<1>. QED BY <1>2, <1>7, <1>8, <1>9 DEF S

LEMMA StopFreedLevels == ASSUME Below, NEW p \in Procs, StopFreed(p) PROVE Levels
<1>. DEFINE j == job["run"]
<1>1. /\ p = "run" /\ TypeOK /\ spec' = spec /\ At("run", "freed") /\ j.last \in Int /\ j.why # "adjust"
      /\ SameStops /\ st \in Brackets /\ j.why \in Why /\ j.lvl \in Int
  BY Runs, Parts, RunHere, CalmSame DEF StopFreed, At, world, Below, Before
<1>2. PICK c : Leads("run", st, disk, c) /\ Freeing(st, j.why, j.lvl, c)
  BY <1>1, FreedLeads, RunHere DEF StopFreed, Procs
<1>3. Stays /\ Wants(st.stopPrice, j) /\ Priced(st) /\ ~(spec.full /\ spec.scale) BY <1>1, Started, Kinds
<1>4. /\ j.why \notin {"first", "again"} /\ (j.why = "scale" => spec.scale)
      /\ j.why = "ratchet" => st.stopPrice # 0 /\ Raises(st.stopPrice, j.lvl)
  BY <1>1, <1>2, <1>3 DEF Freeing, Wants, At
<1>5. Wants(st.stopPrice, c) /\ ~Fresh(c) BY <1>1, <1>2, <1>3, <1>4, FreeingWants
<1>. QED BY <1>2, <1>3, <1>5, LeadsKeep, KeepingLevels

\* After a restart no stop rests that is looked for: the file knew it.
LEMMA StopsBefore == ASSUME Stays, job["run"].pc = "findStop", NEW o \in Stops PROVE ~Restarted
<1>1. SUFFICES ASSUME Restarted PROVE FALSE OBVIOUS
<1>2. NoFault BY <1>1 DEF Stays, Below, Excused, LostBoth, NoFault, Restarted
<1>3. Agreed /\ status # "gone" BY <1>2, KnowingNow DEF Stays, Below, Before
<1>4. Stops \subseteq {0} BY <1>3 DEF Agreed, Fit, FitAt
<1>. QED BY <1>4 DEF Stops, LiveOf, Orders

\* Before one, the stop that is adopted is no lower.
LEMMA AdoptLevels ==
  ASSUME Stays, job["run"].pc = "findStop", NEW o \in Stops, NEW S, S.stopId = o, S.stopPrice = book[o].lvl,
         \A x \in Stops' : x = o, NEW D, D.stopPrice \in {S.stopPrice, 0}, \E c : Keeping(S, D, c)
  PROVE Levels
<1>1. /\ Leveled /\ Restarted' = Restarted /\ spec' = spec /\ st.stopPrice \in Int
      /\ o \in Orders /\ book[o].lvl \in Int
      /\ \A x \in Stops' : x \in Stops /\ book'[x].lvl = book[x].lvl
  BY Parts DEF Stays, Below, Before, SameStops, TypeOK, Brackets, OrderRec, Stops, LiveOf
<1>2. ~Restarted BY StopsBefore
<1>3. Raises(st.stopPrice, S.stopPrice) /\ ~Bare BY <1>1, <1>2 DEF Leveled, Wants
<1>4. PICK c : Keeping(S, D, c) OBVIOUS
<1>5. ~Fresh(c)
  <2>1. o # 0 BY <1>1 DEF Orders
  <2>. QED BY <1>4, <2>1 DEF Keeping
<1>6. st'.stopPrice = S.stopPrice /\ disk'.stopPrice \in {S.stopPrice, 0} /\ status' = status BY <1>4 DEF Keeping
<1>7. Priced(st') /\ Priced(disk') BY <1>1, <1>3, <1>6 DEF Priced, Raises, StopLevel
<1>8. \A x \in Stops' : Raises(st'.stopPrice, book'[x].lvl) BY <1>1, <1>3, <1>6 DEF Raises
<1>9. Leveling(c) BY <1>1, <1>4, <1>5, <1>6, <1>7, <1>8 DEF Leveling, Keeping, Stays, Leveled
<1>10. Rises BY <1>3, <1>6 DEF Rises, Raises
<1>. QED BY <1>1, <1>9, <1>10 DEF Levels

LEMMA FindStopLevels == ASSUME Below, NEW p \in Procs, FindStop(p) PROVE Levels
<1>. DEFINE j == job["run"]
<1>1. /\ p = "run" /\ TypeOK /\ spec' = spec /\ At("run", "findStop") /\ Errand("run")
      /\ st \in Brackets BY Runs, Parts DEF FindStop, At, world, Below, Before
<1>2. SameStops /\ NoNewStop /\ \A o, q \in Stops : o = q
  BY ReadSame, CalmSame, ReadStops, CalmStops DEF FindStop, Below, Before, SInv, Alone
<1>3. /\ Stays /\ Wants(st.stopPrice, j) /\ Priced(st) /\ (j.why = "scale" => spec.scale)
      /\ j.pc = "findStop" BY <1>1, <1>2, Started DEF Wants
<1>4. CASE StopDone("run", st, disk) BY <1>1, <1>3, <1>4, StopDoneKeeping, KeepingLevels
<1>5. CASE Tick(st, disk) /\ Awaits("run", "placeStop", j.why, j.last, j.amt, j.lvl)
  <2>1. Remains /\ status' = status BY <1>5 DEF Tick, Remains
  <2>2. Wanted("placeStop", j.why, j.lvl) BY <1>3 DEF Wanted, Wants, Fresh, First
  <2>. QED BY <1>3, <1>5, <2>1, <2>2, AwaitLevels
<1>6. ASSUME NEW o \in Stops, StopDone("run", Adopts(st, o, book[o].lvl), Image(Adopts(st, o, book[o].lvl)))
      PROVE  Levels
  <2>. DEFINE S == Adopts(st, o, book[o].lvl)
  <2>1. o \in Orders /\ o \in Ids /\ book[o].lvl \in Int BY <1>1, <1>6, Rec, StateTyped DEF Stops, LiveOf
  <2>2. S \in Brackets /\ S.stopId = o /\ S.stopPrice = book[o].lvl BY <1>1, <2>1, StopTyped DEF Adopts, Brackets
  <2>3. \A x \in Stops' : x = o BY <1>2, <1>6 DEF NoNewStop
  <2>. HIDE DEF S
  <2>4. StopDone("run", S, Image(S)) /\ Image(S).stopPrice \in {S.stopPrice, 0} BY <1>6, ImagePriced DEF S
  <2>5. Priced(S)
    <3>1. ~Bare /\ S.stopPrice >= StopLevel BY <1>3, <1>6, <2>2, StopsBefore DEF Wants, Stays, Below, Leveled, Raises
    <3>. QED BY <2>1, <2>2, <3>1 DEF Priced, StopLevel
  <2>. QED BY <1>1, <1>3, <1>6, <2>2, <2>3, <2>4, <2>5, StopDoneKeeping, AdoptLevels
<1>7. ASSUME NEW o \in Nearest(Stops, j.lvl), Stops # {o} PROVE FALSE BY <1>2, <1>7 DEF Nearest
<1>. QED BY <1>1, <1>4, <1>5, <1>6, <1>7 DEF FindStop, Stops

LEMMA PlaceNewStopLevels == ASSUME Below, NEW p \in Procs, PlaceNewStop(p) PROVE Levels
<1>. DEFINE j == job["run"]
<1>1. /\ p = "run" /\ TypeOK /\ spec' = spec /\ At("run", "placeStop") /\ Errand("run")
      /\ st \in Brackets /\ j.lvl \in Int /\ j.pc = "placeStop" /\ st.stopPrice \in Int
  BY Runs, Parts, RunHere DEF PlaceNewStop, At, world, Below, Before, Brackets
<1>2. PICK id \in Ids : LET S == IF id = 0 THEN st ELSE Adopts(st, id, j.lvl) IN
         PlaceOrder("stop", j.amt, j.lvl, id) /\ StopDone("run", S, Image(S)) BY <1>1 DEF PlaceNewStop
<1>. DEFINE S == IF id = 0 THEN st ELSE Adopts(st, id, j.lvl)
<1>3. /\ Leveled /\ Wants(st.stopPrice, j) /\ status # "failed" /\ Priced(st) /\ Priced(disk)
      /\ j.why = "scale" => spec.scale BY <1>1 DEF Below, Leveled, Wants
<1>4. ~Bare /\ j.lvl >= StopLevel /\ (Raises(st.stopPrice, j.lvl) \/ (First(j) /\ Restarted)) BY <1>1, <1>3 DEF Wants
<1>5. Stops = {} BY <1>1 DEF Below, Before, SInv, Alone
<1>6. Restarted' = Restarted /\ \A o \in Stops' : book'[o].lvl = j.lvl BY <1>2, <1>5, Placing
<1>7. S \in Brackets /\ (id = 0 => S = st) /\ (id # 0 => S.stopId = id /\ S.stopPrice = j.lvl)
  BY <1>1, StopTyped DEF Adopts, Brackets
<1>. HIDE DEF S
<1>8. StopDone("run", S, Image(S)) /\ Image(S).stopPrice \in {S.stopPrice, 0} BY <1>2, ImagePriced DEF S
<1>9. S.stopPrice \in {st.stopPrice, j.lvl} /\ Priced(S) BY <1>1, <1>3, <1>4, <1>7 DEF Priced, StopLevel
<1>10. PICK c : Keeping(S, Image(S), c) BY <1>1, <1>3, <1>7, <1>8, <1>9, StopDoneKeeping
<1>11. st'.stopPrice = S.stopPrice /\ disk'.stopPrice \in {S.stopPrice, 0} /\ status' = status
  BY <1>8, <1>10 DEF Keeping
<1>12. Priced(st') /\ Priced(disk') BY <1>1, <1>9, <1>11 DEF Priced
<1>13. Fresh(c) => Fresh(j) /\ id = 0 BY <1>7, <1>10 DEF Keeping, Fresh
<1>14. ~Restarted => \A o \in Stops' : Raises(st'.stopPrice, book'[o].lvl) BY <1>1, <1>4, <1>6, <1>9, <1>11 DEF Raises
<1>15. Leveling(c)
  <2>1. Fresh(c) /\ ~Restarted => st'.stopPrice <= StopLevel BY <1>3, <1>7, <1>11, <1>13 DEF Leveled
  <2>2. Wants(st'.stopPrice, c) /\ Become("run", c) /\ status' # "failed" BY <1>3, <1>10, <1>11 DEF Keeping
  <2>. QED BY <1>12, <1>14, <2>1, <2>2 DEF Leveling
<1>16. Rises BY <1>1, <1>4, <1>9, <1>11 DEF Rises, Raises
<1>. QED BY <1>1, <1>6, <1>15, <1>16 DEF Levels

LEMMA ExitLevels ==
  ASSUME TypeOK, st \in Brackets, Priced(st), NEW id \in Ids, NEW S, S = [st EXCEPT !.tp1Id = id]
  PROVE S \in Brackets /\ S.stopPrice = st.stopPrice /\ Priced(S)
<1>1. S.stopPrice = st.stopPrice BY DEF Brackets
<1>. QED BY <1>1, ExitKept DEF Priced

LEMMA FindTpLevels == ASSUME Below, FindTp PROVE Levels
<1>. DEFINE j == job["run"]
<1>1. TypeOK /\ spec' = spec /\ At("run", "findTp") /\ SameStops /\ j.last \in Int
  BY Parts, ReadSame, RunHere DEF FindTp, world, Below, Before
<1>2. Stays /\ Wants(st.stopPrice, j) /\ Priced(st) /\ st \in Brackets BY <1>1, Started
<1>3. CASE Tick(st, disk) /\ Awaits("run", "sell", j.why, j.last, j.amt, j.lvl)
  <2>1. Remains /\ status' = status BY <1>3 DEF Tick, Remains
  <2>2. Wanted("sell", j.why, j.lvl) BY <1>2 DEF Wanted, Wants, Fresh, First
  <2>. QED BY <1>2, <1>3, <2>1, <2>2, AwaitLevels
<1>4. ASSUME NEW o \in LiveOf("sell"),
             \/ Manage([st EXCEPT !.tp1Id = o], Image([st EXCEPT !.tp1Id = o]), j.last)
             \/ Protected([st EXCEPT !.tp1Id = o])
      PROVE  Levels
  <2>. DEFINE S == [st EXCEPT !.tp1Id = o]
  <2>1. o \in Ids BY Rec DEF LiveOf
  <2>2. S \in Brackets /\ S.stopPrice = st.stopPrice /\ Priced(S) BY <1>1, <1>2, <2>1, ExitLevels
  <2>. HIDE DEF S
  <2>3. Manage(S, Image(S), j.last) \/ Protected(S) BY <1>4 DEF S
  <2>4. \E c : Keeping(S, Image(S), c) BY <1>1, <2>2, <2>3, ManageKeeping, ProtectedKeeping
  <2>. QED BY <1>2, <2>2, <2>4, ImagePriced, KeepingLevels
<1>. QED BY <1>3, <1>4 DEF FindTp

LEMMA PlaceSellLevels == ASSUME Below, PlaceSell PROVE Levels
<1>. DEFINE j == job["run"]
<1>1. TypeOK /\ Whose /\ spec' = spec /\ At("run", "sell") /\ SameStops /\ 0 \in Ids /\ Orders \subseteq Ids
  <2>1. TypeOK /\ Whose BY Parts DEF Below, Before
  <2>. QED BY <2>1, PlaceSame, CalmSame, Rec DEF PlaceSell, world
<1>2. /\ Stays /\ Wants(st.stopPrice, j) /\ Priced(st) /\ st \in Brackets
      /\ j.why = "scale" => spec.scale BY <1>1, Started DEF Wants
<1>3. ASSUME NEW id \in Ids, SellDone([st EXCEPT !.tp1Id = id]) PROVE Levels
  <2>. DEFINE S == [st EXCEPT !.tp1Id = id]
  <2>1. S \in Brackets /\ S.stopPrice = st.stopPrice /\ Priced(S) BY <1>1, <1>2, ExitLevels
  <2>. HIDE DEF S
  <2>2. SellDone(S) BY <1>3 DEF S
  <2>3. \E c : Keeping(S, Image(S), c) BY <1>1, <1>2, <2>1, <2>2, SellDoneKeeping
  <2>. QED BY <1>2, <2>1, <2>3, ImagePriced, KeepingLevels
<1>4. CASE j.why \in {"first", "again"} /\ Fails(st) BY <1>2, <1>4, FailsLevels DEF Fresh, First
<1>5. CASE TickThrows(st) BY <1>2, <1>5, ThrowsLevels
<1>6. CASE Tick(st, disk) /\ Awaits("run", "readHeld", "", j.last, 0, 0)
  <2>1. PICK z : z = 0 OBVIOUS
  <2>2. Pauses("readHeld", j.last, z) /\ Remains /\ status' = status BY <1>6, <2>1 DEF Pauses, Tick, Remains
  <2>. QED BY <1>2, <2>2, PauseLevels
<1>. QED BY <1>1, <1>3, <1>4, <1>5, <1>6 DEF PlaceSell, SellThrows

LEMMA TickStartsLevels == ASSUME Below, NEW last, TickStarts(last) PROVE Levels
<1>. DEFINE c == [Idle EXCEPT !.pc = "readStop", !.last = last, !.id = st.stopId]
<1>1. spec' = spec /\ At("run", "asleep") /\ SameStops /\ UNCHANGED <<st, disk, status>>
  BY CalmSame DEF TickStarts, world
<1>2. Stays /\ Remains BY <1>1, Started DEF Remains
<1>3. c.pc = "readStop" /\ c.why = "" BY DEF Idle
<1>. HIDE DEF c
<1>4. CASE Become("run", c) BY <1>1, <1>2, <1>3, <1>4, JobLevels DEF Wants, Fresh, First
<1>5. CASE ReadsTp1(st, last) BY <1>1, <1>2, <1>5, ReadsTp1Levels
<1>. QED BY <1>4, <1>5 DEF TickStarts, c

LEMMA ReadStopLevels == ASSUME Below, ReadStop PROVE Levels
<1>. DEFINE S == [st EXCEPT !.stopId = 0]
            j == job["run"]
<1>1. TypeOK /\ spec' = spec /\ At("run", "readStop") /\ SameStops
  BY Parts, ReadSame DEF ReadStop, world, Below, Before
<1>2. Stays /\ st \in Brackets BY <1>1, Started
<1>3. S \in Brackets /\ S.stopPrice = st.stopPrice BY <1>2, Rec DEF Brackets
<1>. HIDE DEF S
<1>4. \/ finalizeBracket(S)
      \/ st' = S /\ UNCHANGED <<disk, status>> /\ ReadsTp1(S, j.last)
      \/ st' = st /\ UNCHANGED <<disk, status>> /\ ReadsTp1(st, j.last) BY DEF ReadStop, S
<1>5. CASE finalizeBracket(S) BY <1>2, <1>3, <1>5, finalizeLevels
<1>6. CASE st' = S /\ UNCHANGED <<disk, status>> /\ ReadsTp1(S, j.last)
  BY <1>2, <1>3, <1>6, ReadsTp1Levels DEF Remains
<1>7. CASE st' = st /\ UNCHANGED <<disk, status>> /\ ReadsTp1(st, j.last) BY <1>2, <1>7, ReadsTp1Levels DEF Remains
<1>. QED BY <1>4, <1>5, <1>6, <1>7

LEMMA ReadTp1Levels == ASSUME Below, ReadTp1 PROVE Levels
<1>. DEFINE j == job["run"]
            S == [st EXCEPT !.tp1Id = 0]
            banked == [S EXCEPT !.phase = "tp1_filled"]
            hit == st.stopPrice # 0 /\ j.last <= st.stopPrice
            chasing == [j EXCEPT !.pc = "chase", !.amt = Left(j.id)]
            forcing == [j EXCEPT !.pc = "force", !.why = IF hit THEN "stop" ELSE "time"]
<1>1. TypeOK /\ spec' = spec /\ At("run", "readTp1") /\ SameStops /\ j \in Jobs
  BY Parts, ReadSame, RunHere DEF ReadTp1, world, Below, Before
<1>2. Stays /\ Wants(st.stopPrice, j) /\ Priced(st) /\ st \in Brackets BY <1>1, Started
<1>3. S \in Brackets /\ S.stopPrice = st.stopPrice /\ banked.stopPrice = st.stopPrice BY <1>2, Rec DEF Brackets
<1>4. /\ chasing.pc = "chase" /\ chasing.why = j.why /\ forcing.pc = "force"
      /\ forcing.why \in {"stop", "time"} /\ (forcing.why = "stop" => hit) BY <1>1 DEF Jobs
<1>. HIDE DEF S, banked, chasing, forcing
<1>5. \/ ClosesFlat(S) \/ TickEnds(st)
      \/ /\ st' \in {banked, S, st} /\ disk' \in {Image(banked), disk} /\ status' = status
         /\ \/ Pauses("readHeld", j.last, 0) \/ Become("run", chasing) \/ Become("run", forcing)
  BY DEF ReadTp1, Tick, Pauses, S, banked, chasing, forcing
<1>6. CASE ClosesFlat(S) BY <1>2, <1>3, <1>6, ClosesLevels
<1>7. CASE TickEnds(st) BY <1>2, <1>7, TickEndsLevels
<1>8. CASE /\ st' \in {banked, S, st} /\ disk' \in {Image(banked), disk} /\ status' = status
           /\ \/ Pauses("readHeld", j.last, 0) \/ Become("run", chasing) \/ Become("run", forcing)
  <2>1. Remains BY <1>3, <1>8, ImagePriced DEF Remains
  <2>2. PICK z : z = 0 OBVIOUS
  <2>3. Pauses("readHeld", j.last, z) => Levels BY <1>2, <1>8, <2>1, PauseLevels
  <2>4. Become("run", chasing) => Levels BY <1>2, <1>4, <1>8, <2>1, JobLevels DEF Wants, Fresh, First
  <2>5. Become("run", forcing) => Levels BY <1>2, <1>4, <1>8, <2>1, JobLevels DEF Wants, Fresh, First
  <2>. QED BY <1>8, <2>2, <2>3, <2>4, <2>5
<1>. QED BY <1>5, <1>6, <1>7, <1>8

LEMMA ChaseLevels == ASSUME Below, Chase PROVE Levels
<1>. DEFINE j == job["run"]
            c == [j EXCEPT !.pc = "rechase"]
<1>1. TypeOK /\ spec' = spec /\ At("run", "chase") /\ j \in Jobs BY Parts, RunHere DEF Chase, world, Below, Before
<1>2. SameStops BY <1>1, CancelSame DEF Chase
<1>3. Stays /\ Wants(st.stopPrice, j) /\ st \in Brackets BY <1>1, <1>2, Started
<1>4. c.pc = "rechase" /\ c.why = j.why BY <1>1 DEF Jobs
<1>. HIDE DEF c
<1>5. CASE UNCHANGED <<st, disk, status>> /\ Become("run", c)
  BY <1>3, <1>4, <1>5, JobLevels DEF Remains, Wants, Fresh, First
<1>6. CASE TickEnds(st) BY <1>3, <1>6, TickEndsLevels
<1>. QED BY <1>5, <1>6 DEF Chase, Tick, c

LEMMA RechaseLevels == ASSUME Below, Rechase PROVE Levels
<1>1. TypeOK /\ spec' = spec /\ At("run", "rechase") BY Parts DEF Rechase, world, Below, Before
<1>2. PICK id \in Ids : /\ PlaceOrder("sell", job["run"].amt, job["run"].last, id)
                        /\ TickEnds([st EXCEPT !.tp1Id = id]) BY DEF Rechase
<1>3. SameStops BY <1>2, PlaceSame
<1>4. Stays /\ Priced(st) /\ st \in Brackets BY <1>1, <1>3, Started
<1>. DEFINE S == [st EXCEPT !.tp1Id = id]
<1>5. S \in Brackets /\ S.stopPrice = st.stopPrice BY <1>1, <1>4, ExitLevels
<1>6. TickEnds(S) BY <1>2
<1>. HIDE DEF S
<1>. QED BY <1>4, <1>5, <1>6, TickEndsLevels

LEMMA ForceExitLevels == ASSUME Below, ForceExit PROVE Levels
<1>. DEFINE S == [st EXCEPT !.tp1Id = 0]
            j == job["run"]
<1>1. TypeOK /\ spec' = spec /\ At("run", "force") BY Parts DEF ForceExit, world, Below, Before
<1>2. SameStops BY <1>1, CancelSame DEF ForceExit
<1>3. Stays /\ Wants(st.stopPrice, j) /\ st \in Brackets /\ j.pc = "force" BY <1>1, <1>2, Started
<1>4. S.stopPrice = st.stopPrice BY <1>3 DEF Brackets
<1>. HIDE DEF S
<1>5. st' = S /\ disk' = disk /\ status' = status /\ Awaits("run", "forced", j.why, j.last, 0, 0)
  BY DEF ForceExit, Tick, S
<1>6. PICK z : z = 0 OBVIOUS
<1>7. Awaits("run", "forced", j.why, j.last, z, z) /\ Remains BY <1>4, <1>5, <1>6 DEF Remains
<1>8. Wanted("forced", j.why, z) BY <1>3 DEF Wanted, Wants, Fresh, First
<1>. QED BY <1>3, <1>5, <1>7, <1>8, AwaitLevels

LEMMA ForcedExitLevels == ASSUME Below, ForcedExit PROVE Levels
<1>. DEFINE j == job["run"]
            S == [st EXCEPT !.phase = "exiting"]
<1>1. spec' = spec /\ At("run", "forced") /\ SameStops BY ReadSame DEF ForcedExit, world
<1>2. /\ Stays /\ Wants(st.stopPrice, j) /\ Priced(st) /\ st \in Brackets /\ j.pc = "forced"
      /\ st.stopPrice \in Int BY <1>1, Started DEF Brackets
<1>3. S.stopPrice = st.stopPrice BY <1>2 DEF Brackets
<1>. HIDE DEF S
<1>4. /\ st' \in {S, st} /\ disk' = disk /\ status' = status
      /\ \/ j.why = "stop" /\ \E amt : Awaits("run", "findStop", "force", j.last, amt, st.stopPrice)
         \/ \E amt : Awaits("run", "sell", "force", j.last, amt, j.last)
         \/ Pauses("readHeld", j.last, 0) BY DEF ForcedExit, PlaceStop, Tick, Pauses, S
<1>5. Remains BY <1>3, <1>4 DEF Remains
<1>6. ASSUME NEW amt, j.why = "stop", Awaits("run", "findStop", "force", j.last, amt, st.stopPrice)
      PROVE  Levels
  <2>1. Wanted("findStop", "force", st.stopPrice)
    BY <1>2, <1>6 DEF Wanted, Wants, Fresh, First, Priced, Raises, StopLevel
  <2>. QED BY <1>2, <1>4, <1>5, <1>6, <2>1, AwaitLevels
<1>7. ASSUME NEW amt, NEW lvl, Awaits("run", "sell", "force", j.last, amt, lvl) PROVE Levels
  <2>1. Wanted("sell", "force", lvl) BY DEF Wanted, Wants, Fresh, First
  <2>. QED BY <1>2, <1>4, <1>5, <1>7, <2>1, AwaitLevels
<1>8. CASE Pauses("readHeld", j.last, 0)
  <2>1. PICK z : z = 0 OBVIOUS
  <2>2. Pauses("readHeld", j.last, z) BY <1>8, <2>1
  <2>. QED BY <1>2, <1>4, <1>5, <2>2, PauseLevels
<1>. QED BY <1>4, <1>6, <1>7, <1>8

LEMMA ReadHeldLevels == ASSUME Below, ReadHeld PROVE Levels
<1>. DEFINE n == bracketPosition(st, coins)
            S == [st EXCEPT !.position = n]
            j == job["run"]
<1>1. /\ TypeOK /\ spec' = spec /\ At("run", "readHeld") /\ SameStops /\ coins \in Int /\ j.last \in Int
      /\ ~(spec.full /\ spec.scale) BY Parts, ReadSame, RunHere, Kinds DEF ReadHeld, world, Below, Before, TypeOK
<1>2. Stays /\ Priced(st) /\ st \in Brackets /\ st.stopPrice \in Int BY <1>1, Started DEF Brackets
<1>3. S \in Brackets /\ S.stopPrice = st.stopPrice
  <2>1. n \in Int BY <1>1, <1>2, HoldsTyped
  <2>. HIDE DEF n
  <2>. QED BY <1>2, <2>1 DEF Brackets
<1>4. Priced(S) BY <1>2, <1>3 DEF Priced
<1>5. \/ finalizeBracket(S) \/ Manage(S, disk, j.last) \/ TickThrows(st)
      \/ /\ st' = S /\ disk' = disk /\ status' = status
         /\ \/ \E amt, lvl : Awaits("run", "findTp", "heal", j.last, amt, lvl)
            \/ \E amt : ~spec.stop /\ spec.scale /\ Awaits("run", "findStop", "heal", j.last, amt, Entry)
            \/ \E amt : spec.stop /\ Awaits("run", "findStop", "heal", j.last, amt, HealLevel(S))
  BY DEF ReadHeld, PlaceStop, HealsStop, Tick
<1>. HIDE DEF S
<1>6. CASE finalizeBracket(S) BY <1>2, <1>3, <1>6, finalizeLevels
<1>7. CASE Manage(S, disk, j.last) BY <1>1, <1>2, <1>3, <1>4, <1>7, ManageKeeping, KeepingLevels
<1>8. CASE TickThrows(st) BY <1>2, <1>8, ThrowsLevels
<1>9. ASSUME st' = S, disk' = disk, status' = status, NEW pc \in {"findTp", "findStop"}, NEW amt, NEW lvl,
             Awaits("run", pc, "heal", j.last, amt, lvl), pc = "findStop" => ~Bare /\ Raises(st.stopPrice, lvl)
      PROVE  Levels
  <2>1. Wanted(pc, "heal", lvl) BY <1>9 DEF Wanted, Wants, Fresh, First, Raises
  <2>2. Remains BY <1>3, <1>9 DEF Remains
  <2>. QED BY <1>2, <1>9, <2>1, <2>2, AwaitLevels
<1>10. ~spec.stop /\ spec.scale => ~Bare /\ Raises(st.stopPrice, Entry) BY <1>1 DEF Bare, Raises, StopLevel, Entry
<1>11. spec.stop => ~Bare /\ Raises(st.stopPrice, HealLevel(S))
  BY <1>2, <1>3 DEF Bare, Raises, StopLevel, HealLevel, Priced
<1>. QED BY <1>5, <1>6, <1>7, <1>8, <1>9, <1>10, <1>11

LEMMA ClosingLevels == ASSUME Below, Balance \/ SellToUsd \/ Close PROVE Levels
<1>1. PICK pc \in {"balance", "closing", "closed"} : spec' = spec /\ At("run", pc) /\ SameStops
  BY ReadSame, PlaceSame, CalmSame DEF Balance, SellToUsd, Close, world
<1>2. Stays /\ st \in Brackets BY <1>1, Started
<1>3. \/ ClosesFlat(st) \/ TickThrows(st)
      \/ /\ UNCHANGED <<st, disk, status>>
         /\ \E n, next : next \in {"closing", "closed"} /\ Pauses(next, 0, n)
  BY DEF Balance, SellToUsd, Close, Tick, Pauses
<1>4. CASE ClosesFlat(st) BY <1>2, <1>4, ClosesLevels
<1>5. CASE TickThrows(st) BY <1>2, <1>5, ThrowsLevels
<1>6. ASSUME UNCHANGED <<st, disk, status>>, NEW n, NEW next \in {"closing", "closed"}, Pauses(next, 0, n)
      PROVE  Levels
  <2>1. PICK z : z = 0 OBVIOUS
  <2>2. Pauses(next, z, n) /\ Remains BY <1>6, <2>1 DEF Remains
  <2>. QED BY <1>2, <1>6, <2>2, PauseLevels
<1>. QED BY <1>3, <1>4, <1>5, <1>6

LEMMA LevelsLast == ASSUME Below, TypeOK', Levels PROVE Lasts
<1>1. st.stopPrice \in Int /\ st'.stopPrice \in Int BY Parts DEF Below, Before, TypeOK, Brackets
<1>. QED BY <1>1, LevelsKeep DEF Lasts, Levels, Rises

LEMMA BesideLasts ==
  ASSUME Below, TypeOK', spec' = spec, SameStops, Remains, job'["run"] = job["run"], status' = status
  PROVE Lasts
<1>1. /\ Leveled /\ st.stopPrice \in Int /\ disk.stopPrice \in Int /\ st'.stopPrice = st.stopPrice
      /\ disk'.stopPrice \in {st.stopPrice, disk.stopPrice, 0} /\ Restarted' = Restarted
      /\ \A o \in Stops' : o \in Stops /\ book'[o].lvl = book[o].lvl
  BY Parts DEF Below, Before, TypeOK, Brackets, Remains, SameStops
<1>2. Priced(st)' /\ Priced(disk)' BY <1>1 DEF Leveled, Priced, Bare
<1>3. Wants(st.stopPrice, job["run"])' /\ (Fresh(job["run"])' => Fresh(job["run"]))
  BY <1>1 DEF Leveled, Wants, Fresh, First, Raises, Bare
<1>4. ~Restarted => \A o \in Stops' : Raises(st.stopPrice, book[o].lvl)' BY <1>1 DEF Leveled, Raises
<1>5. Leveled' BY <1>1, <1>2, <1>3, <1>4 DEF Leveled
<1>. QED BY <1>1, <1>5 DEF Lasts

LEMMA SweepLasts == ASSUME Below, TypeOK', NEW p \in Procs, Sweep(p) PROVE Lasts
<1>. DEFINE c == [job[p] EXCEPT !.ids = @ \ {Min(job[p].ids)}]
<1>1. TypeOK /\ At(p, "sweep") /\ UNCHANGED <<spec, st, status, disk>> /\ Become(p, c)
  BY Parts DEF Sweep, world, Below, Before
<1>2. SameStops /\ Remains BY <1>1, CancelSame DEF Sweep, Remains
<1>3. p \in {"run", "kill"} BY <1>1 DEF Procs, Below, Before, SInv, Alone, At
<1>4. c.pc = job[p].pc /\ c.why = job[p].why /\ c.lvl = job[p].lvl BY <1>1 DEF TypeOK, Jobs
<1>. HIDE DEF c
<1>5. CASE p = "kill" BY <1>1, <1>2, <1>5, Others, BesideLasts
<1>6. CASE p = "run"
  <2>1. Stays /\ Wants(st.stopPrice, job["run"]) BY <1>1, <1>2, <1>6, Started
  <2>2. Wants(st.stopPrice, c) /\ (Fresh(c) => Fresh(job["run"])) BY <1>4, <1>6, <2>1 DEF Wants, Fresh, First
  <2>. QED BY <1>1, <1>2, <1>6, <2>1, <2>2, JobLevels, LevelsLast
<1>. QED BY <1>3, <1>5, <1>6

LEMMA SweptLasts == ASSUME Below, TypeOK', NEW p \in Procs, Swept(p) PROVE Lasts
<1>1. TypeOK /\ Whose /\ At(p, "sweep") /\ spec' = spec /\ st \in Brackets /\ SameStops
  BY Parts, CalmSame DEF Swept, world, Below, Before
<1>2. p \in {"run", "kill"} BY <1>1 DEF Procs, Below, Before, SInv, Alone, At
<1>3. CASE p = "kill"
  <2>1. job["kill"].why = "kill" BY <1>1, <1>3 DEF Whose, At
  <2>2. /\ st' = [st EXCEPT !.phase = "aborted"] /\ disk' = NoBracket
        /\ Become("kill", Idle) /\ status' = status BY <1>3, <2>1 DEF Swept, clearPersistedBracket
  <2>3. Remains BY <1>1, <2>2 DEF Remains, Brackets, NoBracket
  <2>. QED BY <1>1, <2>2, <2>3, Others, BesideLasts
<1>4. CASE p = "run"
  <2>. DEFINE S == [st EXCEPT !.stopId = 0, !.tp1Id = 0]
  <2>1. job["run"].why = "close" BY <1>1, <1>4 DEF Below, Before, SInv, Alone
  <2>2. st' = S /\ disk' = disk /\ status' = status /\ Pauses("balance", 0, 0) BY <1>4, <2>1 DEF Swept, Tick, Pauses
  <2>3. S.stopPrice = st.stopPrice BY <1>1 DEF Brackets
  <2>. HIDE DEF S
  <2>4. PICK z : z = 0 OBVIOUS
  <2>5. Pauses("balance", z, z) /\ Remains BY <2>2, <2>3, <2>4 DEF Remains
  <2>6. Stays BY <1>1, <1>4, Started
  <2>. QED BY <2>2, <2>5, <2>6, PauseLevels, LevelsLast
<1>. QED BY <1>2, <1>3, <1>4

LEMMA ElsewhereLasts ==
  ASSUME Below, TypeOK', Kill \/ (\E o \in Orders : CancelledElsewhere(o)) \/ PositionDeadline \/ UNCHANGED vars
  PROVE Lasts
<1>1. TypeOK /\ UNCHANGED <<spec, st, status, disk>> /\ Remains
  BY Parts DEF Below, Before, Kill, CancelledElsewhere, PositionDeadline, vars, world, Remains
<1>2. job'["run"] = job["run"]
  <2>1. job' = job \/ \E c : Become("kill", c) BY DEF Kill, CancelledElsewhere, PositionDeadline, vars
  <2>. QED BY <1>1, <2>1, Others
<1>3. Restarted' = Restarted BY DEF Kill, CancelledElsewhere, PositionDeadline, vars, Upset, Restarted
<1>4. (\E o : Gone(o)) \/ book' = book BY DEF Kill, CancelledElsewhere, PositionDeadline, vars
<1>5. SameStops BY <1>1, <1>3, <1>4, GoneSame DEF SameStops
<1>. QED BY <1>1, <1>2, <1>5, BesideLasts

LEMMA TradeLasts == ASSUME Below, TypeOK', NEW o, Trade(o) PROVE Lasts
<1>1. TypeOK /\ UNCHANGED <<spec, st, status, job, disk, upsets>> BY Parts DEF Trade, Below, Before
<1>2. \A x \in Orders : /\ book'[x].kind = book[x].kind /\ book'[x].lvl = book[x].lvl
                        /\ book'[x].st = "live" => book[x].st = "live" BY <1>1 DEF Trade, TypeOK, OrderRec, Live
<1>3. SameStops BY <1>1, <1>2 DEF SameStops, Stops, LiveOf, Live, Restarted
<1>. QED BY <1>1, <1>3, BesideLasts DEF Remains

LEMMA LockLasts == ASSUME Below, TypeOK', NEW on, Lock(on) PROVE Lasts
<1>1. TypeOK /\ UNCHANGED <<spec, status, job, book>> /\ Restarted' = Restarted /\ st \in Brackets
  BY Parts DEF Lock, Below, Before, world, Upset, Restarted
<1>2. SameStops BY <1>1 DEF SameStops, Stops, LiveOf, Live
<1>3. st'.stopPrice = st.stopPrice BY <1>1 DEF Lock, Brackets
<1>4. disk' = Image(st') BY DEF Lock, persistBracket
<1>5. Remains BY <1>3, <1>4, ImagePriced DEF Remains
<1>. QED BY <1>1, <1>2, <1>5, BesideLasts

\* A bracket that starts, or starts again, at the level it had.
LEMMA runBracketLevels ==
  ASSUME NEW S \in Starts, NEW J \in [Procs -> Jobs], runBracket(S, J), Priced(S), Priced(disk), spec' = spec,
         ~Restarted' => S.stopPrice <= StopLevel /\ \A o \in Stops' : Raises(S.stopPrice, book'[o].lvl)
  PROVE Leveled' /\ st'.stopPrice = S.stopPrice
<1>. DEFINE pc == FirstAwait(S)
            named == [S EXCEPT !.client = TRUE]
            c == [Idle EXCEPT !.pc = pc, !.why = IF pc = "protect" THEN "again" ELSE ""]
<1>1. job' = [J EXCEPT !["run"] = c] /\ c.pc = pc /\ c.why = IF pc = "protect" THEN "again" ELSE ""
  BY DEF runBracket, Idle
<1>2. (st' = named /\ disk' = Image(named)) \/ (st' = S /\ disk' = disk) BY DEF runBracket, persistBracket
<1>3. named.stopPrice = S.stopPrice BY Called
<1>4. pc \in {"awaitEntry", "find", "enter", "protect", "asleep"} /\ status' = "executing"
  BY DEF FirstAwait, runBracket
<1>. HIDE DEF named, c, pc
<1>5. job'["run"] = c BY <1>1 DEF Procs
<1>6. st'.stopPrice = S.stopPrice /\ (disk' = disk \/ disk'.stopPrice \in {S.stopPrice, 0}) BY <1>2, <1>3, ImagePriced
<1>7. Priced(st)' /\ Priced(disk)' BY <1>6 DEF Priced, Bare
<1>8. Wants(st.stopPrice, job["run"])' BY <1>1, <1>4, <1>5 DEF Wants, First
<1>9. ~Restarted' => st'.stopPrice <= StopLevel /\ \A o \in Stops' : Raises(st.stopPrice, book[o].lvl)'
  BY <1>6 DEF Raises
<1>. QED BY <1>4, <1>6, <1>7, <1>8, <1>9 DEF Leveled

LEMMA ConfirmLasts == ASSUME Below, TypeOK', Confirm PROVE Lasts
<1>1. /\ TypeOK /\ Leveled /\ st = NoBracket /\ spec' = spec /\ SameStops
      /\ job \in [Procs -> Jobs] /\ runBracket(NewBracket, job)
  BY Parts, Rec, CalmSame DEF Confirm, Below, Before, TypeOK
<1>2. NewBracket.stopPrice = 0 /\ st.stopPrice = 0 BY <1>1 DEF NewBracket, NoBracket
<1>3. Priced(NewBracket) /\ Priced(disk) BY <1>1, <1>2 DEF Leveled, Priced
<1>4. ~Restarted' => NewBracket.stopPrice <= StopLevel
                     /\ \A o \in Stops' : Raises(NewBracket.stopPrice, book'[o].lvl)
  BY <1>1, <1>2 DEF Leveled, SameStops, StopLevel
<1>5. Leveled' /\ st'.stopPrice = st.stopPrice BY <1>1, <1>2, <1>3, <1>4, Starters, runBracketLevels
<1>. QED BY <1>2, <1>5 DEF Lasts

LEMMA ReviveLasts == ASSUME Below, TypeOK', Revive PROVE Lasts
<1>1. /\ TypeOK /\ Leveled /\ status = "failed" /\ spec' = spec /\ SameStops
      /\ job \in [Procs -> Jobs] /\ st \in Brackets /\ st.stopPrice \in Int /\ runBracket(st, job)
  BY Parts, CalmSame DEF Revive, Below, Before, TypeOK, Brackets
<1>2. ~Restarted' => st.stopPrice <= StopLevel /\ \A o \in Stops' : Raises(st.stopPrice, book'[o].lvl)
  BY <1>1 DEF Leveled, SameStops
<1>3. Leveled' /\ st'.stopPrice = st.stopPrice BY <1>1, <1>2, Starters, runBracketLevels DEF Leveled
<1>. QED BY <1>1, <1>3 DEF Lasts

LEMMA RestartLasts == ASSUME Below, TypeOK', Restart PROVE Lasts
<1>1. /\ TypeOK /\ Leveled /\ disk \in Brackets /\ spec' = spec /\ Restarted'
      /\ "restart" \in upsets' \ upsets BY Parts DEF Restart, Below, Before, TypeOK, Upset, Restarted
<1>2. NoJobs \in [Procs -> Jobs] /\ NoJobs["run"] = Idle /\ Idle.pc = "idle" /\ Idle.why = ""
  BY Rec DEF NoJobs, Procs, Idle
<1>3. CASE disk = NoBracket /\ st' = NoBracket /\ job' = NoJobs /\ status' = "gone" /\ disk' = disk
  <2>1. NoBracket.stopPrice = 0 BY DEF NoBracket
  <2>2. Priced(st)' /\ Priced(disk)' BY <1>3, <2>1 DEF Priced
  <2>3. Wants(st.stopPrice, job["run"])' BY <1>2, <1>3 DEF Wants
  <2>4. Leveled' BY <1>1, <1>3, <2>2, <2>3 DEF Leveled
  <2>. QED BY <1>1, <2>4 DEF Lasts
<1>4. CASE runBracket(disk, NoJobs)
  <2>1. Leveled' BY <1>1, <1>2, <1>4, Starters, runBracketLevels DEF Leveled
  <2>. QED BY <1>1, <2>1 DEF Lasts
<1>. QED BY <1>3, <1>4 DEF Restart, Resumes

LEMMA InitLeveled == Init => LInv
<1>1. SUFFICES ASSUME Init PROVE Leveled BY DEF LInv
<1>2. Stops = {} BY <1>1 DEF Init, NoOrder, Stops, LiveOf, Live
<1>3. job["run"] = Idle /\ Idle.pc = "idle" /\ NoBracket.stopPrice = 0 BY <1>1 DEF Init, Procs, Idle, NoBracket
<1>. QED BY <1>1, <1>2, <1>3, IdleWants DEF Init, Leveled, Priced, StopLevel

LEMMA NextLasts == ASSUME IInv, IInv', EInv, SInv, LInv, [Next]_vars PROVE Excused' \/ Lasts
<1>1. SUFFICES ASSUME ~Excused' PROVE Lasts OBVIOUS
<1>2. upsets \subseteq upsets' BY UpsetsGrow DEF vars
<1>3. ~Excused BY <1>1, <1>2 DEF Excused, Adjusted, LostBoth
<1>4. Below /\ TypeOK' BY <1>1, <1>2, <1>3 DEF Below, Before, IInv, LInv, Excused, Adjusted
<1>5. Levels => Lasts BY <1>4, LevelsLast
<1>6. ASSUME RunStep PROVE Levels
  BY <1>4, <1>6, FindEntryLevels, EnterMarketLevels, PollEntryLevels, DropEntryLevels, RereadEntryLevels,
     placeProtectionLevels, FindTpLevels, PlaceSellLevels, ReadStopLevels, ReadTp1Levels, ChaseLevels,
     RechaseLevels, ForceExitLevels, ForcedExitLevels, ReadHeldLevels, ClosingLevels, TickStartsLevels DEF RunStep
<1>7. ASSUME NEW p \in Procs, StopStep(p) PROVE Levels \/ Lasts
  BY <1>4, <1>7, CancelStopLevels, StopFreedLevels, FindStopLevels, PlaceNewStopLevels, SweepLasts,
     SweptLasts DEF StopStep
<1>8. ASSUME NEW lvl, Adjust(lvl) PROVE FALSE BY <1>1, <1>8 DEF Adjust, Upset, Excused, Adjusted
<1>9. ASSUME NEW o \in Orders, Trade(o) PROVE Lasts BY <1>4, <1>9, TradeLasts
<1>10. ASSUME NEW on, Lock(on) PROVE Lasts BY <1>4, <1>10, LockLasts
<1>. QED BY <1>4, <1>5, <1>6, <1>7, <1>8, <1>9, <1>10, ElsewhereLasts, ConfirmLasts, ReviveLasts, RestartLasts
     DEF Next

\* The protective level of a bracket goes down by nothing but what the operator or a restart
\* did, however its requests fail: every coroutine that looks for a stop or cancels one to
\* raise it wants a level at least as high, so does every stop that rests, and the level a
\* bracket is protected at the first time is the lowest there is.
THEOREM LevelsHold == Spec => NeverWidens
<1>1. IInv /\ IInv' /\ EInv /\ SInv /\ LInv /\ [Next]_vars => LInv' BY NextLasts DEF Lasts, LInv
<1>2. IInv /\ IInv' /\ EInv /\ SInv /\ LInv /\ [Next]_vars => [Holds]_vars
  BY NextLasts DEF Lasts, Holds, Excused, Adjusted, Restarted, First, LostBoth
<1>3. IInv /\ EInv /\ SInv /\ [Next]_vars => SInv' BY NextRests
<1>4. IInv /\ EInv /\ [Next]_vars => EInv' BY NextEnters
<1>5. [][Holds]_vars => NeverWidens BY PTL DEF NeverWidens, Holds
<1>. QED BY InvariantHolds, InitEnters, InitRests, InitLeveled, <1>1, <1>2, <1>3, <1>4, <1>5, PTL DEF Spec

LEMMA BookOf ==
  ASSUME NEW b \in Books, NEW o \in Orders
  PROVE b[o].amt \in Int /\ b[o].got \in Int /\ Rest(b, o) \in Int BY DEF Books, OrderRec, Rest

LEMMA IdsOf ==
  ASSUME NEW S \in Brackets
  PROVE  /\ \A o \in Named(S) : o \in Ids /\ (o # 0 => o \in Orders)
         /\ S.entryId \in Named(S) /\ S.stopId \in Named(S) /\ S.tp1Id \in Named(S)
         /\ S.position \in Int /\ S.filled \in Int BY DEF Brackets, Named, Ids, Orders

LEMMA ThinBooked ==
  ASSUME NEW b \in Books, NEW d \in Books, NEW w \in Int, Booked(b, w), Thins(b, d) PROVE Booked(d, w)
<1>1. Buying(d) \subseteq Buying(b) BY DEF Thins, Buying
<1>2. \A o \in Orders : /\ OfSale(d, o) <=> OfSale(b, o)
                        /\ Rest(d, o) = Rest(b, o) /\ d[o].kind = b[o].kind
                        /\ d[o].st \in {"live", "filled"} => d[o].st = b[o].st BY DEF Thins, OfSale, Rest
<1>3. Unsold(b) => Unsold(d) BY <1>2 DEF Unsold
<1>4. ASSUME NEW o \in Orders, OfSale(d, o)
      PROVE  /\ d[o].st = "live" => Rest(d, o) >= 1
             /\ d[o].st = "filled" => Rest(d, o) = 0
             /\ Single(d[o].kind) => Whole(d, w, o) BY <1>2, <1>4 DEF Booked, Whole
<1>5. \A o \in Orders : d[o].kind = "none" <=> d[o].st = "none" BY DEF Booked, Thins
<1>. QED BY <1>1, <1>3, <1>4, <1>5 DEF Booked

LEMMA ThinBacked ==
  ASSUME NEW b \in Books, NEW d \in Books, NEW w \in Int, NEW S \in Brackets, Backed(S, b, w), Thins(b, d)
  PROVE Backed(S, d, w)
<1>1. Buying(d) \subseteq Buying(b) BY DEF Thins, Buying
<1>2. Unsold(b) => Unsold(d) BY DEF Thins, Unsold, OfSale
<1>3. \A o \in Named(S) : o # 0 => /\ d[o].kind = b[o].kind /\ d[o].got = b[o].got /\ Rest(d, o) = Rest(b, o)
                                   /\ b[o].st = "cancelled" => d[o].st = "cancelled" BY IdsOf DEF Thins, Rest
<1>. QED BY <1>1, <1>2, <1>3, IdsOf DEF Backed, Carried

LEMMA ThinServes ==
  ASSUME NEW b \in Books, NEW d \in Books, NEW w \in Int, NEW S \in Brackets, NEW c, Serves(S, c, b, w), Thins(b, d),
         c.pc \in Waits => S.entryId # 0
  PROVE Serves(S, c, d, w)
<1>1. Buying(d) \subseteq Buying(b) BY DEF Thins, Buying
<1>2. Unsold(b) => Unsold(d) BY DEF Thins, Unsold, OfSale
<1>3. \A o \in Named(S) : o # 0 => /\ d[o].kind = b[o].kind /\ d[o].got = b[o].got
                                   /\ d[o].st = "live" => b[o].st = "live"
                                   /\ Resting(d, o) => Resting(b, o) BY IdsOf DEF Thins, Resting, OfSale
<1>4. c.pc \notin Early => Carried(S, d, w) BY <1>1 DEF Serves, Carried
<1>5. /\ c.pc \in Waits => d[S.entryId].kind = "buy" /\ w = d[S.entryId].got
      /\ c.pc = "reread" => d[S.entryId].st # "live" BY <1>3, IdsOf DEF Serves, Waits
<1>6. c.pc = "rechase" => d[S.tp1Id].st # "live" BY <1>3, IdsOf DEF Serves
<1>7. c.pc = "sweep" => \A o \in {S.stopId, S.tp1Id} : o # 0 /\ Resting(d, o) => o \in c.ids BY <1>3, IdsOf DEF Serves
<1>. QED BY <1>2, <1>4, <1>5, <1>6, <1>7 DEF Serves

LEMMA ThinOffers ==
  ASSUME NEW b \in Books, NEW d \in Books, NEW w \in Int, NEW S \in Brackets, NEW c, Offers(S, c, b, w), Thins(b, d)
  PROVE Offers(S, c, d, w)
<1>1. \A o \in Named(S) : o # 0 => /\ Rest(d, o) = Rest(b, o)
                                   /\ b[o].st = "cancelled" => d[o].st = "cancelled" BY IdsOf DEF Thins, Rest
<1>2. c.pc = "sell" /\ c.why = "scale" =>
          S.stopId = 0 \/ d[S.stopId].st = "cancelled" \/ Rest(d, S.stopId) + c.amt >= w BY <1>1, IdsOf DEF Offers
<1>. QED BY <1>2 DEF Offers

LEMMA AddBooked ==
  ASSUME NEW b \in Books, NEW d \in Books, NEW w \in Int, Booked(b, w), NEW U, NEW n,
         NEW kind \in {"buy", "stop", "sell"}, NEW a \in Int, Adds(b, d, U, n, kind, a), kind = "buy" => Unsold(b),
         kind # "buy" => Buying(b) = {} /\ a >= 1 /\ (Single(kind) => a >= w)
  PROVE Booked(d, w)
<1>1. \A o \in Orders : o # n => /\ d[o] = b[o] \/ d[o] = NoOrder
                                 /\ d[o] = NoOrder => d[o].kind = "none" /\ d[o].st = "none" BY DEF Adds, NoOrder
<1>2. n \in Orders /\ d[n].kind = kind /\ d[n].st = "live" /\ Rest(d, n) = a BY DEF Adds, Rest
<1>3. kind = "buy" => Unsold(d) BY <1>1, <1>2 DEF Unsold, OfSale
<1>4. kind # "buy" => Buying(d) = {} BY <1>1, <1>2 DEF Buying
<1>5. ASSUME NEW o \in Orders, OfSale(d, o)
      PROVE  /\ d[o].st = "live" => Rest(d, o) >= 1
             /\ d[o].st = "filled" => Rest(d, o) = 0
             /\ Single(d[o].kind) => Whole(d, w, o)
  <2>1. CASE o = n BY <1>2, <1>5, <2>1 DEF Whole, OfSale
  <2>2. CASE o # n
    <3>1. d[o] = b[o] BY <1>1, <1>5, <2>2 DEF OfSale
    <3>. QED BY <1>5, <3>1 DEF Booked, Whole, OfSale, Rest
  <2>. QED BY <2>1, <2>2
<1>6. \A o \in Orders : d[o].kind = "none" <=> d[o].st = "none" BY <1>1, <1>2 DEF Booked
<1>. QED BY <1>3, <1>4, <1>5, <1>6 DEF Booked

\* A bracket that does not know the new order.
LEMMA AddBacked ==
  ASSUME NEW b \in Books, NEW d \in Books, NEW w \in Int, NEW S \in Brackets, Backed(S, b, w), NEW U, NEW n,
         NEW kind \in {"stop", "sell"}, NEW a, Adds(b, d, U, n, kind, a), Named(S) \cap U = {}, S.phase # "entering"
  PROVE Backed(S, d, w)
<1>1. Buying(d) \subseteq Buying(b) BY DEF Adds, Buying, NoOrder
<1>2. \A o \in Named(S) : o # 0 => d[o] = b[o] /\ Rest(d, o) = Rest(b, o) BY IdsOf DEF Adds, Rest
<1>. QED BY <1>1, <1>2, IdsOf DEF Backed, Carried

LEMMA NoBracketBacked ==
  ASSUME NEW b, NEW w
  PROVE Backed(NoBracket, b, w) /\ Stored(NoBracket, b, w) /\ \A c : Files(NoBracket, c)
  BY DEF Backed, Stored, Files, NoBracket, Holding

LEMMA AlikeBacked ==
  ASSUME NEW b, NEW w, NEW S, NEW T, Backed(S, b, w), Alike(S, T),
         T.phase = S.phase \/ (T.phase = "exiting" /\ S.tp1Id = 0 /\ Carried(S, b, w))
  PROVE Backed(T, b, w)
<1>1. "exiting" \in Holding /\ "exiting" # "entering" BY DEF Holding
<1>. QED BY <1>1 DEF Alike, Backed, Carried

LEMMA AlikeCarried ==
  ASSUME NEW b, NEW w, NEW S, NEW T, Carried(S, b, w), Alike(S, T)
  PROVE Carried(T, b, w) BY DEF Alike, Carried

LEMMA EndsServe ==
  ASSUME NEW b, NEW w, NEW S, Carried(S, b, w), NEW c, Ends(c)
  PROVE Serves(S, c, b, w) /\ Offers(S, c, b, w)
<1>1. c.pc \in {"asleep", "idle"} /\ c.why = "" BY EndsTyped
<1>. QED BY <1>1 DEF Serves, Offers, Waits, Sells, Early

LEMMA FreeingServes ==
  ASSUME NEW b, NEW w \in Int, NEW S \in Brackets, Alike(S, st'), Carried(S, b, w), S.stopId = 0, NEW why, NEW lvl,
         NEW c, Freeing(S, why, lvl, c), S.phase # "entering", why # "ratchet" => S.tp1Id = 0, why # "adjust",
         why = "scale" => Scales(S)
  PROVE Serves(st', c, b, w) /\ Offers(st', c, b, w) /\ Advances(S, st')
<1>1. Carried(st', b, w) BY AlikeCarried
<1>2. st'.position = S.position /\ S.position \in Int /\ st'.stopId = 0 /\ st'.tp1Id = S.tp1Id /\ w <= S.position
  BY DEF Alike, Brackets, Carried
<1>3. CASE why = "scale" /\ c.why = "scale" /\ st'.phase = S.phase /\ c.pc = "sell" /\ c.amt = Tranche(S.position)
  BY <1>1, <1>2, <1>3 DEF Serves, Offers, Waits, Sells, Early, Exits, Scales, Advances
<1>4. CASE /\ why = "scale" /\ c.why = "scale" /\ st'.phase = S.phase /\ c.pc = "findStop"
           /\ c.amt = S.position - Tranche(S.position)
  <2>1. Tranche(S.position) \in Int BY <1>2 DEF Tranche
  <2>2. c.amt + Tranche(st'.position) >= w BY <1>2, <1>4, <2>1
  <2>. QED BY <1>1, <1>2, <1>4, <2>2 DEF Serves, Offers, Waits, Sells, Early, Exits, Scales, Advances
<1>5. CASE why \in {"final", "time"} /\ c.why = why /\ st'.phase = "exiting" /\ c.pc = "sell" /\ c.amt = S.position
  BY <1>1, <1>2, <1>5 DEF Serves, Offers, Waits, Sells, Early, Exits, Advances
<1>6. CASE why = "ratchet" /\ c.why = why /\ st'.phase = S.phase /\ c.pc = "findStop" /\ c.amt = S.position
  BY <1>1, <1>2, <1>6 DEF Serves, Offers, Waits, Sells, Early, Exits, Advances
<1>. QED BY <1>3, <1>4, <1>5, <1>6 DEF Freeing

LEMMA UnstoppingServes ==
  ASSUME NEW b, NEW w \in Int, NEW S \in Brackets, Alike(S, st'), Carried(S, b, w), NEW why, NEW lvl, NEW c,
         Unstopping(S, why, lvl, c), S.phase # "entering", why # "ratchet" => S.tp1Id = 0,
         why \notin {"adjust", "heal", "first", "again"}, why = "scale" => Scales(S)
  PROVE Serves(st', c, b, w) /\ Offers(st', c, b, w) /\ Advances(S, st')
<1>1. CASE S.stopId = 0 /\ Freeing(S, why, lvl, c) BY <1>1, FreeingServes
<1>2. CASE st'.phase = S.phase /\ c.pc = "unstop" /\ c.why = why
  <2>1. Carried(st', b, w) /\ st'.position = S.position /\ st'.tp1Id = S.tp1Id BY AlikeCarried DEF Alike
  <2>. QED BY <1>2, <2>1 DEF Serves, Offers, Waits, Sells, Early, Exits, Scales, Advances
<1>. QED BY <1>1, <1>2 DEF Unstopping

LEMMA TimeStoppingServes ==
  ASSUME NEW b, NEW w \in Int, NEW S \in Brackets, Alike(S, st'), Carried(S, b, w), NEW c, TimeStopping(S, c),
         S.phase # "entering"
  PROVE Serves(st', c, b, w) /\ Offers(st', c, b, w) /\ Advances(S, st')
<1>1. CASE Ends(c) /\ st'.phase = S.phase BY <1>1, AlikeCarried, EndsServe DEF Advances
<1>2. CASE S.tp1Id = 0 /\ Unstopping(S, "time", 0, c)
  <2>1. PICK lvl : lvl = 0 OBVIOUS
  <2>2. Unstopping(S, "time", lvl, c) BY <1>2, <2>1
  <2>. QED BY <1>2, <2>2, UnstoppingServes
<1>. QED BY <1>1, <1>2 DEF TimeStopping

LEMMA ManagedServes ==
  ASSUME NEW b, NEW w \in Int, NEW S \in Brackets, Alike(S, st'), Carried(S, b, w), NEW c, Managed(S, c),
         S.phase # "entering", Scalable(S)
  PROVE Serves(st', c, b, w) /\ Offers(st', c, b, w) /\ Advances(S, st')
<1>1. CASE TimeStopping(S, c) BY <1>1, TimeStoppingServes
<1>2. PICK lvl : lvl = 0 OBVIOUS
<1>3. CASE S.tp1Id = 0 /\ S.phase = "protected" /\ spec.scale /\ Unstopping(S, "scale", 0, c)
  <2>1. Unstopping(S, "scale", lvl, c) /\ Scales(S) BY <1>2, <1>3 DEF Scalable, Scales
  <2>. QED BY <1>3, <2>1, UnstoppingServes
<1>4. CASE S.tp1Id = 0 /\ Unstopping(S, "final", 0, c)
  <2>1. Unstopping(S, "final", lvl, c) BY <1>2, <1>4
  <2>. QED BY <1>4, <2>1, UnstoppingServes
<1>5. CASE \E l \in Int : Unstopping(S, "ratchet", l, c) BY <1>5, UnstoppingServes
<1>. QED BY <1>1, <1>3, <1>4, <1>5 DEF Managed

LEMMA ManagesServes ==
  ASSUME NEW b, NEW w \in Int, NEW S \in Brackets, Alike(S, st'), Carried(S, b, w), NEW c, Manages(S, c),
         S.phase # "entering", Scalable(S)
  PROVE Serves(st', c, b, w) /\ Offers(st', c, b, w) /\ Advances(S, st')
<1>1. CASE Ends(c) /\ st'.phase = S.phase BY <1>1, AlikeCarried, EndsServe DEF Advances
<1>2. CASE Managed(S, c) BY <1>2, ManagedServes
<1>. QED BY <1>1, <1>2 DEF Manages

LEMMA LeadsLeave ==
  ASSUME NEW b, NEW w \in Int, NEW S \in Brackets, NEW D, NEW c, Leads("run", S, D, c), Backed(S, b, w),
         Carried(S, b, w), S.phase # "entering", Backed(D, b, w), Stored(D, b, w), D.phase # "entering",
         Serves(st', c, b, w), Offers(st', c, b, w), Advances(S, st')
  PROVE Leaves(c, b, w)
<1>1. Become("run", c) /\ Alike(S, st') /\ Backed(st', b, w) BY AlikeBacked DEF Leads, Advances
<1>2. CASE disk' = D BY <1>1, <1>2 DEF Leaves, Files
<1>3. CASE disk' = NoBracket BY <1>1, <1>3, NoBracketBacked DEF Leaves
<1>4. CASE Alike(S, disk') /\ disk'.phase \in {S.phase, st'.phase}
  <2>1. Backed(disk', b, w) /\ Carried(disk', b, w) /\ disk'.phase # "entering"
    BY <1>4, AlikeBacked, AlikeCarried DEF Advances
  <2>. QED BY <1>1, <2>1 DEF Leaves, Files, Stored
<1>. QED BY <1>2, <1>3, <1>4 DEF Leads

LEMMA Sanity ==
  ASSUME Sane
  PROVE  /\ TypeOK /\ Whose /\ Awaited /\ st \in Brackets /\ disk \in Brackets /\ spec \in SpecRec
         /\ book \in Books /\ book' \in Books /\ Owned \in Int /\ Owned' \in Int /\ Wallet \in Int
         /\ coins \in Int /\ coins' \in Int
         /\ NoFault /\ NoFault' /\ ~Adjusted /\ Alone /\ Agreed /\ Unsent /\ OneEntry /\ Absent
         /\ ~(spec.full /\ spec.scale) /\ job \in [Procs -> Jobs] /\ "run" \in Procs /\ "kill" \in Procs
<1>1. TypeOK /\ Whose /\ Awaited /\ SInv /\ EInv BY DEF Sane, IInv
<1>2. NoFault /\ NoFault' /\ ~Adjusted /\ ~LostBoth BY DEF Sane, Sober, NoFault, Adjusted, LostBoth
<1>3. st \in Brackets /\ disk \in Brackets /\ book \in Books /\ job \in [Procs -> Jobs] /\ coins \in Int
  BY <1>1 DEF TypeOK, Books
<1>4. book' \in Books /\ coins' \in Int BY DEF Sane, TypeOK, Books
<1>5. Owned \in Int /\ Owned' \in Int /\ Wallet \in Int BY <1>3, <1>4, Rec DEF Owned
<1>6. spec \in SpecRec /\ ~(spec.full /\ spec.scale) BY <1>1, RunHere, Kinds
<1>. QED BY <1>1, <1>2, <1>3, <1>4, <1>5, <1>6, Nothing DEF SInv, Procs

LEMMA CancelThins ==
  ASSUME Sane, NEW o, NEW ok \in BOOLEAN, CancelOrder(o, ok)
  PROVE Thins(book, book') /\ (o \in Orders => book'[o].st # "live")
<1>1. book \in Books /\ "fault" \notin upsets' /\ 0 \notin Orders BY Sanity DEF NoFault, Orders
<1>2. Gone(o) \/ (~Live(o) /\ book' = book) BY <1>1 DEF CancelOrder, Upset
<1>3. CASE Gone(o) BY <1>1, <1>2, <1>3 DEF Gone, Thins, Books, OrderRec, Live, CancelOrder
<1>4. CASE ~Live(o) /\ book' = book BY <1>1, <1>4 DEF Thins, Live
<1>. QED BY <1>2, <1>3, <1>4

LEMMA ReadHere == ASSUME Sane, NEW ok \in BOOLEAN, Read(ok) PROVE ok /\ book' = book
  BY Sanity DEF Read, Upset, NoFault

LEMMA PlaceAdds ==
  ASSUME Sane, NEW kind \in {"buy", "stop", "sell"}, NEW amt, NEW lvl, NEW id, PlaceOrder(kind, amt, lvl, id)
  PROVE  \/ /\ id \in Orders /\ id # 0 /\ Adds(book, book', Unused, id, kind, amt)
            /\ kind = "buy" \/ amt <= Free
         \/ id = 0 /\ book' = book /\ kind # "buy"
<1>. DEFINE new == [kind |-> kind, st |-> "live", amt |-> amt, got |-> 0, lvl |-> lvl]
            n == Min(Unused)
<1>1. Unused # {} /\ "fault" \notin upsets' BY Sanity DEF PlaceOrder, NoFault
<1>2. n \in Unused /\ Unused \subseteq Orders /\ 0 \notin Orders BY <1>1, MinOf DEF Unused, Orders
<1>3. \/ /\ kind = "buy" \/ amt <= Free
         /\ id = n
         /\ book' = [o \in Orders |-> IF o = n THEN new ELSE IF o \in Unused THEN NoOrder ELSE book[o]]
      \/ id = 0 /\ book' = book /\ kind # "buy" BY <1>1 DEF PlaceOrder, Upset
<1>4. \A o \in Unused : book[o].st # "live" BY <1>2 DEF Unused, Live
<1>. HIDE DEF n
<1>5. CASE /\ kind = "buy" \/ amt <= Free
           /\ id = n
           /\ book' = [o \in Orders |-> IF o = n THEN new ELSE IF o \in Unused THEN NoOrder ELSE book[o]]
  <2>1. book'[n] = new BY <1>2, <1>5
  <2>2. new.kind = kind /\ new.st = "live" /\ new.amt = amt /\ new.got = 0 OBVIOUS
  <2>. HIDE DEF new
  <2>3. (\A o \in Orders \ Unused : book'[o] = book[o]) /\ (\A o \in Unused \ {n} : book'[o] = NoOrder) BY <1>2, <1>5
  <2>. QED BY <1>2, <1>4, <1>5, <2>1, <2>2, <2>3 DEF Adds
<1>. QED BY <1>3, <1>5

LEMMA Unreferred ==
  /\ Named(st) \cap Unused = {} /\ Named(disk) \cap Unused = {}
  /\ \A p \in Procs : job[p].ids \cap Unused = {} /\ job[p].id \notin Unused BY DEF Unused, Referred

LEMMA KillIds == ASSUME Sane PROVE job["kill"].ids \subseteq Orders
  BY Sanity DEF Jobs
LEMMA ThinFrames == ASSUME Sane, Thins(book, book') PROVE Frames
  BY KillIds DEF Thins, Frames
LEMMA AddFrames == ASSUME Sane, NEW n, NEW kind, NEW a, Adds(book, book', Unused, n, kind, a) PROVE Frames
<1>1. \A o \in job["kill"].ids : o \in Orders \ Unused BY KillIds, Unreferred, Sanity
<1>. QED BY <1>1 DEF Adds, Frames

LEMMA SameThins == ASSUME book' = book PROVE Thins(book, book')
  BY DEF Thins

LEMMA Concludes == ASSUME NEW c, NEW k, Concluded(c, k) PROVE Offered'
<1>1. Booked(book, Owned)' BY DEF Concluded, Booked, Buying, Unsold, OfSale, Rest, Single, Whole
<1>2. Backed(st, book, Owned)' /\ Backed(disk, book, Owned)' /\ Stored(disk, book, Owned)'
  BY DEF Concluded, Backed, Stored, Buying, Unsold, OfSale, Rest, Carried
<1>3. Serves(st, job["run"], book, Owned)'
  <2>1. Serves(st', c, book', Owned') /\ job'["run"] = c BY DEF Concluded
  <2>2. Serves(st', job'["run"], book', Owned') BY <2>1
  <2>. QED BY <2>2 DEF Serves, Buying, Unsold, OfSale, Carried, Resting
<1>4. Offers(st, job["run"], book, Owned)' /\ Files(disk, job["run"])' BY DEF Concluded, Offers, Files, Tranche, Rest
<1>5. Closes(job["run"], Owned, Free)' /\ Aims(st, job["kill"], book)' BY DEF Concluded, Closes, Aims
<1>6. Done(status, st, disk, job["run"], book, Owned, Free)' BY DEF Concluded, Done, Buying, Unsold, OfSale
<1>. QED BY <1>1, <1>2, <1>3, <1>4, <1>5, <1>6 DEF Offered

LEMMA ReachesOn == ASSUME Sane, Reaches PROVE Offered'
<1>1. PICK c : /\ spec' = spec /\ Booked(book', Owned') /\ Leaves(c, book', Owned') /\ Closes(c, Owned', Free')
               /\ Aims(st', job["kill"], book') /\ Done(status', st', disk', c, book', Owned', Free') BY DEF Reaches
<1>2. job'["run"] = c /\ job'["kill"] = job["kill"] BY <1>1, Sanity DEF Leaves, Become, Procs
<1>3. Concluded(c, job["kill"]) BY <1>1, <1>2 DEF Concluded, Leaves
<1>. QED BY <1>3, Concludes

LEMMA ReadyParts ==
  ASSUME Ready
  PROVE  /\ Owned' = Owned /\ Owned \in Int /\ status \notin {"pending", "gone", "filled", "failed"}
         /\ book \in Books /\ book' \in Books
<1>1. Sane /\ Offered BY DEF Ready, Sane
<1>2. status \notin {"pending", "gone"} BY <1>1, Sanity DEF Ready, Absent
<1>3. status \notin {"filled", "failed"} BY <1>1 DEF Ready, Offered, Done
<1>. QED BY <1>1, <1>2, <1>3, Sanity DEF Ready, Owned

LEMMA AimsKept == ASSUME Ready, Target(st') PROVE Aims(st', job["kill"], book')
<1>1. \A o \in job["kill"].ids : o \in Orders /\ o # 0 BY KillIds DEF Ready, Orders
<1>2. Aims(st, job["kill"], book) BY DEF Ready, Sane, Offered
<1>. QED BY <1>1, <1>2 DEF Aims, Frames, Ready, Target

LEMMA LeaveReaches ==
  ASSUME Ready, NEW c, Leaves(c, book', Owned), Target(st'), c.pc \notin {"closing", "closed"},
         \/ status' = status \/ status' = "skipped"
         \/ /\ status' = "failed" /\ c.pc = "idle"
            /\ st'.phase # "entering" /\ disk'.phase # "entering"
  PROVE Reaches
<1>1. Owned' = Owned /\ status' \notin {"pending", "filled"} BY ReadyParts
<1>2. Closes(c, Owned', Free') BY DEF Closes
<1>3. Done(status', st', disk', c, book', Owned', Free') BY <1>1, ReadyParts DEF Done
<1>4. Aims(st', job["kill"], book') BY AimsKept
<1>. QED BY <1>1, <1>2, <1>3, <1>4 DEF Ready, Reaches

LEMMA LeadsReach ==
  ASSUME Ready, NEW S, Firm(S), NEW D, OnFile(D), NEW c, Leads("run", S, D, c), Serves(st', c, book', Owned),
         Offers(st', c, book', Owned), Advances(S, st'), c.pc \notin {"closing", "closed"}
  PROVE Reaches
<1>1. Leaves(c, book', Owned) BY ReadyParts, LeadsLeave DEF Firm, OnFile
<1>2. Target(st') /\ status' = status BY DEF Leads, Alike, Firm, Target
<1>. QED BY <1>1, <1>2, LeaveReaches

LEMMA FirmImage == ASSUME NEW S, Firm(S) PROVE OnFile(Image(S))
<1>1. OnFile(NoBracket) BY NoBracketBacked DEF OnFile, NoBracket
<1>2. OnFile(S) BY DEF OnFile, Firm, Stored
<1>. QED BY <1>1, <1>2, ImageOf

LEMMA EndsUnfinished == ASSUME NEW c, Ends(c) PROVE Undone(c)
  BY EndsTyped DEF Undone

LEMMA TickEndsReaches == ASSUME Ready, NEW S, Firm(S), TickEnds(S) PROVE Reaches
<1>1. PICK D : D = Image(S) OBVIOUS
<1>2. PICK c : Leads("run", S, D, c) /\ Ends(c) /\ st'.phase = S.phase BY TickEndsLeads DEF Firm
<1>3. Carried(st', book', Owned) BY <1>2, AlikeCarried DEF Leads, Firm
<1>. QED BY <1>1, <1>2, <1>3, FirmImage, EndsServe, EndsUnfinished, LeadsReach DEF Undone, Advances

\* A tick that throws persists nothing.
LEMMA ThrowsReach == ASSUME Ready, Firm(st), OnFile(disk), TickThrows(st) PROVE Reaches
<1>1. PICK c : Become("run", c) /\ Ends(c) BY MonitorEnds DEF TickThrows
<1>2. st' = st /\ disk' = disk /\ status' = status BY DEF TickThrows
<1>3. Leaves(c, book', Owned) /\ Target(st') BY <1>1, <1>2, EndsServe DEF Firm, OnFile, Leaves, Files, Target
<1>. QED BY <1>1, <1>2, <1>3, EndsUnfinished, LeaveReaches DEF Undone

LEMMA FailsReach == ASSUME Ready, Firm(st), Fails(st) PROVE Reaches
<1>1. Become("run", Idle) /\ Idle.pc = "idle" /\ Idle.why = "" BY DEF Fails, Ended, Idle
<1>2. st' = st /\ disk' = Image(st) /\ status' = "failed" /\ OnFile(disk') BY FirmImage DEF Fails, persistBracket
<1>3. Serves(st', Idle, book', Owned) /\ Offers(st', Idle, book', Owned)
  BY <1>1, <1>2 DEF Serves, Offers, Waits, Sells, Early, Firm
<1>4. Leaves(Idle, book', Owned) /\ Target(st') BY <1>1, <1>2, <1>3 DEF Firm, OnFile, Leaves, Files, Target
<1>. QED BY <1>1, <1>2, <1>4, LeaveReaches DEF OnFile, Firm

LEMMA ProtectServes ==
  ASSUME NEW b, NEW w, NEW S, Carried(S, b, w), NEW c, Again(S, c)
  PROVE Serves(S, c, b, w) /\ Offers(S, c, b, w) BY DEF Again, Serves, Offers, Waits, Sells, Early, Exits

LEMMA ProtectedReaches == ASSUME Ready, NEW S, Firm(S), Protected(S) PROVE Reaches
<1>1. PICK D : D = Image(S) OBVIOUS
<1>2. PICK c : Leads("run", S, D, c) /\ Protects(S, c) BY ProtectedLeads DEF Firm
<1>3. st' = S /\ Advances(S, st') /\ (Ends(c) \/ Again(S, c)) BY <1>2 DEF Protects, Advances
<1>4. Serves(st', c, book', Owned) /\ Offers(st', c, book', Owned) /\ Undone(c)
  BY <1>3, ProtectServes, EndsServe, EndsUnfinished DEF Firm, Again, Undone
<1>. QED BY <1>1, <1>2, <1>3, <1>4, FirmImage, LeadsReach DEF Undone

LEMMA UnstoppingUnfinished ==
  ASSUME NEW S, NEW why, NEW lvl, NEW c, Unstopping(S, why, lvl, c) PROVE Undone(c) BY DEF Unstopping, Freeing, Undone
LEMMA ManagedUnfinished == ASSUME NEW S, NEW c, Managed(S, c) PROVE Undone(c)
  BY UnstoppingUnfinished, EndsUnfinished DEF Managed, TimeStopping

LEMMA ManageReaches ==
  ASSUME Ready, NEW S, Firm(S), Scalable(S), NEW D, OnFile(D), NEW last \in Int, Manage(S, D, last)
  PROVE Reaches
<1>1. PICK c : Leads("run", S, D, c) /\ Manages(S, c) BY ManageLeads, Sanity DEF Firm, Ready
<1>2. Serves(st', c, book', Owned) /\ Offers(st', c, book', Owned) /\ Advances(S, st')
  BY <1>1, ManagesServes, ReadyParts DEF Firm, Leads
<1>3. Undone(c) BY <1>1, ManagedUnfinished, EndsUnfinished DEF Manages
<1>. QED BY <1>1, <1>2, <1>3, LeadsReach DEF Undone

LEMMA TimeStopReaches ==
  ASSUME Ready, NEW S, Firm(S), NEW D, OnFile(D), NEW last \in Int, TimeStop(S, D, last) PROVE Reaches
<1>1. PICK c : Leads("run", S, D, c) /\ TimeStopping(S, c) BY TimeStopLeads, Sanity DEF Firm, Ready
<1>2. Serves(st', c, book', Owned) /\ Offers(st', c, book', Owned) /\ Advances(S, st')
  BY <1>1, TimeStoppingServes, ReadyParts DEF Firm, Leads
<1>3. Undone(c) BY <1>1, UnstoppingUnfinished, EndsUnfinished DEF TimeStopping
<1>. QED BY <1>1, <1>2, <1>3, LeadsReach DEF Undone

----
\* Orders that a bracket places or drops, and what follows them.

LEMMA Resters ==
  ASSUME NEW b \in Books, NEW w \in Int, Booked(b, w), NEW o \in Orders, OfSale(b, o), b[o].st # "cancelled"
  PROVE Rest(b, o) \in Int /\ 0 <= Rest(b, o) /\ (Single(b[o].kind) => w <= Rest(b, o))
<1>1. b[o].st \in {"live", "filled"}
  <2>1. b[o].st \in {"none", "live", "filled", "cancelled"} /\ b[o].kind # "none" BY DEF Books, OrderRec, OfSale
  <2>. QED BY <2>1 DEF Booked
<1>. QED BY <1>1, BookOf DEF Booked, Whole

LEMMA StopBacked ==
  ASSUME NEW b \in Books, NEW d \in Books, NEW w \in Int, NEW S \in Brackets, Backed(S, b, w), S.phase # "entering",
         NEW U, NEW n, NEW a \in Int, Adds(b, d, U, n, "stop", a), Named(S) \cap U = {},
         S.tp1Id # 0 => b[S.tp1Id].st = "cancelled" \/ a + Rest(b, S.tp1Id) >= w, NEW T, T.entryId = S.entryId,
         T.stopId = n, T.tp1Id = S.tp1Id, T.phase = S.phase, T.position = S.position, T.filled = S.filled
  PROVE Backed(T, d, w)
<1>1. Buying(d) \subseteq Buying(b) BY DEF Adds, Buying, NoOrder
<1>2. \A o \in Named(S) : o # 0 => d[o] = b[o] /\ Rest(d, o) = Rest(b, o) /\ Rest(b, o) \in Int
  BY IdsOf, BookOf DEF Adds, Rest
<1>3. d[n].kind = "stop" /\ Rest(d, n) = a BY DEF Adds, Rest
<1>4. S.tp1Id # 0 => d[S.tp1Id].st = "cancelled" \/ Rest(d, S.tp1Id) + Rest(d, n) >= w BY <1>2, <1>3, IdsOf
<1>. QED BY <1>1, <1>2, <1>3, <1>4, IdsOf DEF Backed, Carried

LEMMA SellBacked ==
  ASSUME NEW b \in Books, NEW d \in Books, NEW w \in Int, NEW S \in Brackets, Backed(S, b, w), S.phase # "entering",
         NEW U, NEW n, NEW a \in Int, Adds(b, d, U, n, "sell", a), Named(S) \cap U = {},
         S.phase = "exiting" => a >= w, S.stopId # 0 => b[S.stopId].st = "cancelled" \/ Rest(b, S.stopId) + a >= w,
         NEW T, T.entryId = S.entryId, T.stopId = S.stopId, T.tp1Id = n, T.phase = S.phase, T.position = S.position,
         T.filled = S.filled
  PROVE Backed(T, d, w)
<1>1. Buying(d) \subseteq Buying(b) BY DEF Adds, Buying, NoOrder
<1>2. \A o \in Named(S) : o # 0 => d[o] = b[o] /\ Rest(d, o) = Rest(b, o) /\ Rest(b, o) \in Int
  BY IdsOf, BookOf DEF Adds, Rest
<1>3. d[n].kind = "sell" /\ Rest(d, n) = a BY DEF Adds, Rest
<1>4. S.stopId # 0 => d[S.stopId].st = "cancelled" \/ Rest(d, n) + Rest(d, S.stopId) >= w BY <1>2, <1>3, IdsOf
<1>. QED BY <1>1, <1>2, <1>3, <1>4, IdsOf DEF Backed, Carried

\* A bracket that knows fewer orders, or a smaller position that is no less than what there is.
LEMMA LessBacked ==
  ASSUME NEW b, NEW w, NEW S, Backed(S, b, w), S.phase # "entering", NEW T, T.entryId = S.entryId,
         T.stopId \in {0, S.stopId}, T.tp1Id \in {0, S.tp1Id}, T.phase \in Holding => Carried(T, b, w),
         T.phase = S.phase \/ (T.phase = "exiting" /\ T.tp1Id = 0) \/ T.phase \notin {"entering", "exiting"}
  PROVE Backed(T, b, w) BY DEF Backed

LEMMA SaneBefore == ASSUME Sane PROVE Before
  BY DEF Sane, Before, Sober, Adjusted

LEMMA Standing ==
  ASSUME Ready, Thins(book, book'), job["run"].pc \notin Early
  PROVE  /\ Firm(st) /\ (job["run"].why # "first" => OnFile(disk))
         /\ Serves(st, job["run"], book', Owned) /\ Offers(st, job["run"], book', Owned)
         /\ Backed(disk, book', Owned) /\ Stored(disk, book', Owned)
<1>1. Sane /\ Offered BY DEF Ready, Sane
<1>2. book \in Books /\ book' \in Books /\ Owned \in Int /\ st \in Brackets /\ disk \in Brackets /\ Agreed /\ Awaited
  BY <1>1, Sanity
<1>3. Backed(st, book', Owned) /\ Backed(disk, book', Owned) BY <1>1, <1>2, ThinBacked DEF Offered
<1>4. job["run"].pc \in Waits => st.entryId # 0 BY <1>2 DEF Awaited, Waits
<1>5. Serves(st, job["run"], book', Owned) /\ Offers(st, job["run"], book', Owned)
  BY <1>1, <1>2, <1>4, ThinServes, ThinOffers DEF Offered
<1>6. Carried(st, book', Owned) /\ st.phase # "entering" BY <1>2, <1>5 DEF Serves, Agreed, Fit, FitAt
<1>7. Buying(book') \subseteq Buying(book) BY DEF Thins, Buying
<1>8. Stored(disk, book', Owned) BY <1>1, <1>7 DEF Offered, Stored, Carried
<1>9. job["run"].why # "first" => disk.phase # "entering" BY <1>1 DEF Offered, Files
<1>. QED BY <1>2, <1>3, <1>5, <1>6, <1>8, <1>9 DEF Firm, OnFile, Target

LEMMA Now ==
  ASSUME Ready
  PROVE  /\ Backed(st, book, Owned) /\ Serves(st, job["run"], book, Owned) /\ Offers(st, job["run"], book, Owned)
         /\ Fit(st, job["run"]) /\ Sound(st) /\ TypeOK /\ Whose /\ st \in Brackets /\ spec \in SpecRec
         /\ job["run"] \in Jobs /\ st.position \in Int /\ Tranche(st.position) \in Int
         /\ job["run"].amt \in Int /\ job["run"].last \in Int /\ job["run"].lvl \in Int
         /\ ~(spec.full /\ spec.scale) /\ Owned \in Int /\ book \in Books /\ book' \in Books
<1>1. Sane /\ Offered /\ Agreed /\ TypeOK BY Sanity DEF Ready, Sane
<1>. QED BY <1>1, Sanity, RunHere, StateTyped, Quantities DEF Offered, Agreed

LEMMA StopDoneReaches ==
  ASSUME Ready, Errand("run"), NEW S, Firm(S), Stoppable(S), NEW D,
         job["run"].why \notin {"first", "again"} => OnFile(D), StopDone("run", S, D)
  PROVE Reaches
<1>. DEFINE why == job["run"].why  last == job["run"].last
<1>1. last \in Int /\ why \in Why /\ Tranche(S.position) \in Int /\ why # "adjust"
  <2>1. S.position \in Int BY DEF Firm, Brackets
  <2>. QED BY <2>1, Now, RunHere, Quantities DEF Errand
<1>. HIDE DEF why, last
<1>2. \/ why \in {"first", "again"} /\ Protected(S)
      \/ why = "heal" /\ Manage(S, D, last)
      \/ why = "scale" /\ Tick(S, D) /\ Awaits("run", "sell", why, last, Tranche(S.position), last)
      \/ why = "ratchet" /\ TimeStop(S, D, last)
      \/ why = "force" /\ TickEnds(S) BY <1>1 DEF StopDone, why, last
<1>3. CASE why \in {"first", "again"} /\ Protected(S) BY <1>3, ProtectedReaches
<1>4. CASE why = "heal" /\ Manage(S, D, last) BY <1>1, <1>4, ManageReaches DEF Stoppable, why
<1>5. CASE why = "scale" /\ Tick(S, D) /\ Awaits("run", "sell", why, last, Tranche(S.position), last)
  <2>1. PICK c \in Jobs : /\ Become("run", c) /\ c.pc = "sell" /\ c.why = why /\ c.amt = Tranche(S.position)
    <3>1. "sell" \in Pc BY DEF Pc
    <3>. QED BY <1>1, <1>5, <3>1, AwaitsOf
  <2>2. st' = S /\ disk' = D /\ status' = status /\ OnFile(D) BY <1>5 DEF Tick, why
  <2>3. Serves(S, c, book', Owned) BY <1>5, <2>1 DEF Stoppable, Firm, Serves, Waits, Sells, Early, why
  <2>4. Offers(S, c, book', Owned) BY <1>5, <2>1 DEF Stoppable, Offers, Sells, Exits, why
  <2>5. Leaves(c, book', Owned) /\ Target(st') BY <2>1, <2>2, <2>3, <2>4 DEF Leaves, OnFile, Firm, Files, Target
  <2>. QED BY <2>1, <2>2, <2>5, LeaveReaches
<1>6. CASE why = "ratchet" /\ TimeStop(S, D, last) BY <1>1, <1>6, TimeStopReaches DEF why
<1>7. CASE why = "force" /\ TickEnds(S) BY <1>7, TickEndsReaches
<1>. QED BY <1>2, <1>3, <1>4, <1>5, <1>6, <1>7

LEMMA SellDoneReaches ==
  ASSUME Ready, NEW S, Firm(S), job["run"].why = "heal" => Scalable(S), SellDone(S) PROVE Reaches
<1>1. \/ Protected(S) \/ TickEnds(S)
      \/ job["run"].why = "heal" /\ Manage(S, Image(S), job["run"].last) BY DEF SellDone
<1>2. PICK D : D = Image(S) OBVIOUS
<1>3. PICK last \in Int : last = job["run"].last BY Now
<1>. QED BY <1>1, <1>2, <1>3, FirmImage, ProtectedReaches, TickEndsReaches, ManageReaches

LEMMA Placed ==
  ASSUME Ready, job["run"].pc \notin Early, NEW n, NEW kind \in {"stop", "sell"}, NEW a \in Int,
         Adds(book, book', Unused, n, kind, a), NEW T \in Brackets, T.entryId = st.entryId, T.phase = st.phase,
         T.position = st.position, T.filled = st.filled,
         \/ /\ kind = "stop" /\ T.stopId = n /\ T.tp1Id = st.tp1Id
            /\ st.tp1Id # 0 => book[st.tp1Id].st = "cancelled" \/ a + Rest(book, st.tp1Id) >= Owned
         \/ /\ kind = "sell" /\ T.tp1Id = n /\ T.stopId = st.stopId
            /\ st.phase = "exiting" => a >= Owned
            /\ st.stopId # 0 => book[st.stopId].st = "cancelled" \/ Rest(book, st.stopId) + a >= Owned
            /\ st.tp1Id = 0 \/ book[st.tp1Id].st # "live"
  PROVE Firm(T) /\ Rest(book', n) = a
<1>1. /\ Backed(st, book, Owned) /\ Serves(st, job["run"], book, Owned) /\ Fit(st, job["run"])
      /\ st \in Brackets /\ Owned \in Int /\ book \in Books /\ book' \in Books BY Now
<1>2. st.phase # "entering" /\ Carried(st, book, Owned) BY <1>1 DEF Fit, FitAt, Serves
<1>3. Named(st) \cap Unused = {} BY Unreferred
<1>4. Backed(T, book', Owned) BY <1>1, <1>2, <1>3, StopBacked, SellBacked
<1>5. Buying(book') \subseteq Buying(book) BY DEF Adds, Buying, NoOrder
<1>6. Carried(T, book', Owned) BY <1>2, <1>5 DEF Carried
<1>7. Target(T)
  <2>1. st.tp1Id \in Named(st) /\ (st.tp1Id # 0 => st.tp1Id \in Orders) BY <1>1, IdsOf
  <2>2. st.tp1Id # 0 => book'[st.tp1Id] = book[st.tp1Id] BY <2>1, <1>3 DEF Adds
  <2>. QED BY <2>2 DEF Target
<1>8. Rest(book', n) = a BY DEF Adds, Rest
<1>. QED BY <1>2, <1>4, <1>6, <1>7, <1>8 DEF Firm

LEMMA ThinReady == ASSUME Sane, job["run"].pc # "idle", UNCHANGED world, Thins(book, book') PROVE Ready
<1>1. Booked(book, Owned) /\ spec' = spec /\ coins' = coins BY DEF Sane, Offered, world
<1>. QED BY <1>1, Sanity, ThinBooked, ThinFrames DEF Ready

LEMMA AddReady ==
  ASSUME Sane, job["run"].pc \notin Early, UNCHANGED world, NEW n, NEW kind \in {"stop", "sell"}, NEW a \in Int,
         Adds(book, book', Unused, n, kind, a), a >= 1, Single(kind) => a >= Owned
  PROVE Ready
<1>1. Booked(book, Owned) /\ spec' = spec /\ coins' = coins /\ Buying(book) = {} /\ job["run"].pc # "idle"
  BY DEF Sane, Offered, world, Serves, Carried, Early
<1>2. kind \in {"buy", "stop", "sell"} /\ kind # "buy" OBVIOUS
<1>3. Booked(book', Owned) BY <1>1, <1>2, Sanity, AddBooked
<1>. QED BY <1>1, <1>3, AddFrames DEF Ready

LEMMA JobReaches ==
  ASSUME Ready, NEW c, Become("run", c), Undone(c), Backed(st', book', Owned), Backed(disk', book', Owned),
         Stored(disk', book', Owned), Files(disk', c), Serves(st', c, book', Owned), Offers(st', c, book', Owned),
         Target(st'), status' = status \/ status' = "skipped"
  PROVE Reaches
<1>1. Leaves(c, book', Owned) BY DEF Leaves
<1>. QED BY <1>1, LeaveReaches DEF Undone

\* The job of a bracket that keeps what it knows, with the file as it was.
LEMMA SameReaches ==
  ASSUME Ready, Thins(book, book'), job["run"].pc \notin Early, NEW c, Become("run", c), Undone(c),
         c.why = job["run"].why \/ job["run"].why # "first", st' = st, disk' = disk, status' = status,
         Serves(st, c, book', Owned), Offers(st, c, book', Owned)
  PROVE Reaches
<1>1. Offered BY DEF Ready, Sane
<1>2. Files(disk, c) BY <1>1 DEF Offered, Files
<1>. QED BY <1>2, Standing, JobReaches DEF Firm

LEMMA RunsHere ==
  ASSUME Sane, NEW p \in Procs, job[p].pc \notin {"idle", "sweep"}
  PROVE p = "run" /\ Errand("run") /\ job["run"].why \notin {"adjust", "kill"} BY SaneBefore, Runs

LEMMA CancelStopReaches == ASSUME Sane, NEW p \in Procs, CancelStop(p) PROVE Reaches
<1>. DEFINE j == job["run"]
<1>1. p = "run" /\ At("run", "unstop") /\ UNCHANGED world /\ j.why # "adjust" /\ j.pc = "unstop"
  BY RunsHere DEF CancelStop, At
<1>2. PICK ok \in BOOLEAN :
         LET S == ForgetStop(st, ok) IN
         /\ CancelOrder(j.id, ok)
         /\ \/ ok /\ Tick(S, disk) /\ Awaits("run", "freed", j.why, j.last, 0, j.lvl)
            \/ ~ok /\ j.why \in {"scale", "final", "time"} /\ TickEnds(S)
            \/ ~ok /\ j.why = "ratchet" /\ TimeStop(S, disk, j.last) BY <1>1 DEF CancelStop
<1>3. Thins(book, book') /\ Ready BY <1>1, <1>2, CancelThins, ThinReady
<1>4. Firm(st) /\ (j.why # "first" => OnFile(disk)) /\ Serves(st, j, book', Owned) /\ Offers(st, j, book', Owned)
      /\ Backed(disk, book', Owned) /\ Stored(disk, book', Owned) BY <1>1, <1>3, Standing DEF Early
<1>5. CASE ok /\ Tick([st EXCEPT !.stopId = 0], disk) /\ Awaits("run", "freed", j.why, j.last, 0, j.lvl)
  <2>. DEFINE c == [Idle EXCEPT !.pc = "freed", !.why = j.why, !.last = j.last, !.amt = 0, !.lvl = j.lvl]
              S == [st EXCEPT !.stopId = 0]
  <2>1. Become("run", c) /\ c.pc = "freed" /\ c.why = j.why /\ st' = S /\ disk' = disk /\ status' = status
    BY <1>5 DEF Awaits, Idle, Tick
  <2>2. /\ S.entryId = st.entryId /\ S.stopId = 0 /\ S.tp1Id = st.tp1Id /\ S.phase = st.phase
        /\ S.position = st.position /\ S.filled = st.filled BY <1>4 DEF Firm, Brackets
  <2>. HIDE DEF c, S
  <2>3. Carried(S, book', Owned) BY <1>4, <2>2 DEF Firm, Carried
  <2>4. Backed(S, book', Owned) BY <1>4, <2>2, <2>3, LessBacked DEF Firm
  <2>5. Serves(S, c, book', Owned) /\ Offers(S, c, book', Owned)
    BY <1>1, <1>4, <2>1, <2>2, <2>3 DEF Serves, Offers, Early, Waits, Sells
  <2>6. Files(disk, c) BY <1>1, <1>3, <2>1 DEF Files, Ready, Sane, Offered, Early
  <2>7. Target(S) BY <2>2 DEF Target
  <2>. QED BY <1>3, <1>4, <2>1, <2>4, <2>5, <2>6, <2>7, JobReaches DEF Undone
<1>6. CASE TickEnds(st) BY <1>3, <1>4, <1>6, TickEndsReaches
<1>7. CASE j.why = "ratchet" /\ TimeStop(st, disk, j.last)
  <2>1. PICK last \in Int : last = j.last BY <1>3, Now
  <2>. QED BY <1>3, <1>4, <1>7, <2>1, TimeStopReaches
<1>. QED BY <1>2, <1>5, <1>6, <1>7 DEF ForgetStop

LEMMA StopFreedReaches == ASSUME Sane, NEW p \in Procs, StopFreed(p) PROVE Reaches
<1>. DEFINE j == job["run"]
<1>1. p = "run" /\ At("run", "freed") /\ UNCHANGED world /\ j.why # "adjust" /\ j.pc = "freed"
  BY RunsHere DEF StopFreed, At
<1>2. Freed("run", st, disk, j.why, j.last, j.lvl) /\ book' = book BY <1>1 DEF StopFreed
<1>3. Thins(book, book') /\ Ready BY <1>1, <1>2, SameThins, ThinReady
<1>4. Firm(st) /\ (j.why # "first" => OnFile(disk)) /\ Serves(st, j, book', Owned) /\ Offers(st, j, book', Owned)
  BY <1>1, <1>3, Standing DEF Early
<1>5. /\ st \in Brackets /\ j.last \in Int /\ j.lvl \in Int /\ j.why \in Why /\ spec \in SpecRec
      /\ "run" \in Procs /\ Fit(st, j) /\ ~(spec.full /\ spec.scale) /\ Owned \in Int BY <1>3, Now, RunHere DEF Procs
<1>6. PICK c : Leads("run", st, disk, c) /\ Freeing(st, j.why, j.lvl, c) BY <1>2, <1>5, FreedLeads
<1>7. st.stopId = 0 /\ (j.why \in {"scale", "final", "time"} => st.tp1Id = 0) /\ (j.why = "scale" => Scales(st))
  BY <1>1, <1>4, <1>5 DEF Fit, FitAt, Serves, Offers, Scales
<1>8. j.why \in {"scale", "final", "time", "ratchet"} BY <1>1, <1>6 DEF Freeing
<1>9. Serves(st', c, book', Owned) /\ Offers(st', c, book', Owned) /\ Advances(st, st')
  BY <1>4, <1>5, <1>6, <1>7, <1>8, FreeingServes DEF Firm, Leads
<1>10. Undone(c) BY <1>6 DEF Freeing, Undone
<1>. QED BY <1>3, <1>4, <1>6, <1>8, <1>9, <1>10, LeadsReach DEF Undone

LEMMA NoStops == ASSUME Ready, st.stopId = 0 PROVE Stops = {}
<1>1. Stops \subseteq {st.stopId} /\ 0 \notin Orders BY ReadyParts, Sanity DEF Ready, Agreed, Orders
<1>. QED BY <1>1 DEF Stops, LiveOf

LEMMA FindStopReaches == ASSUME Sane, NEW p \in Procs, FindStop(p) PROVE Reaches
<1>. DEFINE j == job["run"]
<1>1. p = "run" /\ At("run", "findStop") /\ UNCHANGED world /\ j.pc = "findStop" /\ Errand("run")
  BY RunsHere DEF FindStop, At
<1>2. book' = book BY ReadHere DEF FindStop
<1>3. Thins(book, book') /\ Ready BY <1>1, <1>2, SameThins, ThinReady
<1>4. /\ Firm(st) /\ (j.why # "first" => OnFile(disk)) /\ Serves(st, j, book', Owned) /\ Offers(st, j, book', Owned)
      /\ Fit(st, j) /\ ~(spec.full /\ spec.scale) /\ j.amt \in Int /\ Tranche(st.position) \in Int
  BY <1>1, <1>3, Standing, Now DEF Early
<1>5. st.stopId = 0 /\ Stops = {} BY <1>1, <1>3, <1>4, NoStops DEF Fit, FitAt
<1>6. \/ j.amt = 0 /\ StopDone("run", st, disk)
      \/ j.amt > 0 /\ Tick(st, disk) /\ Awaits("run", "placeStop", j.why, j.last, j.amt, j.lvl)
  BY <1>1, <1>5 DEF FindStop, Stops, Nearest
<1>7. CASE j.amt = 0 /\ StopDone("run", st, disk)
  <2>1. Stoppable(st) BY <1>1, <1>4, <1>5 DEF Stoppable, Scalable, Serves, Offers, Fit, FitAt
  <2>. QED BY <1>1, <1>3, <1>4, <1>7, <2>1, StopDoneReaches
<1>8. CASE j.amt > 0 /\ Tick(st, disk) /\ Awaits("run", "placeStop", j.why, j.last, j.amt, j.lvl)
  <2>. DEFINE c == [Idle EXCEPT !.pc = "placeStop", !.why = j.why, !.last = j.last, !.amt = j.amt, !.lvl = j.lvl]
  <2>1. Become("run", c) /\ c.pc = "placeStop" /\ c.why = j.why /\ c.amt = j.amt
        /\ st' = st /\ disk' = disk /\ status' = status BY <1>8 DEF Awaits, Idle, Tick
  <2>. HIDE DEF c
  <2>2. Serves(st, c, book', Owned) /\ Offers(st, c, book', Owned)
    BY <1>1, <1>4, <1>5, <1>8, <2>1 DEF Serves, Offers, Early, Waits, Sells
  <2>. QED BY <1>1, <1>3, <2>1, <2>2, SameReaches DEF Undone, Early
<1>. QED BY <1>6, <1>7, <1>8

LEMMA PlaceNewStopReaches == ASSUME Sane, NEW p \in Procs, PlaceNewStop(p) PROVE Reaches
<1>. DEFINE j == job["run"]
<1>1. p = "run" /\ At("run", "placeStop") /\ UNCHANGED world /\ j.pc = "placeStop" /\ Errand("run")
  BY RunsHere DEF PlaceNewStop, At
<1>2. PICK id \in Ids : LET S == IF id = 0 THEN st ELSE Adopts(st, id, j.lvl) IN
                        PlaceOrder("stop", j.amt, j.lvl, id) /\ StopDone("run", S, Image(S)) BY <1>1 DEF PlaceNewStop
<1>3. /\ Backed(st, book, Owned) /\ Serves(st, j, book, Owned) /\ Offers(st, j, book, Owned) /\ Booked(book, Owned)
      /\ Fit(st, j) /\ ~(spec.full /\ spec.scale) /\ Owned \in Int /\ book \in Books /\ st \in Brackets
      /\ TypeOK /\ j.amt \in Int /\ j.lvl \in Int /\ Tranche(st.position) \in Int /\ spec \in SpecRec
  BY Sanity, RunHere, StateTyped, Quantities DEF Sane, Offered, Agreed
<1>4. \/ /\ id \in Orders /\ id # 0 /\ Adds(book, book', Unused, id, "stop", j.amt)
      \/ id = 0 /\ book' = book BY <1>2, PlaceAdds
<1>5. /\ st.stopId = 0 /\ j.amt >= 1 /\ j.pc \notin Early /\ (j.why = "scale" => ~spec.full)
      /\ j.amt + (IF j.why = "scale" THEN Tranche(st.position) ELSE 0) >= Owned
  BY <1>1, <1>3 DEF Serves, Offers, Fit, FitAt, Early
<1>6. Single("stop") => j.amt >= Owned BY <1>3, <1>5 DEF Single, Offers
<1>7. CASE id = 0 /\ book' = book
  <2>1. Thins(book, book') /\ Ready BY <1>1, <1>7, SameThins, ThinReady
  <2>2. Firm(st) /\ OnFile(Image(st)) BY <1>5, <2>1, Standing, FirmImage
  <2>3. Stoppable(st) BY <1>1, <1>3, <1>5 DEF Stoppable, Scalable, Serves, Offers
  <2>4. PICK D : D = Image(st) OBVIOUS
  <2>. QED BY <1>1, <1>2, <1>7, <2>1, <2>2, <2>3, <2>4, StopDoneReaches
<1>8. CASE id \in Orders /\ id # 0 /\ Adds(book, book', Unused, id, "stop", j.amt)
  <2>. DEFINE S == Adopts(st, id, j.lvl)
  <2>1. Ready BY <1>1, <1>3, <1>5, <1>6, <1>8, AddReady
  <2>2. /\ S \in Brackets /\ S.entryId = st.entryId /\ S.phase = st.phase /\ S.position = st.position
        /\ S.filled = st.filled /\ S.stopId = id /\ S.tp1Id = st.tp1Id BY <1>3, StopTyped DEF Adopts, Brackets
  <2>. HIDE DEF S
  <2>3. st.tp1Id # 0 => book[st.tp1Id].st = "cancelled" \/ j.amt + Rest(book, st.tp1Id) >= Owned
    <3>1. SUFFICES ASSUME st.tp1Id # 0, book[st.tp1Id].st # "cancelled"
                   PROVE  j.amt + Rest(book, st.tp1Id) >= Owned OBVIOUS
    <3>2. st.tp1Id \in Orders /\ OfSale(book, st.tp1Id) BY <1>3, <3>1, IdsOf DEF Backed, OfSale
    <3>3. Rest(book, st.tp1Id) \in Int /\ 0 <= Rest(book, st.tp1Id) BY <1>3, <3>1, <3>2, Resters
    <3>4. j.why # "scale" BY <1>1, <1>3, <3>1 DEF Serves
    <3>. QED BY <1>3, <1>5, <3>3, <3>4
  <2>4. Firm(S) /\ Rest(book', id) = j.amt BY <1>3, <1>5, <1>8, <2>1, <2>2, <2>3, Placed
  <2>5. OnFile(Image(S)) BY <2>4, FirmImage
  <2>6. Stoppable(S) BY <1>1, <1>3, <1>5, <2>2, <2>4 DEF Stoppable, Scalable, Serves, Offers
  <2>7. StopDone("run", S, Image(S)) BY <1>2, <1>8 DEF S
  <2>8. PICK D : D = Image(S) OBVIOUS
  <2>. QED BY <1>1, <2>1, <2>4, <2>5, <2>6, <2>7, <2>8, StopDoneReaches
<1>. QED BY <1>4, <1>7, <1>8

LEMMA FindTpReaches == ASSUME Sane, FindTp PROVE Reaches
<1>. DEFINE j == job["run"]
            adopted(o) == [st EXCEPT !.tp1Id = o]
<1>1. At("run", "findTp") /\ UNCHANGED world /\ j.pc = "findTp" /\ book' = book BY ReadHere DEF FindTp, At
<1>2. Thins(book, book') /\ Ready BY <1>1, SameThins, ThinReady
<1>3. Firm(st) /\ Serves(st, j, book', Owned) /\ Offers(st, j, book', Owned) BY <1>1, <1>2, Standing DEF Early
<1>4. /\ Fit(st, j) /\ ~(spec.full /\ spec.scale) /\ Owned \in Int /\ book \in Books /\ st \in Brackets
      /\ Booked(book, Owned) /\ j.last \in Int /\ Backed(st, book, Owned) /\ TypeOK BY <1>1, <1>2, Now DEF Ready
<1>5. /\ st.tp1Id = 0 /\ j.why \in {"heal", "first", "again"} /\ (spec.full => st.stopId = 0)
      /\ ~spec.full => st.phase # "exiting" /\ ~spec.stop
  BY <1>1, <1>3, <1>4 DEF Serves, Offers, Fit, FitAt, Sells, Exits
<1>6. ASSUME NEW o \in LiveOf("sell") PROVE Firm(adopted(o)) /\ Scalable(adopted(o))
  <2>. DEFINE S == adopted(o)
  <2>1. o \in Orders /\ o # 0 /\ o \in Ids /\ book[o].kind = "sell" /\ book[o].st = "live" /\ OfSale(book, o)
    BY Rec DEF LiveOf, Live, OfSale
  <2>2. /\ S \in Brackets /\ S.entryId = st.entryId /\ S.stopId = st.stopId /\ S.tp1Id = o /\ S.phase = st.phase
        /\ S.position = st.position /\ S.filled = st.filled BY <1>4, <2>1, ExitTyped DEF Brackets
  <2>. HIDE DEF S
  <2>3. Rest(book, o) \in Int /\ 0 <= Rest(book, o) /\ (spec.full => Owned <= Rest(book, o))
    BY <1>4, <2>1, Resters DEF Single
  <2>4. st.stopId # 0 /\ book[st.stopId].st # "cancelled" => Rest(book, o) + Rest(book, st.stopId) >= Owned
    <3>1. SUFFICES ASSUME st.stopId # 0, book[st.stopId].st # "cancelled"
                   PROVE  Rest(book, o) + Rest(book, st.stopId) >= Owned OBVIOUS
    <3>2. st.stopId \in Orders /\ OfSale(book, st.stopId) /\ Single(book[st.stopId].kind)
      BY <1>4, <1>5, <3>1, IdsOf DEF Backed, OfSale, Single
    <3>3. Rest(book, st.stopId) \in Int /\ Owned <= Rest(book, st.stopId) BY <1>4, <3>1, <3>2, Resters
    <3>. QED BY <1>4, <2>3, <3>3
  <2>5. Backed(S, book', Owned) BY <1>1, <1>3, <1>5, <2>1, <2>2, <2>3, <2>4 DEF Firm, Backed, Carried
  <2>6. Firm(S) BY <1>3, <1>5, <2>2, <2>5 DEF Firm, Carried, Target
  <2>7. Scalable(S) BY <1>4, <2>1, <2>2 DEF Scalable
  <2>. QED BY <2>6, <2>7 DEF S
<1>7. CASE Tick(st, disk) /\ Awaits("run", "sell", j.why, j.last, j.amt, j.lvl)
  <2>. DEFINE c == [Idle EXCEPT !.pc = "sell", !.why = j.why, !.last = j.last, !.amt = j.amt, !.lvl = j.lvl]
  <2>1. Become("run", c) /\ c.pc = "sell" /\ c.why = j.why /\ c.amt = j.amt
        /\ st' = st /\ disk' = disk /\ status' = status BY <1>7 DEF Awaits, Idle, Tick
  <2>. HIDE DEF c
  <2>2. Serves(st, c, book', Owned) /\ Offers(st, c, book', Owned)
    BY <1>1, <1>3, <1>5, <2>1 DEF Serves, Offers, Early, Waits, Sells
  <2>. QED BY <1>1, <1>2, <2>1, <2>2, SameReaches DEF Undone, Early
<1>8. ASSUME NEW o \in LiveOf("sell"), Manage(adopted(o), Image(adopted(o)), j.last) \/ Protected(adopted(o))
      PROVE  Reaches
  <2>1. PICK S : S = adopted(o) OBVIOUS
  <2>2. PICK D : D = Image(S) OBVIOUS
  <2>. HIDE DEF adopted
  <2>3. Manage(S, D, j.last) \/ Protected(S) BY <1>8, <2>1, <2>2
  <2>. QED BY <1>2, <1>4, <1>6, <2>1, <2>2, <2>3, FirmImage, ManageReaches, ProtectedReaches
<1>. QED BY <1>7, <1>8 DEF FindTp, LiveOf

LEMMA PlaceSellReaches == ASSUME Sane, PlaceSell PROVE Reaches
<1>. DEFINE j == job["run"]
<1>1. At("run", "sell") /\ UNCHANGED world /\ j.pc = "sell" /\ j.pc \notin Early BY DEF PlaceSell, At, Early
<1>2. /\ Backed(st, book, Owned) /\ Serves(st, j, book, Owned) /\ Offers(st, j, book, Owned) /\ Booked(book, Owned)
      /\ Fit(st, j) /\ ~(spec.full /\ spec.scale) /\ Owned \in Int /\ book \in Books /\ st \in Brackets
      /\ TypeOK /\ j.amt \in Int /\ j.last \in Int BY Sanity, RunHere DEF Sane, Offered, Agreed
<1>3. /\ st.tp1Id = 0 /\ (spec.full => st.stopId = 0) /\ (spec.full \/ j.why \in Exits => j.amt >= Owned)
      /\ st.phase = "exiting" => j.amt >= Owned
      /\ j.why \in {"heal", "first", "again"} => spec.full \/ ~spec.stop
      /\ j.why = "heal" /\ ~spec.full => j.amt = Tranche(st.position)
  BY <1>1, <1>2 DEF Serves, Offers, Fit, FitAt, Sells
<1>4. CASE j.amt = 0 /\ SellDone([st EXCEPT !.tp1Id = 0]) /\ UNCHANGED <<book, upsets>>
  <2>1. Thins(book, book') /\ Ready BY <1>1, <1>4, SameThins, ThinReady
  <2>2. Firm(st) BY <1>1, <2>1, Standing
  <2>3. [st EXCEPT !.tp1Id = 0] = st BY <1>2, <1>3 DEF Brackets
  <2>4. j.why = "heal" => Scalable(st) BY <1>2, <1>3, <1>4 DEF Scalable
  <2>. QED BY <1>4, <2>1, <2>2, <2>3, <2>4, SellDoneReaches
<1>5. ASSUME NEW id \in Orders, j.amt > 0, PlaceOrder("sell", j.amt, j.lvl, id), SellDone([st EXCEPT !.tp1Id = id])
      PROVE  Reaches
  <2>. DEFINE S == [st EXCEPT !.tp1Id = id]
  <2>1. id # 0 /\ Adds(book, book', Unused, id, "sell", j.amt) BY <1>5, PlaceAdds DEF Orders
  <2>2. Ready BY <1>1, <1>2, <1>3, <1>5, <2>1, AddReady DEF Single
  <2>3. /\ S \in Brackets /\ S.entryId = st.entryId /\ S.phase = st.phase /\ S.position = st.position
        /\ S.filled = st.filled /\ S.stopId = st.stopId /\ S.tp1Id = id BY <1>2, ExitTyped, Rec DEF Brackets
  <2>. HIDE DEF S
  <2>4. st.stopId # 0 => book[st.stopId].st = "cancelled" \/ Rest(book, st.stopId) + j.amt >= Owned
    <3>1. SUFFICES ASSUME st.stopId # 0, book[st.stopId].st # "cancelled"
                   PROVE  Rest(book, st.stopId) + j.amt >= Owned OBVIOUS
    <3>2. st.stopId \in Orders /\ OfSale(book, st.stopId) /\ book[st.stopId].kind = "stop"
      BY <1>2, <3>1, IdsOf DEF Backed, OfSale
    <3>3. Rest(book, st.stopId) \in Int /\ 0 <= Rest(book, st.stopId) /\ (Single("stop") => Owned <= Rest(book, st.stopId))
      BY <1>2, <3>1, <3>2, Resters
    <3>4. j.why \in {"first", "again", "heal", "scale", "final", "time", "force"} BY <1>5 DEF SellDone
    <3>5. CASE j.why = "scale" BY <1>1, <1>2, <3>1, <3>5 DEF Offers
    <3>6. CASE j.why \in Exits BY <1>2, <1>3, <3>3, <3>6
    <3>7. CASE j.why \in {"heal", "first", "again"} BY <1>2, <1>3, <1>5, <3>1, <3>3, <3>7 DEF Single
    <3>. QED BY <3>4, <3>5, <3>6, <3>7 DEF Exits
  <2>5. Firm(S) BY <1>1, <1>2, <1>3, <2>1, <2>2, <2>3, <2>4, Placed
  <2>6. Scalable(S) BY <1>2, <2>1, <2>3 DEF Scalable
  <2>7. SellDone(S) BY <1>5 DEF S
  <2>. QED BY <2>2, <2>5, <2>6, <2>7, SellDoneReaches
<1>6. CASE PlaceOrder("sell", j.amt, j.lvl, 0) /\ SellThrows
  <2>1. book' = book
    <3>1. PICK z : z = 0 /\ z \notin Orders BY DEF Orders
    <3>2. PlaceOrder("sell", j.amt, j.lvl, z) BY <1>6, <3>1
    <3>. QED BY <3>1, <3>2, PlaceAdds
  <2>2. Thins(book, book') /\ Ready BY <1>1, <2>1, SameThins, ThinReady
  <2>3. /\ Firm(st) /\ (j.why # "first" => OnFile(disk))
        /\ Serves(st, j, book', Owned) /\ Offers(st, j, book', Owned) BY <1>1, <2>2, Standing
  <2>4. CASE Fails(st) BY <2>2, <2>3, <2>4, FailsReach
  <2>5. CASE j.why # "first" /\ TickThrows(st) BY <2>2, <2>3, <2>5, ThrowsReach
  <2>6. CASE j.why = "force" /\ Tick(st, disk) /\ Awaits("run", "readHeld", "", j.last, 0, 0)
    <3>. DEFINE c == [Idle EXCEPT !.pc = "readHeld", !.why = "", !.last = j.last, !.amt = 0, !.lvl = 0]
    <3>1. Become("run", c) /\ c.pc = "readHeld" /\ c.why = "" /\ st' = st /\ disk' = disk /\ status' = status
      BY <2>6 DEF Awaits, Idle, Tick
    <3>. HIDE DEF c
    <3>2. Serves(st, c, book', Owned) /\ Offers(st, c, book', Owned)
      BY <1>1, <2>3, <3>1 DEF Serves, Offers, Early, Waits, Sells
    <3>. QED BY <1>1, <2>2, <2>6, <3>1, <3>2, SameReaches DEF Undone
  <2>. QED BY <1>6, <2>4, <2>5, <2>6 DEF SellThrows
<1>. QED BY <1>4, <1>5, <1>6 DEF PlaceSell

LEMMA placeProtectionReaches == ASSUME Sane, placeProtection PROVE Reaches
<1>. DEFINE j == job["run"]
            n == Lower(st.filled, coins)
            S == [st EXCEPT !.position = n]
            T == [S EXCEPT !.stopPrice = IF spec.stop THEN StopLevel ELSE 0]
<1>1. At("run", "protect") /\ UNCHANGED world /\ j.pc = "protect" /\ j.pc \notin Early /\ book' = book
  BY ReadHere DEF placeProtection, At, Early
<1>2. Thins(book, book') /\ Ready BY <1>1, SameThins, ThinReady
<1>3. /\ Firm(st) /\ Serves(st, j, book', Owned) /\ Offers(st, j, book', Owned)
      /\ Backed(disk, book', Owned) /\ Stored(disk, book', Owned) BY <1>1, <1>2, Standing
<1>4. /\ Fit(st, j) /\ Owned \in Int /\ st \in Brackets /\ TypeOK /\ Offered /\ coins \in Int
      /\ Wallet \in Nat /\ Owned = coins - Wallet /\ st.filled \in Int
  BY <1>1, <1>2, Now, Sanity, StateTyped, ConstantsAssumption DEF Ready, Sane, Owned
<1>5. /\ st.tp1Id = 0 /\ st.stopId = 0 /\ j.why \in {"first", "again"} /\ (~spec.full => st.phase # "exiting")
  BY <1>1, <1>3, <1>4 DEF Serves, Offers, Fit, FitAt, Exits
<1>6. n \in Int /\ Owned <= n BY <1>3, <1>4 DEF Firm, Carried, Lower
<1>. HIDE DEF n
<1>7. /\ S \in Brackets /\ S.entryId = st.entryId /\ S.stopId = st.stopId /\ S.tp1Id = st.tp1Id
      /\ S.phase = st.phase /\ S.position = n /\ S.filled = st.filled BY <1>4, <1>6 DEF Brackets
<1>8. /\ T.entryId = st.entryId /\ T.stopId = st.stopId /\ T.tp1Id = st.tp1Id
      /\ T.phase = st.phase /\ T.position = n /\ T.filled = st.filled BY <1>4, <1>6 DEF Brackets
<1>. HIDE DEF S, T
<1>9. Firm(S)
  <2>1. Carried(S, book', Owned) BY <1>3, <1>6, <1>7 DEF Firm, Carried
  <2>2. Backed(S, book', Owned) BY <1>3, <1>7, <2>1, LessBacked DEF Firm
  <2>. QED BY <1>3, <1>7, <2>1, <2>2 DEF Firm, Target
<1>10. Backed(T, book', Owned) /\ Carried(T, book', Owned) /\ Target(T)
  <2>1. Carried(T, book', Owned) BY <1>3, <1>6, <1>8 DEF Firm, Carried
  <2>. QED BY <1>3, <1>8, <2>1, LessBacked DEF Firm, Target
<1>11. ASSUME NEW c, c.why = j.why PROVE Files(disk, c) BY <1>1, <1>4, <1>11 DEF Offered, Files
<1>12. CASE spec.full /\ st' = T /\ Awaits("run", "sell", j.why, 0, S.position, Tp1Level) /\ UNCHANGED <<disk, status>>
  <2>. DEFINE c == [Idle EXCEPT !.pc = "sell", !.why = j.why, !.last = 0, !.amt = S.position, !.lvl = Tp1Level]
  <2>1. Become("run", c) /\ c.pc = "sell" /\ c.why = j.why /\ c.amt = n BY <1>7, <1>12 DEF Awaits, Idle
  <2>. HIDE DEF c
  <2>2. Serves(T, c, book', Owned) /\ Offers(T, c, book', Owned)
    BY <1>5, <1>6, <1>8, <1>10, <1>12, <2>1 DEF Serves, Offers, Early, Waits, Sells
  <2>. QED BY <1>2, <1>3, <1>10, <1>11, <1>12, <2>1, <2>2, JobReaches DEF Undone
<1>13. CASE /\ ~spec.full /\ ~spec.stop /\ spec.scale /\ st' = S /\ UNCHANGED <<disk, status>>
            /\ Awaits("run", "findTp", j.why, 0, Tranche(S.position), Tp1Level)
  <2>. DEFINE c == [Idle EXCEPT !.pc = "findTp", !.why = j.why, !.last = 0, !.amt = Tranche(S.position), !.lvl = Tp1Level]
  <2>1. Become("run", c) /\ c.pc = "findTp" /\ c.why = j.why BY <1>13 DEF Awaits, Idle
  <2>. HIDE DEF c
  <2>2. Serves(S, c, book', Owned) /\ Offers(S, c, book', Owned)
    BY <1>5, <1>7, <1>9, <1>13, <2>1 DEF Serves, Offers, Early, Waits, Sells, Exits, Firm
  <2>. QED BY <1>2, <1>3, <1>9, <1>11, <1>13, <2>1, <2>2, JobReaches DEF Undone, Firm
<1>14. CASE Protected(S) BY <1>2, <1>9, <1>14, ProtectedReaches
<1>15. CASE /\ ~spec.full /\ spec.stop /\ st' = S /\ UNCHANGED <<disk, status>>
            /\ PlaceStop("run", j.why, 0, S.position, StopLevel)
  <2>. DEFINE c == [Idle EXCEPT !.pc = "findStop", !.why = j.why, !.last = 0, !.amt = S.position, !.lvl = StopLevel]
  <2>1. Become("run", c) /\ c.pc = "findStop" /\ c.why = j.why /\ c.amt = n BY <1>7, <1>15 DEF Awaits, PlaceStop, Idle
  <2>. HIDE DEF c
  <2>2. Serves(S, c, book', Owned) /\ Offers(S, c, book', Owned)
    BY <1>4, <1>5, <1>6, <1>7, <1>9, <1>15, <2>1 DEF Serves, Offers, Early, Waits, Sells, Exits, Firm
  <2>. QED BY <1>2, <1>3, <1>9, <1>11, <1>15, <2>1, <2>2, JobReaches DEF Undone, Firm
<1>16. ~Read(FALSE)
  <2>1. PICK no \in BOOLEAN : no = FALSE OBVIOUS
  <2>. QED BY <2>1, ReadHere
<1>. QED BY <1>12, <1>13, <1>14, <1>15, <1>16 DEF placeProtection, S, T, n

LEMMA Answers == ASSUME Sane PROVE ~Read(FALSE)
<1>1. PICK no \in BOOLEAN : no = FALSE OBVIOUS
<1>. QED BY <1>1, ReadHere

LEMMA ReadsNext ==
  ASSUME NEW S, Firm(S), NEW c, Reading(S, c)
  PROVE Serves(S, c, book', Owned) /\ Offers(S, c, book', Owned) /\ Undone(c)
  BY DEF Serves, Offers, Early, Waits, Sells, Undone, Firm, Reading

LEMMA ReadsTp1Job == ASSUME NEW S, NEW last, ReadsTp1(S, last) PROVE \E c : Become("run", c) /\ Reading(S, c)
<1>. DEFINE c == [Idle EXCEPT !.pc = "readTp1", !.last = last, !.id = S.tp1Id]
            d == [Idle EXCEPT !.pc = "readHeld", !.why = "", !.last = last, !.amt = 0, !.lvl = 0]
<1>1. c.pc = "readTp1" /\ c.why = "" /\ d.pc = "readHeld" /\ d.why = "" BY DEF Idle
<1>2. Become("run", c) \/ Become("run", d) BY DEF ReadsTp1, Awaits
<1>. HIDE DEF c, d
<1>. QED BY <1>1, <1>2 DEF Reading

\* A step within a tick, of a bracket in state S whose file is as it was.
LEMMA TickReaches ==
  ASSUME Ready, Thins(book, book'), job["run"].pc \notin Early, NEW S, Firm(S), st' = S, disk' = disk,
         status' = status, NEW c, c.why = job["run"].why \/ job["run"].why # "first", Become("run", c), Undone(c),
         Serves(S, c, book', Owned), Offers(S, c, book', Owned)
  PROVE Reaches
<1>1. Offered BY DEF Ready, Sane
<1>2. Files(disk, c) BY <1>1 DEF Offered, Files
<1>. QED BY <1>2, Standing, JobReaches DEF Firm

LEMMA TickStartsReaches == ASSUME Sane, NEW last, TickStarts(last) PROVE Reaches
<1>. DEFINE j == job["run"]
            d == [Idle EXCEPT !.pc = "readStop", !.last = last, !.id = st.stopId]
<1>1. At("run", "asleep") /\ UNCHANGED world /\ j.pc = "asleep" /\ j.pc \notin Early /\ book' = book
      /\ UNCHANGED <<st, disk, status>> BY DEF TickStarts, At, Early
<1>2. Thins(book, book') /\ Ready BY <1>1, SameThins, ThinReady
<1>3. Firm(st) /\ Carried(st, book', Owned) /\ Serves(st, j, book', Owned) /\ j.why = ""
  BY <1>1, <1>2, Standing DEF Serves, Firm
<1>4. d.pc = "readStop" /\ d.why = "" BY DEF Idle
<1>. HIDE DEF d
<1>5. \/ st.stopId # 0 /\ Become("run", d)
      \/ ReadsTp1(st, last) BY DEF TickStarts, d
<1>6. PICK c : Become("run", c) /\ Reading(st, c) BY <1>4, <1>5, ReadsTp1Job DEF Reading
<1>7. Serves(st, c, book', Owned) /\ Offers(st, c, book', Owned) /\ Undone(c) BY <1>3, <1>6, ReadsNext
<1>. QED BY <1>1, <1>2, <1>3, <1>6, <1>7, TickReaches

\* finalizeBracket() cancels what the bracket knows; a full exit has nothing left.
LEMMA finalizeReaches ==
  ASSUME Ready, Thins(book, book'), job["run"].pc \notin Early, job["run"].why # "first", NEW S, Firm(S),
         finalizeBracket(S), S.tp1Id # 0 => book'[S.tp1Id].st = "cancelled" \/ Rest(book', S.tp1Id) >= Owned,
         spec.full => Owned <= 0
  PROVE Reaches
<1>. DEFINE T == [S EXCEPT !.phase = "exiting"]
            c == [Idle EXCEPT !.pc = "sweep", !.why = "close", !.ids = Named(S) \ {0}]
<1>1. st' = T /\ disk' = disk /\ status' = status /\ Become("run", c) BY DEF finalizeBracket
<1>2. c.pc = "sweep" /\ c.why = "close" /\ c.ids = Named(S) \ {0} BY DEF Idle
<1>3. /\ T \in Brackets /\ T.entryId = S.entryId /\ T.stopId = S.stopId /\ T.tp1Id = S.tp1Id
      /\ T.phase = "exiting" /\ T.position = S.position /\ T.filled = S.filled BY DEF Firm, Brackets, Phase
<1>. HIDE DEF T, c
<1>4. Carried(T, book', Owned) BY <1>3 DEF Firm, Carried
<1>5. Backed(T, book', Owned) BY <1>3, <1>4 DEF Firm, Backed, Carried
<1>6. Firm(T) BY <1>3, <1>4, <1>5 DEF Firm, Target
<1>7. Serves(T, c, book', Owned) /\ Offers(T, c, book', Owned) /\ Undone(c)
  BY <1>2, <1>3, <1>4 DEF Serves, Offers, Early, Waits, Sells, Named, Undone
<1>. QED BY <1>1, <1>6, <1>7, TickReaches

LEMMA Forgotten ==
  ASSUME Ready, Firm(st)
  PROVE  /\ Firm([st EXCEPT !.stopId = 0]) /\ [st EXCEPT !.stopId = 0].tp1Id = st.tp1Id
         /\ [st EXCEPT !.stopId = 0].phase = st.phase
<1>. DEFINE S == [st EXCEPT !.stopId = 0]
<1>1. S \in Brackets BY Now, ExitTyped, Rec
<1>2. /\ S.entryId = st.entryId /\ S.stopId = 0 /\ S.tp1Id = st.tp1Id /\ S.phase = st.phase
      /\ S.position = st.position /\ S.filled = st.filled BY DEF Firm, Brackets
<1>. HIDE DEF S
<1>3. Carried(S, book', Owned) BY <1>2 DEF Firm, Carried
<1>4. Backed(S, book', Owned) BY <1>2, <1>3, LessBacked DEF Firm
<1>5. Firm(S) BY <1>1, <1>2, <1>3, <1>4 DEF Firm, Target
<1>. QED BY <1>2, <1>5 DEF S

LEMMA ReadStopReaches == ASSUME Sane, ReadStop PROVE Reaches
<1>. DEFINE j == job["run"]
            S == [st EXCEPT !.stopId = 0]
<1>1. At("run", "readStop") /\ UNCHANGED world /\ j.pc = "readStop" /\ j.pc \notin Early /\ book' = book
  BY ReadHere DEF ReadStop, At, Early
<1>2. Thins(book, book') /\ Ready BY <1>1, SameThins, ThinReady
<1>3. Firm(st) /\ Serves(st, j, book', Owned) /\ j.why = "" /\ st.stopId # 0 BY <1>1, <1>2, Standing DEF Serves
<1>4. Firm(S) /\ S.tp1Id = st.tp1Id /\ S.phase = st.phase BY <1>2, <1>3, Forgotten
<1>5. /\ Fit(st, j) /\ Owned \in Int /\ book \in Books /\ st \in Brackets
      /\ Booked(book, Owned) /\ Backed(st, book, Owned) BY <1>1, <1>2, Now DEF Ready
<1>6. j.id = st.stopId /\ st.stopId \in Orders /\ OfSale(book, st.stopId)
  BY <1>1, <1>3, <1>5, IdsOf DEF Fit, FitAt, Backed, OfSale
<1>. HIDE DEF S
<1>7. CASE Filled(j.id) /\ finalizeBracket(S)
  <2>1. book[st.stopId].st = "filled" /\ Rest(book, st.stopId) = 0 BY <1>5, <1>6, <1>7 DEF Filled, Booked
  <2>2. spec.full => Owned <= 0 BY <1>5, <1>6, <2>1 DEF Booked, Single, Whole
  <2>3. st.tp1Id # 0 => book[st.tp1Id].st = "cancelled" \/ Rest(book, st.tp1Id) >= Owned
    <3>1. SUFFICES ASSUME st.tp1Id # 0, book[st.tp1Id].st # "cancelled"
                   PROVE  Rest(book, st.tp1Id) >= Owned OBVIOUS
    <3>2. Rest(book, st.tp1Id) \in Int BY <1>5, <3>1, IdsOf, BookOf
    <3>3. Rest(book, st.tp1Id) + Rest(book, st.stopId) >= Owned BY <1>3, <1>5, <2>1, <3>1 DEF Backed
    <3>. QED BY <1>5, <2>1, <3>2, <3>3
  <2>. QED BY <1>1, <1>2, <1>3, <1>4, <1>7, <2>2, <2>3, finalizeReaches
<1>8. ASSUME NEW T, T \in {S, st}, st' = T, UNCHANGED <<disk, status>>, ReadsTp1(T, j.last) PROVE Reaches
  <2>1. PICK c : Become("run", c) /\ Reading(T, c) BY <1>8, ReadsTp1Job
  <2>2. Firm(T) /\ Carried(T, book', Owned) BY <1>3, <1>4, <1>8 DEF Firm
  <2>3. Serves(T, c, book', Owned) /\ Offers(T, c, book', Owned) /\ Undone(c) BY <2>1, <2>2, ReadsNext
  <2>. QED BY <1>1, <1>2, <1>3, <1>8, <2>1, <2>2, <2>3, TickReaches
<1>. QED BY <1>7, <1>8 DEF ReadStop, S

\* What a bracket that closes leaves behind.
LEMMA ClosesReaches ==
  ASSUME Ready, NEW S, Firm(S), ClosesFlat(S), Owned <= 0 \/ (Free' <= Wallet /\ S.stopId = 0 /\ S.tp1Id = 0)
  PROVE Reaches
<1>. DEFINE T == [S EXCEPT !.phase = "flat"]
<1>1. st' = T /\ status' = "filled" /\ disk' = NoBracket /\ Become("run", Idle)
  BY DEF ClosesFlat, clearPersistedBracket, Ended
<1>2. /\ T.entryId = S.entryId /\ T.stopId = S.stopId /\ T.tp1Id = S.tp1Id
      /\ T.phase = "flat" /\ T.position = S.position /\ T.filled = S.filled /\ "flat" \notin Holding
  BY DEF Firm, Brackets, Holding
<1>. HIDE DEF T
<1>3. Carried(T, book', Owned) /\ Buying(book') = {} BY <1>2 DEF Firm, Carried
<1>4. Backed(T, book', Owned) /\ Target(T) BY <1>2, <1>3, LessBacked DEF Firm, Target
<1>5. Idle.pc = "idle" /\ Idle.why = "" BY DEF Idle
<1>6. Serves(T, Idle, book', Owned) /\ Offers(T, Idle, book', Owned)
  BY <1>3, <1>5 DEF Serves, Offers, Early, Waits, Sells
<1>7. Leaves(Idle, book', Owned) BY <1>1, <1>4, <1>6, NoBracketBacked DEF Leaves
<1>8. Owned' = Owned BY ReadyParts
<1>9. Done(status', st', disk', Idle, book', Owned', Free') BY <1>1, <1>2, <1>3, <1>5, <1>8 DEF Done
<1>10. Closes(Idle, Owned', Free') BY <1>5 DEF Closes
<1>11. Aims(st', job["kill"], book') BY <1>1, <1>4, AimsKept
<1>. QED BY <1>7, <1>8, <1>9, <1>10, <1>11 DEF Reaches, Ready

----
\* The exit that rests: read, chased up the book, or taken off it.

LEMMA Dropped ==
  ASSUME Ready, Firm(st), st.tp1Id = 0 \/ book'[st.tp1Id].st # "live", NEW S, S = [st EXCEPT !.tp1Id = 0]
  PROVE  /\ Firm(S) /\ S.tp1Id = 0 /\ S.stopId = st.stopId /\ S.phase = st.phase
         /\ Firm([S EXCEPT !.phase = "tp1_filled"])
<1>1. S \in Brackets BY Now, ExitTyped, Rec
<1>2. /\ S.entryId = st.entryId /\ S.stopId = st.stopId /\ S.tp1Id = 0 /\ S.phase = st.phase
      /\ S.position = st.position /\ S.filled = st.filled BY DEF Firm, Brackets
<1>3. Carried(S, book', Owned) BY <1>2 DEF Firm, Carried
<1>4. Backed(S, book', Owned) BY <1>2, <1>3, LessBacked DEF Firm
<1>5. Firm(S) BY <1>1, <1>2, <1>3, <1>4 DEF Firm, Target
<1>. DEFINE T == [S EXCEPT !.phase = "tp1_filled"]
<1>6. /\ T \in Brackets /\ T.entryId = S.entryId /\ T.stopId = S.stopId /\ T.tp1Id = 0 /\ T.phase = "tp1_filled"
      /\ T.position = S.position /\ T.filled = S.filled BY <1>1, <1>2 DEF Brackets, Phase
<1>. HIDE DEF T
<1>7. Carried(T, book', Owned) BY <1>3, <1>6 DEF Carried
<1>8. Backed(T, book', Owned) BY <1>2, <1>4, <1>5, <1>6, <1>7, LessBacked DEF Firm
<1>9. Firm(T) BY <1>6, <1>7, <1>8 DEF Firm, Target
<1>. QED BY <1>2, <1>5, <1>9 DEF T

LEMMA ReadTp1Reaches == ASSUME Sane, ReadTp1 PROVE Reaches
<1>. DEFINE j == job["run"]
            o == j.id
            S == [st EXCEPT !.tp1Id = 0]
            banked == [S EXCEPT !.phase = "tp1_filled"]
            d == [Idle EXCEPT !.pc = "readHeld", !.why = "", !.last = j.last, !.amt = 0, !.lvl = 0]
<1>1. At("run", "readTp1") /\ UNCHANGED world /\ j.pc = "readTp1" /\ j.pc \notin Early /\ book' = book
  BY ReadHere DEF ReadTp1, At, Early
<1>2. Thins(book, book') /\ Ready BY <1>1, SameThins, ThinReady
<1>3. Firm(st) /\ Serves(st, j, book', Owned) /\ Carried(st, book', Owned) /\ j.why = "" /\ OnFile(disk)
  BY <1>1, <1>2, Standing DEF Serves, Firm
<1>4. /\ Fit(st, j) /\ Owned \in Int /\ book \in Books /\ st \in Brackets /\ j \in Jobs
      /\ Booked(book, Owned) /\ Backed(st, book, Owned) BY <1>1, <1>2, Now DEF Ready
<1>5. o = st.tp1Id /\ o # 0 /\ o \in Orders /\ OfSale(book, o) /\ Rest(book, o) \in Int
  <2>1. o = st.tp1Id /\ o # 0 BY <1>1, <1>4 DEF Fit, FitAt
  <2>2. o \in Orders /\ book[o].kind = "sell" BY <1>4, <2>1, IdsOf DEF Backed
  <2>. QED BY <1>4, <2>1, <2>2, BookOf DEF OfSale
<1>6. Reading(S, d) /\ Reading(banked, d)
  <2>1. d.pc = "readHeld" /\ d.why = "" BY DEF Idle
  <2>. QED BY <2>1 DEF Reading
<1>. HIDE DEF d
<1>7. Filled(o) \/ Cancelled(o) => /\ Firm(S) /\ S.tp1Id = 0 /\ S.stopId = st.stopId /\ S.phase = st.phase
                                   /\ Firm(banked) BY <1>1, <1>2, <1>3, <1>5, Dropped DEF Filled, Cancelled
<1>. HIDE DEF S, banked
<1>8. CASE Filled(o) /\ (st.phase = "exiting" \/ spec.full) /\ ClosesFlat(S)
  <2>1. Rest(book, o) = 0 /\ book[o].st = "filled" BY <1>4, <1>5, <1>8 DEF Booked, Filled
  <2>2. CASE st.phase = "exiting"
    <3>1. Rest(book, o) >= Owned BY <1>4, <1>5, <2>1, <2>2 DEF Backed
    <3>. QED BY <1>2, <1>4, <1>7, <1>8, <2>1, <3>1, ClosesReaches
  <2>3. CASE spec.full
    <3>1. Owned <= 0 BY <1>4, <1>5, <2>1, <2>3 DEF Booked, Single, Whole
    <3>. QED BY <1>2, <1>7, <1>8, <3>1, ClosesReaches
  <2>. QED BY <1>8, <2>2, <2>3
<1>9. CASE Filled(o) /\ Tick(banked, Image(banked)) /\ Become("run", d)
  <2>1. PICK D : D = Image(banked) OBVIOUS
  <2>2. OnFile(D) BY <1>7, <1>9, <2>1, FirmImage
  <2>3. Serves(banked, d, book', Owned) /\ Offers(banked, d, book', Owned) /\ Undone(d) BY <1>6, <1>7, <1>9, ReadsNext
  <2>. QED BY <1>2, <1>7, <1>9, <2>1, <2>2, <2>3, JobReaches DEF Tick, OnFile, Files, Firm
<1>10. CASE Cancelled(o) /\ Tick(S, disk) /\ Become("run", d)
  <2>1. Serves(S, d, book', Owned) /\ Offers(S, d, book', Owned) /\ Undone(d) BY <1>6, <1>7, <1>10, ReadsNext
  <2>. QED BY <1>1, <1>2, <1>3, <1>7, <1>10, <2>1, TickReaches DEF Tick
<1>11. CASE Live(o) /\ st.phase = "exiting" /\ Tick(st, disk) /\ Become("run", [j EXCEPT !.pc = "chase", !.amt = Left(o)])
  <2>. DEFINE c == [j EXCEPT !.pc = "chase", !.amt = Left(o)]
  <2>1. c.pc = "chase" /\ c.amt = Left(o) /\ c.id = o /\ c.why = "" BY <1>3, <1>4 DEF Jobs
  <2>. HIDE DEF c
  <2>2. Rest(book, o) >= 1 /\ Rest(book, o) >= Owned /\ Left(o) = Rest(book, o)
    BY <1>4, <1>5, <1>11 DEF Live, Booked, Backed, Left, Rest
  <2>3. Serves(st, c, book', Owned) /\ Offers(st, c, book', Owned) /\ Undone(c)
    BY <1>3, <1>5, <2>1, <2>2 DEF Serves, Offers, Undone, Early, Waits, Sells
  <2>. QED BY <1>1, <1>2, <1>3, <1>11, <2>1, <2>3, TickReaches DEF Tick, c
<1>12. ASSUME NEW why \in {"stop", "time"}, Tick(st, disk), Become("run", [j EXCEPT !.pc = "force", !.why = why])
       PROVE  Reaches
  <2>. DEFINE c == [j EXCEPT !.pc = "force", !.why = why]
  <2>1. c.pc = "force" /\ c.id = o /\ c.why = why BY <1>4 DEF Jobs
  <2>2. Become("run", c) BY <1>12
  <2>. HIDE DEF c
  <2>3. Serves(st, c, book', Owned) /\ Offers(st, c, book', Owned) /\ Undone(c)
    BY <1>3, <1>5, <1>12, <2>1 DEF Serves, Offers, Undone, Early, Waits, Sells
  <2>. QED BY <1>1, <1>2, <1>3, <1>12, <2>2, <2>3, TickReaches DEF Tick
<1>13. CASE TickEnds(st) BY <1>2, <1>3, <1>13, TickEndsReaches
<1>. QED BY <1>8, <1>9, <1>10, <1>11, <1>12, <1>13, Answers DEF ReadTp1, Awaits, S, banked, d

LEMMA ChaseReaches == ASSUME Sane, Chase PROVE Reaches
<1>. DEFINE j == job["run"]
            c == [j EXCEPT !.pc = "rechase"]
<1>1. At("run", "chase") /\ UNCHANGED world /\ j.pc = "chase" /\ j.pc \notin Early BY DEF Chase, At, Early
<1>2. \E ok \in BOOLEAN : CancelOrder(j.id, ok) BY DEF Chase
<1>3. Thins(book, book') /\ Ready /\ (j.id \in Orders => book'[j.id].st # "live")
  BY <1>1, <1>2, CancelThins, ThinReady
<1>4. Firm(st) /\ Serves(st, j, book', Owned) /\ Offers(st, j, book', Owned) /\ j \in Jobs /\ st \in Brackets
  BY <1>1, <1>3, Standing, Now
<1>5. c.pc = "rechase" /\ c.amt = j.amt /\ c.id = j.id /\ c.why = j.why BY <1>4 DEF Jobs
<1>6. \/ Tick(st, disk) /\ Become("run", c)
      \/ TickEnds(st) BY DEF Chase
<1>. HIDE DEF c
<1>7. CASE Tick(st, disk) /\ Become("run", c)
  <2>1. j.id = st.tp1Id /\ j.id # 0 /\ j.id \in Orders BY <1>1, <1>4, IdsOf DEF Serves
  <2>2. Serves(st, c, book', Owned) /\ Offers(st, c, book', Owned) /\ Undone(c)
    BY <1>1, <1>3, <1>4, <1>5, <2>1 DEF Serves, Offers, Undone, Early, Waits, Sells, Exits
  <2>. QED BY <1>1, <1>3, <1>4, <1>5, <1>7, <2>2, TickReaches DEF Tick
<1>8. CASE TickEnds(st) BY <1>3, <1>4, <1>8, TickEndsReaches
<1>. QED BY <1>6, <1>7, <1>8

LEMMA RechaseReaches == ASSUME Sane, Rechase PROVE Reaches
<1>. DEFINE j == job["run"]
<1>1. At("run", "rechase") /\ UNCHANGED world /\ j.pc = "rechase" /\ j.pc \notin Early BY DEF Rechase, At, Early
<1>2. PICK id \in Ids : PlaceOrder("sell", j.amt, j.last, id) /\ TickEnds([st EXCEPT !.tp1Id = id]) BY DEF Rechase
<1>3. /\ Backed(st, book, Owned) /\ Serves(st, j, book, Owned) /\ Offers(st, j, book, Owned) /\ Booked(book, Owned)
      /\ Owned \in Int /\ book \in Books /\ st \in Brackets /\ TypeOK /\ j.amt \in Int
  BY Sanity, RunHere DEF Sane, Offered
<1>4. \/ id \in Orders /\ id # 0 /\ Adds(book, book', Unused, id, "sell", j.amt)
      \/ id = 0 /\ book' = book BY <1>2, PlaceAdds
<1>5. /\ j.amt >= 1 /\ j.amt >= Owned /\ book[st.tp1Id].st # "live"
      /\ st.tp1Id # 0 /\ st.tp1Id \in Orders BY <1>1, <1>3, IdsOf DEF Serves, Offers
<1>. DEFINE S == [st EXCEPT !.tp1Id = id]
<1>6. CASE id = 0 /\ book' = book
  <2>1. Thins(book, book') /\ Ready BY <1>1, <1>6, SameThins, ThinReady
  <2>2. Firm(st) BY <1>1, <2>1, Standing
  <2>3. S = [st EXCEPT !.tp1Id = 0] /\ TickEnds(S) BY <1>2, <1>6
  <2>. HIDE DEF S
  <2>4. Firm(S) BY <1>5, <1>6, <2>1, <2>2, <2>3, Dropped
  <2>. QED BY <2>1, <2>3, <2>4, TickEndsReaches
<1>7. CASE id \in Orders /\ id # 0 /\ Adds(book, book', Unused, id, "sell", j.amt)
  <2>1. Ready BY <1>1, <1>3, <1>5, <1>7, AddReady
  <2>2. /\ S \in Brackets /\ S.entryId = st.entryId /\ S.phase = st.phase /\ S.position = st.position
        /\ S.filled = st.filled /\ S.stopId = st.stopId /\ S.tp1Id = id /\ TickEnds(S)
    BY <1>2, <1>3, ExitTyped DEF Brackets
  <2>. HIDE DEF S
  <2>3. st.stopId # 0 => book[st.stopId].st = "cancelled" \/ Rest(book, st.stopId) + j.amt >= Owned
    <3>1. SUFFICES ASSUME st.stopId # 0, book[st.stopId].st # "cancelled"
                   PROVE  Rest(book, st.stopId) + j.amt >= Owned OBVIOUS
    <3>2. st.stopId \in Orders /\ OfSale(book, st.stopId) BY <1>3, <3>1, IdsOf DEF Backed, OfSale
    <3>3. Rest(book, st.stopId) \in Int /\ 0 <= Rest(book, st.stopId) BY <1>3, <3>1, <3>2, Resters
    <3>. QED BY <1>3, <1>5, <3>3
  <2>4. Firm(S) BY <1>1, <1>3, <1>5, <1>7, <2>1, <2>2, <2>3, Placed
  <2>. QED BY <2>1, <2>2, <2>4, TickEndsReaches
<1>. QED BY <1>4, <1>6, <1>7

LEMMA ForceExitReaches == ASSUME Sane, ForceExit PROVE Reaches
<1>. DEFINE j == job["run"]
            S == [st EXCEPT !.tp1Id = 0]
            c == [Idle EXCEPT !.pc = "forced", !.why = j.why, !.last = j.last, !.amt = 0, !.lvl = 0]
<1>1. At("run", "force") /\ UNCHANGED world /\ j.pc = "force" /\ j.pc \notin Early BY DEF ForceExit, At, Early
<1>2. (\E ok \in BOOLEAN : CancelOrder(j.id, ok)) /\ Tick(S, disk) /\ Become("run", c) BY DEF ForceExit, Awaits
<1>3. Thins(book, book') /\ Ready /\ (j.id \in Orders => book'[j.id].st # "live")
  BY <1>1, <1>2, CancelThins, ThinReady
<1>4. Firm(st) /\ Serves(st, j, book', Owned) /\ j \in Jobs /\ st \in Brackets BY <1>1, <1>3, Standing, Now
<1>5. c.pc = "forced" /\ c.why = j.why BY DEF Idle
<1>6. j.id = st.tp1Id /\ j.id \in Orders BY <1>1, <1>4, IdsOf DEF Serves
<1>7. Firm(S) /\ S.tp1Id = 0 BY <1>3, <1>4, <1>6, Dropped
<1>. HIDE DEF S, c
<1>8. Serves(S, c, book', Owned) /\ Offers(S, c, book', Owned) /\ Undone(c)
  <2>1. Carried(S, book', Owned) BY <1>7 DEF Firm
  <2>2. c.why # "scale" BY <1>1, <1>3, <1>5, Now DEF Fit, FitAt
  <2>. QED BY <1>5, <1>7, <2>1, <2>2 DEF Serves, Offers, Undone, Early, Waits, Sells
<1>. QED BY <1>1, <1>2, <1>3, <1>5, <1>7, <1>8, TickReaches DEF Tick

LEMMA ForcedExitReaches == ASSUME Sane, ForcedExit PROVE Reaches
<1>. DEFINE j == job["run"]
            n == bracketPosition(st, coins)
            T == [st EXCEPT !.phase = "exiting"]
            c == [Idle EXCEPT !.pc = "findStop", !.why = "force", !.last = j.last, !.amt = n, !.lvl = st.stopPrice]
            d == [Idle EXCEPT !.pc = "sell", !.why = "force", !.last = j.last, !.amt = n, !.lvl = j.last]
<1>1. At("run", "forced") /\ UNCHANGED world /\ j.pc = "forced" /\ j.pc \notin Early /\ book' = book
  BY ReadHere DEF ForcedExit, At, Early
<1>2. Thins(book, book') /\ Ready BY <1>1, SameThins, ThinReady
<1>3. Firm(st) /\ Carried(st, book', Owned) /\ Owned \in Int /\ coins \in Int /\ st \in Brackets
      /\ Wallet \in Nat /\ Owned = coins - Wallet /\ st.position \in Int /\ st.tp1Id = 0
  BY <1>1, <1>2, Standing, Now, Sanity, ConstantsAssumption DEF Ready, Firm, Owned, Fit, FitAt
<1>4. n \in Int /\ Owned <= n BY <1>3 DEF bracketPosition, Lower, Carried
<1>5. c.pc = "findStop" /\ c.why = "force" /\ c.amt = n /\ d.pc = "sell" /\ d.why = "force" /\ d.amt = n BY DEF Idle
<1>6. \/ j.why = "stop" /\ Tick(st, disk) /\ Become("run", c)
      \/ j.why = "time" /\ Tick(T, disk) /\ Become("run", d) BY <1>2, Answers DEF ForcedExit, PlaceStop, Awaits, Ready
<1>. HIDE DEF n, c, d
<1>7. CASE j.why = "stop" /\ Tick(st, disk) /\ Become("run", c)
  <2>1. Serves(st, c, book', Owned) /\ Offers(st, c, book', Owned) /\ Undone(c)
    BY <1>3, <1>4, <1>5 DEF Serves, Offers, Undone, Early, Waits, Sells
  <2>. QED BY <1>1, <1>2, <1>3, <1>7, <2>1, TickReaches DEF Tick
<1>8. CASE j.why = "time" /\ Tick(T, disk) /\ Become("run", d)
  <2>1. /\ T \in Brackets /\ T.entryId = st.entryId /\ T.stopId = st.stopId /\ T.tp1Id = 0 /\ T.phase = "exiting"
        /\ T.position = st.position /\ T.filled = st.filled BY <1>3 DEF Brackets, Phase
  <2>. HIDE DEF T
  <2>2. Carried(T, book', Owned) BY <1>3, <2>1 DEF Carried
  <2>3. Firm(T) BY <1>3, <2>1, <2>2, LessBacked DEF Firm, Target
  <2>4. Serves(T, d, book', Owned) /\ Offers(T, d, book', Owned) /\ Undone(d)
    BY <1>4, <1>5, <2>1, <2>2 DEF Serves, Offers, Undone, Early, Waits, Sells, Exits
  <2>. QED BY <1>1, <1>2, <1>8, <2>3, <2>4, TickReaches DEF Tick
<1>. QED BY <1>6, <1>7, <1>8

LEMMA ReadHeldReaches == ASSUME Sane, ReadHeld PROVE Reaches
<1>. DEFINE j == job["run"]
            last == j.last
            n == bracketPosition(st, coins)
            S == [st EXCEPT !.position = n]
            target == ~spec.stop /\ S.tp1Id = 0 /\ (spec.full \/ (spec.scale /\ S.phase = "protected"))
            even == ~spec.stop /\ spec.scale /\ spec.even /\ S.phase = "tp1_filled"
                    /\ S.stopId = 0 /\ S.tp1Id = 0
            amount == IF spec.full THEN n ELSE Tranche(n)
            c == [Idle EXCEPT !.pc = "findTp", !.why = "heal", !.last = last, !.amt = amount, !.lvl = Tp1Level]
            d(lvl) == [Idle EXCEPT !.pc = "findStop", !.why = "heal", !.last = last, !.amt = n, !.lvl = lvl]
<1>1. At("run", "readHeld") /\ UNCHANGED world /\ j.pc = "readHeld" /\ j.pc \notin Early /\ book' = book
  BY ReadHere DEF ReadHeld, At, Early
<1>2. Thins(book, book') /\ Ready BY <1>1, SameThins, ThinReady
<1>3. /\ Firm(st) /\ Carried(st, book', Owned) /\ Owned \in Int /\ coins \in Int /\ st \in Brackets
      /\ Wallet \in Nat /\ Owned = coins - Wallet /\ st.position \in Int /\ st.tp1Id = 0 /\ j.why = ""
      /\ last \in Int /\ OnFile(disk) /\ ~(spec.full /\ spec.scale) /\ spec \in SpecRec
  BY <1>1, <1>2, Standing, Now, Sanity, ConstantsAssumption DEF Ready, Firm, Owned, Fit, FitAt, Serves
<1>4. n \in Int /\ Owned <= n /\ Owned \in Int
  <2>1. Owned <= st.position BY <1>3 DEF Carried
  <2>2. coins \in Int /\ Wallet \in Nat /\ Owned = coins - Wallet /\ Owned \in Int /\ st.position \in Int BY <1>3
  <2>3. n \in {st.position, coins} BY DEF bracketPosition, Lower
  <2>. QED BY <2>1, <2>2, <2>3
<1>5. /\ c.pc = "findTp" /\ c.why = "heal" /\ c.amt = amount
      /\ \A lvl : d(lvl).pc = "findStop" /\ d(lvl).why = "heal" /\ d(lvl).amt = n BY DEF Idle
<1>6. \/ n = 0 /\ finalizeBracket(S)
      \/ target /\ Tick(S, disk) /\ Become("run", c)
      \/ even /\ Tick(S, disk) /\ Become("run", d(Entry))
      \/ HealsStop(S) /\ Tick(S, disk) /\ Become("run", d(HealLevel(S)))
      \/ ~target /\ Manage(S, disk, last) BY <1>2, Answers DEF ReadHeld, PlaceStop, Awaits, Ready
<1>. HIDE DEF n, c, d
<1>7. /\ S \in Brackets /\ S.entryId = st.entryId /\ S.stopId = st.stopId /\ S.tp1Id = 0 /\ S.phase = st.phase
      /\ S.position = n /\ S.filled = st.filled BY <1>3, <1>4 DEF Brackets
<1>. HIDE DEF S
<1>8. Carried(S, book', Owned) BY <1>3, <1>4, <1>7 DEF Carried
<1>9. Firm(S)
  <2>1. Backed(S, book', Owned) BY <1>3, <1>7, <1>8, LessBacked DEF Firm
  <2>. QED BY <1>3, <1>7, <1>8, <2>1 DEF Firm, Target
<1>10. CASE n = 0 /\ finalizeBracket(S) BY <1>1, <1>2, <1>3, <1>4, <1>7, <1>9, <1>10, finalizeReaches
<1>11. CASE target /\ Tick(S, disk) /\ Become("run", c)
  <2>1. Serves(S, c, book', Owned) /\ Offers(S, c, book', Owned) /\ Undone(c)
    BY <1>3, <1>4, <1>5, <1>7, <1>8, <1>11 DEF Serves, Offers, Undone, Early, Waits, Sells, Exits
  <2>. QED BY <1>1, <1>2, <1>3, <1>9, <1>11, <2>1, TickReaches DEF Tick
<1>12. ASSUME NEW lvl, Tick(S, disk), Become("run", d(lvl)), spec.stop \/ S.phase # "protected"
       PROVE  Reaches
  <2>1. PICK e : e = d(lvl) OBVIOUS
  <2>2. e.pc = "findStop" /\ e.why = "heal" /\ e.amt = n /\ Become("run", e) BY <1>5, <1>12, <2>1
  <2>3. Serves(S, e, book', Owned) /\ Offers(S, e, book', Owned) /\ Undone(e)
    BY <1>4, <1>7, <1>8, <1>12, <2>2 DEF Serves, Offers, Undone, Early, Waits, Sells
  <2>. QED BY <1>1, <1>2, <1>3, <1>9, <1>12, <2>2, <2>3, TickReaches DEF Tick
<1>13. CASE ~target /\ Manage(S, disk, last)
  <2>1. Scalable(S) BY <1>3, <1>7, <1>13 DEF Scalable
  <2>. QED BY <1>2, <1>3, <1>9, <1>13, <2>1, ManageReaches
<1>. QED BY <1>6, <1>10, <1>11, <1>12, <1>13 DEF HealsStop

LEMMA ClaimsTyped == ASSUME NEW b \in Books PROVE Claims(b) \in [Orders -> Int]
<1>1. \A o \in Orders : (IF b[o].st = "live" /\ b[o].kind # "buy" THEN Rest(b, o) ELSE 0) \in Int BY BookOf
<1>. QED BY <1>1 DEF Claims

LEMMA FreeOf == Free = coins - Total(Claims(book)) /\ Free' = coins' - Total(Claims(book'))
<1>1. 0 \notin Orders BY DEF Orders
<1>2. \A o \in Orders : Claim(o) = IF book[o].st = "live" /\ book[o].kind # "buy" THEN Rest(book, o) ELSE 0
  BY <1>1 DEF Claim, LiveSells, Live, Left, Rest
<1>3. \A o \in Orders : Claim(o)' = IF book'[o].st = "live" /\ book'[o].kind # "buy" THEN Rest(book', o) ELSE 0
  BY <1>1 DEF Claim, LiveSells, Live, Left, Rest
<1>4. [o \in Orders |-> Claim(o)] = Claims(book) BY <1>2 DEF Claims
<1>5. [o \in Orders |-> Claim(o)'] = Claims(book') BY <1>3 DEF Claims
<1>6. Locked' = Total([o \in Orders |-> Claim(o)']) BY DEF Locked, Total
<1>. QED BY <1>4, <1>5, <1>6 DEF Free, Locked

LEMMA TotalChange ==
  ASSUME NEW f \in [Orders -> Int], NEW g \in [Orders -> Int], NEW k \in Orders, \A o \in Orders \ {k} : g[o] = f[o]
  PROVE Total(f) \in Int /\ Total(g) = Total(f) + (g[k] - f[k])
<1>. DEFINE n == MaxOrders
<1>1. n \in Nat /\ k \in 1..n /\ f[k] \in Int /\ g[k] \in Int /\ Orders = 1..n BY ConstantsAssumption DEF Orders
<1>2. PICK F \in [0..n -> Int] : Total(f) = F[n] /\ F[0] = 0 /\ \A i \in 1..n : F[i] = F[i - 1] + f[i] BY TotalBy
<1>3. PICK G \in [0..n -> Int] : Total(g) = G[n] /\ G[0] = 0 /\ \A i \in 1..n : G[i] = G[i - 1] + g[i] BY TotalBy
<1>. DEFINE more(i) == IF k <= i THEN g[k] - f[k] ELSE 0
            S == {i \in 0..n : G[i] = F[i] + more(i)}
<1>4. 0 \in S BY <1>1, <1>2, <1>3
<1>5. ASSUME NEW i \in 0..(n - 1), i \in S PROVE i + 1 \in S
  <2>1. i + 1 \in 1..n /\ (i + 1) - 1 = i /\ i + 1 \in 0..n /\ i \in 0..n /\ i \in Nat BY <1>1
  <2>2. F[i + 1] = F[i] + f[i + 1] /\ G[i + 1] = G[i] + g[i + 1] /\ G[i] = F[i] + more(i) BY <1>2, <1>3, <1>5, <2>1
  <2>3. F[i] \in Int /\ f[i + 1] \in Int /\ g[i + 1] \in Int BY <1>1, <1>2, <2>1
  <2>4. CASE i + 1 = k
    <3>1. more(i) = 0 /\ more(i + 1) = g[k] - f[k] BY <1>1, <2>1, <2>4
    <3>2. f[i + 1] = f[k] /\ g[i + 1] = g[k] BY <2>4
    <3>. HIDE DEF more
    <3>3. G[i + 1] = F[i + 1] + more(i + 1) BY <1>1, <2>2, <2>3, <3>1, <3>2
    <3>. QED BY <2>1, <3>3
  <2>5. CASE i + 1 # k
    <3>1. more(i) = more(i + 1) /\ more(i) \in Int BY <1>1, <2>1, <2>5
    <3>2. g[i + 1] = f[i + 1] BY <1>1, <2>1, <2>5
    <3>. HIDE DEF more
    <3>. QED BY <1>1, <2>1, <2>2, <2>3, <3>1, <3>2
  <2>. QED BY <2>4, <2>5
<1>6. n \in S
  <2>. HIDE DEF S
  <2>1. \A i \in 0..n : i \in S BY <1>1, <1>4, <1>5, NatSetInduction
  <2>. QED BY <1>1, <2>1
<1>7. more(n) = g[k] - f[k] /\ F[n] \in Int BY <1>1, <1>2
<1>. QED BY <1>2, <1>3, <1>6, <1>7

LEMMA TotalNat == ASSUME NEW f \in [Orders -> Int], \A o \in Orders : f[o] >= 0 PROVE Total(f) >= 0
<1>. DEFINE n == MaxOrders
<1>1. n \in Nat /\ Orders = 1..n BY ConstantsAssumption DEF Orders
<1>2. PICK F \in [0..n -> Int] : Total(f) = F[n] /\ F[0] = 0 /\ \A i \in 1..n : F[i] = F[i - 1] + f[i] BY TotalBy
<1>. DEFINE S == {i \in 0..n : F[i] >= 0}
<1>3. 0 \in S BY <1>1, <1>2
<1>4. ASSUME NEW i \in 0..(n - 1), i \in S PROVE i + 1 \in S
  <2>1. i + 1 \in 1..n /\ (i + 1) - 1 = i /\ i + 1 \in 0..n /\ i \in 0..n BY <1>1
  <2>2. F[i + 1] = F[i] + f[i + 1] /\ F[i] \in Int /\ f[i + 1] \in Int /\ f[i + 1] >= 0 /\ F[i] >= 0
    BY <1>1, <1>2, <1>4, <2>1
  <2>. QED BY <2>1, <2>2
<1>5. n \in S
  <2>. HIDE DEF S
  <2>1. \A i \in 0..n : i \in S BY <1>1, <1>3, <1>4, NatSetInduction
  <2>. QED BY <1>1, <2>1
<1>. QED BY <1>2, <1>5

\* A sell takes what it claims from what is free.
LEMMA AddFree ==
  ASSUME Sane, coins' = coins, NEW n, NEW kind \in {"stop", "sell"}, NEW a \in Int,
         Adds(book, book', Unused, n, kind, a)
  PROVE Free' = Free - a
<1>1. book \in Books /\ book' \in Books /\ coins \in Int BY Sanity
<1>2. Claims(book) \in [Orders -> Int] /\ Claims(book') \in [Orders -> Int] BY <1>1, ClaimsTyped
<1>3. n \in Orders /\ Claims(book)[n] = 0 /\ Claims(book')[n] = a BY DEF Adds, Claims, Rest
<1>4. \A o \in Orders \ {n} : Claims(book')[o] = Claims(book)[o]
  <2>1. ASSUME NEW o \in Orders \ {n} PROVE Claims(book')[o] = Claims(book)[o]
    <3>1. CASE o \in Unused
      <4>1. book'[o] = NoOrder /\ book[o].st # "live" /\ NoOrder.st # "live" BY <2>1, <3>1 DEF Adds, NoOrder
      <4>. QED BY <4>1 DEF Claims
    <3>2. CASE o \notin Unused
      <4>1. book'[o] = book[o] BY <2>1, <3>2 DEF Adds
      <4>. QED BY <4>1 DEF Claims, Rest
    <3>. QED BY <3>1, <3>2
  <2>. QED BY <2>1
<1>. HIDE DEF Claims
<1>5. Total(Claims(book)) \in Int /\ Total(Claims(book')) = Total(Claims(book)) + (a - 0)
  BY <1>2, <1>3, <1>4, TotalChange
<1>. QED BY <1>1, <1>5, FreeOf

LEMMA SameFree == ASSUME book' = book, coins' = coins PROVE Free' = Free
  BY FreeOf

\* What is sold takes nothing from what is free.
LEMMA TradeFree == ASSUME Sane, NEW o \in Orders, book[o].kind # "buy", Trade(o) PROVE Free' = Free
<1>1. book \in Books /\ book' \in Books /\ coins \in Int /\ coins' = coins - 1 BY Sanity DEF Trade
<1>2. Claims(book) \in [Orders -> Int] /\ Claims(book') \in [Orders -> Int] BY <1>1, ClaimsTyped
<1>3. /\ book[o].st = "live" /\ book'[o].kind = book[o].kind /\ book'[o].amt = book[o].amt
      /\ book'[o].got = book[o].got + 1
      /\ book'[o].st = IF Left(o) = 1 THEN "filled" ELSE "live"
      /\ book[o].amt \in Int /\ book[o].got \in Int BY <1>1 DEF Trade, Live, Books, OrderRec
<1>4. Rest(book, o) = Left(o) /\ Rest(book', o) = Rest(book, o) - 1 /\ Rest(book, o) \in Int BY <1>3 DEF Rest, Left
<1>5. Claims(book)[o] = Rest(book, o) /\ Claims(book')[o] = Rest(book, o) - 1 BY <1>3, <1>4 DEF Claims
<1>6. \A x \in Orders \ {o} : Claims(book')[x] = Claims(book)[x]
  <2>1. \A x \in Orders \ {o} : book'[x] = book[x] BY <1>1 DEF Trade, Books
  <2>. QED BY <2>1 DEF Claims, Rest
<1>. HIDE DEF Claims
<1>7. Total(Claims(book)) \in Int
      /\ Total(Claims(book')) = Total(Claims(book)) + ((Rest(book, o) - 1) - Rest(book, o))
  BY <1>2, <1>5, <1>6, TotalChange
<1>. QED BY <1>1, <1>4, <1>7, FreeOf

----
\* The close.

LEMMA LockedNat == ASSUME NEW b \in Books, NEW w, Booked(b, w) PROVE Total(Claims(b)) \in Int /\ Total(Claims(b)) >= 0
<1>1. Claims(b) \in [Orders -> Int] BY ClaimsTyped
<1>2. \A o \in Orders : Claims(b)[o] >= 0
  <2>1. ASSUME NEW o \in Orders PROVE Claims(b)[o] >= 0
    <3>1. CASE b[o].st = "live" /\ b[o].kind # "buy"
      <4>1. b[o].kind \in {"none", "buy", "stop", "sell"} /\ b[o].kind # "none" BY <3>1 DEF Books, OrderRec, Booked
      <4>2. OfSale(b, o) BY <3>1, <4>1 DEF OfSale
      <4>3. Rest(b, o) >= 1 /\ Rest(b, o) \in Int BY <3>1, <4>2, BookOf DEF Booked
      <4>. QED BY <3>1, <4>3 DEF Claims
    <3>2. CASE ~(b[o].st = "live" /\ b[o].kind # "buy") BY <3>2 DEF Claims
    <3>. QED BY <3>1, <3>2
  <2>. QED BY <2>1
<1>. HIDE DEF Claims
<1>3. Total(Claims(b)) \in Int
  <2>1. PICK F \in [0..MaxOrders -> Int] : Total(Claims(b)) = F[MaxOrders] BY <1>1, TotalBy
  <2>. QED BY <2>1, Rec
<1>. QED BY <1>1, <1>2, <1>3, TotalNat

LEMMA SweepRunReaches == ASSUME Sane, Sweep("run") PROVE Reaches
<1>. DEFINE j == job["run"]
            o == Min(j.ids)
            c == [j EXCEPT !.ids = @ \ {o}]
<1>1. At("run", "sweep") /\ UNCHANGED world /\ j.pc = "sweep" /\ j.pc \notin Early /\ j.ids # {}
      /\ UNCHANGED <<st, status, disk>> /\ Become("run", c) BY DEF Sweep, At, Early
<1>2. \E ok \in BOOLEAN : CancelOrder(o, ok) BY DEF Sweep
<1>3. o \in Orders
  <2>1. j.ids \subseteq Orders /\ j.ids \subseteq Nat BY Sanity DEF Jobs, Orders
  <2>. QED BY <1>1, <2>1, MinOf
<1>4. Thins(book, book') /\ Ready /\ book'[o].st # "live" BY <1>1, <1>2, <1>3, CancelThins, ThinReady
<1>5. Serves(st, j, book', Owned) /\ Offers(st, j, book', Owned) /\ j \in Jobs BY <1>1, <1>4, Standing, Now
<1>6. c.pc = "sweep" /\ c.why = j.why /\ c.ids = j.ids \ {o} BY <1>1, <1>5 DEF Jobs
<1>. HIDE DEF c, o
<1>7. Serves(st, c, book', Owned) /\ Offers(st, c, book', Owned) /\ Undone(c)
  BY <1>1, <1>4, <1>5, <1>6 DEF Serves, Offers, Undone, Early, Waits, Sells, Resting
<1>. QED BY <1>1, <1>4, <1>6, <1>7, SameReaches

LEMMA SweptRunReaches == ASSUME Sane, Swept("run") PROVE Reaches
<1>. DEFINE j == job["run"]
            S == [st EXCEPT !.stopId = 0, !.tp1Id = 0]
            c == [Idle EXCEPT !.pc = "balance", !.why = "", !.last = 0, !.amt = 0, !.lvl = 0]
<1>1. At("run", "sweep") /\ UNCHANGED world /\ j.pc = "sweep" /\ j.pc \notin Early /\ j.ids = {} /\ book' = book
  BY DEF Swept, At, Early
<1>2. Thins(book, book') /\ Ready /\ j.why = "close" BY <1>1, SameThins, ThinReady, Sanity DEF Alone
<1>3. Firm(st) /\ Serves(st, j, book', Owned) /\ Offers(st, j, book', Owned) /\ OnFile(disk) /\ TypeOK
  BY <1>1, <1>2, Standing, Now
<1>4. st' = S /\ disk' = disk /\ status' = status /\ Become("run", c) BY <1>2 DEF Swept, Tick, Awaits
<1>5. c.pc = "balance" /\ c.why = "" BY DEF Idle
<1>6. /\ S \in Brackets /\ S.entryId = st.entryId /\ S.stopId = 0 /\ S.tp1Id = 0 /\ S.phase = st.phase
      /\ S.position = st.position /\ S.filled = st.filled
  <2>1. S \in Brackets BY <1>3, ExitTyped, Rec
  <2>. QED BY <1>3, <2>1 DEF Firm, Brackets
<1>. HIDE DEF S, c
<1>7. Carried(S, book', Owned) BY <1>3, <1>6 DEF Firm, Carried
<1>8. Backed(S, book', Owned) BY <1>3, <1>6, <1>7, LessBacked DEF Firm
<1>9. st.tp1Id = 0 \/ book'[st.tp1Id].st # "live" BY <1>1, <1>3 DEF Serves, Firm, Backed, Resting, OfSale
<1>10. Firm(S) BY <1>3, <1>6, <1>7, <1>8, <1>9 DEF Firm, Target
<1>11. Serves(S, c, book', Owned) /\ Offers(S, c, book', Owned) /\ Undone(c)
  BY <1>1, <1>3, <1>5, <1>6, <1>7 DEF Serves, Offers, Undone, Early, Waits, Sells
<1>. QED BY <1>1, <1>2, <1>4, <1>10, <1>11, TickReaches

\* A step of the close, of a bracket that stays as it is.
LEMMA CloseReaches ==
  ASSUME Ready, Firm(st), OnFile(disk), st' = st, disk' = disk, status' = status, NEW c, Become("run", c),
         Serves(st, c, book', Owned), Offers(st, c, book', Owned), Closes(c, Owned, Free')
  PROVE Reaches
<1>1. Owned' = Owned /\ status' \notin {"pending", "failed", "filled"} BY ReadyParts
<1>2. Leaves(c, book', Owned') BY <1>1 DEF Leaves, Firm, OnFile, Files
<1>3. Done(status', st', disk', c, book', Owned', Free') BY <1>1 DEF Done
<1>4. Aims(st', job["kill"], book') BY AimsKept DEF Target
<1>. QED BY <1>1, <1>2, <1>3, <1>4 DEF Ready, Reaches

LEMMA BalanceReaches == ASSUME Sane, Balance PROVE Reaches
<1>. DEFINE j == job["run"]
            n == bracketPosition(st, Free)
            c == [Idle EXCEPT !.pc = "closing", !.why = "", !.last = 0, !.amt = n, !.lvl = 0]
<1>1. At("run", "balance") /\ UNCHANGED world /\ j.pc = "balance" /\ j.pc \notin Early /\ book' = book
  BY ReadHere DEF Balance, At, Early
<1>2. Thins(book, book') /\ Ready /\ Free' = Free BY <1>1, SameThins, ThinReady, SameFree DEF world
<1>3. Firm(st) /\ Serves(st, j, book', Owned) /\ Offers(st, j, book', Owned) /\ OnFile(disk)
  BY <1>1, <1>2, Standing DEF Serves
<1>4. Owned \in Int /\ Free \in Int /\ Wallet \in Nat /\ st.position \in Int
      /\ Carried(st, book', Owned) /\ Owned <= st.position /\ st.stopId = 0 /\ st.tp1Id = 0
  BY <1>1, <1>2, <1>3, Now, FreeTyped, ConstantsAssumption DEF Firm, Carried, Serves
<1>5. n = st.position \/ n = Free BY DEF bracketPosition, Lower
<1>6. c.pc = "closing" /\ c.why = "" /\ c.amt = n BY DEF Idle
<1>7. \/ n = 0 /\ ClosesFlat(st)
      \/ n > 0 /\ Tick(st, disk) /\ Become("run", c) BY Answers DEF Balance, Awaits
<1>. HIDE DEF n, c
<1>8. CASE n = 0 /\ ClosesFlat(st)
  <2>1. Owned <= 0 \/ Free' <= Wallet BY <1>2, <1>4, <1>5, <1>8
  <2>. QED BY <1>2, <1>3, <1>4, <1>8, <2>1, ClosesReaches
<1>9. CASE n > 0 /\ Tick(st, disk) /\ Become("run", c)
  <2>1. n \in Int /\ n >= 1 /\ (n >= Owned \/ Free' <= n) BY <1>2, <1>4, <1>5, <1>9
  <2>2. Serves(st, c, book', Owned) BY <1>4, <1>6, <2>1 DEF Serves, Early, Waits, Sells
  <2>3. Offers(st, c, book', Owned) BY <1>1, <1>3, <1>6 DEF Offers, Sells
  <2>4. Closes(c, Owned, Free') BY <1>6, <2>1 DEF Closes
  <2>. QED BY <1>2, <1>3, <1>9, <2>2, <2>3, <2>4, CloseReaches DEF Tick
<1>. QED BY <1>7, <1>8, <1>9

LEMMA SellToUsdReaches == ASSUME Sane, SellToUsd PROVE Reaches
<1>. DEFINE j == job["run"]
            c == [Idle EXCEPT !.pc = "closed", !.why = "", !.last = 0, !.amt = 0, !.lvl = 0]
<1>1. At("run", "closing") /\ UNCHANGED world /\ j.pc = "closing" /\ j.pc \notin Early BY DEF SellToUsd, At, Early
<1>2. /\ Backed(st, book, Owned) /\ Backed(disk, book, Owned) /\ Serves(st, j, book, Owned) /\ Offers(st, j, book, Owned)
      /\ Booked(book, Owned) /\ Stored(disk, book, Owned) /\ Closes(j, Owned, Free) /\ Files(disk, j)
      /\ Owned \in Int /\ book \in Books /\ book' \in Books /\ st \in Brackets /\ disk \in Brackets
      /\ TypeOK /\ j.amt \in Int /\ Fit(st, j) /\ coins \in Int BY Sanity, RunHere DEF Sane, Offered, Agreed
<1>3. /\ j.amt >= 1 /\ j.why = "" /\ (spec.full => Owned <= 0) /\ (j.amt >= Owned \/ Free <= j.amt)
      /\ st.stopId = 0 /\ st.tp1Id = 0 /\ st.phase # "entering" /\ disk.phase # "entering"
      /\ Carried(st, book, Owned) BY <1>1, <1>2 DEF Serves, Offers, Closes, Fit, FitAt, Files
<1>4. c.pc = "closed" /\ c.why = "" BY DEF Idle
<1>. HIDE DEF c
<1>5. ASSUME NEW id \in Orders, PlaceOrder("sell", j.amt, Tp1Level, id), Tick(st, disk), Become("run", c)
      PROVE  Reaches
  <2>1. Adds(book, book', Unused, id, "sell", j.amt) BY <1>5, PlaceAdds DEF Orders
  <2>2. Ready
    <3>1. ASSUME Single("sell") PROVE j.amt >= Owned
      <4>1. spec.full BY <3>1 DEF Single
      <4>2. Owned <= 0 /\ j.amt >= 1 /\ Owned \in Int /\ j.amt \in Int BY <1>2, <1>3, <4>1
      <4>. QED BY <4>2
    <3>. QED BY <1>1, <1>2, <1>3, <2>1, <3>1, AddReady
  <2>3. Named(st) \cap Unused = {} /\ Named(disk) \cap Unused = {} BY Unreferred
  <2>4. Backed(st, book', Owned) /\ Backed(disk, book', Owned) BY <1>2, <1>3, <2>1, <2>3, AddBacked
  <2>5. Buying(book') \subseteq Buying(book) BY <2>1 DEF Adds, Buying, NoOrder
  <2>6. Carried(st, book', Owned) /\ Stored(disk, book', Owned) BY <1>2, <1>3, <2>5 DEF Carried, Stored
  <2>7. Firm(st) /\ OnFile(disk) BY <1>2, <1>3, <2>4, <2>6 DEF Firm, OnFile, Target
  <2>8. Serves(st, c, book', Owned) /\ Offers(st, c, book', Owned)
    BY <1>3, <1>4, <2>6 DEF Serves, Offers, Early, Waits, Sells
  <2>9. Free' <= Wallet
    <3>1. Free' = Free - j.amt BY <1>1, <1>2, <2>1, AddFree DEF world
    <3>2. Free = coins - Total(Claims(book)) /\ Total(Claims(book)) \in Int /\ Total(Claims(book)) >= 0
      BY <1>2, FreeOf, LockedNat
    <3>3. Owned = coins - Wallet /\ Wallet \in Nat BY ConstantsAssumption DEF Owned
    <3>4. coins \in Int /\ j.amt \in Int /\ (j.amt >= Owned \/ Free <= j.amt) BY <1>2, <1>3
    <3>5. CASE j.amt >= Owned BY <3>1, <3>2, <3>3, <3>4, <3>5
    <3>6. CASE Free <= j.amt BY <3>1, <3>2, <3>3, <3>4, <3>6
    <3>. QED BY <3>4, <3>5, <3>6
  <2>10. Closes(c, Owned, Free') BY <1>4, <2>9 DEF Closes
  <2>. QED BY <1>5, <2>2, <2>7, <2>8, <2>10, CloseReaches DEF Tick
<1>6. CASE PlaceOrder("sell", j.amt, Tp1Level, 0) /\ TickThrows(st)
  <2>1. book' = book
    <3>1. PICK z : z = 0 /\ z \notin Orders BY DEF Orders
    <3>2. PlaceOrder("sell", j.amt, Tp1Level, z) BY <1>6, <3>1
    <3>. QED BY <3>1, <3>2, PlaceAdds
  <2>2. Thins(book, book') /\ Ready BY <1>1, <2>1, SameThins, ThinReady
  <2>3. Firm(st) /\ OnFile(disk) BY <1>1, <1>3, <2>2, Standing
  <2>. QED BY <1>6, <2>2, <2>3, ThrowsReach
<1>. QED BY <1>5, <1>6 DEF SellToUsd, Awaits, c

LEMMA CloseStepReaches == ASSUME Sane, Close PROVE Reaches
<1>. DEFINE j == job["run"]
<1>1. At("run", "closed") /\ UNCHANGED world /\ j.pc = "closed" /\ j.pc \notin Early /\ book' = book /\ ClosesFlat(st)
  BY DEF Close, At, Early
<1>2. Thins(book, book') /\ Ready /\ Free' = Free BY <1>1, SameThins, ThinReady, SameFree DEF world
<1>3. Firm(st) /\ Serves(st, j, book', Owned) /\ Closes(j, Owned, Free) BY <1>1, <1>2, Standing DEF Sane, Offered
<1>4. Free' <= Wallet /\ st.stopId = 0 /\ st.tp1Id = 0 BY <1>1, <1>2, <1>3 DEF Closes, Serves
<1>. QED BY <1>1, <1>2, <1>3, <1>4, ClosesReaches

----
\* The entry: nothing is sold before the bracket holds something.

LEMMA Enters ==
  ASSUME Sane, job["run"].pc \in Early \ {"idle"}, UNCHANGED world, Thins(book, book')
  PROVE  /\ Ready /\ Backed(st, book', Owned) /\ Backed(disk, book', Owned) /\ Stored(disk, book', Owned)
         /\ Serves(st, job["run"], book', Owned) /\ Unsold(book') /\ st.phase \in {"entering", "aborted"}
         /\ st.stopId = 0 /\ st.tp1Id = 0
         /\ job["run"].pc \in Waits => st.entryId # 0 /\ st.entryId \in Orders
<1>1. Ready BY ThinReady DEF Early
<1>2. /\ Offered /\ book \in Books /\ book' \in Books /\ Owned \in Int /\ st \in Brackets /\ disk \in Brackets
      /\ Agreed /\ Awaited BY Sanity DEF Sane
<1>3. Backed(st, book', Owned) /\ Backed(disk, book', Owned) BY <1>2, ThinBacked DEF Offered
<1>4. job["run"].pc \in Waits => st.entryId # 0 /\ st.entryId \in Orders BY <1>2, IdsOf DEF Awaited, Waits
<1>5. Serves(st, job["run"], book', Owned) BY <1>2, <1>4, ThinServes DEF Offered
<1>6. Unsold(book') /\ st.phase \in {"entering", "aborted"} BY <1>5 DEF Serves
<1>7. st.stopId = 0 BY <1>2 DEF Agreed, Fit, FitAt, Early
<1>8. st.tp1Id = 0
  <2>1. st.tp1Id # 0 => st.tp1Id \in Orders BY <1>2, IdsOf
  <2>. QED BY <1>3, <1>6, <2>1 DEF Backed, Unsold, OfSale
<1>9. Stored(disk, book', Owned)
  <2>1. Buying(book') \subseteq Buying(book) BY DEF Thins, Buying
  <2>. QED BY <1>2, <2>1 DEF Offered, Stored, Carried
<1>. QED BY <1>1, <1>3, <1>4, <1>5, <1>6, <1>7, <1>8, <1>9

\* An await of the entry, of a bracket that stays as it is.
LEMMA EarlyReaches ==
  ASSUME Ready, Backed(st, book', Owned), Backed(disk, book', Owned), Stored(disk, book', Owned),
         UNCHANGED <<st, disk, status>>, NEW c, Become("run", c), c.pc \in Early, c.why = "",
         Serves(st, c, book', Owned)
  PROVE Reaches
<1>1. Offers(st, c, book', Owned) /\ Files(disk, c) /\ Undone(c) BY DEF Offers, Files, Undone, Early, Sells
<1>. QED BY <1>1, JobReaches DEF Target

LEMMA AbortsReach == ASSUME Ready, st \in Brackets, Backed(st, book', Owned), failBracket PROVE Reaches
<1>. DEFINE T == [st EXCEPT !.phase = "aborted"]
<1>1. st' = T /\ status' = "skipped" /\ disk' = NoBracket /\ Become("run", Idle)
  BY DEF failBracket, clearPersistedBracket, Ended
<1>2. /\ T.entryId = st.entryId /\ T.stopId = st.stopId /\ T.tp1Id = st.tp1Id
      /\ T.phase = "aborted" /\ "aborted" \notin Holding BY DEF Brackets, Holding
<1>. HIDE DEF T
<1>3. Backed(T, book', Owned) /\ Target(T) BY <1>2 DEF Backed, Target
<1>4. Idle.pc = "idle" /\ Idle.why = "" BY DEF Idle
<1>5. Serves(T, Idle, book', Owned) /\ Offers(T, Idle, book', Owned) /\ Undone(Idle)
  BY <1>4 DEF Serves, Offers, Early, Waits, Sells, Undone
<1>. QED BY <1>1, <1>3, <1>5, NoBracketBacked, JobReaches

\* What the entry bought is the position.
LEMMA HeldReaches ==
  ASSUME Ready, st \in Brackets, Backed(st, book', Owned), Unsold(book'), st.phase \in {"entering", "aborted"},
         st.stopId = 0, st.tp1Id = 0, Buying(book') = {}, NEW n \in Int, Owned = n, n = book'[st.entryId].got,
         st.entryId # 0, Backed(disk, book', Owned), Stored(disk, book', Owned),
         st' = [Held(st, n) EXCEPT !.phase = "protected"], status' = status,
         disk' = disk \/ disk' = Image(Held(st, n)), Awaits("run", "protect", "first", 0, 0, 0)
  PROVE Reaches
<1>. DEFINE H == Held(st, n)
            T == [H EXCEPT !.phase = "protected"]
            c == [Idle EXCEPT !.pc = "protect", !.why = "first", !.last = 0, !.amt = 0, !.lvl = 0]
<1>1. /\ H.entryId = st.entryId /\ H.stopId = 0 /\ H.tp1Id = 0 /\ H.phase = st.phase /\ H.position = n /\ H.filled = n
      /\ T.entryId = st.entryId /\ T.stopId = 0 /\ T.tp1Id = 0 /\ T.phase = "protected" /\ T.position = n /\ T.filled = n
  BY DEF Held, Brackets
<1>2. Become("run", c) /\ c.pc = "protect" /\ c.why = "first" BY DEF Awaits, Idle
<1>3. st' = T OBVIOUS
<1>4. disk' = disk \/ disk' = NoBracket \/ (disk' = H /\ st.phase = "entering")
  <2>1. st.phase = "aborted" => Image(H) = NoBracket BY <1>1 DEF Image
  <2>2. Image(H) = H \/ Image(H) = NoBracket BY ImageOf
  <2>. QED BY <2>1, <2>2
<1>. HIDE DEF H, T, c
<1>5. Carried(T, book', Owned) BY <1>1 DEF Carried
<1>6. Backed(T, book', Owned) /\ Target(T) BY <1>1, <1>5 DEF Backed, Target
<1>7. st.phase = "entering" => Backed(H, book', Owned) /\ Stored(H, book', Owned) BY <1>1 DEF Backed, Stored, Holding
<1>8. Backed(disk', book', Owned) /\ Stored(disk', book', Owned) /\ Files(disk', c)
  BY <1>2, <1>4, <1>7, NoBracketBacked DEF Files
<1>9. Serves(T, c, book', Owned) /\ Offers(T, c, book', Owned) /\ Undone(c)
  BY <1>1, <1>2, <1>5 DEF Serves, Offers, Early, Waits, Sells, Exits, Undone
<1>. QED BY <1>2, <1>3, <1>6, <1>8, <1>9, JobReaches

\* The entry that no longer rests was the only one.
LEMMA Bought ==
  ASSUME NEW b, NEW w, NEW S, Backed(S, b, w), S.entryId # 0, b[S.entryId].st # "live"
  PROVE Buying(b) = {} BY DEF Backed, Buying

LEMMA AdoptsReach ==
  ASSUME Sane, Ready, UNCHANGED world, Thins(book, book'), NEW n, n = book'[st.entryId].got, job["run"].pc \in Waits,
         book'[st.entryId].st # "live", adoptPartialEntry(n)
  PROVE Reaches
<1>1. job["run"].pc \in Early \ {"idle"} BY DEF Waits, Early
<1>2. /\ Backed(st, book', Owned) /\ Backed(disk, book', Owned) /\ Stored(disk, book', Owned)
      /\ Serves(st, job["run"], book', Owned) /\ Unsold(book') /\ st.phase \in {"entering", "aborted"}
      /\ st.stopId = 0 /\ st.tp1Id = 0 /\ st.entryId # 0 /\ st \in Brackets /\ Owned \in Int BY <1>1, Enters, Now
<1>3. Owned = n /\ n \in Int /\ Buying(book') = {} BY <1>2, Bought DEF Serves
<1>4. CASE failBracket BY <1>2, <1>4, AbortsReach
<1>5. CASE /\ st' = [Held(st, n) EXCEPT !.phase = "protected"]
           /\ Awaits("run", "protect", "first", 0, 0, 0) /\ UNCHANGED <<disk, status>>
  BY <1>2, <1>3, <1>5, HeldReaches
<1>. QED BY <1>4, <1>5 DEF adoptPartialEntry

LEMMA FindEntryReaches == ASSUME Sane, FindEntry PROVE Reaches
<1>. DEFINE c == [Idle EXCEPT !.pc = "enter", !.why = "", !.last = 0, !.amt = 0, !.lvl = 0]
<1>1. At("run", "find") /\ UNCHANGED world /\ job["run"].pc = "find" /\ book' = book /\ job["run"].pc \in Early \ {"idle"}
  BY ReadHere DEF FindEntry, At, Early
<1>2. Thins(book, book') /\ LiveOf("buy") = {} BY <1>1, SameThins, Sanity DEF Unsent, Entering, Unbought
<1>3. /\ Ready /\ Backed(st, book', Owned) /\ Backed(disk, book', Owned) /\ Stored(disk, book', Owned)
      /\ Serves(st, job["run"], book', Owned) BY <1>1, <1>2, Enters
<1>4. UNCHANGED <<st, disk, status>> /\ Become("run", c) BY <1>2, Answers DEF FindEntry, Awaits
<1>5. c.pc = "enter" /\ c.why = "" BY DEF Idle
<1>. HIDE DEF c
<1>6. Serves(st, c, book', Owned) /\ c.pc \in Early BY <1>1, <1>3, <1>5 DEF Serves, Early, Waits, Sells
<1>. QED BY <1>3, <1>4, <1>5, <1>6, EarlyReaches

LEMMA DropEntryReaches == ASSUME Sane, DropEntry PROVE Reaches
<1>. DEFINE j == job["run"]
            c == [Idle EXCEPT !.pc = "reread", !.why = "", !.last = 0, !.amt = j.amt, !.lvl = 0]
<1>1. At("run", "dropEntry") /\ UNCHANGED world /\ j.pc = "dropEntry" /\ j.pc \in Early \ {"idle"} /\ j.pc \in Waits
      /\ UNCHANGED <<st, disk, status>> /\ Become("run", c) /\ \E ok \in BOOLEAN : CancelOrder(st.entryId, ok)
  BY DEF DropEntry, At, Early, Waits, Awaits
<1>2. Thins(book, book') /\ (st.entryId \in Orders => book'[st.entryId].st # "live") BY <1>1, CancelThins
<1>3. /\ Ready /\ Backed(st, book', Owned) /\ Backed(disk, book', Owned) /\ Stored(disk, book', Owned)
      /\ Serves(st, j, book', Owned) /\ st.entryId \in Orders BY <1>1, <1>2, Enters
<1>4. c.pc = "reread" /\ c.why = "" BY DEF Idle
<1>. HIDE DEF c
<1>5. Serves(st, c, book', Owned) /\ c.pc \in Early BY <1>1, <1>2, <1>3, <1>4 DEF Serves, Early, Waits, Sells
<1>. QED BY <1>1, <1>3, <1>4, <1>5, EarlyReaches

LEMMA RereadEntryReaches == ASSUME Sane, RereadEntry PROVE Reaches
<1>1. At("run", "reread") /\ UNCHANGED world /\ job["run"].pc = "reread" /\ book' = book
      /\ job["run"].pc \in Early \ {"idle"} /\ job["run"].pc \in Waits BY ReadHere DEF RereadEntry, At, Early, Waits
<1>2. Thins(book, book') BY <1>1, SameThins
<1>3. Ready /\ Serves(st, job["run"], book', Owned) BY <1>1, <1>2, Enters
<1>4. PICK n : n = book[st.entryId].got OBVIOUS
<1>5. adoptPartialEntry(n) BY <1>4, Answers DEF RereadEntry
<1>6. book'[st.entryId].st # "live" BY <1>1, <1>3 DEF Serves
<1>. QED BY <1>1, <1>2, <1>3, <1>4, <1>5, <1>6, AdoptsReach

LEMMA PollEntryReaches == ASSUME Sane, PollEntry PROVE Reaches
<1>. DEFINE j == job["run"]
            o == st.entryId
            c == [Idle EXCEPT !.pc = "dropEntry", !.why = "", !.last = 0, !.amt = book[o].got, !.lvl = 0]
<1>1. At("run", "awaitEntry") /\ UNCHANGED world /\ j.pc = "awaitEntry" /\ book' = book
      /\ j.pc \in Early \ {"idle"} /\ j.pc \in Waits BY ReadHere DEF PollEntry, At, Early, Waits
<1>2. Thins(book, book') BY <1>1, SameThins
<1>3. /\ Ready /\ Backed(st, book', Owned) /\ Backed(disk, book', Owned) /\ Stored(disk, book', Owned)
      /\ Serves(st, j, book', Owned) /\ Unsold(book') /\ st.phase \in {"entering", "aborted"}
      /\ st.stopId = 0 /\ st.tp1Id = 0 /\ o # 0 BY <1>1, <1>2, Enters
<1>4. st \in Brackets /\ Owned \in Int BY <1>3, Now
<1>5. PICK n : n = book[o].got OBVIOUS
<1>6. Owned = n /\ n \in Int BY <1>1, <1>3, <1>4, <1>5 DEF Serves
<1>7. c.pc = "dropEntry" /\ c.why = "" /\ Idle.pc = "idle" /\ Idle.why = "" BY DEF Idle
<1>8. \/ /\ Filled(o) /\ persistBracket(Held(st, n)) /\ st' = [Held(st, n) EXCEPT !.phase = "protected"]
         /\ Awaits("run", "protect", "first", 0, 0, 0) /\ UNCHANGED status
      \/ Cancelled(o) /\ adoptPartialEntry(n)
      \/ Become("run", c) /\ UNCHANGED <<st, disk, status>>
      \/ Become("run", Idle) /\ UNCHANGED <<st, disk, status>> BY <1>5, Answers DEF PollEntry, Awaits, Ended
<1>. HIDE DEF c
<1>9. CASE /\ Filled(o) /\ persistBracket(Held(st, n)) /\ st' = [Held(st, n) EXCEPT !.phase = "protected"]
           /\ Awaits("run", "protect", "first", 0, 0, 0) /\ UNCHANGED status
  <2>1. Buying(book') = {} BY <1>1, <1>3, <1>9, Bought DEF Filled
  <2>2. disk' = Image(Held(st, n)) BY <1>9 DEF persistBracket
  <2>. QED BY <1>1, <1>3, <1>4, <1>5, <1>6, <1>9, <2>1, <2>2, HeldReaches
<1>10. CASE Cancelled(o) /\ adoptPartialEntry(n) BY <1>1, <1>2, <1>3, <1>5, <1>10, AdoptsReach DEF Cancelled
<1>11. CASE Become("run", c) /\ UNCHANGED <<st, disk, status>>
  <2>1. Serves(st, c, book', Owned) /\ c.pc \in Early BY <1>1, <1>3, <1>7 DEF Serves, Early, Waits, Sells
  <2>. QED BY <1>3, <1>7, <1>11, <2>1, EarlyReaches
<1>12. CASE Become("run", Idle) /\ UNCHANGED <<st, disk, status>>
  <2>1. Serves(st, Idle, book', Owned) /\ Idle.pc \in Early BY <1>7 DEF Serves, Early, Waits, Sells
  <2>. QED BY <1>3, <1>7, <1>12, <2>1, EarlyReaches
<1>. QED BY <1>8, <1>9, <1>10, <1>11, <1>12

LEMMA EnterMarketReaches == ASSUME Sane, EnterMarket PROVE Reaches
<1>. DEFINE j == job["run"]
<1>1. At("run", "enter") /\ UNCHANGED world /\ j.pc = "enter" /\ j.pc \in Early \ {"idle"} /\ j.pc # "idle"
  BY DEF EnterMarket, At, Early
<1>2. CASE failBracket /\ UNCHANGED <<book, upsets>>
  <2>1. Thins(book, book') BY <1>2, SameThins
  <2>2. Ready /\ Backed(st, book', Owned) /\ st \in Brackets BY <1>1, <2>1, Enters, Sanity
  <2>. QED BY <1>2, <2>2, AbortsReach
<1>3. ASSUME NEW id \in Orders, PlaceOrder("buy", Buy, Entry, id), EntryLoop([st EXCEPT !.entryId = id]),
             persistBracket([st EXCEPT !.entryId = id]), UNCHANGED status
      PROVE  Reaches
  <2>1. Adds(book, book', Unused, id, "buy", Buy) /\ id # 0 /\ Buy \in Int
    BY <1>3, PlaceAdds, ConstantsAssumption DEF Orders
  <2>2. /\ Booked(book, Owned) /\ Backed(st, book, Owned) /\ Serves(st, j, book, Owned) /\ Owned \in Int
        /\ book \in Books /\ book' \in Books /\ st \in Brackets /\ Agreed /\ Unsent BY Sanity DEF Sane, Offered
  <2>3. Unsold(book) /\ Owned = 0 /\ st.phase \in {"entering", "aborted"} /\ st.stopId = 0 /\ Buying(book) = {}
    <3>1. LiveOf("buy") = {} /\ 0 \notin Orders BY <1>1, <2>2 DEF Unsent, Entering, Unbought, Orders
    <3>. QED BY <1>1, <2>2, <3>1 DEF Serves, Agreed, Fit, FitAt, Buying, LiveOf, Live
  <2>4. st.tp1Id = 0
    <3>1. st.tp1Id # 0 => st.tp1Id \in Orders BY <2>2, IdsOf
    <3>. QED BY <2>2, <2>3, <3>1 DEF Backed, Unsold, OfSale
  <2>5. Booked(book', Owned) BY <2>1, <2>2, <2>3, AddBooked
  <2>6. Ready BY <1>1, <2>1, <2>5, AddFrames DEF Ready, world
  <2>. DEFINE S == [st EXCEPT !.entryId = id]
  <2>7. S.entryId = id /\ S.stopId = 0 /\ S.tp1Id = 0 /\ S.phase = st.phase /\ EntryLoop(S) /\ disk' = Image(S)
    BY <1>3, <2>2, <2>3, <2>4 DEF Brackets, persistBracket
  <2>. HIDE DEF S
  <2>8. PICK c \in Jobs : Become("run", c) /\ c.why = "" /\ ((c = Idle /\ aborted) \/ c.pc = "awaitEntry")
    BY <2>7, EntryLoopOf
  <2>9. st' = S /\ c.pc \in Early /\ c.pc \in {"idle", "awaitEntry"}
    <3>1. st' = S /\ Idle.pc = "idle" BY <2>7, EntryLoopOf DEF Idle
    <3>. QED BY <2>8, <3>1 DEF Early
  <2>10. /\ Unsold(book') /\ book'[id].kind = "buy" /\ book'[id].got = 0 /\ Buying(book') \subseteq {id}
    BY <2>1, <2>3 DEF Adds, Unsold, OfSale, Buying, NoOrder
  <2>11. Backed(S, book', Owned) /\ (S.phase = "entering" => Stored(S, book', Owned))
    BY <2>1, <2>3, <2>7, <2>10 DEF Backed, Stored, Holding
  <2>12. disk' = NoBracket \/ (disk' = S /\ S.phase = "entering") BY <2>3, <2>7 DEF Image
  <2>13. Backed(disk', book', Owned) /\ Stored(disk', book', Owned) /\ Files(disk', c)
    BY <2>9, <2>11, <2>12, NoBracketBacked DEF Files
  <2>14. Serves(S, c, book', Owned) /\ Offers(S, c, book', Owned) /\ Undone(c)
    BY <2>3, <2>7, <2>8, <2>9, <2>10 DEF Serves, Offers, Early, Waits, Sells, Undone
  <2>15. Target(S) BY <2>4 DEF Target
  <2>. QED BY <1>3, <2>6, <2>8, <2>9, <2>11, <2>13, <2>14, <2>15, JobReaches
<1>4. ~PlaceOrder("buy", Buy, Entry, 0)
  <2>1. PICK z : z = 0 /\ z \notin Orders BY DEF Orders
  <2>2. ~PlaceOrder("buy", Buy, Entry, z) BY <2>1, PlaceAdds
  <2>. QED BY <2>1, <2>2
<1>. QED BY <1>2, <1>3, <1>4 DEF EnterMarket

----
\* The steps beside the coroutine of the bracket.

LEMMA Offering ==
  ASSUME Sane
  PROVE  /\ Booked(book, Owned) /\ Backed(st, book, Owned) /\ Backed(disk, book, Owned)
         /\ Serves(st, job["run"], book, Owned) /\ Offers(st, job["run"], book, Owned)
         /\ Closes(job["run"], Owned, Free) /\ Files(disk, job["run"]) /\ Stored(disk, book, Owned)
         /\ Aims(st, job["kill"], book) /\ Done(status, st, disk, job["run"], book, Owned, Free)
         /\ Named(st) \subseteq Ids /\ (\A o \in Orders : o # 0)
         /\ \A o \in Orders : book[o].st = "live" => book[o].kind \in {"buy", "stop", "sell"}
<1>1. Offered /\ book \in Books /\ st \in Brackets BY Sanity DEF Sane
<1>2. \A o \in Orders : book[o].st = "live" => book[o].kind \in {"buy", "stop", "sell"}
  BY <1>1 DEF Offered, Booked, Books, OrderRec
<1>3. Named(st) \subseteq Ids /\ \A o \in Orders : o # 0 BY <1>1, IdsOf DEF Orders
<1>. QED BY <1>1, <1>2, <1>3 DEF Offered

LEMMA KillStays ==
  ASSUME Sane, UNCHANGED <<spec, st, status, disk, book, coins>>, job'["run"] = job["run"], NEW k, job'["kill"] = k,
         Aims(st, k, book)
  PROVE Offered'
<1>1. Owned' = Owned /\ Free' = Free BY SameFree DEF Owned
<1>2. PICK c : c = job["run"] OBVIOUS
<1>3. Concluded(c, k) BY <1>1, <1>2, Offering DEF Concluded
<1>. QED BY <1>3, Concludes

LEMMA StillOffers == ASSUME Sane, PositionDeadline \/ UNCHANGED vars PROVE Offered'
<1>1. UNCHANGED <<spec, st, status, disk, book, coins, job>> BY DEF PositionDeadline, vars
<1>2. PICK k : k = job["kill"] OBVIOUS
<1>. QED BY <1>1, <1>2, Offering, KillStays

LEMMA KillOffers == ASSUME Sane, Kill PROVE Offered'
<1>. DEFINE k == [Idle EXCEPT !.pc = "sweep", !.why = "kill", !.ids = Named(st) \ {0}]
<1>1. UNCHANGED <<spec, st, status, disk, book, coins>> /\ Become("kill", k) BY DEF Kill, world
<1>2. k.ids = Named(st) \ {0} BY DEF Idle
<1>. HIDE DEF k
<1>3. job'["run"] = job["run"] /\ job'["kill"] = k BY <1>1, Sanity DEF Become
<1>4. Aims(st, k, book) BY <1>2, Offering DEF Aims, Backed, Named
<1>. QED BY <1>1, <1>3, <1>4, KillStays

\* A kill of a bracket that knows no order, and has none that buys, finds nothing to cancel.
LEMMA KillFindsNone ==
  ASSUME Sane, At("kill", "sweep"), Buying(book) = {}, st.stopId = 0, st.tp1Id = 0, NEW o \in job["kill"].ids
  PROVE ~Live(o)
<1>1. SUFFICES ASSUME Live(o) PROVE FALSE OBVIOUS
<1>2. o \in Orders /\ o # 0 /\ book[o].st = "live" /\ book[o].kind \in {"buy", "stop", "sell"}
  BY <1>1, KillIds, Offering DEF Live
<1>3. book[o].kind # "buy" BY <1>2 DEF Buying
<1>4. book[o].kind # "stop"
  <2>1. status # "gone" BY Sanity DEF Absent, At
  <2>2. Stops \subseteq {0} BY <2>1, Sanity DEF Agreed
  <2>. QED BY <1>1, <1>2, <2>2 DEF Stops, LiveOf
<1>5. book[o].kind # "sell" BY <1>2, Offering DEF Aims
<1>. QED BY <1>2, <1>3, <1>4, <1>5

LEMMA SweepKillOffers == ASSUME Sane, Sweep("kill") PROVE Offered'
<1>. DEFINE o == Min(job["kill"].ids)
            k == [job["kill"] EXCEPT !.ids = @ \ {o}]
<1>1. /\ UNCHANGED <<spec, st, status, disk, coins>> /\ Become("kill", k) /\ At("kill", "sweep") /\ job["kill"].ids # {}
      /\ \E ok \in BOOLEAN : CancelOrder(o, ok) BY DEF Sweep, world
<1>2. k.ids = job["kill"].ids \ {o} BY Sanity DEF Jobs
<1>3. job'["run"] = job["run"] /\ job'["kill"] = k BY <1>1, Sanity DEF Become
<1>4. o \in job["kill"].ids
  <2>1. job["kill"].ids \subseteq Nat BY KillIds DEF Orders
  <2>. QED BY <1>1, <2>1, MinOf
<1>5. Thins(book, book') /\ (~Live(o) => book' = book) BY <1>1, CancelThins DEF CancelOrder
<1>. HIDE DEF o, k
<1>6. Aims(st, k, book) /\ Aims(st, k, book')
  <2>1. Frames BY <1>5, ThinFrames
  <2>. QED BY <1>2, <2>1, Offering DEF Aims, Frames
<1>7. CASE book' = book BY <1>1, <1>3, <1>6, <1>7, KillStays
<1>8. CASE Live(o)
  <2>. DEFINE j == job["run"]
  <2>1. /\ book \in Books /\ book' \in Books /\ Owned \in Int /\ st \in Brackets /\ disk \in Brackets
        /\ Awaited /\ Owned' = Owned BY <1>1, Sanity DEF Owned
  <2>2. Buying(book) = {} => st.stopId # 0 \/ st.tp1Id # 0 BY <1>1, <1>4, <1>8, KillFindsNone
  <2>3. Buying(book') \subseteq Buying(book) /\ (Unsold(book) => Unsold(book'))
    BY <1>5 DEF Thins, Buying, Unsold, OfSale
  <2>4. Booked(book', Owned) /\ Backed(st, book', Owned) /\ Backed(disk, book', Owned)
    BY <1>5, <2>1, Offering, ThinBooked, ThinBacked
  <2>5. j.pc \in Waits => st.entryId # 0 BY <2>1 DEF Awaited, Waits
  <2>6. Serves(st, j, book', Owned) /\ Offers(st, j, book', Owned)
    BY <1>5, <2>1, <2>5, Offering, ThinServes, ThinOffers
  <2>7. Stored(disk, book', Owned) BY <2>3, Offering DEF Stored, Carried
  <2>8. j.pc \notin {"closing", "closed"} BY <2>2, Offering DEF Serves, Early, Carried
  <2>9. Done(status, st, disk, j, book', Owned, Free') BY <2>2, <2>3, Offering DEF Done
  <2>10. PICK c : c = j OBVIOUS
  <2>11. Concluded(c, k)
    BY <1>1, <1>3, <1>6, <2>1, <2>4, <2>6, <2>7, <2>8, <2>9, <2>10, Offering DEF Concluded, Closes
  <2>. QED BY <2>11, Concludes
<1>. QED BY <1>5, <1>7, <1>8

LEMMA SweptKillOffers == ASSUME Sane, Swept("kill") PROVE Offered'
<1>. DEFINE T == [st EXCEPT !.phase = "aborted"]
<1>1. job["kill"].why = "kill" /\ At("kill", "sweep") BY Sanity DEF Swept, At, Whose
<1>2. /\ UNCHANGED <<spec, status, book, coins>> /\ st' = T /\ disk' = NoBracket /\ Become("kill", Idle)
  BY <1>1 DEF Swept, world, clearPersistedBracket
<1>3. job'["run"] = job["run"] /\ job'["kill"] = Idle /\ Idle.ids = {} BY <1>2, Sanity DEF Become, Idle
<1>4. /\ T.entryId = st.entryId /\ T.stopId = st.stopId /\ T.tp1Id = st.tp1Id
      /\ T.phase = "aborted" /\ T.position = st.position /\ T.filled = st.filled /\ "aborted" \notin Holding
  BY Sanity DEF Brackets, Holding
<1>. HIDE DEF T
<1>5. Owned' = Owned /\ Free' = Free BY <1>2, SameFree DEF Owned
<1>6. PICK c : c = job["run"] OBVIOUS
<1>7. Backed(T, book, Owned) BY <1>4, Offering DEF Backed
<1>8. Serves(T, c, book, Owned) BY <1>4, <1>6, Offering DEF Serves, Carried
<1>9. Offers(T, c, book, Owned) BY <1>4, <1>6, Offering DEF Offers
<1>10. Done(status, T, NoBracket, c, book, Owned, Free) BY <1>4, <1>6, Offering DEF Done, NoBracket
<1>11. Concluded(c, Idle)
  BY <1>2, <1>3, <1>5, <1>6, <1>7, <1>8, <1>9, <1>10, Offering, NoBracketBacked DEF Concluded, Aims
<1>12. PICK k : k = Idle OBVIOUS
<1>. QED BY <1>11, <1>12, Concludes

LEMMA LockOffers == ASSUME Sane, NEW on, Lock(on) PROVE Offered'
<1>. DEFINE T == [st EXCEPT !.locked = on]
<1>1. UNCHANGED <<spec, status, book, coins, job>> /\ st' = T /\ disk' = Image(st') /\ st.phase # "none"
  BY DEF Lock, world, persistBracket
<1>2. /\ T.entryId = st.entryId /\ T.stopId = st.stopId /\ T.tp1Id = st.tp1Id
      /\ T.phase = st.phase /\ T.position = st.position /\ T.filled = st.filled
      /\ st.phase \in {"entering", "flat", "aborted"} \cup Holding BY <1>1, Sanity DEF Brackets, Phase, Holding
<1>. HIDE DEF T
<1>3. Owned' = Owned /\ Free' = Free BY <1>1, SameFree DEF Owned
<1>4. PICK c, k : c = job["run"] /\ k = job["kill"] OBVIOUS
<1>5. Backed(T, book, Owned) /\ Aims(T, k, book) BY <1>2, <1>4, Offering DEF Backed, Carried, Aims
<1>6. Serves(T, c, book, Owned) BY <1>2, <1>4, Offering DEF Serves, Carried
<1>7. Offers(T, c, book, Owned) BY <1>2, <1>4, Offering DEF Offers
<1>8. disk' = NoBracket \/ (disk' = T /\ T.phase \in {"entering"} \cup Holding) BY <1>1, <1>2 DEF Image
<1>9. T.phase \in Holding => Carried(T, book, Owned) BY <1>5 DEF Backed
<1>10. T.phase = "entering" => c.pc \in Early BY <1>2, <1>4, Sanity DEF Agreed, Fit, FitAt
<1>11. Backed(disk', book, Owned) /\ Stored(disk', book, Owned) /\ Files(disk', c)
  BY <1>5, <1>8, <1>9, <1>10, NoBracketBacked DEF Stored, Files
<1>12. Done(status, T, disk', c, book, Owned, Free) BY <1>2, <1>4, <1>8, Offering DEF Done, NoBracket
<1>13. Concluded(c, k) BY <1>1, <1>3, <1>4, <1>5, <1>6, <1>7, <1>11, <1>12, Offering DEF Concluded
<1>. QED BY <1>13, Concludes

----
\* The bracket that begins, that is revived or that a restart finds.

LEMMA StartBacked ==
  ASSUME NEW S \in Starts, NEW w, Backed(S, book, w), S.phase # "entering" => Carried(S, book, w)
  PROVE  LET named == [S EXCEPT !.client = TRUE] IN
         /\ Backed(named, book, w) /\ Stored(Image(named), book, w) /\ Backed(Image(named), book, w)
         /\ \A k : Aims(S, k, book) => Aims(named, k, book)
         /\ named.entryId = S.entryId /\ named.stopId = S.stopId /\ named.tp1Id = S.tp1Id
         /\ named.phase = S.phase /\ named.position = S.position /\ named.filled = S.filled
<1>. DEFINE named == [S EXCEPT !.client = TRUE]
<1>1. /\ named.entryId = S.entryId /\ named.stopId = S.stopId /\ named.tp1Id = S.tp1Id
      /\ named.phase = S.phase /\ named.position = S.position /\ named.filled = S.filled BY Called
<1>2. Image(named) = named \/ Image(named) = NoBracket BY ImageOf
<1>. HIDE DEF named
<1>3. Backed(named, book, w) /\ Stored(named, book, w) /\ \A k : Aims(S, k, book) => Aims(named, k, book)
  BY <1>1 DEF Backed, Stored, Carried, Aims
<1>4. Stored(Image(named), book, w) /\ Backed(Image(named), book, w) BY <1>2, <1>3, NoBracketBacked
<1>. QED BY <1>1, <1>3, <1>4 DEF named

LEMMA StartServes ==
  ASSUME NEW S \in Brackets, NEW w, NEW c, Begins(S, c), Backed(S, book, w),
         S.phase # "entering" => Carried(S, book, w)
  PROVE Serves(S, c, book, w) /\ Offers(S, c, book, w)
<1>1. CASE c.pc \in {"find", "enter"} /\ S.phase = "entering" /\ S.entryId = 0 /\ c.why = ""
  <2>1. w = 0 /\ Unsold(book) BY <1>1 DEF Backed
  <2>2. Serves(S, c, book, w) BY <1>1, <2>1 DEF Serves, Early, Waits, Sells
  <2>. QED BY <1>1, <2>2 DEF Offers, Sells
<1>2. CASE c.pc = "awaitEntry" /\ S.phase = "entering" /\ S.entryId # 0 /\ c.why = ""
  <2>1. w = book[S.entryId].got /\ book[S.entryId].kind = "buy" /\ Unsold(book) BY <1>2 DEF Backed
  <2>2. Serves(S, c, book, w) BY <1>2, <2>1 DEF Serves, Early, Waits, Sells
  <2>. QED BY <1>2, <2>2 DEF Offers, Sells
<1>3. CASE c.pc = "protect" /\ S.phase = "protected" /\ S.stopId = 0 /\ S.tp1Id = 0 /\ c.why = "again"
  <2>1. Carried(S, book, w) BY <1>3
  <2>2. Serves(S, c, book, w) BY <1>3, <2>1 DEF Serves, Early, Waits, Sells
  <2>. QED BY <1>3, <2>2 DEF Offers, Sells
<1>4. CASE c.pc = "asleep" /\ S.phase # "entering" /\ c.why = ""
  <2>1. Serves(S, c, book, w) BY <1>4 DEF Serves, Early, Waits, Sells
  <2>. QED BY <1>4, <2>1 DEF Offers, Sells
<1>. QED BY <1>1, <1>2, <1>3, <1>4 DEF Begins

LEMMA StartOffers ==
  ASSUME Sane, UNCHANGED <<spec, coins, book>>, NEW S \in Starts, NEW J \in [Procs -> Jobs], runBracket(S, J),
         Backed(S, book, Owned), S.phase # "entering" => Carried(S, book, Owned),
         disk.phase = "entering" => S.phase = "entering", Aims(S, J["kill"], book)
  PROVE Offered'
<1>. DEFINE pc == FirstAwait(S)
            why == IF pc = "protect" THEN "again" ELSE ""
            c == [Idle EXCEPT !.pc = pc, !.why = why]
            named == [S EXCEPT !.client = TRUE]
<1>1. status' = "executing" /\ job' = [J EXCEPT !["run"] = c] BY DEF runBracket
<1>2. (st' = named /\ disk' = Image(named)) \/ (st' = S /\ disk' = disk /\ S \in Brackets)
  BY Called DEF runBracket, persistBracket
<1>3. c.pc = pc /\ c.why = why BY DEF Idle
<1>. HIDE DEF c, named
<1>8. Begins(S, c) /\ Begins(named, c)
  <2>1. /\ named.entryId = S.entryId /\ named.stopId = S.stopId /\ named.tp1Id = S.tp1Id /\ named.phase = S.phase
    BY Called DEF named
  <2>2. CASE S.phase = "entering"
    <3>1. pc \in {"find", "enter", "awaitEntry"} /\ (pc = "awaitEntry" <=> S.entryId # 0) BY <2>2 DEF FirstAwait
    <3>2. pc # "protect" /\ (pc = "awaitEntry" \/ pc \in {"find", "enter"}) BY <3>1
    <3>3. why = "" BY <3>2
    <3>. QED BY <1>3, <2>1, <2>2, <3>1, <3>2, <3>3 DEF Begins
  <2>3. CASE S.phase = "protected" /\ S.stopId = 0 /\ S.tp1Id = 0
    <3>1. pc = "protect" BY <2>3 DEF FirstAwait
    <3>2. why = "again" BY <3>1
    <3>. QED BY <1>3, <2>1, <2>3, <3>1, <3>2 DEF Begins
  <2>4. CASE S.phase # "entering" /\ ~(S.phase = "protected" /\ S.stopId = 0 /\ S.tp1Id = 0)
    <3>1. pc = "asleep" BY <2>4 DEF FirstAwait
    <3>2. why = "" BY <3>1
    <3>. QED BY <1>3, <2>1, <2>4, <3>1, <3>2 DEF Begins
  <2>. QED BY <2>2, <2>3, <2>4
<1>. HIDE DEF pc, why
<1>4. PICK k : k = J["kill"] OBVIOUS
<1>5. job'["run"] = c /\ job'["kill"] = k BY <1>1, <1>4 DEF Procs
<1>6. Owned' = Owned /\ Free' = Free BY SameFree DEF Owned
<1>7. /\ Backed(named, book, Owned) /\ Stored(Image(named), book, Owned) /\ Backed(Image(named), book, Owned)
      /\ Aims(named, k, book)
      /\ named.entryId = S.entryId /\ named.stopId = S.stopId /\ named.tp1Id = S.tp1Id
      /\ named.phase = S.phase /\ named.position = S.position /\ named.filled = S.filled
  BY <1>4, StartBacked DEF named
<1>9. named \in Brackets /\ (named.phase # "entering" => Carried(named, book, Owned))
  <2>1. named \in Brackets BY Called DEF named
  <2>. QED BY <1>7, <2>1 DEF Carried
<1>10. Serves(st', c, book, Owned) /\ Offers(st', c, book, Owned)
  <2>1. CASE st' = S /\ S \in Brackets BY <1>8, <2>1, StartServes
  <2>2. CASE st' = named BY <1>7, <1>8, <1>9, <2>2, StartServes
  <2>. QED BY <1>2, <2>1, <2>2
<1>11. Backed(st', book, Owned) /\ Backed(disk', book, Owned) /\ Stored(disk', book, Owned) /\ Aims(st', k, book)
  BY <1>2, <1>4, <1>7, Offering
<1>12. Files(disk', c)
  <2>1. Image(named).phase = "entering" => S.phase = "entering" BY <1>7, ImageOf DEF NoBracket
  <2>. QED BY <1>2, <1>8, <2>1 DEF Files, Begins, Early
<1>13. Closes(c, Owned, Free) /\ Done(status', st', disk', c, book, Owned, Free)
  BY <1>1, <1>8 DEF Closes, Done, Begins
<1>14. Concluded(c, k) BY <1>5, <1>6, <1>10, <1>11, <1>12, <1>13, Offering DEF Concluded
<1>. QED BY <1>14, Concludes

LEMMA ConfirmOffers == ASSUME Sane, Confirm PROVE Offered'
<1>1. /\ UNCHANGED <<spec, coins, book>> /\ runBracket(NewBracket, job) /\ status = "pending"
      /\ job \in [Procs -> Jobs] /\ disk = NoBracket /\ st = NoBracket BY Rec, Sanity DEF Confirm, Absent
<1>2. NewBracket.phase = "entering" /\ NewBracket.entryId = 0 /\ NewBracket.stopId = 0 /\ NewBracket.tp1Id = 0
      /\ NoBracket.tp1Id = 0 /\ "entering" \notin Holding BY DEF NewBracket, NoBracket, Holding
<1>3. Unsold(book) /\ Owned = 0 BY <1>1, Offering DEF Done
<1>4. Backed(NewBracket, book, Owned) BY <1>2, <1>3 DEF Backed
<1>5. Aims(NewBracket, job["kill"], book) BY <1>1, <1>2, Offering DEF Aims
<1>. QED BY <1>1, <1>2, <1>4, <1>5, Starters, StartOffers

LEMMA ReviveOffers == ASSUME Sane, Revive PROVE Offered'
<1>1. /\ UNCHANGED <<spec, coins, book>> /\ runBracket(st, job) /\ status = "failed" /\ st.phase \in Holding
      /\ st \in Brackets /\ job \in [Procs -> Jobs] BY Sanity DEF Revive
<1>2. Backed(st, book, Owned) /\ Aims(st, job["kill"], book) /\ disk.phase # "entering" /\ Carried(st, book, Owned)
  BY <1>1, Offering DEF Done, Backed
<1>. QED BY <1>1, <1>2, Starters, StartOffers

LEMMA RestartOffers == ASSUME Sane, Restart PROVE Offered'
<1>1. UNCHANGED <<spec, coins, book>> BY DEF Restart
<1>2. NoJobs \in [Procs -> Jobs] /\ NoJobs["run"] = Idle /\ NoJobs["kill"] = Idle BY Rec DEF NoJobs, Procs
<1>0. Idle.pc = "idle" /\ Idle.why = "" /\ Idle.ids = {} BY DEF Idle
<1>3. CASE disk = NoBracket /\ st' = NoBracket /\ job' = NoJobs /\ status' = "gone" /\ disk' = disk
  <2>1. Owned' = Owned /\ Free' = Free BY <1>1, SameFree DEF Owned
  <2>2. PICK c : c = Idle OBVIOUS
  <2>3. Serves(NoBracket, c, book, Owned) /\ Offers(NoBracket, c, book, Owned)
    BY <1>0, <2>2 DEF Serves, Offers, Early, Waits, Sells
  <2>4. PICK D, k : D = NoBracket /\ k = Idle OBVIOUS
  <2>5. /\ Backed(D, book, Owned) /\ Stored(D, book, Owned) /\ Files(D, c)
        /\ Closes(c, Owned, Free) /\ Aims(D, k, book) /\ Done(status', D, D, c, book, Owned, Free)
    BY <1>0, <1>3, <2>2, <2>4, NoBracketBacked DEF Closes, Aims, Done
  <2>6. Concluded(c, k) BY <1>1, <1>2, <1>3, <2>1, <2>2, <2>3, <2>4, <2>5, Offering DEF Concluded
  <2>. QED BY <2>6, Concludes
<1>4. CASE disk # NoBracket /\ runBracket(disk, NoJobs)
  <2>1. Backed(disk, book, Owned) /\ (disk.phase # "entering" => Carried(disk, book, Owned)) /\ disk \in Brackets
    BY <1>4, Offering, Sanity DEF Stored
  <2>2. Aims(disk, NoJobs["kill"], book) BY <1>0, <1>2 DEF Aims
  <2>. QED BY <1>1, <1>2, <1>4, <2>1, <2>2, Starters, StartOffers
<1>. QED BY <1>3, <1>4 DEF Restart, Resumes

LEMMA TradeTrades ==
  ASSUME Sane, NEW o \in Orders, Trade(o)
  PROVE  /\ Trades(book, book', o) /\ UNCHANGED <<spec, st, status, job, disk>>
         /\ Owned' = IF book[o].kind = "buy" THEN Owned + 1 ELSE Owned - 1
<1>1. book \in Books /\ book' \in Books /\ coins \in Int /\ Wallet \in Int BY Sanity
<1>2. book[o].amt \in Int /\ book[o].got \in Int /\ Left(o) = Rest(book, o) BY <1>1, BookOf DEF Left, Rest
<1>3. /\ book[o].st = "live" /\ book'[o].kind = book[o].kind /\ book'[o].amt = book[o].amt
      /\ book'[o].got = book[o].got + 1
      /\ book'[o].st = IF Left(o) = 1 THEN "filled" ELSE "live"
      /\ \A x \in Orders : x # o => book'[x] = book[x] BY <1>1 DEF Trade, Live, Books, OrderRec
<1>4. Rest(book', o) = Rest(book, o) - 1 BY <1>2, <1>3 DEF Rest
<1>5. Owned' = IF book[o].kind = "buy" THEN Owned + 1 ELSE Owned - 1 BY <1>1 DEF Trade, Owned
<1>. QED BY <1>2, <1>3, <1>4, <1>5 DEF Trade, Trades

\* An entry on order is the one that the bracket knows.
LEMMA BuyBacked ==
  ASSUME NEW b \in Books, NEW d \in Books, NEW w \in Int, NEW S \in Brackets, NEW o, Trades(b, d, o),
         b[o].kind = "buy", Unsold(b), Backed(S, b, w), S.phase = "entering" => S.entryId # 0
  PROVE  /\ Backed(S, d, w + 1) /\ S.phase \notin Holding /\ S.stopId = 0 /\ S.tp1Id = 0
         /\ S.entryId # 0 => S.entryId = o
<1>1. o \in Orders /\ o \in Buying(b) /\ d[o].kind = "buy" /\ d[o].got = b[o].got + 1 BY DEF Trades, Buying
<1>2. Buying(d) \subseteq Buying(b) /\ Unsold(d) BY DEF Trades, Buying, Unsold, OfSale
<1>3. S.phase \notin Holding BY <1>1 DEF Backed, Carried
<1>4. S.entryId # 0 => S.entryId = o BY <1>1 DEF Backed
<1>5. S.stopId = 0 /\ S.tp1Id = 0 BY IdsOf DEF Backed, Unsold, OfSale
<1>6. S.phase = "entering" => w + 1 = d[S.entryId].got BY <1>1, <1>4 DEF Backed
<1>7. S.phase # "exiting" BY <1>3 DEF Holding
<1>. QED BY <1>1, <1>2, <1>3, <1>4, <1>5, <1>6, <1>7 DEF Backed

LEMMA BuyOffers == ASSUME Sane, NEW o \in Orders, Trade(o), book[o].kind = "buy" PROVE Offered'
<1>. DEFINE w == Owned
<1>1. /\ Trades(book, book', o) /\ UNCHANGED <<spec, st, status, job, disk>> /\ Owned' = w + 1 /\ w \in Int
      /\ book \in Books /\ book' \in Books /\ st \in Brackets /\ disk \in Brackets BY TradeTrades, Sanity
<1>2. o \in Buying(book) /\ o \in LiveOf("buy") /\ o # 0 BY <1>1 DEF Trades, Buying, LiveOf, Live, Orders
<1>3. Unsold(book) BY <1>2, Offering DEF Booked
<1>4. ~Unbought BY <1>2 DEF Unbought
<1>5. /\ job["run"].pc \notin {"find", "enter"} /\ status # "pending"
      /\ disk # NoBracket => disk.entryId # 0
      /\ status # "gone" => st.entryId # 0 BY <1>4, Sanity DEF Unsent, Entering
<1>6. NoBracket.phase = "none" BY DEF NoBracket
<1>7. (st.phase = "entering" => st.entryId # 0) /\ (disk.phase = "entering" => disk.entryId # 0)
  BY <1>5, <1>6, Sanity DEF Absent
<1>8. Backed(st, book', w + 1) /\ Backed(disk, book', w + 1) /\ (st.entryId # 0 => st.entryId = o)
  BY <1>1, <1>3, <1>7, Offering, BuyBacked
<1>9. ~Carried(st, book, w) /\ ~Carried(disk, book, w) BY <1>2 DEF Carried
<1>10. job["run"].pc \in Early \ {"find", "enter"} /\ Stored(disk, book', w + 1) /\ status # "filled"
  BY <1>2, <1>5, <1>9, Offering DEF Serves, Stored, Done
<1>11. /\ Unsold(book') /\ book'[o].kind = "buy" /\ book'[o].got = book[o].got + 1
       /\ \A x \in Orders : book'[x].kind = "none" <=> book'[x].st = "none"
  BY <1>1, <1>3, Offering DEF Trades, Unsold, OfSale, Booked
<1>12. Booked(book', w + 1) BY <1>11 DEF Booked, Unsold
<1>13. job["run"].pc \in Waits => /\ st.entryId = o /\ job["run"].pc # "reread"
                                  /\ book'[st.entryId].kind = "buy" /\ w + 1 = book'[st.entryId].got
  <2>1. SUFFICES ASSUME job["run"].pc \in Waits
                 PROVE  /\ st.entryId = o /\ job["run"].pc # "reread" /\ w = book[st.entryId].got BY <1>11
  <2>2. st.entryId = o BY <1>8, <2>1, Sanity DEF Awaited, Waits
  <2>3. w = book[st.entryId].got /\ (job["run"].pc = "reread" => book[st.entryId].st # "live")
    BY <2>1, Offering DEF Serves
  <2>. QED BY <1>1, <2>2, <2>3 DEF Trades
<1>14. Serves(st, job["run"], book', w + 1) BY <1>10, <1>11, <1>13, Offering DEF Serves, Early, Waits, Sells
<1>15. Offers(st, job["run"], book', w + 1) BY <1>10, Offering DEF Offers, Early, Sells
<1>16. Aims(st, job["kill"], book')
  <2>1. \A x \in job["kill"].ids : x \in Orders BY KillIds
  <2>. QED BY <1>1, <1>11, <2>1, Offering DEF Aims, Trades
<1>17. Done(status, st, disk, job["run"], book', w + 1, Free') /\ Closes(job["run"], w + 1, Free')
  BY <1>5, <1>10, Offering DEF Done, Closes, Early
<1>18. PICK c, k : c = job["run"] /\ k = job["kill"] OBVIOUS
<1>. HIDE DEF w
<1>19. Concluded(c, k) BY <1>1, <1>8, <1>10, <1>12, <1>14, <1>15, <1>16, <1>17, <1>18, Offering DEF Concluded
<1>. QED BY <1>19, Concludes

\* What is sold is no longer held, and no longer offered.
LEMMA SaleBooked ==
  ASSUME NEW b \in Books, NEW d \in Books, NEW w \in Int, NEW o, Trades(b, d, o), OfSale(b, o), Booked(b, w)
  PROVE Booked(d, w - 1) /\ Buying(b) = {} /\ Buying(d) = {} /\ ~Unsold(b)
<1>1. o \in Orders /\ ~Unsold(b) /\ Buying(b) = {} BY DEF Trades, Unsold, Booked
<1>2. Buying(d) = {} BY <1>1 DEF Trades, Buying
<1>3. \A x \in Orders : d[x].kind = "none" <=> d[x].st = "none" BY DEF Booked, Trades
<1>4. ASSUME NEW x \in Orders, OfSale(d, x)
      PROVE  /\ d[x].st = "live" => Rest(d, x) >= 1
             /\ d[x].st = "filled" => Rest(d, x) = 0
             /\ Single(d[x].kind) => Whole(d, w - 1, x)
  <2>1. Rest(b, x) \in Int /\ Rest(d, x) \in Int BY BookOf
  <2>2. CASE x = o
    <3>1. /\ b[x].st = "live" /\ d[x].kind = b[x].kind /\ Rest(d, x) = Rest(b, x) - 1
          /\ Rest(b, x) = 1 => d[x].st = "filled"
          /\ Rest(b, x) # 1 => d[x].st = "live" BY <2>2 DEF Trades
    <3>2. Rest(b, x) >= 1 /\ (Single(d[x].kind) => Rest(b, x) >= w) BY <1>4, <2>2, <3>1 DEF Booked, Whole, OfSale
    <3>. QED BY <2>1, <3>1, <3>2 DEF Whole
  <2>3. CASE x # o
    <3>1. d[x] = b[x] /\ Rest(d, x) = Rest(b, x) /\ OfSale(b, x) BY <1>4, <2>3 DEF Trades, Rest, OfSale
    <3>2. /\ d[x].st = "live" => Rest(d, x) >= 1
          /\ d[x].st = "filled" => Rest(d, x) = 0
          /\ Single(d[x].kind) => Whole(d, w, x) BY <3>1 DEF Booked, Whole
    <3>. QED BY <2>1, <3>2 DEF Whole
  <2>. QED BY <2>2, <2>3
<1>. QED BY <1>1, <1>2, <1>3, <1>4 DEF Booked

LEMMA SaleCarried ==
  ASSUME NEW b, NEW d, NEW w \in Int, NEW S \in Brackets, Buying(d) = {}, Carried(S, b, w)
  PROVE Carried(S, d, w - 1) BY IdsOf DEF Carried

\* An order of the bracket may be the one that traded: it has one coin less to sell.
LEMMA SaleRest ==
  ASSUME NEW b \in Books, NEW d \in Books, NEW o, Trades(b, d, o), NEW x \in Orders
  PROVE  /\ Rest(b, x) \in Int /\ Rest(d, x) \in Int /\ Rest(d, x) >= Rest(b, x) - 1
         /\ x # o => Rest(d, x) = Rest(b, x) /\ d[x] = b[x]
         /\ b[x].st # "live" => x # o /\ d[x].st = b[x].st
         /\ d[x].st = "live" => b[x].st = "live"
         /\ d[x].kind = b[x].kind
<1>1. Rest(b, x) \in Int /\ Rest(d, x) \in Int BY BookOf
<1>2. x # o => Rest(d, x) = Rest(b, x) /\ d[x] = b[x] BY DEF Trades, Rest
<1>3. x = o => Rest(d, x) = Rest(b, x) - 1 /\ b[x].st = "live" /\ d[x].kind = b[x].kind BY DEF Trades
<1>. QED BY <1>1, <1>2, <1>3

LEMMA SaleBacked ==
  ASSUME NEW b \in Books, NEW d \in Books, NEW w \in Int, NEW S \in Brackets, NEW o, Trades(b, d, o), Buying(d) = {},
         ~Unsold(b), Backed(S, b, w)
  PROVE Backed(S, d, w - 1) /\ S.phase # "entering"
<1>1. \A x \in Named(S) : x # 0 => x \in Orders /\ d[x].kind = b[x].kind BY IdsOf, SaleRest
<1>2. S.phase # "entering" BY DEF Backed
<1>3. S.phase \in Holding => Carried(S, d, w - 1) BY SaleCarried DEF Backed
<1>4. S.phase = "exiting" /\ S.tp1Id # 0 => d[S.tp1Id].st = "cancelled" \/ Rest(d, S.tp1Id) >= w - 1
  <2>1. SUFFICES ASSUME S.phase = "exiting" /\ S.tp1Id # 0
                 PROVE  d[S.tp1Id].st = "cancelled" \/ Rest(d, S.tp1Id) >= w - 1 OBVIOUS
  <2>2. b[S.tp1Id].st = "cancelled" \/ Rest(b, S.tp1Id) >= w BY <2>1 DEF Backed
  <2>3. /\ Rest(b, S.tp1Id) \in Int /\ Rest(d, S.tp1Id) \in Int /\ Rest(d, S.tp1Id) >= Rest(b, S.tp1Id) - 1
        /\ b[S.tp1Id].st # "live" => d[S.tp1Id].st = b[S.tp1Id].st BY <2>1, IdsOf, SaleRest
  <2>. QED BY <2>2, <2>3
<1>5. S.tp1Id # 0 /\ S.stopId # 0 =>
          \/ d[S.tp1Id].st = "cancelled" \/ d[S.stopId].st = "cancelled"
          \/ Rest(d, S.tp1Id) + Rest(d, S.stopId) >= w - 1
  <2>. DEFINE t == S.tp1Id
              s == S.stopId
  <2>1. SUFFICES ASSUME t # 0, s # 0
                 PROVE  d[t].st = "cancelled" \/ d[s].st = "cancelled" \/ Rest(d, t) + Rest(d, s) >= w - 1 OBVIOUS
  <2>2. /\ t # s /\ t \in Orders /\ s \in Orders
        /\ b[t].st = "cancelled" \/ b[s].st = "cancelled" \/ Rest(b, t) + Rest(b, s) >= w BY <2>1, IdsOf DEF Backed
  <2>3. \A x \in {s, t} : /\ Rest(b, x) \in Int /\ Rest(d, x) \in Int /\ Rest(d, x) >= Rest(b, x) - 1
                          /\ x # o => Rest(d, x) = Rest(b, x)
                          /\ b[x].st = "cancelled" => d[x].st = "cancelled" BY <2>2, SaleRest
  <2>. HIDE DEF s, t
  <2>4. CASE b[t].st = "cancelled" \/ b[s].st = "cancelled" BY <2>3, <2>4
  <2>5. CASE Rest(b, t) + Rest(b, s) >= w BY <2>2, <2>3, <2>5
  <2>. QED BY <2>2, <2>4, <2>5
<1>. QED BY <1>1, <1>2, <1>3, <1>4, <1>5, IdsOf DEF Backed

LEMMA SaleServes ==
  ASSUME NEW b \in Books, NEW d \in Books, NEW w \in Int, NEW S \in Brackets, NEW o, Trades(b, d, o), NEW c,
         Buying(d) = {}, ~Unsold(b), Serves(S, c, b, w)
  PROVE Serves(S, c, d, w - 1) /\ c.pc \notin Early \ {"idle"}
<1>1. c.pc \notin Early \ {"idle"} BY DEF Serves
<1>2. c.pc \notin Early => Carried(S, d, w - 1) BY SaleCarried DEF Serves
<1>3. c.pc = "rechase" => d[S.tp1Id].st # "live"
  <2>1. SUFFICES ASSUME c.pc = "rechase" PROVE d[S.tp1Id].st # "live" OBVIOUS
  <2>2. S.tp1Id # 0 /\ b[S.tp1Id].st # "live" BY <2>1 DEF Serves
  <2>3. S.tp1Id \in Orders BY <2>2, IdsOf
  <2>. QED BY <2>2, <2>3, SaleRest
<1>4. c.pc = "sweep" => \A x \in {S.stopId, S.tp1Id} : x # 0 /\ Resting(d, x) => x \in c.ids
  <2>1. \A x \in {S.stopId, S.tp1Id} : x # 0 /\ Resting(d, x) => Resting(b, x) BY IdsOf, SaleRest DEF Resting, OfSale
  <2>. QED BY <2>1 DEF Serves
<1>5. c.pc \notin Waits /\ c.pc \notin {"find", "enter", "reread"} BY <1>1 DEF Early, Waits
<1>. QED BY <1>1, <1>2, <1>3, <1>4, <1>5 DEF Serves

LEMMA SaleOffers ==
  ASSUME NEW b \in Books, NEW d \in Books, NEW w \in Int, NEW S \in Brackets, NEW o, Trades(b, d, o), NEW c \in Jobs,
         spec \in SpecRec, Offers(S, c, b, w)
  PROVE Offers(S, c, d, w - 1)
<1>1. c.amt \in Int /\ Tranche(S.position) \in Int BY IdsOf, Quantities DEF Jobs
<1>2. c.pc \in {"findStop", "placeStop"} => c.amt + (IF c.why = "scale" THEN Tranche(S.position) ELSE 0) >= w - 1
  BY <1>1 DEF Offers
<1>3. c.pc = "sell" /\ c.why = "scale" =>
          S.stopId = 0 \/ d[S.stopId].st = "cancelled" \/ Rest(d, S.stopId) + c.amt >= w - 1
  <2>1. SUFFICES ASSUME c.pc = "sell" /\ c.why = "scale", S.stopId # 0
                 PROVE  d[S.stopId].st = "cancelled" \/ Rest(d, S.stopId) + c.amt >= w - 1 OBVIOUS
  <2>2. b[S.stopId].st = "cancelled" \/ Rest(b, S.stopId) + c.amt >= w BY <2>1 DEF Offers
  <2>3. /\ Rest(b, S.stopId) \in Int /\ Rest(d, S.stopId) \in Int /\ Rest(d, S.stopId) >= Rest(b, S.stopId) - 1
        /\ b[S.stopId].st # "live" => d[S.stopId].st = b[S.stopId].st BY <2>1, IdsOf, SaleRest
  <2>. QED BY <1>1, <2>2, <2>3
<1>4. /\ c.pc \in Sells /\ (spec.full \/ c.why \in Exits) => c.amt >= w - 1
      /\ c.pc \in {"chase", "rechase"} => c.amt >= w - 1
      /\ c.pc \in {"sweep", "balance", "closing"} /\ spec.full => w - 1 <= 0 BY <1>1 DEF Offers
<1>. QED BY <1>2, <1>3, <1>4 DEF Offers

LEMMA SaleIsOffered == ASSUME Sane, NEW o \in Orders, Trade(o), book[o].kind # "buy" PROVE Offered'
<1>. DEFINE w == Owned
<1>1. /\ Trades(book, book', o) /\ UNCHANGED <<spec, st, status, job, disk>> /\ Owned' = w - 1 /\ w \in Int
      /\ book \in Books /\ book' \in Books /\ st \in Brackets /\ disk \in Brackets /\ spec \in SpecRec
  BY TradeTrades, Sanity
<1>2. OfSale(book, o) BY <1>1, Offering DEF Trades, OfSale
<1>3. Booked(book', w - 1) /\ Buying(book) = {} /\ Buying(book') = {} /\ ~Unsold(book)
  BY <1>1, <1>2, Offering, SaleBooked
<1>4. Backed(st, book', w - 1) /\ Backed(disk, book', w - 1) BY <1>1, <1>3, Offering, SaleBacked
<1>5. Free' = Free BY TradeFree
<1>6. Serves(st, job["run"], book', w - 1) BY <1>1, <1>3, Offering, SaleServes
<1>7. job["run"] \in Jobs BY Sanity
<1>8. Offers(st, job["run"], book', w - 1) BY <1>1, <1>7, Offering, SaleOffers
<1>9. Closes(job["run"], w - 1, Free)
  <2>1. job["run"].amt \in Int BY <1>7 DEF Jobs
  <2>. QED BY <1>1, <2>1, Offering DEF Closes
<1>10. Stored(disk, book', w - 1) BY <1>1, <1>3, Offering, SaleCarried DEF Stored
<1>11. Aims(st, job["kill"], book')
  <2>1. \A x \in job["kill"].ids : x \in Orders BY KillIds
  <2>2. \A x \in Orders : book'[x].kind = book[x].kind /\ (book'[x].st = "live" => book[x].st = "live")
    BY <1>1, SaleRest
  <2>. QED BY <2>1, <2>2, Offering DEF Aims
<1>12. Done(status, st, disk, job["run"], book', w - 1, Free)
  <2>1. w <= 0 => w - 1 <= 0 BY <1>1
  <2>. QED BY <1>3, <2>1, Offering DEF Done
<1>13. PICK c, k : c = job["run"] /\ k = job["kill"] OBVIOUS
<1>. HIDE DEF w
<1>14. Concluded(c, k) BY <1>1, <1>3, <1>4, <1>5, <1>6, <1>8, <1>9, <1>10, <1>11, <1>12, <1>13, Offering DEF Concluded
<1>. QED BY <1>14, Concludes

LEMMA InitOffers == Init => OInv
<1>1. SUFFICES ASSUME Init PROVE Offered BY DEF OInv
<1>2. PICK D, c : D = NoBracket /\ c = Idle OBVIOUS
<1>3. /\ st = D /\ disk = D /\ job["run"] = c /\ job["kill"] = c /\ status = "pending"
      /\ \A o \in Orders : book[o] = NoOrder BY <1>1, <1>2 DEF Init, Procs
<1>4. c.pc = "idle" /\ c.why = "" /\ c.ids = {} /\ D.phase = "none" BY <1>2 DEF Idle, NoBracket
<1>5. \A o \in Orders : book[o].kind = "none" /\ book[o].st = "none" BY <1>3 DEF NoOrder
<1>6. Unsold(book) /\ Buying(book) = {} /\ Booked(book, Owned) BY <1>5 DEF Unsold, OfSale, Buying, Booked
<1>7. Owned = 0 BY <1>1, ConstantsAssumption DEF Init, Owned
<1>8. Backed(D, book, Owned) /\ Stored(D, book, Owned) /\ Files(D, c) BY <1>2, NoBracketBacked
<1>9. Serves(D, c, book, Owned) /\ Offers(D, c, book, Owned) BY <1>4 DEF Serves, Offers, Early, Waits, Sells
<1>10. Closes(c, Owned, Free) /\ Aims(D, c, book) /\ Done(status, D, D, c, book, Owned, Free)
  BY <1>3, <1>4, <1>6, <1>7 DEF Closes, Aims, Done
<1>. QED BY <1>3, <1>6, <1>8, <1>9, <1>10 DEF Offered

LEMMA RunStepOffers == ASSUME Sane, RunStep PROVE Offered'
<1>1. Reaches BY FindEntryReaches, EnterMarketReaches, PollEntryReaches, DropEntryReaches, RereadEntryReaches,
     placeProtectionReaches, FindTpReaches, PlaceSellReaches, ReadStopReaches, ReadTp1Reaches, ChaseReaches,
     RechaseReaches, ForceExitReaches, ForcedExitReaches, ReadHeldReaches, BalanceReaches, SellToUsdReaches,
     CloseStepReaches, TickStartsReaches DEF RunStep
<1>. QED BY <1>1, ReachesOn

LEMMA StopStepOffers == ASSUME Sane, NEW p \in Procs, StopStep(p) PROVE Offered'
<1>1. CASE CancelStop(p) \/ StopFreed(p) \/ FindStop(p) \/ PlaceNewStop(p)
  BY <1>1, CancelStopReaches, StopFreedReaches, FindStopReaches, PlaceNewStopReaches, ReachesOn
<1>2. CASE Sweep(p) \/ Swept(p)
  <2>1. At(p, "sweep") /\ At("adjust", "idle") BY <1>2, Sanity DEF Sweep, Swept, Alone
  <2>2. p \in {"run", "kill"} BY <2>1 DEF At, Procs
  <2>3. CASE p = "run" BY <1>2, <2>3, SweepRunReaches, SweptRunReaches, ReachesOn
  <2>4. CASE p = "kill" BY <1>2, <2>4, SweepKillOffers, SweptKillOffers
  <2>. QED BY <2>2, <2>3, <2>4
<1>. QED BY <1>1, <1>2 DEF StopStep

LEMMA NextOffers == IInv /\ IInv' /\ EInv /\ SInv /\ OInv /\ [Next]_vars => OInv'
<1>1. SUFFICES ASSUME IInv, IInv', EInv, SInv, OInv, [Next]_vars, Sober' PROVE Offered' BY DEF OInv
<1>2. upsets \subseteq upsets' BY <1>1, UpsetsGrow DEF vars
<1>3. Sane BY <1>1, <1>2 DEF Sane, IInv, OInv, Sober
<1>4. ASSUME NEW lvl, Adjust(lvl) PROVE FALSE BY <1>1, <1>4 DEF Adjust, Upset, Sober
<1>5. ASSUME NEW o \in Orders, CancelledElsewhere(o) PROVE FALSE BY <1>1, <1>5 DEF CancelledElsewhere, Upset, Sober
<1>6. ASSUME NEW o \in Orders, Trade(o) PROVE Offered' BY <1>3, <1>6, BuyOffers, SaleIsOffered
<1>7. ASSUME NEW on, Lock(on) PROVE Offered' BY <1>3, <1>7, LockOffers
<1>8. ASSUME NEW p \in Procs, StopStep(p) PROVE Offered' BY <1>3, <1>8, StopStepOffers
<1>. QED BY <1>1, <1>3, <1>4, <1>5, <1>6, <1>7, <1>8, RunStepOffers, ConfirmOffers, KillOffers, ReviveOffers,
     RestartOffers, StillOffers DEF Next

LEMMA OfferedCloses == IInv /\ OInv => ClosedIsOffered
<1>1. SUFFICES ASSUME IInv, OInv, status = "filled", Quiet, "adjust" \notin upsets PROVE Free <= Wallet
  BY DEF ClosedIsOffered
<1>2. Sober BY <1>1 DEF Sober, Quiet
<1>3. Booked(book, Owned) /\ Done(status, st, disk, job["run"], book, Owned, Free) BY <1>1, <1>2 DEF OInv, Offered
<1>4. Owned <= 0 \/ Free <= Wallet BY <1>1, <1>3 DEF Done
<1>5. book \in Books /\ coins \in Int /\ Wallet \in Int BY <1>1, ConstantsAssumption DEF IInv, TypeOK, Books
<1>6. Total(Claims(book)) \in Int /\ Total(Claims(book)) >= 0 BY <1>3, <1>5, LockedNat
<1>. QED BY <1>4, <1>5, <1>6, FreeOf DEF Owned

\* A bracket that reports itself closed has sold or offered all that it bought, and no more
\* than what the account held besides is left without an order: whatever the market does,
\* however often the process restarts, also when the operator locks or kills it.  What it
\* takes itself to hold is never less than what there is; its exit, or its stop and its
\* target together, or the sell that its coroutine is about to place, cover all of it; and
\* the sweep of a close knows every order that claims coins, so that the balance read after
\* it is all there is to sell.
THEOREM ClosedOffered == Spec => []ClosedIsOffered
<1>1. IInv /\ IInv' /\ EInv /\ SInv /\ OInv /\ [Next]_vars => OInv' BY NextOffers
<1>2. IInv /\ EInv /\ SInv /\ [Next]_vars => SInv' BY NextRests
<1>3. IInv /\ EInv /\ [Next]_vars => EInv' BY NextEnters
<1>4. IInv /\ OInv => ClosedIsOffered BY OfferedCloses
<1>. QED BY InvariantHolds, InitEnters, InitRests, InitOffers, <1>1, <1>2, <1>3, <1>4, PTL DEF Spec

==============================================================================
