---------------------------- MODULE SafeModeProofs ----------------------------
(***************************************************************************)
(* Proofs about SafeMode for any numbers of orders, trades and overlapping *)
(* calls, and any scenario: its types, that a disarmed order stays         *)
(* disarmed, and that a staged trade is sent once.                         *)
(***************************************************************************)
EXTENDS SafeMode, FiniteSetTheorems, TLAPS

\* Nothing refers to an order that has never rested.
Fresh ==
    \A o \in Orders : order[o].st = "none" =>
        /\ order[o].trade = 0 /\ choice[o] = "none"
        /\ o \notin book /\ o \notin arms /\ o \notin optOut /\ o \notin stale.book

\* What keeps a disarmed order disarmed: while it rests it is on the list of opt-outs.
Respected ==
    \A o \in Orders : order[o].st = "live" /\ choice[o] = "disarm" => o \in optOut /\ o \notin arms

\* A trade is in one place: in the queue, in the call that sends it, or behind one order;
\* one that was not staged, or was taken off, is in none.
Claimed ==
    /\ \A o, p \in Orders : order[o].trade = order[p].trade /\ order[o].trade # 0 => o = p
    /\ \A j, k \in Jobs : job[j].trade = job[k].trade /\ job[j].trade # 0 => j = k
    /\ \A j \in Jobs, o \in Orders : job[j].trade # 0 => order[o].trade # job[j].trade
    /\ \A j \in Jobs : job[j].trade # 0 => job[j].trade # pending
    /\ \A o \in Orders : order[o].trade # 0 => order[o].trade # pending

Unsent(t) ==
    /\ \A o \in Orders : order[o].trade # t
    /\ \A j \in Jobs : job[j].trade # t
    /\ pending # t
Withheld == \A t \in Trades : record[t] \in {"none", "dismissed", "superseded"} => Unsent(t)

IInv == TypeOK /\ Fresh /\ Respected /\ Claimed /\ Withheld

LEMMA Sizes == MaxOrders \in Nat \ {0} /\ MaxTrades \in Nat /\ Scenarios \subseteq SUBSET (UpsetKind \cup Uses)
  BY SafeModeConstants

------------------------------------------------------------------------------
\* What a request does to the orders: nothing, an order leaves, or one comes to rest.
Gone(o) == o \in Live /\ order' = [order EXCEPT ![o].st = "gone"]
Comes(n, owner, t) ==
    /\ order[n].st = "none"
    /\ order' = [order EXCEPT ![n] = [st |-> "live", owner |-> owner, trade |-> t]]

LEMMA Coming ==
    ASSUME CanOrder, NEW owner, NEW t, Rests(owner, t)
    PROVE  \E n \in Orders : Comes(n, owner, t)
<1>1. NewOrder \in Orders /\ order[NewOrder].st = "none"
  BY DEF CanOrder, NewOrder
<1>. QED
  BY <1>1 DEF Comes, Rests

LEMMA Placing ==
    ASSUME NEW t, NEW ok, PlaceOrder(t, ok)
    PROVE  (UNCHANGED order) \/ \E n \in Orders : Comes(n, "operator", t)
  BY Coming DEF PlaceOrder

LEMMA Cancelling ==
    ASSUME NEW o, NEW ok, CancelOrderVerified(o, ok)
    PROVE  (UNCHANGED order) \/ \E l \in Orders : Gone(l)
  BY DEF CancelOrderVerified, Gone, Live

\* The trade that an order may come to rest for.
LEMMA OrderSteps ==
    ASSUME TypeOK, [Next]_vars
    PROVE  \/ UNCHANGED order
           \/ \E o \in Orders : Gone(o)
           \/ \E n \in Orders : Comes(n, "operator", 0)
           \/ \E n \in Orders : Comes(n, "bracket", 0)
           \/ \E j \in Jobs, n \in Orders : CallPlaces(j) /\ Comes(n, "operator", job[j].trade)
<1>1. CASE UNCHANGED vars
  BY <1>1 DEF vars
<1>2. ASSUME NEW j \in Jobs, ExecuteTrade(j) \/ Call(j) \/ CallFreed(j)
      PROVE  UNCHANGED order
  BY <1>2 DEF ExecuteTrade, Call, CallFreed
<1>3. ASSUME NEW j \in Jobs, CallCancels(j)
      PROVE  (UNCHANGED order) \/ \E o \in Orders : Gone(o)
  BY <1>3, Cancelling DEF CallCancels
<1>4. ASSUME NEW j \in Jobs, CallPlaces(j)
      PROVE  (UNCHANGED order) \/ \E n \in Orders : Comes(n, "operator", job[j].trade)
  BY <1>4, Placing DEF CallPlaces
<1>5. ASSUME NEW o \in Orders, ArmSafeMode(o) \/ DisarmSafeMode(o)
      PROVE  UNCHANGED order
  BY <1>5 DEF ArmSafeMode, DisarmSafeMode
<1>6. ASSUME NEW o \in Orders, Leaves(o)
      PROVE  Gone(o)
  BY <1>6 DEF Leaves, Gone
<1>7. CASE AddPending \/ DismissTrade \/ Refresh \/ TickerRefresh \/ Enrich \/ Enriched
  BY <1>7 DEF AddPending, DismissTrade, Refresh, TickerRefresh, Enrich, Enriched
<1>8. CASE CheckSafeMode \/ FireFreed \/ FireNext \/ Restart \/ Resume
  BY <1>8 DEF CheckSafeMode, FireFreed, FireNext, Restart, Resume
<1>9. CASE FireCancels
  BY <1>9, Cancelling DEF FireCancels
<1>10. CASE FirePlaces
  BY <1>10, Placing DEF FirePlaces
<1>11. CASE BracketPlaces
  BY <1>11, Coming DEF BracketPlaces
<1>. QED
  BY <1>1, <1>2, <1>3, <1>4, <1>5, <1>6, <1>7, <1>8, <1>9, <1>10, <1>11 DEF Next

------------------------------------------------------------------------------
\* Types.
LEMMA OrderType ==
    ASSUME TypeOK, [Next]_vars
    PROVE  order' \in [Orders -> OrderRec]
<1>1. ASSUME NEW o \in Orders, Gone(o)
      PROVE  order' \in [Orders -> OrderRec]
  <2>1. [order[o] EXCEPT !.st = "gone"] \in OrderRec
    BY DEF TypeOK, OrderRec
  <2>. QED
    BY <1>1, <2>1 DEF TypeOK, Gone
<1>2. ASSUME NEW n \in Orders, NEW owner \in {"operator", "bracket"}, NEW t \in 0..MaxTrades, Comes(n, owner, t)
      PROVE  order' \in [Orders -> OrderRec]
  BY <1>2 DEF TypeOK, Comes, OrderRec
<1>3. 0 \in 0..MaxTrades /\ \A j \in Jobs : job[j].trade \in 0..MaxTrades
  BY Sizes DEF TypeOK, JobRec
<1>. QED
  BY <1>1, <1>2, <1>3, OrderSteps DEF TypeOK

LEMMA JobType ==
    ASSUME TypeOK, [Next]_vars
    PROVE  job' \in [Jobs -> JobRec]
<1>0. IdleJob \in JobRec
  BY Sizes DEF IdleJob, JobRec
<1>1. CASE UNCHANGED job
  BY <1>1 DEF TypeOK
<1>2. ASSUME NEW j \in Jobs, ExecuteTrade(j)
      PROVE  job' \in [Jobs -> JobRec]
  BY <1>2, Sizes DEF ExecuteTrade, TypeOK, JobRec
<1>3. ASSUME NEW j \in Jobs, Call(j)
      PROVE  job' \in [Jobs -> JobRec]
  <2>1. PICK kind \in {"cancel", "replace"}, o \in book :
            job' = [job EXCEPT ![j] = [pc |-> "cancel", kind |-> kind, o |-> o, trade |-> 0]]
    BY <1>3 DEF Call
  <2>2. o \in 0..MaxOrders
    BY Sizes DEF TypeOK, Orders
  <2>. QED
    BY <2>1, <2>2, Sizes DEF TypeOK, JobRec
<1>4. ASSUME NEW j \in Jobs, NEW pc \in {"freed", "place"}
      PROVE  [job[j] EXCEPT !.pc = pc] \in JobRec
  BY DEF TypeOK, JobRec
<1>5. ASSUME NEW j \in Jobs, CallCancels(j) \/ CallFreed(j) \/ CallPlaces(j)
      PROVE  job' \in [Jobs -> JobRec]
  <2>1. PICK r \in {IdleJob, [job[j] EXCEPT !.pc = "freed"], [job[j] EXCEPT !.pc = "place"]} :
            job' = [job EXCEPT ![j] = r]
    BY <1>5 DEF CallCancels, CallFreed, CallPlaces
  <2>. QED
    BY <1>0, <1>4, <2>1 DEF TypeOK
<1>6. CASE Restart
  BY <1>0, <1>6 DEF Restart
<1>7. ASSUME NEW o \in Orders, ArmSafeMode(o) \/ DisarmSafeMode(o) \/ Leaves(o)
      PROVE  UNCHANGED job
  BY <1>7 DEF ArmSafeMode, DisarmSafeMode, Leaves
<1>8. CASE AddPending \/ DismissTrade \/ Refresh \/ TickerRefresh \/ Enrich \/ Enriched
  BY <1>1, <1>8 DEF AddPending, DismissTrade, Refresh, TickerRefresh, Enrich, Enriched
<1>9. CASE CheckSafeMode \/ FireCancels \/ FireFreed \/ FirePlaces \/ FireNext \/ BracketPlaces \/ Resume \/ UNCHANGED vars
  BY <1>1, <1>9 DEF CheckSafeMode, FireCancels, FireFreed, FirePlaces, FireNext, BracketPlaces, Resume, vars
<1>. QED
  BY <1>1, <1>2, <1>3, <1>5, <1>6, <1>7, <1>8, <1>9 DEF Next

\* A firing sweep, and what it removes.
HotRec == [pc : {"idle", "cancel", "freed", "place", "next"}, todo : SUBSET Orders, cur : 0..MaxOrders]

LEMMA Scanning ==
    ASSUME TypeOK, NEW todo \in SUBSET Orders, Scan(todo)
    PROVE  arms' \subseteq arms /\ hot' \in HotRec
<1>0. IdleHot \in HotRec
  BY Sizes DEF IdleHot, HotRec
<1>1. PICK passed \in SUBSET todo, orphans \in SUBSET Orders :
          \/ arms' = arms \ orphans /\ hot' = IdleHot
          \/ \E o \in (todo \ passed) \cap book :
                 /\ arms' = arms \ (orphans \cup {o})
                 /\ hot' = [pc |-> "cancel", todo |-> todo \ (passed \cup {o}), cur |-> o]
  BY DEF Scan
<1>2. CASE arms' = arms \ orphans /\ hot' = IdleHot
  BY <1>0, <1>2
<1>3. ASSUME NEW o \in (todo \ passed) \cap book, arms' = arms \ (orphans \cup {o}),
             hot' = [pc |-> "cancel", todo |-> todo \ (passed \cup {o}), cur |-> o]
      PROVE  arms' \subseteq arms /\ hot' \in HotRec
  <2>1. o \in 0..MaxOrders
    BY Sizes DEF TypeOK, Orders
  <2>. QED
    BY <1>3, <2>1 DEF HotRec
<1>. QED
  BY <1>1, <1>2, <1>3

LEMMA HotType ==
    ASSUME TypeOK, [Next]_vars
    PROVE  hot' \in HotRec
<1>0. hot \in HotRec /\ hot.todo \subseteq Orders
  BY DEF TypeOK, HotRec
<1>1. CASE UNCHANGED hot
  BY <1>0, <1>1
<1>2. CASE CheckSafeMode
  BY <1>2, Scanning DEF CheckSafeMode, TypeOK
<1>3. CASE FireNext
  BY <1>0, <1>3, Scanning DEF FireNext
<1>4. CASE FireCancels \/ FireFreed \/ FirePlaces
  <2>1. PICK pc \in {"freed", "place", "next"} : hot' = [hot EXCEPT !.pc = pc]
    BY <1>4 DEF FireCancels, FireFreed, FirePlaces
  <2>. QED
    BY <1>0, <2>1 DEF HotRec
<1>5. CASE Restart
  BY <1>5, Sizes DEF Restart, IdleHot, HotRec
<1>6. ASSUME NEW j \in Jobs, ExecuteTrade(j) \/ Call(j) \/ CallCancels(j) \/ CallFreed(j) \/ CallPlaces(j)
      PROVE  UNCHANGED hot
  BY <1>6 DEF ExecuteTrade, Call, CallCancels, CallFreed, CallPlaces, guard
<1>7. ASSUME NEW o \in Orders, ArmSafeMode(o) \/ DisarmSafeMode(o) \/ Leaves(o)
      PROVE  UNCHANGED hot
  BY <1>7 DEF ArmSafeMode, DisarmSafeMode, Leaves, guard
<1>8. CASE AddPending \/ DismissTrade \/ Refresh \/ TickerRefresh \/ Enrich \/ Enriched \/ BracketPlaces \/ Resume \/ UNCHANGED vars
  BY <1>1, <1>8 DEF AddPending, DismissTrade, Refresh, TickerRefresh, Enrich, Enriched, BracketPlaces, Resume, vars, guard
<1>. QED
  BY <1>1, <1>2, <1>3, <1>4, <1>5, <1>6, <1>7, <1>8 DEF Next

\* Where the ids in the snapshot, the arms and the opt-outs come from.
LEMMA Sources ==
    ASSUME TypeOK, [Next]_vars
    PROVE  /\ book' \subseteq book \cup Live \cup stale.book
           /\ stale' \in [on : BOOLEAN, book : SUBSET Orders] /\ stale'.book \subseteq stale.book \cup book
           /\ arms' \subseteq arms \cup book \cup Live
           /\ optOut' \subseteq optOut \cup book \cup arms
           /\ choice' \in [Orders -> {"none", "arm", "disarm"}]
           /\ \A o \in Orders : o \notin book \cup arms => choice'[o] = choice[o]
<1>. DEFINE Where ==
               /\ book' \subseteq book \cup Live \cup stale.book
               /\ stale' \in [on : BOOLEAN, book : SUBSET Orders] /\ stale'.book \subseteq stale.book \cup book
               /\ arms' \subseteq arms \cup book \cup Live
               /\ optOut' \subseteq optOut \cup book \cup arms
               /\ choice' \in [Orders -> {"none", "arm", "disarm"}]
               /\ \A o \in Orders : o \notin book \cup arms => choice'[o] = choice[o]
<1>0. stale \in [on : BOOLEAN, book : SUBSET Orders] /\ choice \in [Orders -> {"none", "arm", "disarm"}]
  BY DEF TypeOK
<1>1. CASE UNCHANGED <<stale, guard>> /\ book' \subseteq book
  BY <1>0, <1>1 DEF guard
<1>2. ASSUME NEW j \in Jobs, ExecuteTrade(j) \/ Call(j) \/ CallCancels(j) \/ CallFreed(j) \/ CallPlaces(j)
      PROVE  Where
  <2>1. UNCHANGED <<stale, guard>> /\ book' \subseteq book
    BY <1>2 DEF ExecuteTrade, Call, CallCancels, CallFreed, CallPlaces
  <2>. QED
    BY <1>1, <2>1
<1>3. ASSUME NEW o \in Orders, ArmSafeMode(o)
      PROVE  Where
  BY <1>0, <1>3 DEF ArmSafeMode
<1>4. ASSUME NEW o \in Orders, DisarmSafeMode(o)
      PROVE  Where
  BY <1>0, <1>4 DEF DisarmSafeMode
<1>5. ASSUME NEW o \in Orders, Leaves(o)
      PROVE  Where
  BY <1>1, <1>5 DEF Leaves
<1>6. CASE AddPending \/ DismissTrade \/ TickerRefresh \/ BracketPlaces \/ Resume \/ UNCHANGED vars
  BY <1>1, <1>6 DEF AddPending, DismissTrade, TickerRefresh, BracketPlaces, Resume, vars, guard
<1>7. CASE Refresh
  <2>1. AutoArmed(arms \cap (Live \cup {hot.cur}), PrunedOptOut) \subseteq Live /\ PrunedOptOut \subseteq optOut
    BY DEF AutoArmed, PrunedOptOut
  <2>2. arms' \subseteq arms \cup Live /\ optOut' \subseteq optOut /\ book' = Live /\ UNCHANGED <<stale, choice>>
    BY <1>7, <2>1 DEF Refresh
  <2>. QED
    BY <1>0, <2>2
<1>8. CASE Enrich
  <2>1. stale' \in [on : BOOLEAN, book : SUBSET Orders] /\ stale'.book = book /\ UNCHANGED <<book, guard>>
    BY <1>8 DEF Enrich, TypeOK
  <2>. QED
    BY <1>0, <2>1 DEF guard
<1>12. CASE Enriched
  <2>1. stale' \in [on : BOOLEAN, book : SUBSET Orders] /\ stale'.book = {} /\ book' = stale.book /\ UNCHANGED guard
    BY <1>12 DEF Enriched, NoStale
  <2>. QED
    BY <1>0, <2>1 DEF guard
<1>9. CASE CheckSafeMode \/ FireNext
  <2>1. arms' \subseteq arms
    BY <1>9, Scanning DEF CheckSafeMode, FireNext, TypeOK
  <2>. QED
    BY <1>0, <1>9, <2>1 DEF CheckSafeMode, FireNext
<1>10. CASE FireCancels \/ FireFreed \/ FirePlaces
  BY <1>0, <1>10 DEF FireCancels, FireFreed, FirePlaces
<1>11. CASE Restart
  BY <1>0, <1>11 DEF Restart, NoStale
<1>. QED
  BY <1>2, <1>3, <1>4, <1>5, <1>6, <1>7, <1>8, <1>9, <1>10, <1>11, <1>12 DEF Next

\* The queue, the records and the process.
LEMMA RestTypes ==
    ASSUME TypeOK, [Next]_vars
    PROVE  /\ pending' \in 0..MaxTrades
           /\ record' \in [Trades -> {"none", "staged", "executed", "failed", "dismissed", "superseded"}]
           /\ brackets' \in BOOLEAN /\ priced' \in BOOLEAN /\ up' \in {"up", "boot", "booted"} /\ upsets' \subseteq UpsetKind \cup Uses
<1>. DEFINE Queued ==
               /\ pending' \in 0..MaxTrades
               /\ record' \in [Trades -> {"none", "staged", "executed", "failed", "dismissed", "superseded"}]
            Running == brackets' \in BOOLEAN /\ priced' \in BOOLEAN /\ up' \in {"up", "boot", "booted"}
            Fewer == upsets' \subseteq upsets
<1>1. ASSUME NEW j \in Jobs, ExecuteTrade(j) \/ Call(j) \/ CallCancels(j) \/ CallFreed(j) \/ CallPlaces(j)
      PROVE  Queued /\ Running /\ Fewer
  <2>1. Running
    BY <1>1 DEF ExecuteTrade, Call, CallCancels, CallFreed, CallPlaces, proc, TypeOK
  <2>2. Fewer
    BY <1>1 DEF ExecuteTrade, Call, CallCancels, CallFreed, CallPlaces, PlaceOrder, CancelOrderVerified, Calm, Upset
  <2>3. Queued
    BY <1>1, Sizes DEF ExecuteTrade, Call, CallCancels, CallFreed, CallPlaces, RemovePending, queue, TypeOK
  <2>. QED
    BY <2>1, <2>2, <2>3
<1>2. ASSUME NEW o \in Orders, ArmSafeMode(o) \/ DisarmSafeMode(o) \/ Leaves(o)
      PROVE  Queued /\ Running /\ Fewer
  BY <1>2 DEF ArmSafeMode, DisarmSafeMode, Leaves, queue, proc, TypeOK
<1>3. CASE AddPending
  <2>1. PICK t \in Trades : pending' = t /\ record' = [d \in Trades |-> IF d = t THEN "staged"
                                         ELSE IF d = pending THEN "superseded" ELSE record[d]]
    BY <1>3 DEF AddPending
  <2>2. Queued
    BY <2>1, Sizes DEF Trades, TypeOK
  <2>. QED
    BY <1>3, <2>2 DEF AddPending, proc, TypeOK
<1>4. CASE DismissTrade
  <2>1. pending' = 0 /\ record' = [record EXCEPT ![pending] = "dismissed"] /\ UNCHANGED <<brackets, up, priced, upsets>>
    BY <1>4 DEF DismissTrade, RemovePending, proc
  <2>2. pending' \in 0..MaxTrades
    BY <2>1, Sizes
  <2>3. record' \in [Trades -> {"none", "staged", "executed", "failed", "dismissed", "superseded"}]
    BY <2>1 DEF TypeOK
  <2>. QED
    BY <2>1, <2>2, <2>3 DEF TypeOK
<1>5. CASE Refresh \/ TickerRefresh \/ Enrich \/ Enriched \/ Resume \/ BracketPlaces \/ UNCHANGED vars
  BY <1>5 DEF Refresh, TickerRefresh, Enrich, Enriched, Resume, BracketPlaces, vars, queue, proc, Upset, Calm, TypeOK
<1>6. CASE CheckSafeMode \/ FireFreed \/ FireNext \/ Restart
  BY <1>6 DEF CheckSafeMode, FireFreed, FireNext, Restart, queue, proc, Upset, TypeOK
<1>7. CASE FireCancels \/ FirePlaces
  BY <1>7 DEF FireCancels, FirePlaces, queue, proc, PlaceOrder, CancelOrderVerified, Calm, Upset, TypeOK
<1>8. upsets \subseteq UpsetKind \cup Uses
  BY DEF TypeOK
<1>. QED
  BY <1>1, <1>2, <1>3, <1>4, <1>5, <1>6, <1>7, <1>8 DEF Next

LEMMA TypesStay ==
    ASSUME TypeOK, Fresh, [Next]_vars
    PROVE  TypeOK'
<1>1. Live \subseteq Orders /\ book \subseteq Orders /\ arms \subseteq Orders /\ optOut \subseteq Orders /\ stale.book \subseteq Orders
  BY DEF Live, TypeOK
<1>2. book' \subseteq Orders /\ arms' \subseteq Orders /\ optOut' \subseteq Orders
  BY <1>1, Sources
<1>3. hot' \in [pc : {"idle", "cancel", "freed", "place", "next"}, todo : SUBSET Orders, cur : 0..MaxOrders]
  BY HotType DEF HotRec
<1>. QED
  BY <1>2, <1>3, OrderType, JobType, Sources, RestTypes DEF TypeOK

------------------------------------------------------------------------------
\* Nothing refers to an order before it rests.
LEMMA FreshStays ==
    ASSUME TypeOK, Fresh, [Next]_vars
    PROVE  Fresh'
<1>1. ASSUME NEW o \in Orders, order'[o].st = "none"
      PROVE  order[o].st = "none" /\ order'[o].trade = order[o].trade
  BY <1>1, OrderSteps DEF Gone, Comes, TypeOK, OrderRec
<1>2. ASSUME NEW o \in Orders, order'[o].st = "none"
      PROVE  /\ order'[o].trade = 0 /\ choice'[o] = "none"
             /\ o \notin book' /\ o \notin arms' /\ o \notin optOut' /\ o \notin stale'.book
  <2>1. order[o].trade = 0 /\ choice[o] = "none" /\ o \notin book /\ o \notin arms
        /\ o \notin optOut /\ o \notin stale.book /\ o \notin Live
    BY <1>1, <1>2 DEF Fresh, Live
  <2>. QED
    BY <1>1, <1>2, <2>1, Sources
<1>. QED
  BY <1>2 DEF Fresh

\* A disarmed order that rests stays on the list of opt-outs and off the arms.
LEMMA RespectedStays ==
    ASSUME TypeOK, Fresh, Respected, [Next]_vars
    PROVE  Respected'
<1>. SUFFICES ASSUME NEW o \in Orders, order'[o].st = "live", choice'[o] = "disarm"
              PROVE  o \in optOut' /\ o \notin arms'
  BY DEF Respected
<1>1. order[o].st \in {"live", "none"}
  BY OrderSteps DEF Gone, Comes, TypeOK, OrderRec
<1>2. CASE order[o].st = "none"
  BY <1>2, Sources DEF Fresh
<1>3. CASE order[o].st = "live" /\ UNCHANGED <<optOut, choice>> /\ arms' \subseteq arms
  BY <1>3 DEF Respected
<1>4. ASSUME NEW x \in Orders, order[o].st = "live", ArmSafeMode(x) \/ DisarmSafeMode(x)
      PROVE  o \in optOut' /\ o \notin arms'
  BY <1>4 DEF ArmSafeMode, DisarmSafeMode, Respected, TypeOK
<1>5. CASE order[o].st = "live" /\ Refresh
  <2>1. o \in optOut /\ o \notin arms /\ o \in Live
    BY <1>5 DEF Refresh, Respected, Live
  <2>. QED
    BY <1>5, <2>1 DEF Refresh, PrunedOptOut, AutoArmed
<1>6. ASSUME NEW j \in Jobs, ExecuteTrade(j) \/ Call(j) \/ CallCancels(j) \/ CallFreed(j) \/ CallPlaces(j)
      PROVE  UNCHANGED <<optOut, choice>> /\ arms' \subseteq arms
  BY <1>6 DEF ExecuteTrade, Call, CallCancels, CallFreed, CallPlaces, guard
<1>7. CASE CheckSafeMode \/ FireNext
  <2>1. arms' \subseteq arms
    BY <1>7, Scanning DEF CheckSafeMode, FireNext, TypeOK
  <2>. QED
    BY <1>1, <1>2, <1>3, <1>7, <2>1 DEF CheckSafeMode, FireNext
<1>8. CASE AddPending \/ DismissTrade \/ TickerRefresh \/ Enrich \/ Enriched \/ FireCancels \/ FireFreed \/ FirePlaces \/ BracketPlaces
  BY <1>1, <1>2, <1>3, <1>8 DEF AddPending, DismissTrade, TickerRefresh, Enrich, Enriched, FireCancels, FireFreed, FirePlaces, BracketPlaces, guard
<1>9. CASE Restart \/ Resume \/ UNCHANGED vars \/ \E x \in Orders : Leaves(x)
  BY <1>1, <1>2, <1>3, <1>9 DEF Restart, Resume, Leaves, vars, guard
<1>. QED
  BY <1>1, <1>2, <1>3, <1>4, <1>5, <1>6, <1>7, <1>8, <1>9 DEF Next

------------------------------------------------------------------------------
\* A trade is in one place.
Placed(t) == /\ \A o \in Orders : order'[o].trade \in {order[o].trade, t}
             /\ \A o, p \in Orders : order'[o].trade # order[o].trade /\ order'[p].trade # order[p].trade => o = p

LEMMA Positive == \A t \in Trades : t # 0 /\ t \in 0..MaxTrades
  BY Sizes DEF Trades

LEMMA OrdersKeepTrades ==
    ASSUME TypeOK, Fresh, [Next]_vars
    PROVE  \/ Placed(0)
           \/ \E j \in Jobs : CallPlaces(j) /\ Placed(job[j].trade)
<1>1. ASSUME NEW n \in Orders, NEW owner, NEW t, Comes(n, owner, t)
      PROVE  Placed(t)
  BY <1>1 DEF Comes, Placed, TypeOK
<1>2. ASSUME NEW o \in Orders, Gone(o)
      PROVE  Placed(0)
  BY <1>2 DEF Gone, Placed, TypeOK, OrderRec
<1>3. CASE UNCHANGED order
  BY <1>3 DEF Placed
<1>. QED
  BY <1>1, <1>2, <1>3, OrderSteps

\* Only an order that has never rested changes its trade.
LEMMA TradesStick ==
    ASSUME TypeOK, Fresh, [Next]_vars, NEW o \in Orders, order[o].trade # 0
    PROVE  order'[o].trade = order[o].trade
<1>1. order[o].st # "none"
  BY DEF Fresh
<1>. QED
  BY <1>1, OrderSteps DEF Comes, Gone, TypeOK, OrderRec

\* Steps that move no trade: an order comes to rest for none, a call may end.
Idle == /\ \A o \in Orders : order'[o].trade = order[o].trade
        /\ \A j \in Jobs : job'[j].trade \in {job[j].trade, 0}
        /\ UNCHANGED queue

LEMMA IdleKeeps ==
    ASSUME Claimed, Withheld, Idle
    PROVE  Claimed' /\ Withheld'
<1>1. pending' = pending /\ record' = record
  BY DEF Idle, queue
<1>2. Claimed'
  BY <1>1 DEF Idle, Claimed
<1>3. ASSUME NEW t \in Trades, Unsent(t)
      PROVE  Unsent(t)'
  BY <1>1, <1>3, Positive DEF Idle, Unsent
<1>. QED
  BY <1>1, <1>2, <1>3 DEF Withheld

LEMMA OtherStepsAreIdle ==
    ASSUME TypeOK, Fresh, [Next]_vars, ~AddPending, ~DismissTrade,
           \A j \in Jobs : ~ExecuteTrade(j) /\ ~CallPlaces(j)
    PROVE  Idle
<1>0. Placed(0)
  BY OrdersKeepTrades
<1>1. \A o \in Orders : order'[o].trade = order[o].trade
  BY <1>0, TradesStick DEF Placed
<1>2. CASE UNCHANGED job /\ UNCHANGED queue
  BY <1>1, <1>2 DEF Idle
<1>3. ASSUME NEW j \in Jobs, Call(j)
      PROVE  Idle
  <2>1. UNCHANGED queue /\ \E kind, o : job' = [job EXCEPT ![j] = [pc |-> "cancel", kind |-> kind, o |-> o, trade |-> 0]]
    BY <1>3 DEF Call
  <2>. QED
    BY <1>1, <2>1 DEF Idle, TypeOK
<1>4. ASSUME NEW j \in Jobs, CallCancels(j) \/ CallFreed(j)
      PROVE  Idle
  <2>1. UNCHANGED queue /\ \E r \in {IdleJob, [job[j] EXCEPT !.pc = "freed"], [job[j] EXCEPT !.pc = "place"]} : job' = [job EXCEPT ![j] = r]
    BY <1>4 DEF CallCancels, CallFreed, queue
  <2>. QED
    BY <1>1, <2>1 DEF Idle, TypeOK, JobRec, IdleJob
<1>5. CASE Restart
  BY <1>1, <1>5 DEF Restart, Idle, IdleJob
<1>6. ASSUME NEW o \in Orders, ArmSafeMode(o) \/ DisarmSafeMode(o) \/ Leaves(o)
      PROVE  Idle
  BY <1>2, <1>6 DEF ArmSafeMode, DisarmSafeMode, Leaves
<1>7. CASE Refresh \/ TickerRefresh \/ Enrich \/ Enriched \/ BracketPlaces \/ Resume \/ UNCHANGED vars
  BY <1>2, <1>7 DEF Refresh, TickerRefresh, Enrich, Enriched, BracketPlaces, Resume, vars, queue
<1>8. CASE CheckSafeMode \/ FireCancels \/ FireFreed \/ FirePlaces \/ FireNext
  BY <1>2, <1>8 DEF CheckSafeMode, FireCancels, FireFreed, FirePlaces, FireNext
<1>. QED
  BY <1>3, <1>4, <1>5, <1>6, <1>7, <1>8 DEF Next

\* A trade is staged: it was none's before, and the one it supersedes was only in the queue.
LEMMA AddKeeps ==
    ASSUME TypeOK, Claimed, Withheld, AddPending
    PROVE  Claimed' /\ Withheld'
<1>1. PICK t \in Trades : /\ record[t] = "none" /\ pending' = t
                          /\ record' = [d \in Trades |-> IF d = t THEN "staged"
                                         ELSE IF d = pending THEN "superseded" ELSE record[d]]
  BY DEF AddPending
<1>2. UNCHANGED <<order, job>> /\ Unsent(t)
  BY <1>1 DEF AddPending, Withheld
<1>3. Claimed'
  BY <1>1, <1>2 DEF Claimed, Unsent
<1>4. ASSUME NEW d \in Trades, record'[d] \in {"none", "dismissed", "superseded"}
      PROVE  Unsent(d)'
  <2>1. d # t
    BY <1>1, <1>4
  <2>2. (\A o \in Orders : order[o].trade # d) /\ (\A j \in Jobs : job[j].trade # d)
    <3>1. CASE d = pending
      BY <3>1, Positive DEF Claimed
    <3>2. CASE d # pending
      BY <1>1, <1>4, <2>1, <3>2 DEF Withheld, Unsent
    <3>. QED
      BY <3>1, <3>2
  <2>. QED
    BY <1>1, <1>2, <2>1, <2>2 DEF Unsent
<1>. QED
  BY <1>3, <1>4 DEF Withheld

\* The queue's trade moves to the call that takes it.
LEMMA ExecuteKeeps ==
    ASSUME TypeOK, Claimed, Withheld, NEW j \in Jobs, ExecuteTrade(j)
    PROVE  Claimed' /\ Withheld'
<1>1. /\ pending # 0 /\ pending' = 0 /\ UNCHANGED <<order, record>>
      /\ job' = [job EXCEPT ![j] = [pc |-> "place", kind |-> "trade", o |-> 0, trade |-> pending]]
  BY DEF ExecuteTrade, RemovePending
<1>2. \A k \in Jobs : job'[k].trade = IF k = j THEN pending ELSE job[k].trade
  BY <1>1 DEF TypeOK
<1>3. Claimed'
  BY <1>1, <1>2 DEF Claimed
<1>4. ASSUME NEW t \in Trades, Unsent(t)
      PROVE  Unsent(t)'
  BY <1>1, <1>2, <1>4, Positive DEF Unsent
<1>. QED
  BY <1>1, <1>3, <1>4 DEF Withheld

\* A dismissed trade leaves the queue, where alone it was.
LEMMA DismissKeeps ==
    ASSUME TypeOK, Claimed, Withheld, DismissTrade
    PROVE  Claimed' /\ Withheld'
<1>1. /\ pending # 0 /\ pending' = 0 /\ UNCHANGED <<order, job>>
      /\ record' = [record EXCEPT ![pending] = "dismissed"]
  BY DEF DismissTrade, RemovePending
<1>2. Claimed'
  BY <1>1 DEF Claimed
<1>3. ASSUME NEW t \in Trades, record'[t] \in {"none", "dismissed", "superseded"}
      PROVE  Unsent(t)'
  <2>1. CASE t = pending
    BY <1>1, <2>1 DEF Claimed, Unsent
  <2>2. CASE t # pending
    BY <1>1, <1>3, <2>2, Positive DEF Withheld, Unsent, TypeOK
  <2>. QED
    BY <2>1, <2>2
<1>. QED
  BY <1>2, <1>3 DEF Withheld

\* The call's trade moves to the order it comes to rest as, if any, and is recorded.
LEMMA PlacesKeeps ==
    ASSUME TypeOK, Fresh, Claimed, Withheld, NEW j \in Jobs, CallPlaces(j)
    PROVE  Claimed' /\ Withheld'
<1>. DEFINE t == job[j].trade
<1>1. UNCHANGED pending /\ job' = [job EXCEPT ![j] = IdleJob]
  BY DEF CallPlaces
<1>2. Placed(t)
  <2>1. (UNCHANGED order) \/ \E n \in Orders : Comes(n, "operator", t)
    BY Placing DEF CallPlaces
  <2>. QED
    BY <2>1 DEF Placed, Comes, TypeOK
<1>3. \A o \in Orders : order[o].trade # 0 => order'[o].trade = order[o].trade
  BY TradesStick DEF Next
<1>4. job'[j].trade = 0 /\ \A k \in Jobs : k # j => job'[k].trade = job[k].trade
  BY <1>1 DEF TypeOK, IdleJob
<1>5. Claimed'
  BY <1>1, <1>2, <1>3, <1>4 DEF Claimed, Placed
<1>6. t = 0 \/ record'[t] \in {"executed", "failed"}
  <2>1. t \in 0..MaxTrades
    BY DEF TypeOK, JobRec
  <2>2. t = 0 \/ t \in Trades
    BY <2>1, Sizes DEF Trades
  <2>. QED
    BY <2>2 DEF CallPlaces, TypeOK
<1>7. \A d \in Trades : d # t => record'[d] = record[d]
  BY DEF CallPlaces, TypeOK
<1>8. ASSUME NEW d \in Trades, record'[d] \in {"none", "dismissed", "superseded"}
      PROVE  Unsent(d)'
  <2>1. d # t
    BY <1>6, <1>8, Positive
  <2>2. Unsent(d)
    BY <1>7, <1>8, <2>1 DEF Withheld
  <2>. QED
    BY <1>1, <1>2, <1>4, <2>1, <2>2, Positive DEF Unsent, Placed
<1>. QED
  BY <1>5, <1>8 DEF Withheld

LEMMA TradesStay ==
    ASSUME TypeOK, Fresh, Claimed, Withheld, [Next]_vars
    PROVE  Claimed' /\ Withheld'
  BY IdleKeeps, OtherStepsAreIdle, AddKeeps, ExecuteKeeps, DismissKeeps, PlacesKeeps

------------------------------------------------------------------------------
LEMMA InvariantInit == Init => IInv
<1>. SUFFICES ASSUME Init
              PROVE  IInv
  OBVIOUS
<1>1. TypeOK
  <2>1. order \in [Orders -> OrderRec] /\ job \in [Jobs -> JobRec]
    BY Sizes DEF Init, OrderRec, JobRec, IdleJob
  <2>2. hot \in HotRec /\ stale \in [on : BOOLEAN, book : SUBSET Orders] /\ upsets \subseteq UpsetKind \cup Uses
    BY Sizes DEF Init, IdleHot, NoStale, HotRec
  <2>. QED
    BY <2>1, <2>2, Sizes DEF Init, TypeOK, HotRec
<1>2. Fresh /\ Respected
  BY DEF Init, Fresh, Respected, NoStale
<1>3. (\A o \in Orders : order[o].trade = 0) /\ (\A j \in Jobs : job[j].trade = 0) /\ pending = 0
  BY DEF Init, IdleJob
<1>4. Claimed /\ Withheld
  BY <1>3, Positive DEF Claimed, Withheld, Unsent
<1>. QED
  BY <1>1, <1>2, <1>4 DEF IInv

\* The invariant that the results below rest on.
THEOREM InvariantHolds == Spec => []IInv
<1>1. IInv /\ [Next]_vars => IInv'
  BY TypesStay, FreshStays, RespectedStays, TradesStay DEF IInv
<1>. QED
  BY InvariantInit, <1>1, PTL DEF Spec

\* Every variable has its type, whatever the calls, the refreshes and the firings do.
THEOREM TypeCorrect == Spec => []TypeOK
<1>1. IInv => TypeOK
  BY DEF IInv
<1>. QED
  BY InvariantHolds, <1>1, PTL

\* autoArmSafeMode() never arms again what the operator disarmed, through refreshes,
\* prunes, firings and restarts.
THEOREM DisarmIsRespected == Spec => []DisarmHolds
<1>1. IInv => DisarmHolds
  BY DEF IInv, TypeOK, Respected, DisarmHolds, Live
<1>. QED
  BY InvariantHolds, <1>1, PTL

\* executeTrade() sends a staged trade once, and never one that was dismissed or superseded.
THEOREM TradesAreSentOnce == Spec => []TradesOnce
<1>1. ASSUME IInv, NEW t \in Trades
      PROVE  LET sent == {o \in Orders : order[o].trade = t}
             IN  Cardinality(sent) <= (IF record[t] \in {"dismissed", "superseded"} THEN 0 ELSE 1)
  <2>. DEFINE sent == {o \in Orders : order[o].trade = t}
  <2>1. CASE sent = {}
    BY <2>1, FS_EmptySet
  <2>2. ASSUME NEW o \in sent
        PROVE  Cardinality(sent) = 1 /\ record[t] \notin {"dismissed", "superseded"}
    <3>1. \A p \in sent : p = o
      BY <1>1, Positive DEF IInv, Claimed
    <3>2. sent = {o}
      BY <3>1
    <3>3. Cardinality(sent) = 1
      BY <3>2, FS_Singleton
    <3>4. ~Unsent(t)
      BY DEF Unsent
    <3>. QED
      BY <1>1, <3>3, <3>4 DEF IInv, Withheld
  <2>. QED
    BY <2>1, <2>2
<1>2. IInv => TradesOnce
  BY <1>1 DEF TradesOnce
<1>. QED
  BY InvariantHolds, <1>2, PTL
=============================================================================
