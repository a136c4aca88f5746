------------------------------ MODULE SafeMode ------------------------------
(***************************************************************************)
(* CryptoHub's trade queue, its calls on resting orders and safe mode, the *)
(* software-side stop on a resting sell (server/crypto.ts).  One symbol,   *)
(* sells only.                                                             *)
(*                                                                         *)
(* Four kinds of coroutine work on the same orders, each with awaits       *)
(* between what it read and what it does: the operator's calls             *)
(* (executeTrade, cancelOpenOrder, closePosition, modifyOpenOrder), the    *)
(* refreshes, the hot refresh that checks and fires the armed stops, and   *)
(* the bracket engine (module Bracket), which is here only the owner of    *)
(* some orders.  Prices are not modelled: a check finds any set of the     *)
(* armed stops triggered, and looks at them in any order.                  *)
(***************************************************************************)
EXTENDS Integers, FiniteSets, FiniteSetsExt

CONSTANTS
    MaxOrders,  \* bound: orders that come to rest
    MaxTrades,  \* bound: trades staged
    Jobs,       \* the operator's calls that may overlap
    Scenarios   \* bound: sets of what may happen; each upset happens at most once

UpsetKind == {"fault", "lost", "enrich", "unpriced", "restart"}
Uses == {"trades", "calls", "overlap", "arming", "brackets", "stopless"}

ASSUME SafeModeConstants ==
    /\ MaxOrders \in Nat \ {0} /\ MaxTrades \in Nat /\ Scenarios \subseteq SUBSET (UpsetKind \cup Uses)

Orders == 1..MaxOrders
Trades == 1..MaxTrades

\* owner: who manages the order; trade: the staged trade it executes, 0 for another's.
OrderRec == [st : {"none", "live", "gone"}, owner : {"operator", "bracket"},
             trade : 0..MaxTrades]

\* What an operator's call awaits, about which order and for which trade.
JobRec == [pc : {"idle", "cancel", "freed", "place"}, kind : {"trade", "cancel", "replace"},
           o : 0..MaxOrders, trade : 0..MaxTrades]
IdleJob == [pc |-> "idle", kind |-> "trade", o |-> 0, trade |-> 0]

VARIABLES
    order,    \* the exchange: the sells of the symbol
    book,     \* snapshot.openOrders
    arms,     \* safe-mode.json and snapshot.safeMode: the armed orders
    optOut,   \* safe-mode-optout.json
    hot,      \* checkSafeMode(): the arms captured and not yet examined, the order fired
    stale,    \* the open orders that the cost-basis enrichment is about to write back
    job,      \* the operator's calls
    pending,  \* pending.json: the staged trade, 0 for none
    record,   \* trades.json: what became of each trade
    brackets, \* whether AutoPlanner.plans holds the live bracket
    up,       \* "boot" until the brackets are resumed
    priced,   \* whether snapshot.tickers has a price of the symbol
    upsets,   \* the scenario's uses and the upsets still to come
    choice    \* history: the operator's last explicit call on each order

vars == <<order, book, arms, optOut, hot, stale, job, pending, record, brackets, up, priced, upsets, choice>>
guard == <<arms, optOut, hot, choice>>
queue == <<pending, record>>
proc == <<brackets, up, priced>>

IdleHot == [pc |-> "idle", todo |-> {}, cur |-> 0]
NoStale == [on |-> FALSE, book |-> {}]

Init ==
    /\ order = [o \in Orders |-> [st |-> "none", owner |-> "operator", trade |-> 0]]
    /\ book = {} /\ arms = {} /\ optOut = {} /\ choice = [o \in Orders |-> "none"]
    /\ hot = IdleHot /\ stale = NoStale
    /\ job = [j \in Jobs |-> IdleJob]
    /\ pending = 0 /\ record = [t \in Trades |-> "none"]
    /\ brackets = TRUE /\ up = "up" /\ priced = TRUE /\ upsets \in Scenarios

Upset(kind) == kind \in upsets /\ upsets' = upsets \ {kind}
Calm == UNCHANGED upsets
Live == {o \in Orders : order[o].st = "live"}
NewOrder == CHOOSE o \in Orders : order[o].st = "none"
CanOrder == \E o \in Orders : order[o].st = "none"

-----------------------------------------------------------------------------
(***************************************************************************)
(* Requests: geminiPrivateFetch() sends them one at a time, and what the   *)
(* caller does with an answer precedes the next answer.                    *)
(***************************************************************************)
Rests(owner, trade) ==
    order' = [order EXCEPT ![NewOrder] = [st |-> "live", owner |-> owner, trade |-> trade]]

\* placeOrder(): accepted, rejected, or accepted with the answer lost.
PlaceOrder(trade, ok) ==
    /\ CanOrder
    /\ \/ ok /\ Rests("operator", trade) /\ Calm
       \/ ~ok /\ UNCHANGED order /\ Upset("fault")
       \/ ~ok /\ Rests("operator", trade) /\ Upset("lost")

\* cancelOrderVerified(): the cancel of an order that is gone may be an error or not; a
\* failed request leaves the order, a failed status read hides that it is gone.
CancelOrderVerified(o, ok) ==
    \/ o \notin Live /\ UNCHANGED order /\ Calm
    \/ o \in Live /\ ok /\ order' = [order EXCEPT ![o].st = "gone"] /\ Calm
    \/ /\ o \in Live /\ ~ok /\ Upset("fault")
       /\ order' = order \/ order' = [order EXCEPT ![o].st = "gone"]

-----------------------------------------------------------------------------
(***************************************************************************)
(* Staged trades.                                                          *)
(***************************************************************************)
\* Mutant: the staged trade stays in the queue until its order is placed.
LeavesPending == UNCHANGED pending

RemovePending == pending' = 0

\* A call may begin.
Free(j) == job[j].pc = "idle" /\ (j = Min(Jobs) \/ "overlap" \in upsets)

\* addPending() supersedes the trade staged before it under the same key.
AddPending ==
    /\ "trades" \in upsets
    /\ \E t \in Trades :
         /\ record[t] = "none" /\ \A d \in 1..(t - 1) : record[d] # "none"
         /\ pending' = t
         /\ record' = [d \in Trades |-> IF d = t THEN "staged"
                                         ELSE IF d = pending THEN "superseded" ELSE record[d]]
    /\ UNCHANGED <<order, book, guard, stale, job, proc, upsets>>

\* executeTrade() takes the trade off the queue before it awaits the order.
ExecuteTrade(j) ==
    /\ Free(j) /\ pending # 0
    /\ job' = [job EXCEPT ![j] = [pc |-> "place", kind |-> "trade", o |-> 0, trade |-> pending]]
    /\ RemovePending
    /\ UNCHANGED <<order, book, guard, stale, record, proc, upsets>>

DismissTrade ==
    /\ pending # 0
    /\ record' = [record EXCEPT ![pending] = "dismissed"]
    /\ RemovePending
    /\ UNCHANGED <<order, book, guard, stale, job, proc, upsets>>

-----------------------------------------------------------------------------
(***************************************************************************)
(* Calls on a resting order.                                               *)
(***************************************************************************)
\* cancelOpenOrder(); closePosition() and modifyOpenOrder() cancel and replace.
Call(j) ==
    /\ Free(j) /\ "calls" \in upsets
    /\ \E kind \in {"cancel", "replace"}, o \in book :
         job' = [job EXCEPT ![j] = [pc |-> "cancel", kind |-> kind, o |-> o, trade |-> 0]]
    /\ UNCHANGED <<order, book, guard, stale, queue, proc, upsets>>

CallCancels(j) ==
    /\ job[j].pc = "cancel"
    /\ \E ok \in BOOLEAN :
         /\ CancelOrderVerified(job[j].o, ok)
         /\ job' = [job EXCEPT ![j] = IF ok THEN [@ EXCEPT !.pc = "freed"] ELSE IdleJob]
    /\ UNCHANGED <<book, guard, stale, queue, proc>>

\* The balance is released, the order leaves the snapshot, the replacement is sent.
CallFreed(j) ==
    /\ job[j].pc = "freed"
    /\ book' = book \ {job[j].o}
    /\ job' = [job EXCEPT ![j] = IF job[j].kind = "replace" THEN [@ EXCEPT !.pc = "place"]
                                 ELSE IdleJob]
    /\ UNCHANGED <<order, guard, stale, queue, proc, upsets>>

\* placeOrder() returns to a call; the refresh it then awaits is one more Refresh.
CallPlaces(j) ==
    /\ job[j].pc = "place"
    /\ \E ok \in BOOLEAN :
         /\ PlaceOrder(job[j].trade, ok)
         /\ record' = IF job[j].trade = 0 THEN record
                      ELSE [record EXCEPT ![job[j].trade] = IF ok THEN "executed" ELSE "failed"]
    /\ job' = [job EXCEPT ![j] = IdleJob]
    /\ UNCHANGED <<book, guard, stale, pending, proc>>

-----------------------------------------------------------------------------
(***************************************************************************)
(* Arming.                                                                 *)
(***************************************************************************)
\* The operator arms a resting sell of a priced symbol, which clears an opt-out.
ArmSafeMode(o) ==
    /\ o \in book /\ priced /\ "arming" \in upsets
    /\ arms' = arms \cup {o}
    /\ optOut' = optOut \ {o} /\ choice' = [choice EXCEPT ![o] = "arm"]
    /\ UNCHANGED <<order, book, hot, stale, job, queue, proc, upsets>>

DisarmSafeMode(o) ==
    /\ o \in book \cup arms /\ "arming" \in upsets
    /\ arms' = arms \ {o}
    /\ optOut' = optOut \cup {o} /\ choice' = [choice EXCEPT ![o] = "disarm"]
    /\ UNCHANGED <<order, book, hot, stale, job, queue, proc, upsets>>

\* bracketOwnedOrderIds(): the orders of the brackets that AutoPlanner.plans holds.
Owned == IF brackets THEN {o \in Orders : order[o].owner = "bracket"} ELSE {}

\* fastCashGuard(): every order of the symbol (never BTCUSD) while the plans hold one of a
\* stopless track for it; the orders of such a plan for BTCUSD are among those of Owned.
Stopless == IF brackets /\ "stopless" \in upsets THEN Orders ELSE {}

\* Mutant: only orders that the snapshot did not hold yet.
ArmsNew(armed, out) ==
    {o \in Live : priced /\ o \notin armed /\ o \notin out /\ o \notin Owned \cup Stopless /\ o \notin book}

\* autoArmSafeMode(): what it arms by default; an unpriced symbol is left to a later refresh.
AutoArmed(armed, out) ==
    {o \in Live : priced /\ o \notin armed /\ o \notin out /\ o \notin Owned \cup Stopless}

\* Mutant: the opt-outs are pruned against the snapshot of before the answer.
PrunedEarly == optOut \cap book

\* pruneSafeMode() forgets the opt-outs of orders that are gone.
PrunedOptOut == optOut \cap Live

\* fetchOpenOrders() has answered a full or a quick refresh: pruneSafeMode() drops the arms of
\* orders that are gone, autoArmSafeMode() arms the sells that are left.
Refresh ==
    LET kept == arms \cap (Live \cup {hot.cur})
        out == PrunedOptOut
    IN  /\ book' = Live
        /\ optOut' = out
        /\ arms' = kept \cup AutoArmed(kept, out)
        /\ up' = IF up = "boot" THEN "booted" ELSE up
        /\ UNCHANGED <<order, hot, stale, job, queue, brackets, priced, upsets, choice>>

\* tickerRefresh() replaces all tickers: the symbol has its price again, or its request failed
\* and it has none until the next sweep.
TickerRefresh ==
    /\ \/ ~priced /\ priced' = TRUE /\ Calm
       \/ priced /\ priced' = FALSE /\ Upset("unpriced")
    /\ UNCHANGED <<order, book, guard, stale, job, queue, brackets, up>>

\* fullRefresh() enriches the open orders it finds, awaits their cost basis ...
Enrich ==
    /\ ~stale.on /\ Upset("enrich") /\ stale' = [on |-> TRUE, book |-> book]
    /\ UNCHANGED <<order, book, guard, job, queue, proc>>

\* ... and writes them back over what the snapshot holds by then.
Enriched ==
    /\ stale.on /\ stale' = NoStale /\ book' = stale.book
    /\ UNCHANGED <<order, guard, job, queue, proc, upsets>>

-----------------------------------------------------------------------------
(***************************************************************************)
(* Firing.                                                                 *)
(***************************************************************************)
\* The loop of checkSafeMode() up to its next await: the arms it has passed over, of which
\* some were triggered for an order the snapshot no longer holds and are removed, and the
\* one it fires, if any.  Without a price none is triggered.
Scan(todo) ==
    \E passed \in SUBSET todo :
        \E orphans \in SUBSET (IF priced THEN passed \ book ELSE {}) :
            \/ passed = todo /\ arms' = arms \ orphans /\ hot' = IdleHot
            \/ priced /\ \E o \in (todo \ passed) \cap book :
                 /\ arms' = arms \ (orphans \cup {o})
                 /\ hot' = [pc |-> "cancel", todo |-> todo \ (passed \cup {o}), cur |-> o]

\* hotRefresh() has its marks; it does not overlap itself.
CheckSafeMode ==
    /\ up = "up" /\ hot.pc = "idle" /\ arms # {}
    /\ Scan(arms)
    /\ UNCHANGED <<order, book, optOut, stale, job, queue, proc, upsets, choice>>

FireCancels ==
    /\ hot.pc = "cancel"
    /\ \E ok \in BOOLEAN :
         /\ CancelOrderVerified(hot.cur, ok)
         /\ hot' = [hot EXCEPT !.pc = IF ok THEN "freed" ELSE "next"]
    /\ UNCHANGED <<book, arms, optOut, stale, job, queue, proc, choice>>

FireFreed ==
    /\ hot.pc = "freed"
    /\ book' = book \ {hot.cur} /\ hot' = [hot EXCEPT !.pc = "place"]
    /\ UNCHANGED <<order, arms, optOut, stale, job, queue, proc, upsets, choice>>

\* The sell is listed again near the market, or the position is left unprotected.
FirePlaces ==
    /\ hot.pc = "place"
    /\ \E ok \in BOOLEAN : PlaceOrder(0, ok)
    /\ hot' = [hot EXCEPT !.pc = "next"]
    /\ UNCHANGED <<book, arms, optOut, stale, job, queue, proc, choice>>

\* The loop goes on with the arms it captured.
FireNext ==
    /\ hot.pc = "next" /\ Scan(hot.todo)
    /\ UNCHANGED <<order, book, optOut, stale, job, queue, proc, upsets, choice>>

-----------------------------------------------------------------------------
(***************************************************************************)
(* The bracket engine, the exchange and the process.                       *)
(***************************************************************************)
\* A bracket's stop or take-profit rests; its id is recorded with the answer.
BracketPlaces ==
    /\ brackets /\ "brackets" \in upsets /\ CanOrder /\ Rests("bracket", 0)
    /\ UNCHANGED <<book, guard, stale, job, queue, proc, upsets>>

\* It fills, or is cancelled elsewhere.
Leaves(o) ==
    /\ o \in Live
    /\ order' = [order EXCEPT ![o].st = "gone"]
    /\ UNCHANGED <<book, guard, stale, job, queue, proc, upsets>>

\* The process dies and comes back: the files are read, the plans are not yet.
Restart ==
    /\ up = "up" /\ Upset("restart")
    /\ book' = {} /\ hot' = IdleHot /\ stale' = NoStale /\ job' = [j \in Jobs |-> IdleJob]
    /\ brackets' = FALSE /\ up' = "boot" /\ priced' = FALSE
    /\ UNCHANGED <<order, arms, optOut, queue, choice>>

\* resumeBracketIfAny(), after the boot's refresh.
Resume ==
    /\ up = "booted" /\ brackets' = TRUE /\ up' = "up"
    /\ UNCHANGED <<order, book, guard, stale, job, queue, priced, upsets>>

Next ==
    \/ AddPending \/ DismissTrade
    \/ \E j \in Jobs : ExecuteTrade(j) \/ Call(j) \/ CallCancels(j) \/ CallFreed(j) \/ CallPlaces(j)
    \/ \E o \in Orders : ArmSafeMode(o) \/ DisarmSafeMode(o) \/ Leaves(o)
    \/ Refresh \/ TickerRefresh \/ Enrich \/ Enriched
    \/ CheckSafeMode \/ FireCancels \/ FireFreed \/ FirePlaces \/ FireNext
    \/ BracketPlaces \/ Restart \/ Resume

Spec == Init /\ [][Next]_vars

\* The refresh timer keeps firing, and a later sweep finds the symbol's price.
FairSpec == Spec /\ WF_vars(Refresh) /\ WF_vars(TickerRefresh)

-----------------------------------------------------------------------------
(***************************************************************************)
(* Properties.                                                             *)
(***************************************************************************)
\* Every variable has its type.
TypeOK ==
    /\ order \in [Orders -> OrderRec] /\ book \subseteq Orders /\ optOut \subseteq Orders
    /\ arms \subseteq Orders
    /\ hot \in [pc : {"idle", "cancel", "freed", "place", "next"}, todo : SUBSET Orders, cur : 0..MaxOrders]
    /\ stale \in [on : BOOLEAN, book : SUBSET Orders]
    /\ job \in [Jobs -> JobRec] /\ pending \in 0..MaxTrades
    /\ record \in [Trades -> {"none", "staged", "executed", "failed", "dismissed", "superseded"}]
    /\ brackets \in BOOLEAN /\ priced \in BOOLEAN /\ up \in {"up", "boot", "booted"}
    /\ upsets \subseteq UpsetKind \cup Uses /\ choice \in [Orders -> {"none", "arm", "disarm"}]

\* A staged trade is sent at most once whatever is called on it twice, and a trade that was
\* dismissed or superseded never (executeTrade's early removePending).
TradesOnce ==
    \A t \in Trades :
        LET sent == {o \in Orders : order[o].trade = t}
        IN  Cardinality(sent) <= (IF record[t] \in {"dismissed", "superseded"} THEN 0 ELSE 1)

\* An order the operator disarmed is not armed for him again while it rests, through
\* refreshes, prunes, firings and restarts (crypto.ts 6991).
DisarmHolds == \A o \in arms \cap Live : choice[o] # "disarm"

\* A resting sell that no bracket owns, the operator did not disarm and no stopless plan
\* excludes comes to be armed or leaves, whenever it came to rest and however long the symbol
\* had no price (crypto.ts 7125, 7141).
Unarmed == Live \ (arms \cup optOut \cup Owned \cup Stopless)
Guarded == Unarmed # {} ~> Unarmed = {}
=============================================================================
