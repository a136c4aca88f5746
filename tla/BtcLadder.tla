------------------------------ MODULE BtcLadder ------------------------------
(***************************************************************************)
(* The BTC ladder's ledger (AutoPlanner, server/crypto.ts): every slice    *)
(* of BTC a ladder plan sells opens a cycle in btc-ladder-cycles.json that *)
(* only its buy-back closes.  Plans open, link and close cycles as their   *)
(* orders are placed and fill; beside them reconcileBtcLadder() compares   *)
(* the ledger with the order book and the trade history, adopts, reopens   *)
(* and closes cycles, and stages the buy-back of a slice that has none.    *)
(*                                                                         *)
(* Cycles are numbered in the order of their sales.  A pass of the         *)
(* reconciler is a coroutine: it reads the book, then compares and awaits  *)
(* the trades, then decides and saves the copy it began with.  There is    *)
(* one BTCUSD plan at a time (PlanRunner models its coroutine).            *)
(***************************************************************************)
EXTENDS Integers, FiniteSets, FiniteSetsExt, SequencesExt

CONSTANTS
    MaxSells,   \* bound: slices sold
    MaxOrders,  \* bound: buy orders sent
    Passes,     \* passes of the reconciler that may overlap
    Scenarios   \* bound: sets of kinds of sale and of upsets, each upset at most once

\* roundtrip: the plan holds the buy-back as well; naked: a lone sell, its buy-back is
\* derived from the market and its level is not in the ledger; scaleout: marked as one.
Kind == {"roundtrip", "naked", "scaleout"}
UpsetKind == {"second", "third", "queued", "fault", "lost", "cancel", "timestop", "stop", "dismiss",
              "restart", "crash", "eager", "foreign"}

ASSUME LadderConstants ==
    /\ MaxSells \in Nat \ {0} /\ MaxOrders \in Nat
    /\ Scenarios \subseteq SUBSET (Kind \cup UpsetKind)

Cycles == 1..MaxSells
Orders == 1..MaxOrders
Status == {"none", "open", "staged", "resting", "closed"}
CycleRec == [status : Status, order : 0..MaxOrders, kind : Kind]
Ledger == [Cycles -> CycleRec]

\* The BTCUSD entry of AutoPlanner.plans: the cycle its buy-back is meant for, its order.
PlanRec == [st : {"none", "proposed", "selling", "sending", "waiting", "foreign"},
            c : 0..MaxSells, o : 0..MaxOrders]
NoPlan == [st |-> "none", c |-> 0, o |-> 0]

\* for: the cycle the order buys back, 0 for another strategy's; at: slices sold when it
\* filled; answer: whether placeOrder() has returned.
OrderRec == [st : {"none", "live", "filled", "cancelled"}, for : 0..MaxSells,
             at : 0..MaxSells, answer : {"due", "in", "lost"}]
NoOrder == [st |-> "none", for |-> 0, at |-> 0, answer |-> "lost"]

VARIABLES
    ledger,   \* btc-ladder-cycles.json
    plan,     \* the BTCUSD plan in memory
    saved,    \* the BTCUSD plan in active-plans.json
    sending,  \* buy-backs whose order a coroutine is about to send, per cycle
    watched,  \* orders a coroutine polls
    order,    \* the exchange: the BTC buy orders
    sold,     \* slices sold
    snap,     \* snapshot.openOrders, its BTC buys
    pass,     \* the passes of reconcileBtcLadder()
    up,       \* "boot" until resumePlansIfAny(), which waits for the first pass
    upsets    \* the upsets still to come

vars == <<ledger, plan, saved, sending, watched, order, sold, snap, pass, up, upsets>>
world == <<order, sold>>
flow == <<plan, saved, sending, watched>>

\* ahead: another coroutine's request may still be answered before the pass's own.
IdlePass == [pc |-> "idle", book |-> {}, copy |-> <<>>, inFlight |-> FALSE, block |-> FALSE,
             ahead |-> FALSE]

Init ==
    /\ \E scenario \in Scenarios : \E kinds \in [Cycles -> scenario \cap Kind] :
         /\ ledger = [c \in Cycles |-> [status |-> "none", order |-> 0, kind |-> kinds[c]]]
         /\ upsets = scenario \ Kind
    /\ plan = NoPlan /\ saved = NoPlan
    /\ sending = [c \in Cycles |-> 0] /\ watched = {}
    /\ order = [o \in Orders |-> NoOrder]
    /\ sold = 0 /\ snap = {} /\ pass = [p \in Passes |-> IdlePass]
    /\ up = "up"

Upset(kind) == kind \in upsets /\ upsets' = upsets \ {kind}
Calm == UNCHANGED upsets

\* Every change of a plan is followed by notify(), which mirrors the plans to disk.
SetPlan(s) == plan' = s /\ saved' = s

Live == {o \in Orders : order[o].st = "live"}
NewOrder == Min({o \in Orders : order[o].st = "none"})
CanOrder == \E o \in Orders : order[o].st = "none"
\* geminiPrivateFetch() sends one private request at a time, in order: none is answered
\* while an order is being placed, and while a pass waits for its trades only a request
\* that was queued before the pass's.
Requesting == \E o \in Orders : order[o].answer = "due"
Request == /\ ~Requesting
           /\ \A p \in Passes : pass[p].pc = "trades" => pass[p].ahead
           /\ pass' = [p \in Passes |-> [pass[p] EXCEPT !.ahead = FALSE]]
Active == plan.st \in {"selling", "sending", "waiting", "foreign"}
In(l, status) == {c \in Cycles : l[c].status = status}

-----------------------------------------------------------------------------
(***************************************************************************)
(* The ledger's own operations.                                            *)
(***************************************************************************)
openBtcLadderCycle(l, c) == [l EXCEPT ![c].status = "open"]

\* The oldest staged cycle, else the oldest open one.
linkBtcRebuyOrder(l, o) ==
    LET staged == In(l, "staged")
        from == IF staged # {} THEN staged ELSE In(l, "open")
    IN  IF from = {} THEN l
        ELSE [l EXCEPT ![Min(from)] = [@ EXCEPT !.status = "resting", !.order = o]]

\* Only a resting cycle that claims this very order.
closeBtcLadderCycle(l, o) ==
    LET claims == {c \in In(l, "resting") : l[c].order = o}
    IN  IF claims = {} THEN l ELSE [l EXCEPT ![Min(claims)].status = "closed"]

\* Another strategy may not have the slot while a slice waits for its buy-back.
Reserved == \E c \in Cycles : /\ ledger[c].status \in {"open", "staged"}
                              /\ ledger[c].kind # "scaleout"

-----------------------------------------------------------------------------
(***************************************************************************)
(* The BTCUSD plan.                                                        *)
(***************************************************************************)
\* A ladder plan is proposed and confirmed; it begins with a sale.
Allowed(c) == c = 1 \/ (c = 2 /\ "second" \in upsets) \/ (c > 2 /\ "third" \in upsets)
StartSell ==
    /\ up = "up" /\ ~Active
    /\ sold < MaxSells /\ Allowed(sold + 1)
    /\ SetPlan([st |-> "selling", c |-> sold + 1, o |-> 0])
    /\ UNCHANGED <<ledger, sending, watched, world, snap, pass, up, upsets>>

\* waitForFill() sees the sale; onStepFilled() opens the cycle, then run() goes on.
SellFills ==
    /\ plan.st = "selling" /\ Request
    /\ LET c == plan.c
           more == ledger[c].kind = "roundtrip"
       IN  /\ ledger' = openBtcLadderCycle(ledger, c)
           /\ SetPlan(IF more THEN [plan EXCEPT !.st = "sending"] ELSE NoPlan)
           /\ sending' = IF more THEN [sending EXCEPT ![c] = @ + 1] ELSE sending
    /\ sold' = sold + 1
    /\ UNCHANGED <<watched, order, snap, up, upsets>>

\* The operator, or evaluateAutoExecute() right after the pass, confirms the staged buy-back.
Confirm ==
    /\ plan.st = "proposed"
    /\ IF up = "up" THEN Calm ELSE Upset("eager")
    /\ SetPlan([plan EXCEPT !.st = "sending"])
    /\ sending' = [sending EXCEPT ![plan.c] = @ + 1]
    /\ UNCHANGED <<ledger, watched, world, snap, pass, up>>

Dismiss ==
    /\ plan.st = "proposed" /\ Upset("dismiss")
    /\ SetPlan(NoPlan)
    /\ UNCHANGED <<ledger, sending, watched, world, snap, pass, up>>

\* stop() refuses between a sale and its buy-back; it cancels nothing.
Stop ==
    /\ plan.st \in {"sending", "waiting"}
    /\ ~(plan.st = "sending" /\ ledger[plan.c].kind = "roundtrip" /\ ledger[plan.c].status = "open")
    /\ Upset("stop")
    /\ SetPlan(NoPlan)
    /\ UNCHANGED <<ledger, sending, watched, world, snap, pass, up>>

\* The failed step of this cycle's buy-back ends its plan.
Halted(c) == IF plan.st = "sending" /\ plan.c = c THEN SetPlan(NoPlan)
             ELSE UNCHANGED <<plan, saved>>

\* placeOrder() is called; the exchange accepts the order or the request fails.
Send(c) ==
    /\ sending[c] > 0 /\ CanOrder /\ Request
    /\ sending' = [sending EXCEPT ![c] = @ - 1]
    /\ \/ /\ order' = [order EXCEPT ![NewOrder] =
                         [st |-> "live", for |-> c, at |-> 0, answer |-> "due"]]
          /\ Calm /\ UNCHANGED <<plan, saved>>
       \/ Upset("fault") /\ Halted(c) /\ UNCHANGED order
    /\ UNCHANGED <<ledger, watched, sold, snap, up>>

\* placeOrder() returns; the order is linked at once, and polled unless the plan stopped.
Answer(o) ==
    /\ order[o].answer = "due"
    /\ order' = [order EXCEPT ![o].answer = "in"]
    /\ ledger' = linkBtcRebuyOrder(ledger, o)
    /\ IF plan.st = "sending" /\ plan.c = order[o].for
       THEN SetPlan([plan EXCEPT !.st = "waiting", !.o = o]) /\ watched' = watched \cup {o}
       ELSE UNCHANGED <<plan, saved, watched>>
    /\ UNCHANGED <<sending, sold, snap, pass, up, upsets>>

\* placeOrder() throws although the order stands: the step fails.
LoseAnswer(o) ==
    /\ order[o].answer = "due" /\ Upset("lost")
    /\ order' = [order EXCEPT ![o].answer = "lost"]
    /\ Halted(order[o].for)
    /\ UNCHANGED <<ledger, sending, watched, sold, snap, pass, up>>

\* waitForFill() polls: filled, cancelled, or the plan was stopped and this poll is its last.
Poll(o) ==
    /\ o \in watched /\ Request
    /\ order[o].st # "live" \/ plan.o # o
    /\ watched' = watched \ {o}
    /\ ledger' = IF order[o].st = "filled" THEN closeBtcLadderCycle(ledger, o) ELSE ledger
    /\ IF plan.o = o THEN SetPlan(NoPlan) ELSE UNCHANGED <<plan, saved>>
    /\ UNCHANGED <<sending, world, snap, up, upsets>>

\* waitForFill() gives up: it cancels and skips the step without reading what executed.
TimeStop(o) ==
    /\ o \in watched /\ Request /\ plan.o = o /\ Upset("timestop")
    /\ watched' = watched \ {o} /\ SetPlan(NoPlan)
    /\ order' = IF o \in Live THEN [order EXCEPT ![o].st = "cancelled"] ELSE order
    /\ UNCHANGED <<ledger, sending, sold, snap, up>>

\* Another strategy's BTCUSD plan takes the slot with a buy of its own, and ends.
Foreign ==
    /\ up = "up" /\ ~Active /\ ~Reserved /\ CanOrder /\ Request /\ Upset("foreign")
    /\ SetPlan([st |-> "foreign", c |-> 0, o |-> NewOrder])
    /\ order' = [order EXCEPT ![NewOrder] =
                   [st |-> "live", for |-> 0, at |-> 0, answer |-> "in"]]
    /\ UNCHANGED <<ledger, sending, watched, sold, snap, up>>

ForeignEnds ==
    /\ plan.st = "foreign" /\ Request /\ order[plan.o].st # "live"
    /\ SetPlan(NoPlan)
    /\ UNCHANGED <<ledger, sending, watched, world, snap, up, upsets>>

-----------------------------------------------------------------------------
(***************************************************************************)
(* The exchange and the process.                                           *)
(***************************************************************************)
Fill(o) ==
    /\ o \in Live
    /\ order' = [order EXCEPT ![o].st = "filled", ![o].at = sold]
    /\ UNCHANGED <<ledger, flow, sold, snap, pass, up, upsets>>

\* The operator cancels the order, or the exchange does.
Cancel(o) ==
    /\ o \in Live /\ Upset("cancel")
    /\ order' = [order EXCEPT ![o].st = "cancelled"]
    /\ UNCHANGED <<ledger, flow, sold, snap, pass, up>>

\* "restart": no order is unanswered; "crash": at any moment.
Restart ==
    /\ up = "up"
    /\ \/ Upset("restart") /\ ~Requesting
       \/ Upset("crash")
    /\ plan' = NoPlan /\ saved' = saved
    /\ sending' = [c \in Cycles |-> 0] /\ watched' = {} /\ snap' = {}
    /\ order' = [o \in Orders |->
                   IF order[o].answer = "due" THEN [order[o] EXCEPT !.answer = "lost"] ELSE order[o]]
    /\ pass' = [p \in Passes |-> IdlePass]
    /\ up' = "boot"
    /\ UNCHANGED <<ledger, sold>>

\* resumePlansIfAny(), after the boot's refresh.
Resume ==
    /\ up = "booted" /\ up' = "up"
    /\ IF saved = NoPlan THEN UNCHANGED plan ELSE plan' = saved
    /\ sending' = IF saved.st = "sending" THEN [sending EXCEPT ![saved.c] = @ + 1] ELSE sending
    /\ watched' = IF saved.st = "waiting" THEN watched \cup {saved.o} ELSE watched
    /\ UNCHANGED <<ledger, saved, world, snap, pass, upsets>>

-----------------------------------------------------------------------------
(***************************************************************************)
(* reconcileBtcLadder(), called by fullRefresh().                          *)
(***************************************************************************)
Claimed(l) == {l[c].order : c \in Cycles} \ {0}

\* Orphans go, one each, to the oldest cycles without an order; the rest block staging.
Adopt(l, orphans) ==
    LET free == SetToSortSeq({c \in Cycles : l[c].status \in {"open", "staged"}}, <)
        ids == SetToSortSeq(orphans, <)
        rank(c) == CHOOSE i \in DOMAIN free : free[i] = c
    IN  [c \in Cycles |->
           IF \E i \in DOMAIN free : free[i] = c /\ i <= Len(ids)
           THEN [l[c] EXCEPT !.status = "resting", !.order = ids[rank(c)]]
           ELSE l[c]]

\* fetchOpenOrders() has answered, or failed and left the snapshot's old orders: the
\* pass adopts orphans and remembers what it saw of the plan, then awaits the trades.
Compare(p) ==
    /\ pass[p].pc = "idle" /\ ~Requesting
    /\ \E book \in {Live, snap} :
        LET orphans == book \ Claimed(ledger)
            adopted == Adopt(ledger, orphans)
        IN  /\ IF book = Live THEN Calm ELSE Upset("fault")
            /\ snap' = book
            /\ ledger' = adopted
            /\ pass' = [pass EXCEPT ![p] =
                 [pc |-> "trades", book |-> book, copy |-> adopted,
                  inFlight |-> plan.st \notin {"none", "foreign"},
                  block |-> plan.st # "none" \/ orphans \ Claimed(adopted) # {},
                  ahead |-> "queued" \in upsets]]
    /\ UNCHANGED <<flow, world, up>>

\* Mutant: fills that another cycle claims are taken as well.
FillsUnclaimed(l, c, trades, used, claimed) ==
    {o \in trades : /\ order[o].at >= c
                    /\ l[c].order = o \/ (l[c].order = 0 /\ order[o].for = c)}

\* findBtcRebuyFill(): a linked cycle takes its own order, an unlinked one a fill at its
\* price and size that no other cycle claims.
Fills(l, c, trades, used, claimed) ==
    {o \in trades \ used :
        /\ order[o].at >= c
        /\ \/ l[c].order = o
           \/ /\ l[c].order = 0 /\ o \notin claimed
              /\ order[o].for = c /\ l[c].kind = "roundtrip"}

Vanished(k, book) == k.status = "resting" /\ k.order \notin book

\* The cycles that the rest of the pass looks at.
Examined(k, book) ==
    /\ k.status \in {"open", "staged"} \/ Vanished(k, book)
    /\ k.kind # "scaleout"

\* Mutant: a second plan is staged although one is in flight.
StagesAgain(acc, c, q, trades) ==
    IF ~Examined(acc.l[c], q.book) \/ Fills(acc.l, c, trades, acc.used, acc.claimed) # {}
    THEN acc
    ELSE [acc EXCEPT !.l[c] = [@ EXCEPT !.status = "staged", !.order = 0], !.stage = c]

\* Mutant: a vanished order loses its link before the trades are compared.
DropsLink(acc, c, q, trades) ==
    LET k == acc.l[c]
        open == k.status = "open" \/ Vanished(k, q.book) \/ (k.status = "staged" /\ ~q.inFlight)
        stages == open /\ ~acc.block /\ ~Active
    IN  IF ~Examined(k, q.book) THEN acc
        ELSE [acc EXCEPT !.l[c] = [@ EXCEPT !.status = IF stages THEN "staged"
                                                       ELSE IF open THEN "open" ELSE @,
                                            !.order = 0],
                         !.block = @ \/ stages, !.stage = IF stages THEN c ELSE @]

\* Mutant: a staged cycle whose plan is gone stays staged.
StaysStaged(acc, c, q, trades) ==
    LET k == acc.l[c]
        fills == Fills(acc.l, c, trades, acc.used, acc.claimed)
        stages == (k.status = "open" \/ Vanished(k, q.book)) /\ ~acc.block /\ ~Active
    IN  IF ~Examined(k, q.book) THEN acc
        ELSE IF fills # {}
        THEN [acc EXCEPT !.l[c] = [@ EXCEPT !.status = "closed", !.order = Min(fills)]]
        ELSE [acc EXCEPT !.l[c] = [@ EXCEPT !.status = IF stages THEN "staged"
                                       ELSE IF Vanished(k, q.book) THEN "open" ELSE @,
                                            !.order = 0],
                         !.block = @ \/ stages, !.stage = IF stages THEN c ELSE @]

\* What a pass does with one cycle; acc.stage is the cycle it stages, if any.
Settle1(acc, c, q, trades) ==
    LET k == acc.l[c]
        fills == Fills(acc.l, c, trades, acc.used, acc.claimed)
        reopens == Vanished(k, q.book) \/ (k.status = "staged" /\ ~q.inFlight)
        open == k.status = "open" \/ reopens
        stages == open /\ ~acc.block /\ ~Active
    IN  IF ~Examined(k, q.book) THEN acc
        ELSE IF fills # {}
        THEN [acc EXCEPT !.l[c] = [@ EXCEPT !.status = "closed", !.order = Min(fills)],
                         !.used = @ \cup {Min(fills)}]
        ELSE [acc EXCEPT
                !.l[c] = [@ EXCEPT !.status = IF stages THEN "staged"
                                              ELSE IF open THEN "open" ELSE @,
                                   !.order = IF Vanished(k, q.book) THEN 0 ELSE @],
                !.claimed = IF Vanished(k, q.book) THEN @ \ {k.order} ELSE @,
                !.block = @ \/ stages,
                !.stage = IF stages THEN c ELSE @]

\* fetchMyTrades() has answered or failed; the copy is saved if anything changed.
Settle(p) ==
    /\ pass[p].pc = "trades" /\ ~Requesting
    /\ \E trades \in {{o \in Orders : order[o].st = "filled"}, {}} :
        LET q == pass[p]
            start == [l |-> q.copy, used |-> {}, claimed |-> Claimed(q.copy),
                      block |-> q.block, stage |-> 0]
            end == FoldLeft(LAMBDA acc, c : Settle1(acc, c, q, trades),
                            start, [c \in Cycles |-> c])
        IN  /\ IF trades = {} /\ (\E o \in Orders : order[o].st = "filled")
               THEN Upset("fault") ELSE Calm
            /\ ledger' = IF end.l # q.copy THEN end.l ELSE ledger
            /\ IF end.stage # 0
               THEN SetPlan([st |-> "proposed", c |-> end.stage, o |-> 0])
               ELSE UNCHANGED <<plan, saved>>
    /\ pass' = [pass EXCEPT ![p] = IdlePass]
    /\ up' = IF up = "boot" THEN "booted" ELSE up
    /\ UNCHANGED <<sending, watched, world, snap>>

Reconcile(p) == Compare(p) \/ Settle(p)

Next ==
    \/ StartSell \/ SellFills \/ Confirm \/ Dismiss \/ Stop \/ Foreign \/ ForeignEnds
    \/ \E c \in Cycles : Send(c)
    \/ \E o \in Orders : Answer(o) \/ LoseAnswer(o) \/ Poll(o) \/ TimeStop(o) \/ Fill(o) \/ Cancel(o)
    \/ Restart \/ Resume
    \/ \E p \in Passes : Reconcile(p)

Spec == Init /\ [][Next]_vars

\* The event loop runs what is due: requests end, polls come round, passes repeat.
Fairness ==
    /\ \A c \in Cycles : WF_vars(Send(c))
    /\ \A o \in Orders : WF_vars(Answer(o)) /\ WF_vars(Poll(o))
    /\ WF_vars(Resume) /\ WF_vars(ForeignEnds)
    /\ \A p \in Passes : WF_vars(Reconcile(p))

FairSpec == Spec /\ Fairness

-----------------------------------------------------------------------------
(***************************************************************************)
(* Properties.                                                             *)
(***************************************************************************)
\* The types, and of the ledger that a cycle names an order exactly while one rests for it
\* or has bought it back: linkBtcRebuyOrder() and the reconciler write the two together.
TypeOK ==
    /\ ledger \in Ledger /\ plan \in PlanRec /\ saved \in PlanRec
    /\ \A c \in Cycles : ledger[c].order # 0 <=> ledger[c].status \in {"resting", "closed"}
    /\ sending \in [Cycles -> 0..2] /\ watched \subseteq Orders
    /\ order \in [Orders -> OrderRec] /\ sold \in 0..MaxSells /\ snap \subseteq Orders
    /\ \A p \in Passes : pass[p].pc \in {"idle", "trades"}
    /\ up \in {"up", "boot", "booted"} /\ upsets \subseteq UpsetKind

BuyBacks == {o \in Orders : order[o].for # 0 /\ order[o].st \in {"live", "filled"}}
Slices == {c \in Cycles : c <= sold /\ ledger[c].kind # "scaleout"}

\* There are never more buy-backs, resting or executed, than slices sold to buy back: what
\* the adoption of orphans (crypto.ts 5498) and the one staged plan are there to ensure.
BackedBySales == Cardinality(BuyBacks) <= Cardinality(Slices)

\* One execution never closes two cycles, in one pass of the reconciler or in several
\* (findBtcRebuyFill's usedOrderIds and claimedOrderIds).
OneFillOneCycle ==
    \A c, d \in Cycles :
        ledger[c].status = "closed" /\ ledger[d].status = "closed"
            /\ ledger[c].order = ledger[d].order => c = d

Uncredited(o) ==
    /\ order[o].st = "filled" /\ order[o].for # 0
    /\ \A c \in Cycles : ledger[c].status = "closed" => ledger[c].order # o

\* Every executed buy-back comes to close a cycle for good, though its plan was stopped,
\* its answer or its link lost, or the process down when it filled.
Credited == <>[](\A o \in Orders : ~Uncredited(o))

Unhedged(c) == ledger[c].status \in {"open", "staged"} /\ ledger[c].kind # "scaleout"

\* A slice without its buy-back does not stay so while the BTCUSD slot is free: one is
\* staged, adopted or found in the trade history.
Hedges == (\E c \in Cycles : Unhedged(c))
             ~> (plan.st # "none" \/ \A c \in Cycles : ~Unhedged(c))
=============================================================================
