------------------------------- MODULE Bracket -------------------------------
(***************************************************************************)
(* The managed bracket of AutoPlanner (server/crypto.ts): runBracket()     *)
(* buys, protects what it bought with a resting stop or take-profit, and   *)
(* monitors the position every 20 seconds until it is sold; beside it the  *)
(* operator adjusts, locks or kills the bracket, orders fill, requests     *)
(* fail, and the process restarts from active-bracket.json.                *)
(*                                                                         *)
(* One bracket of one symbol is followed.  A job is a coroutine; its "pc"  *)
(* names the await it is suspended in, and an action runs it to the next.  *)
(* A request and its answer are one action whose outcome says what the     *)
(* exchange did and what the caller learnt.  Staged entry and exit legs    *)
(* are left out.  Prices are the few levels a bracket tells apart.         *)
(***************************************************************************)
EXTENDS Integers, FiniteSets, FiniteSetsExt

CONSTANTS
    Specs,       \* the kinds of bracket the callers confirm, a set of SpecRec
    Buy,         \* coins the entry buys
    Wallet,      \* coins of the same currency that the account holds besides
    Tp1Level,    \* price levels, as numbers: TP1
    TopLevel,    \*   and the final target of a scale-out
    MaxOrders,   \* bound: orders resting or still referred to at a time
    Upsets       \* bound: the sets of upsets that may happen together, each once

Orders == 1..MaxOrders
Procs  == {"run", "adjust", "kill"}

\* stop: stopPct > 0; full: tpFirstEligible(); scale: tp2 and sizeFraction < 1;
\* even: breakEvenAfterTp1; arm: trailArm.
SpecRec == [stop : BOOLEAN, full : BOOLEAN, scale : BOOLEAN, even : BOOLEAN, arm : BOOLEAN]

\* Price levels: the stop's trigger, the entry; between it and TP1 the trail may arm.
StopLevel == 1  Entry == 2

\* tpFirstEligible() holds of no bracket with a second target.
ASSUME ConstantsAssumption ==
    /\ Specs \subseteq {s \in SpecRec : ~(s.full /\ s.scale)}
    /\ Buy \in Nat \ {0} /\ Wallet \in Nat /\ MaxOrders \in Nat
    /\ Tp1Level \in Nat /\ TopLevel \in Nat /\ Entry < Tp1Level /\ Tp1Level < TopLevel
    /\ Upsets \subseteq SUBSET {"fault", "restart", "kill", "adjust", "cancel", "lock"}

Phase == {"none", "entering", "protected", "tp1_filled", "exiting", "flat", "aborted"}
Holding == {"protected", "tp1_filled", "exiting"}

\* BracketState, with 0 for null; trail is spec.trailPct.  client: its entry has a client id;
\* runBracket() gives it one and writes it before the first await, so that no bracket in
\* memory or in the file is without (NoBracket is neither).
NoBracket == [phase |-> "none", client |-> TRUE, entryId |-> 0, stopId |-> 0, tp1Id |-> 0,
              filled |-> 0, position |-> 0, stopPrice |-> 0, highWater |-> 0,
              trail |-> FALSE, locked |-> FALSE]
NewBracket == [NoBracket EXCEPT !.phase = "entering", !.client = FALSE]
Ids == 0..MaxOrders
Brackets ==
    [phase : Phase, client : {TRUE}, entryId : Ids, stopId : Ids, tp1Id : Ids, filled : Int,
     position : Int, stopPrice : Int, highWater : Int, trail : BOOLEAN, locked : BOOLEAN]

\* why: the caller a shared piece of code returns to; last, id, amt, lvl, ids: its locals.
Pc == {"idle", "find", "enter", "awaitEntry", "dropEntry", "reread", "protect", "asleep",
       "readStop", "readTp1", "readHeld", "findTp", "sell", "findStop", "placeStop",
       "unstop", "freed", "chase", "rechase", "force", "forced", "sweep", "balance",
       "closing", "closed"}
Why == {"", "first", "again", "heal", "scale", "final", "time", "ratchet", "force", "stop",
        "adjust", "close", "kill"}
Jobs == [pc : Pc, why : Why, last : Int, id : Ids, amt : Int, lvl : Int, ids : SUBSET Orders]
Idle == [pc |-> "idle", why |-> "", last |-> 0, id |-> 0, amt |-> 0, lvl |-> 0, ids |-> {}]

OrderRec == [kind : {"none", "buy", "stop", "sell"}, st : {"none", "live", "filled", "cancelled"},
             amt : Int, got : Int, lvl : Int]
NoOrder == [kind |-> "none", st |-> "none", amt |-> 0, got |-> 0, lvl |-> 0]

VARIABLES
    spec,     \* the BracketSpec
    st,       \* step.bracketState
    status,   \* step.status
    aborted,  \* PlanEntry.aborted
    job,      \* the coroutines: runBracket(), applyAdjust(), the kill of stop()
    disk,     \* active-bracket.json, this bracket's key
    book,     \* the exchange: the orders this bracket sent
    coins,    \* the exchange: the account's total of the currency, locked or not
    bought,   \* coins the bracket's entries have bought
    aged,     \* the position's time-stop is due
    upsets    \* the upsets there were: a request that fails, a restart, a kill, ...

vars == <<spec, st, status, aborted, job, disk, book, coins, bought, aged, upsets>>
world == <<spec, aged, coins, bought>>

Init ==
    /\ spec \in Specs
    /\ st = NoBracket /\ status = "pending" /\ aborted = FALSE
    /\ job = [p \in Procs |-> Idle]
    /\ disk = NoBracket
    /\ book = [o \in Orders |-> NoOrder]
    /\ coins = Wallet /\ bought = 0 /\ aged = FALSE
    /\ upsets = {}

At(p, pc) == job[p].pc = pc
FinalLevel == IF spec.scale THEN TopLevel ELSE Tp1Level
Tranche(n) == IF spec.scale THEN n \div 2 ELSE n   \* position * tp1.sizeFraction
Lower(a, b) == IF a < b THEN a ELSE b
Higher(a, b) == IF a > b THEN a ELSE b

Upset(kind) == /\ kind \notin upsets /\ upsets \cup {kind} \in Upsets
               /\ upsets' = upsets \cup {kind}
Calm == UNCHANGED upsets

-----------------------------------------------------------------------------
(***************************************************************************)
(* The exchange as the code meets it.                                      *)
(***************************************************************************)
Live(o) == o # 0 /\ book[o].st = "live"
Left(o) == book[o].amt - book[o].got
LiveOf(kind) == {o \in Orders : Live(o) /\ book[o].kind = kind}
LiveSells == {o \in Orders : Live(o) /\ book[o].kind # "buy"}
Total(f) == LET sum[n \in 0..MaxOrders] == IF n = 0 THEN 0 ELSE sum[n - 1] + f[n]
            IN  sum[MaxOrders]
Claim(o) == IF o \in LiveSells THEN Left(o) ELSE 0
Locked == Total([o \in Orders |-> Claim(o)])      \* what the resting sells may still sell
Free == coins - Locked

Named(S) == {S.entryId, S.stopId, S.tp1Id}
Referred == Named(st) \cup Named(disk) \cup
            UNION {job[p].ids \cup {job[p].id} : p \in Procs}
Unused == {o \in Orders : ~Live(o) /\ o \notin Referred}

\* placeOrder(): accepted (id), refused, or accepted with the answer lost.
PlaceOrder(kind, amt, lvl, id) ==
    LET n == Min(Unused)
        new == [kind |-> kind, st |-> "live", amt |-> amt, got |-> 0, lvl |-> lvl]
        accepted == book' = [o \in Orders |-> IF o = n THEN new
                                              ELSE IF o \in Unused THEN NoOrder ELSE book[o]]
        fits == kind = "buy" \/ amt <= Free
    IN  /\ Unused # {}
        /\ \/ fits /\ id = n /\ accepted /\ Calm
           \/ fits /\ id = 0 /\ (accepted \/ UNCHANGED book) /\ Upset("fault")
           \/ ~fits /\ id = 0 /\ UNCHANGED <<book, upsets>>

Gone(o) == book' = [book EXCEPT ![o].st = "cancelled"]

\* cancelOrder(): it verifies that the order left the book and throws when it cannot
\* tell.  The cancel of an order that is no longer live may be an error or not.
CancelOrder(o, ok) ==
    \/ Live(o) /\ ok /\ Gone(o) /\ Calm
    \/ Live(o) /\ ~ok /\ (Gone(o) \/ UNCHANGED book) /\ Upset("fault")
    \/ ~Live(o) /\ UNCHANGED <<book, upsets>>

\* A read of the exchange: it answers, or it throws.
Read(ok) == UNCHANGED book /\ IF ok THEN Calm ELSE Upset("fault")

Filled(o) == book[o].st = "filled"
Cancelled(o) == book[o].st = "cancelled"

-----------------------------------------------------------------------------
(***************************************************************************)
(* How an action ends: the job's next await, and what is on disk.          *)
(***************************************************************************)
Image(S) == IF S.phase \in {"flat", "aborted"} THEN NoBracket ELSE S
persistBracket(S) == disk' = Image(S)
clearPersistedBracket == disk' = NoBracket

Become(p, c) == job' = [job EXCEPT ![p] = c]
Awaits(p, pc, why, last, amt, lvl) ==
    Become(p, [Idle EXCEPT !.pc = pc, !.why = why, !.last = last, !.amt = amt, !.lvl = lvl])
Ended == Become("run", Idle)

\* The head of monitorBracket()'s loop: a stopped bracket ends here.
MonitorUnlocked == IF aborted \/ st.locked THEN Ended     \* mutant: a lock ends the loop
                   ELSE Become("run", [Idle EXCEPT !.pc = "asleep"])
Monitor == IF aborted THEN Ended ELSE Become("run", [Idle EXCEPT !.pc = "asleep"])

\* The end of a tick that persists and continues.
TickEnds(S) == st' = S /\ persistBracket(S) /\ Monitor /\ UNCHANGED status

TickThrows(S) == st' = S /\ UNCHANGED <<disk, status>> /\ Monitor

\* runBracket()'s catch.
Fails(S) == st' = S /\ status' = "failed" /\ persistBracket(S) /\ Ended

failBracket ==
    /\ st' = [st EXCEPT !.phase = "aborted"] /\ status' = "skipped"
    /\ clearPersistedBracket /\ Ended

\* The head of awaitEntryFill()'s loop.
EntryLoop(S) ==
    /\ st' = S
    /\ IF aborted THEN Ended ELSE Become("run", [Idle EXCEPT !.pc = "awaitEntry"])

\* runBracket() up to its first await, of a bracket in state S; J are the other jobs.
FirstAwait(S) ==
    IF S.phase = "entering"
    THEN IF S.entryId # 0 THEN "awaitEntry" ELSE IF S.client THEN "find" ELSE "enter"
    ELSE IF S.phase = "protected" /\ S.stopId = 0 /\ S.tp1Id = 0 THEN "protect" ELSE "asleep"

runBracket(S, J) ==
    LET pc == FirstAwait(S)
        named == [S EXCEPT !.client = TRUE]
    IN
    /\ status' = "executing" /\ aborted' = FALSE
    /\ IF pc = "enter" THEN st' = named /\ persistBracket(named) ELSE st' = S /\ UNCHANGED disk
    /\ job' = [J EXCEPT !["run"] = [Idle EXCEPT !.pc = pc,
                                               !.why = IF pc = "protect" THEN "again" ELSE ""]]

Confirm ==
    /\ st = NoBracket /\ status = "pending" /\ runBracket(NewBracket, job)
    /\ UNCHANGED <<spec, book, coins, bought, aged, upsets>>

-----------------------------------------------------------------------------
(***************************************************************************)
(* Entering.                                                               *)
(***************************************************************************)
\* Mutant: an entry that rests is not adopted.
NotAdopted ==
    /\ At("run", "find") /\ UNCHANGED <<st, disk>> /\ Awaits("run", "enter", "", 0, 0, 0)
    /\ \E ok \in BOOLEAN : Read(ok)
    /\ UNCHANGED <<world, status, aborted>>

\* A restarted bracket looks for its entry on the book by client id.
FindEntry ==
    /\ At("run", "find")
    /\ \/ \E o \in LiveOf("buy") :
            LET adopted == [st EXCEPT !.entryId = o] IN
            /\ Read(TRUE) /\ EntryLoop(adopted) /\ persistBracket(adopted)
       \/ /\ LiveOf("buy") = {} /\ Read(TRUE) /\ UNCHANGED <<st, disk>>
          /\ Awaits("run", "enter", "", 0, 0, 0)
       \/ /\ Read(FALSE) /\ UNCHANGED <<st, disk>> /\ Awaits("run", "enter", "", 0, 0, 0)
    /\ UNCHANGED <<world, status, aborted>>

\* resolveAmount() and placeOrder() of the entry.
EnterMarket ==
    /\ At("run", "enter")
    /\ \/ failBracket /\ UNCHANGED <<book, upsets>>      \* no USD to buy with
       \/ \E id \in Orders :
            LET placed == [st EXCEPT !.entryId = id] IN
            /\ PlaceOrder("buy", Buy, Entry, id)
            /\ EntryLoop(placed) /\ persistBracket(placed) /\ UNCHANGED status
       \/ PlaceOrder("buy", Buy, Entry, 0) /\ Fails(st)
    /\ UNCHANGED <<world, aborted>>

Held(S, n) == [S EXCEPT !.filled = n, !.position = n, !.highWater = Entry]

\* adoptPartialEntry() of an entry that executed n coins.
adoptPartialEntry(n) ==
    \/ n = 0 /\ failBracket
    \/ /\ n > 0 /\ st' = [Held(st, n) EXCEPT !.phase = "protected"]
       /\ Awaits("run", "protect", "first", 0, 0, 0) /\ UNCHANGED <<disk, status>>

\* One turn of awaitEntryFill(), 15 s after the one before.
PollEntry ==
    LET o == st.entryId IN
    /\ At("run", "awaitEntry")
    /\ \/ /\ Filled(o) /\ Read(TRUE)
          /\ persistBracket(Held(st, book[o].got))
          /\ st' = [Held(st, book[o].got) EXCEPT !.phase = "protected"]
          /\ Awaits("run", "protect", "first", 0, 0, 0) /\ UNCHANGED status
       \/ Cancelled(o) /\ Read(TRUE) /\ adoptPartialEntry(book[o].got)
       \/ /\ Live(o) /\ Read(TRUE) /\ UNCHANGED <<st, disk, status>>   \* past its deadline
          /\ Awaits("run", "dropEntry", "", 0, book[o].got, 0)
       \/ /\ Live(o) /\ aborted /\ Read(TRUE)
          /\ Ended /\ UNCHANGED <<st, disk, status>>
       \/ Read(FALSE) /\ EntryLoop(st) /\ UNCHANGED <<disk, status>>
    /\ UNCHANGED <<world, aborted>>

\* The entry's time-stop: cancel, read again, adopt what executed.
DropEntry ==
    /\ At("run", "dropEntry")
    /\ \E ok \in BOOLEAN : CancelOrder(st.entryId, ok)
    /\ Awaits("run", "reread", "", 0, job["run"].amt, 0)
    /\ UNCHANGED <<world, st, status, aborted, disk>>

RereadEntry ==
    /\ At("run", "reread")
    /\ \/ Read(TRUE) /\ adoptPartialEntry(book[st.entryId].got)
       \/ Read(FALSE) /\ adoptPartialEntry(job["run"].amt)
    /\ UNCHANGED <<world, aborted>>

-----------------------------------------------------------------------------
(***************************************************************************)
(* placeProtection(), placeStop(), cancelStop() and the resting sells.     *)
(***************************************************************************)
PlaceStop(p, why, last, amt, lvl) == Awaits(p, "findStop", why, last, amt, lvl)

\* Where placeProtection() returns to: awaitEntryFill() the first time, then runBracket(),
\* which tries once more when nothing rests.
Protected(S) ==
    /\ st' = S /\ persistBracket(S) /\ UNCHANGED status
    /\ \/ /\ job["run"].why = "first" /\ ~aborted
          /\ S.phase = "protected" /\ S.stopId = 0 /\ S.tp1Id = 0
          /\ Awaits("run", "protect", "again", 0, 0, 0)
       \/ /\ ~(job["run"].why = "first" /\ ~aborted
               /\ S.phase = "protected" /\ S.stopId = 0 /\ S.tp1Id = 0)
          /\ Monitor

placeProtection ==
    LET S == [st EXCEPT !.position = Lower(st.filled, coins)]
        why == job["run"].why
    IN
    /\ At("run", "protect")
    /\ \/ /\ Read(TRUE) /\ spec.full
          /\ st' = [S EXCEPT !.stopPrice = IF spec.stop THEN StopLevel ELSE 0]
          /\ Awaits("run", "sell", why, 0, S.position, Tp1Level) /\ UNCHANGED <<disk, status>>
       \/ /\ Read(TRUE) /\ ~spec.full /\ ~spec.stop /\ spec.scale
          /\ st' = S /\ UNCHANGED <<disk, status>>
          /\ Awaits("run", "findTp", why, 0, Tranche(S.position), Tp1Level)
       \/ Read(TRUE) /\ ~spec.full /\ ~spec.stop /\ ~spec.scale /\ Protected(S)
       \/ /\ Read(TRUE) /\ ~spec.full /\ spec.stop
          /\ st' = S /\ UNCHANGED <<disk, status>>
          /\ PlaceStop("run", why, 0, S.position, StopLevel)
       \/ Read(FALSE) /\ Fails(st)
    /\ UNCHANGED <<world, aborted>>

\* The order of the tick's last part: D is what the file holds by now.
Tick(S, D) == st' = S /\ disk' = D /\ UNCHANGED status

\* What follows a cancelStop() that returned TRUE.
Freed(p, S, D, why, last, lvl) ==
    LET rest == S.position - Tranche(S.position)
        floor == IF spec.even THEN Higher(Entry, S.stopPrice)
                 ELSE IF S.stopPrice = 0 THEN StopLevel ELSE S.stopPrice
        exiting == [S EXCEPT !.phase = "exiting"]
    IN
    \/ /\ why = "scale" /\ rest >= 1 /\ Tick(S, D)
       /\ PlaceStop(p, why, last, rest, floor)
    \/ /\ why = "scale" /\ rest = 0 /\ Tick(S, D)
       /\ Awaits(p, "sell", why, last, Tranche(S.position), last)
    \/ /\ why \in {"final", "time"} /\ Tick(exiting, D)
       /\ Awaits(p, "sell", why, last, S.position, last)
    \/ /\ why \in {"ratchet", "adjust"} /\ Tick(S, D)
       /\ PlaceStop(p, why, last, S.position, lvl)

\* cancelStop(): nothing to cancel, or its first await.
Unstop(p, S, D, why, last, lvl) ==
    \/ S.stopId = 0 /\ Freed(p, S, D, why, last, lvl)
    \/ /\ S.stopId # 0 /\ Tick(S, D)
       /\ Become(p, [Idle EXCEPT !.pc = "unstop", !.why = why, !.last = last,
                                 !.id = S.stopId, !.lvl = lvl])

\* The tick from its position time-stop on.
TimeStop(S, D, last) ==
    \/ S.tp1Id = 0 /\ aged /\ Unstop("run", S, D, "time", last, 0)
    \/ ~(S.tp1Id = 0 /\ aged) /\ TickEnds(S)

\* shouldArmTrail(), and the level the trail asks for.
shouldArmTrail(S) == spec.arm /\ ~S.trail /\ ~S.locked /\ S.phase = "protected"
                     /\ S.highWater > Entry
Desired(S) == S.highWater - 1

FrozenStopless(S) == S.locked /\ S.stopId = 0      \* mutant: only the missing stop is left
Frozen(S) == S.locked

\* The tick after the self-heals: locked, scale-out, final target, trail, time-stop.
Manage(S0, D0, last) ==
    LET S1 == [S0 EXCEPT !.highWater = Higher(@, last)]
        scaling == S1.tp1Id = 0 /\ S1.phase = "protected" /\ spec.scale /\ last >= Tp1Level
        final == S1.tp1Id = 0 /\ last >= FinalLevel
        S == [S1 EXCEPT !.trail = @ \/ shouldArmTrail(S1)]
        D == IF shouldArmTrail(S1) THEN Image(S) ELSE D0
        ratchet == S.trail /\ S.stopPrice # 0 /\ Desired(S) > S.stopPrice /\ Desired(S) < last
    IN
    \/ Frozen(S1) /\ TickEnds(S1)
    \/ ~Frozen(S1) /\ scaling /\ Unstop("run", S1, D0, "scale", last, 0)
    \/ ~Frozen(S1) /\ ~scaling /\ final /\ Unstop("run", S1, D0, "final", last, 0)
    \/ /\ ~Frozen(S1) /\ ~scaling /\ ~final /\ ratchet
       /\ Unstop("run", S, D, "ratchet", last, Desired(S))
    \/ ~Frozen(S1) /\ ~scaling /\ ~final /\ ~ratchet /\ TimeStop(S, D, last)

\* What follows placeStop(), whether or not a stop rests.
StopDone(p, S, D) ==
    LET why == job[p].why  last == job[p].last IN
    \/ why \in {"first", "again"} /\ Protected(S)
    \/ why = "heal" /\ Manage(S, D, last)
    \/ /\ why = "scale" /\ Tick(S, D)
       /\ Awaits(p, "sell", why, last, Tranche(S.position), last)
    \/ why = "ratchet" /\ TimeStop(S, D, last)
    \/ why = "force" /\ TickEnds(S)
    \/ why = "adjust" /\ st' = S /\ persistBracket(S) /\ Become(p, Idle) /\ UNCHANGED status

\* cancelStop() once cancelOrder() answered: its id is dropped whatever it is by now.
ForgetStop(S, ok) == IF ok THEN [S EXCEPT !.stopId = 0] ELSE S

CancelStop(p) ==
    LET j == job[p] IN
    /\ At(p, "unstop")
    /\ \E ok \in BOOLEAN :
         LET S == ForgetStop(st, ok) IN
         /\ CancelOrder(j.id, ok)
         /\ \/ ok /\ Tick(S, disk) /\ Awaits(p, "freed", j.why, j.last, 0, j.lvl)
            \/ ~ok /\ j.why \in {"scale", "final", "time"} /\ TickEnds(S)
            \/ ~ok /\ j.why = "ratchet" /\ TimeStop(S, disk, j.last)
            \/ /\ ~ok /\ j.why = "adjust" /\ Tick(S, Image(S)) /\ Become(p, Idle)
    /\ UNCHANGED <<world, aborted>>

\* The 1.5 s after it.
StopFreed(p) ==
    /\ At(p, "freed")
    /\ Freed(p, st, disk, job[p].why, job[p].last, job[p].lvl)
    /\ UNCHANGED <<world, aborted, book, upsets>>

\* placeStop() up to reconcileRestingStops()'s answer.  A stop that rests is adopted, the
\* one nearest to the level wanted; the others are cancelled first.
Distance(o, lvl) == Higher(book[o].lvl - lvl, lvl - book[o].lvl)
Nearest(S, lvl) == {o \in S : \A x \in S : Distance(o, lvl) <= Distance(x, lvl)}
Adopts(S, o, lvl) == [S EXCEPT !.stopId = o, !.stopPrice = lvl]
\* Mutant: the book is not looked at.
NoReconcile(p) ==
    LET j == job[p] IN
    /\ At(p, "findStop") /\ Read(TRUE) /\ Tick(st, disk)
    /\ Awaits(p, "placeStop", j.why, j.last, j.amt, j.lvl)
    /\ UNCHANGED <<world, aborted>>
FindStop(p) ==
    LET j == job[p]  S == LiveOf("stop") IN
    /\ At(p, "findStop")
    /\ \/ j.amt = 0 /\ StopDone(p, st, disk) /\ UNCHANGED <<book, upsets>>
       \/ /\ j.amt > 0 /\ S = {} /\ Read(TRUE) /\ Tick(st, disk)
          /\ Awaits(p, "placeStop", j.why, j.last, j.amt, j.lvl)
       \/ /\ j.amt > 0 /\ Read(FALSE) /\ Tick(st, disk)
          /\ Awaits(p, "placeStop", j.why, j.last, j.amt, j.lvl)
       \/ \E o \in Nearest(S, j.lvl) :
            /\ j.amt > 0 /\ S # {o} /\ Read(TRUE) /\ Tick(st, disk)
            /\ Become(p, [Idle EXCEPT !.pc = "sweep", !.why = j.why, !.last = j.last, !.id = o,
                                      !.lvl = book[o].lvl, !.ids = S \ {o}])
       \/ \E o \in S :
            /\ j.amt > 0 /\ S = {o} /\ Read(TRUE)
            /\ StopDone(p, Adopts(st, o, book[o].lvl), Image(Adopts(st, o, book[o].lvl)))
    /\ UNCHANGED <<world, aborted>>

PlaceNewStop(p) ==
    LET j == job[p] IN
    /\ At(p, "placeStop")
    /\ \E id \in Ids :
         LET S == IF id = 0 THEN st ELSE Adopts(st, id, j.lvl) IN
         PlaceOrder("stop", j.amt, j.lvl, id) /\ StopDone(p, S, Image(S))
    /\ UNCHANGED <<world, aborted>>

\* adoptOrPlaceTp1Sell(): a sell that rests at the target already is adopted.
FindTp ==
    LET j == job["run"]
        S == {o \in LiveOf("sell") : book[o].lvl = j.lvl}
        adopted(o) == [st EXCEPT !.tp1Id = o]
    IN
    /\ At("run", "findTp")
    /\ \/ /\ (S = {} /\ Read(TRUE)) \/ Read(FALSE)
          /\ Tick(st, disk) /\ Awaits("run", "sell", j.why, j.last, j.amt, j.lvl)
       \/ \E o \in S : /\ Read(TRUE) /\ j.why = "heal"
                        /\ Manage(adopted(o), Image(adopted(o)), j.last)
       \/ \E o \in S : Read(TRUE) /\ j.why # "heal" /\ Protected(adopted(o))
    /\ UNCHANGED <<world, aborted>>

\* placeRestingSell(), and what follows it in each of its callers.
SellDone(S) ==
    LET why == job["run"].why IN
    \/ why \in {"first", "again"} /\ Protected(S)
    \/ why = "heal" /\ Manage(S, Image(S), job["run"].last)
    \/ why \in {"scale", "final", "time", "force"} /\ TickEnds(S)

SellThrows ==
    LET why == job["run"].why IN
    \/ why \in {"first", "again"} /\ Fails(st)
    \/ why \in {"heal", "scale", "final", "time"} /\ TickThrows(st)
    \/ /\ why = "force" /\ Tick(st, disk)
       /\ Awaits("run", "readHeld", "", job["run"].last, 0, 0)

PlaceSell ==
    LET j == job["run"] IN
    /\ At("run", "sell")
    /\ \/ j.amt = 0 /\ SellDone([st EXCEPT !.tp1Id = 0]) /\ UNCHANGED <<book, upsets>>
       \/ \E id \in Orders : /\ j.amt > 0 /\ PlaceOrder("sell", j.amt, j.lvl, id)
                             /\ SellDone([st EXCEPT !.tp1Id = id])
       \/ j.amt > 0 /\ PlaceOrder("sell", j.amt, j.lvl, 0) /\ SellThrows
    /\ UNCHANGED <<world, aborted>>

-----------------------------------------------------------------------------
(***************************************************************************)
(* monitorBracket(): a tick at price level last.                           *)
(***************************************************************************)
ReadsTp1(S, last) ==
    \/ /\ S.tp1Id # 0
       /\ Become("run", [Idle EXCEPT !.pc = "readTp1", !.last = last, !.id = S.tp1Id])
    \/ S.tp1Id = 0 /\ Awaits("run", "readHeld", "", last, 0, 0)

TickStarts(last) ==
    /\ At("run", "asleep")
    /\ \/ /\ st.stopId # 0
          /\ Become("run", [Idle EXCEPT !.pc = "readStop", !.last = last, !.id = st.stopId])
       \/ st.stopId = 0 /\ ReadsTp1(st, last)
    /\ UNCHANGED <<world, st, status, aborted, disk, book, upsets>>

\* finalizeBracket() up to the cancels of cancelBracketOrders().
finalizeBracket(S) ==
    /\ st' = [S EXCEPT !.phase = "exiting"] /\ UNCHANGED <<disk, status>>
    /\ Become("run", [Idle EXCEPT !.pc = "sweep", !.why = "close", !.ids = Named(S) \ {0}])

\* Did the resting stop fill?
ReadStop ==
    LET j == job["run"]  S == [st EXCEPT !.stopId = 0] IN
    /\ At("run", "readStop")
    /\ \/ Filled(j.id) /\ Read(TRUE) /\ finalizeBracket(S)
       \/ /\ Cancelled(j.id) /\ Read(TRUE) /\ st' = S /\ UNCHANGED <<disk, status>>
          /\ ReadsTp1(S, j.last)
       \/ /\ (Live(j.id) /\ Read(TRUE)) \/ Read(FALSE)
          /\ UNCHANGED <<st, disk, status>> /\ ReadsTp1(st, j.last)
    /\ UNCHANGED <<world, aborted>>

\* The close that follows the fill of a full exit.
ClosesFlat(S) ==
    /\ st' = [S EXCEPT !.phase = "flat"] /\ status' = "filled"
    /\ clearPersistedBracket /\ Ended

\* Did the one pending exit order fill?  If it still rests: chase the market up, or force
\* the exit of a bracket whose stop is only monitored, or leave it.
ReadTp1 ==
    LET j == job["run"]  o == j.id
        S == [st EXCEPT !.tp1Id = 0]
        banked == [S EXCEPT !.phase = "tp1_filled"]
        chase == st.phase = "exiting" /\ j.last > book[o].lvl
        hit == st.stopPrice # 0 /\ j.last <= st.stopPrice
        forced == spec.full /\ st.phase = "protected" /\ (hit \/ aged)
    IN
    /\ At("run", "readTp1")
    /\ \/ Filled(o) /\ (st.phase = "exiting" \/ spec.full) /\ Read(TRUE) /\ ClosesFlat(S)
       \/ /\ Filled(o) /\ ~(st.phase = "exiting" \/ spec.full) /\ Read(TRUE)
          /\ Tick(banked, Image(banked)) /\ Awaits("run", "readHeld", "", j.last, 0, 0)
       \/ /\ Cancelled(o) /\ Read(TRUE)
          /\ Tick(S, disk) /\ Awaits("run", "readHeld", "", j.last, 0, 0)
       \/ /\ Live(o) /\ chase /\ Read(TRUE) /\ Tick(st, disk)
          /\ Become("run", [j EXCEPT !.pc = "chase", !.amt = Left(o)])
       \/ /\ Live(o) /\ ~chase /\ forced /\ Read(TRUE) /\ Tick(st, disk)
          /\ Become("run", [j EXCEPT !.pc = "force", !.why = IF hit THEN "stop" ELSE "time"])
       \/ Live(o) /\ ~chase /\ ~forced /\ Read(TRUE) /\ TickEnds(st)
       \/ Read(FALSE) /\ Tick(st, disk) /\ Awaits("run", "readHeld", "", j.last, 0, 0)
    /\ UNCHANGED <<world, aborted>>

\* repriceRestingSell(): the old order first, then one for what it had left.
Chase ==
    LET j == job["run"] IN
    /\ At("run", "chase")
    /\ \/ CancelOrder(j.id, TRUE) /\ Tick(st, disk) /\ Become("run", [j EXCEPT !.pc = "rechase"])
       \/ CancelOrder(j.id, FALSE) /\ TickEnds(st)
    /\ UNCHANGED <<world, aborted>>

Rechase ==
    LET j == job["run"] IN
    /\ At("run", "rechase")
    /\ \E id \in Ids :
         PlaceOrder("sell", j.amt, j.last, id) /\ TickEnds([st EXCEPT !.tp1Id = id])
    /\ UNCHANGED <<world, aborted>>

\* tpFirst: the take-profit leaves the book so that the stop, or the last exit, can rest.
ForceExit ==
    LET j == job["run"] IN
    /\ At("run", "force")
    /\ \E ok \in BOOLEAN : CancelOrder(j.id, ok)
    /\ Tick([st EXCEPT !.tp1Id = 0], disk)
    /\ Awaits("run", "forced", j.why, j.last, 0, 0)
    /\ UNCHANGED <<world, aborted>>

bracketPosition(S, held) == Lower(S.position, held)

ForcedExit ==
    LET j == job["run"]  n == bracketPosition(st, coins)
        exiting == [st EXCEPT !.phase = "exiting"]
    IN
    /\ At("run", "forced")
    /\ \/ /\ j.why = "stop" /\ Read(TRUE) /\ Tick(st, disk)
          /\ PlaceStop("run", "force", j.last, n, st.stopPrice)
       \/ /\ j.why = "time" /\ Read(TRUE) /\ Tick(exiting, disk)
          /\ Awaits("run", "sell", "force", j.last, n, j.last)
       \/ Read(FALSE) /\ Tick(st, disk) /\ Awaits("run", "readHeld", "", j.last, 0, 0)
    /\ UNCHANGED <<world, aborted>>

\* The balance clamps the position; then the self-heals: a missing take-profit of a
\* bracket without a stop, the stop at break-even of its runner, a missing stop.
HealsAfresh(S) == StopLevel                \* mutant: at the first level, not the last one
HealLevel(S) == IF S.stopPrice = 0 THEN StopLevel ELSE S.stopPrice
HealsStop(S) == spec.stop /\ S.stopId = 0 /\ S.tp1Id = 0 /\ S.phase # "exiting"
ReadHeld ==
    LET last == job["run"].last
        n == bracketPosition(st, coins)
        S == [st EXCEPT !.position = n]
        target == ~spec.stop /\ S.tp1Id = 0 /\ (spec.full \/ (spec.scale /\ S.phase = "protected"))
        even == ~spec.stop /\ spec.scale /\ spec.even /\ S.phase = "tp1_filled"
                /\ S.stopId = 0 /\ S.tp1Id = 0
    IN
    /\ At("run", "readHeld")
    /\ \/ Read(TRUE) /\ n = 0 /\ finalizeBracket(S)
       \/ /\ Read(TRUE) /\ n > 0 /\ target /\ Tick(S, disk)
          /\ Awaits("run", "findTp", "heal", last, IF spec.full THEN n ELSE Tranche(n), Tp1Level)
       \/ Read(TRUE) /\ n > 0 /\ even /\ Tick(S, disk) /\ PlaceStop("run", "heal", last, n, Entry)
       \/ /\ Read(TRUE) /\ n > 0 /\ HealsStop(S) /\ Tick(S, disk)
          /\ PlaceStop("run", "heal", last, n, HealLevel(S))
       \/ Read(TRUE) /\ n > 0 /\ ~target /\ ~even /\ ~HealsStop(S) /\ Manage(S, disk, last)
       \/ Read(FALSE) /\ TickThrows(st)
    /\ UNCHANGED <<world, aborted>>

-----------------------------------------------------------------------------
(***************************************************************************)
(* Cancels one after the other, and what follows them: the adoption of a   *)
(* stop, finalizeBracket(), the end of stop().                             *)
(***************************************************************************)
Sweep(p) ==
    LET o == Min(job[p].ids) IN
    /\ At(p, "sweep") /\ job[p].ids # {}
    /\ \E ok \in BOOLEAN : CancelOrder(o, ok)
    /\ Become(p, [job[p] EXCEPT !.ids = @ \ {o}])
    /\ UNCHANGED <<world, st, status, aborted, disk>>

Swept(p) ==
    LET j == job[p]
        S == Adopts(st, j.id, j.lvl)
    IN
    /\ At(p, "sweep") /\ j.ids = {}
    /\ \/ j.why \notin {"close", "kill"} /\ StopDone(p, S, Image(S))
       \/ /\ j.why = "close" /\ Tick([st EXCEPT !.stopId = 0, !.tp1Id = 0], disk)
          /\ Awaits(p, "balance", "", 0, 0, 0)
       \/ /\ j.why = "kill" /\ st' = [st EXCEPT !.phase = "aborted"]
          /\ clearPersistedBracket /\ Become(p, Idle) /\ UNCHANGED status
    /\ UNCHANGED <<world, aborted, book, upsets>>

CloseUnread ==                  \* mutant: the released coins are not looked at
    /\ At("run", "balance") /\ Read(TRUE) /\ ClosesFlat(st)
    /\ UNCHANGED <<world, aborted>>

\* finalizeBracket() once the cancelled orders released their coins.
Balance ==
    LET n == bracketPosition(st, Free) IN
    /\ At("run", "balance")
    /\ \/ Read(TRUE) /\ n = 0 /\ ClosesFlat(st)
       \/ Read(TRUE) /\ n > 0 /\ Tick(st, disk) /\ Awaits("run", "closing", "", 0, n, 0)
       \/ Read(FALSE) /\ TickThrows(st)
    /\ UNCHANGED <<world, aborted>>

\* sellToUsd(): a maker order at the ask, looked at three seconds later, whatever it says.
SellToUsd ==
    /\ At("run", "closing")
    /\ \/ \E id \in Orders : /\ PlaceOrder("sell", job["run"].amt, Tp1Level, id)
                          /\ Tick(st, disk) /\ Awaits("run", "closed", "", 0, 0, 0)
       \/ PlaceOrder("sell", job["run"].amt, Tp1Level, 0) /\ TickThrows(st)
    /\ UNCHANGED <<world, aborted>>

Close ==
    /\ At("run", "closed") /\ ClosesFlat(st)
    /\ UNCHANGED <<world, aborted, book, upsets>>

-----------------------------------------------------------------------------
(***************************************************************************)
(* The operator, the watchdog and the restart.                             *)
(***************************************************************************)
\* stop(): the flag, then the cancels of what is known now.
Kill ==
    /\ st.phase # "none" /\ At("kill", "idle") /\ Upset("kill")
    /\ aborted' = TRUE
    /\ Become("kill", [Idle EXCEPT !.pc = "sweep", !.why = "kill", !.ids = Named(st) \ {0}])
    /\ UNCHANGED <<world, st, status, disk, book>>

Lock(on) ==
    /\ st.phase # "none" /\ st.locked # on /\ Upset("lock")
    /\ st' = [st EXCEPT !.locked = on] /\ persistBracket(st')
    /\ UNCHANGED <<world, status, aborted, job, book>>

\* confirmBracketAdjust() and autoBracketAdjust() on the stop of a bracket that has filled
\* (targets and the trail's distance, which they may change too, keep their levels here).
Adjust(lvl) ==
    LET S == [st EXCEPT !.stopPrice = lvl] IN
    /\ At("adjust", "idle") /\ st.filled > 0 /\ ~st.locked /\ Upset("adjust")
    /\ \/ /\ st.phase = "protected" /\ st.stopId # 0 /\ st.tp1Id = 0
          /\ Unstop("adjust", S, disk, "adjust", 0, lvl)
       \/ /\ ~(st.phase = "protected" /\ st.stopId # 0 /\ st.tp1Id = 0)
          /\ Tick(S, Image(S)) /\ UNCHANGED job
    /\ UNCHANGED <<world, aborted, book>>

\* reviveStalledBrackets(), on every refresh of the hub.
ReviveExiting ==                \* mutant: of the live phases only the exit is revived
    /\ At("run", "idle") /\ status = "failed" /\ st.phase = "exiting"
    /\ runBracket(st, job)
    /\ UNCHANGED <<spec, coins, bought, aged, book, upsets>>
Revive ==
    /\ At("run", "idle") /\ status = "failed" /\ st.phase \in Holding
    /\ runBracket(st, job)
    /\ UNCHANGED <<spec, coins, bought, aged, book, upsets>>

\* The process dies; the next one runs resumeBracketIfAny().
NoJobs == [p \in Procs |-> Idle]
Resumes == runBracket(disk, NoJobs)
Restart ==
    /\ status # "pending" /\ Upset("restart")
    /\ \/ /\ disk = NoBracket /\ st' = NoBracket /\ job' = NoJobs
          /\ status' = "gone" /\ UNCHANGED <<aborted, disk>>
       \/ disk # NoBracket /\ Resumes
    /\ UNCHANGED <<spec, coins, bought, aged, book>>

-----------------------------------------------------------------------------
\* The exchange: an order trades one coin, or is cancelled by another hand.
Trade(o) ==
    /\ Live(o)
    /\ book' = [book EXCEPT ![o].got = @ + 1,
                            ![o].st = IF Left(o) = 1 THEN "filled" ELSE @]
    /\ coins' = IF book[o].kind = "buy" THEN coins + 1 ELSE coins - 1
    /\ bought' = IF book[o].kind = "buy" THEN bought + 1 ELSE bought
    /\ UNCHANGED <<spec, st, status, aborted, job, disk, aged, upsets>>

CancelledElsewhere(o) ==
    /\ Live(o) /\ Gone(o) /\ Upset("cancel")
    /\ UNCHANGED <<world, st, status, aborted, job, disk>>

\* Time passes.
PositionDeadline ==
    /\ st.filled > 0 /\ ~aged /\ aged' = TRUE
    /\ UNCHANGED <<spec, st, status, aborted, job, disk, book, coins, bought, upsets>>

StopStep(p) == CancelStop(p) \/ StopFreed(p) \/ FindStop(p) \/ PlaceNewStop(p) \/ Sweep(p) \/ Swept(p)
RunStep ==
    \/ FindEntry \/ EnterMarket \/ PollEntry \/ DropEntry \/ RereadEntry \/ placeProtection
    \/ FindTp \/ PlaceSell \/ ReadStop \/ ReadTp1 \/ Chase \/ Rechase \/ ForceExit \/ ForcedExit
    \/ ReadHeld \/ Balance \/ SellToUsd \/ Close
    \/ \E last \in 1..FinalLevel : TickStarts(last)

Next ==
    \/ Confirm \/ RunStep \/ \E p \in Procs : StopStep(p)
    \/ Kill \/ \E on \in BOOLEAN : Lock(on)
    \/ \E lvl \in StopLevel..Entry : Adjust(lvl)
    \/ Revive \/ Restart
    \/ \E o \in Orders : Trade(o) \/ CancelledElsewhere(o)
    \/ PositionDeadline

Spec == Init /\ [][Next]_vars

(***************************************************************************)
(* Fairness: requests time out, sleeps are timers, the hub's refresh comes *)
(* round.  Nothing is assumed of the exchange or of the market.            *)
(***************************************************************************)
FairSpec ==
    /\ Spec /\ WF_vars(RunStep) /\ WF_vars(Revive)
    /\ \A p \in Procs : WF_vars(StopStep(p))
    /\ WF_vars(PositionDeadline)

-----------------------------------------------------------------------------
TypeOK ==
    /\ spec \in Specs /\ st \in Brackets /\ disk \in Brackets
    /\ status \in {"pending", "executing", "failed", "filled", "skipped", "gone"}
    /\ aborted \in BOOLEAN /\ aged \in BOOLEAN /\ coins \in Int /\ bought \in Int
    /\ job \in [Procs -> Jobs] /\ book \in [Orders -> OrderRec]
    /\ upsets \in Upsets \cup {{}}

(***************************************************************************)
(* Properties.                                                             *)
(***************************************************************************)
Owned == coins - Wallet                       \* what the bracket bought and still holds
Quiet == {"fault", "cancel"} \cap upsets = {}

\* placeStop() looks at the book before it places: however a stop got there - an answer
\* that was lost, a ratchet, a restarted monitor - at most one rests.  A request fails once;
\* an adjustment that replaces the stop beside the monitor's self-heal is left out: each of
\* the two looks before the other has placed, and the coins may allow both stops.
OneStop == "adjust" \in upsets \/ Cardinality(LiveOf("stop")) <= 1

\* However its answer and the process are lost, one entry at most rests on the book: a
\* restarted bracket adopts the entry that carries its client id.  A request fails once: where
\* the entry's answer was lost and then the look at the book fails too, a second is placed.
\* (One that has filled meanwhile is no open order any more, and a second leaves.)
OneEntryRests == Cardinality(LiveOf("buy")) <= 1

LostBoth == {"fault", "restart"} \subseteq upsets

\* A bracket that holds a position has a coroutine, or has failed in a way that the
\* watchdog revives - until it is killed.
NotForgotten == st.phase \in Holding /\ ~aborted /\ status # "filled"
                    => ~At("run", "idle") \/ status = "failed"

\* A bracket that reports itself closed has sold or offered all it bought, if no request
\* of it failed and nobody else cancelled an order of it.  An adjustment is left out: its
\* stop may come to rest after the sweep of the close, which leaves no coins to sell, and a
\* kill of the closed bracket cancels that stop.
ClosedIsOffered == status = "filled" /\ Quiet /\ "adjust" \notin upsets => Free <= Wallet

\* The protective level of a bracket never goes down but by the operator's adjustment, a
\* restart, the protection that a restarted bracket places anew, and a stop that was lost
\* before a restart aside; and but to the break-even of a runner without a stop of its own,
\* whose trail had raised it when the stop was lost.
NeverWidens ==
    [][st'.stopPrice < st.stopPrice =>
           \/ "adjust" \in upsets' \/ "restart" \in upsets' \ upsets \/ LostBoth'
           \/ "restart" \in upsets /\ job["run"].why \in {"first", "again"}
           \/ ~spec.stop /\ st'.stopPrice = Entry]_vars

\* A position that nothing protects and nothing offers gets an order again, whatever
\* failed: by the self-heals, by the exit that is tried again, at last by the time-stop.
Recovers == (st.phase \in Holding /\ Owned > 0 /\ LiveSells = {} /\ ~aborted)
               ~> (LiveSells # {} \/ Owned = 0 \/ st.phase \notin Holding \/ st.locked)

\* A stop whose id was lost is found again, unless an exit is on its way.
Unknown == LiveOf("stop") \ {st.stopId} # {} /\ st.phase \in {"protected", "tp1_filled"}
           /\ st.tp1Id = 0 /\ ~aborted /\ ~LostBoth
Adopted == []<>~Unknown

\* Once a bracket is locked its tick begins no scale-out, exit, ratchet or time-stop.  What it
\* was at when the lock was set goes on, and a ratchet still goes over to the time-stop: the
\* tick looked at the lock before (a take-profit that rests from the start aside).
Managing(j) == j.why \in {"scale", "final", "time", "ratchet"}
GoesOn(i, j) == j.why = i.why \/ (i.why = "ratchet" /\ j.why = "time")
LockHolds ==
    [][st.locked /\ ~spec.full /\ Managing(job'["run"]) => GoesOn(job["run"], job'["run"])]_vars

=============================================================================
