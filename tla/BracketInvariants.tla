-------------------------- MODULE BracketInvariants --------------------------
(***************************************************************************)
(* What BracketProofs proves of every step of a bracket: the inductive     *)
(* invariants IInv, EInv, SInv, LInv and OInv, each with the parts it is   *)
(* made of, and what a step must leave for them to hold again.             *)
(***************************************************************************)
EXTENDS Bracket

\* The coroutine of an adjustment and the one of the kill keep to their own errands.
Whose ==
    /\ job["adjust"].pc \in {"idle", "unstop", "freed", "findStop", "placeStop", "sweep"}
    /\ job["adjust"].pc # "idle" => job["adjust"].why = "adjust"
    /\ job["kill"].pc \in {"idle", "sweep"} /\ (job["kill"].pc = "sweep" => job["kill"].why = "kill")
    /\ job["run"].why \notin {"adjust", "kill"}

\* An entry that is waited for has an id.
Awaited == job["run"].pc \in {"awaitEntry", "dropEntry", "reread"} => st.entryId # 0

IInv == TypeOK /\ Whose /\ Awaited /\ NotForgotten

------------------------------------------------------------------------------
(***************************************************************************)
(* Where the shared parts of a tick lead: S is the bracket they start      *)
(* with, D what the file holds by then, c the coroutine they leave.        *)
(***************************************************************************)
Alike(S, T) ==
    /\ T \in Brackets /\ T.client = S.client /\ T.entryId = S.entryId
    /\ T.stopId = S.stopId /\ T.tp1Id = S.tp1Id /\ T.filled = S.filled
    /\ T.position = S.position /\ T.stopPrice = S.stopPrice /\ T.locked = S.locked

Leads(p, S, D, c) ==
    /\ c \in Jobs /\ Become(p, c) /\ status' = status
    /\ Alike(S, st')
    /\ disk' = D \/ disk' = NoBracket \/ (Alike(S, disk') /\ disk'.phase \in {S.phase, st'.phase})

Ends(c) == c = [Idle EXCEPT !.pc = "asleep"] \/ (c = Idle /\ aborted)

\* After the cancel of a stop, for each reason to cancel it.
Freeing(S, why, lvl, c) ==
    /\ c.why = why
    /\ \/ why = "scale" /\ st'.phase = S.phase /\ c.pc = "sell" /\ c.amt = Tranche(S.position)
       \/ /\ why = "scale" /\ st'.phase = S.phase /\ c.pc = "findStop" /\ c.lvl >= S.stopPrice
          /\ 0 <= S.stopPrice => c.lvl >= StopLevel
          /\ c.amt = S.position - Tranche(S.position)
       \/ why \in {"final", "time"} /\ st'.phase = "exiting" /\ c.pc = "sell" /\ c.amt = S.position
       \/ /\ why \in {"ratchet", "adjust"} /\ st'.phase = S.phase /\ c.pc = "findStop"
          /\ c.lvl = lvl /\ c.amt = S.position

Unstopping(S, why, lvl, c) ==
    \/ S.stopId = 0 /\ Freeing(S, why, lvl, c)
    \/ /\ S.stopId # 0 /\ st'.phase = S.phase
       /\ c.pc = "unstop" /\ c.why = why /\ c.id = S.stopId /\ c.lvl = lvl

TimeStopping(S, c) ==
    \/ Ends(c) /\ st'.phase = S.phase
    \/ S.tp1Id = 0 /\ aged /\ Unstopping(S, "time", 0, c)

Managed(S, c) ==
    \/ TimeStopping(S, c)
    \/ /\ S.tp1Id = 0 /\ S.phase = "protected" /\ spec.scale /\ Unstopping(S, "scale", 0, c)
    \/ S.tp1Id = 0 /\ Unstopping(S, "final", 0, c)
    \/ /\ S.stopPrice # 0 /\ (spec.arm \/ S.trail)
       /\ \E lvl \in Int : lvl > S.stopPrice /\ Unstopping(S, "ratchet", lvl, c)

Manages(S, c) == (Ends(c) /\ st'.phase = S.phase) \/ (~S.locked /\ Managed(S, c))

\* placeProtection() is tried once more.
Again(S, c) ==
    /\ S.phase = "protected" /\ S.stopId = 0 /\ S.tp1Id = 0
    /\ c.pc = "protect" /\ c.why = "again"

Protects(S, c) ==
    st' = S /\ disk' = Image(S) /\ (Ends(c) \/ (job["run"].why = "first" /\ Again(S, c)))

Arrived(why, S, c) ==
    \/ Ends(c) /\ st'.phase = S.phase
    \/ why \in {"first", "again"} /\ Again(S, c) /\ st'.phase = S.phase
    \/ why = "heal" /\ ~S.locked /\ Managed(S, c)
    \/ why = "scale" /\ st'.phase = S.phase /\ c.pc = "sell" /\ c.why = "scale" /\ c.amt = Tranche(S.position)
    \/ why = "ratchet" /\ TimeStopping(S, c)
    \/ why = "adjust" /\ c = Idle /\ st'.phase = S.phase

Sold(S, c) ==
    /\ Arrived(job["run"].why, S, c) /\ job["run"].why \notin {"adjust", "ratchet"}
    /\ job["run"].why = "scale" => Ends(c)
Errand(p) == p \in {"run", "adjust"} /\ (p = "adjust" <=> job[p].why = "adjust")
Arrives(p, S, c) == Arrived(job[p].why, S, c) /\ (p = "adjust" => c = Idle)

------------------------------------------------------------------------------
(***************************************************************************)
(* A step of one coroutine.                                                *)
(***************************************************************************)
Env == book' \in [Orders -> OrderRec] /\ upsets' \in Upsets \cup {{}}
LockStep == st.locked /\ ~spec.full /\ Managing(job'["run"]) => GoesOn(job["run"], job'["run"])
Keeps == IInv' /\ LockStep

\* What the monitor may become: not silent while it holds, when locked no more than it was.
RunMay(c) ==
    /\ c.why \notin {"adjust", "kill"}
    /\ c.pc = "idle" => aborted \/ st'.phase \notin Holding \/ status' \in {"filled", "failed"}
    /\ c.pc \in {"awaitEntry", "dropEntry", "reread"} => st'.entryId # 0
    /\ st.locked /\ ~spec.full /\ Managing(c)
          => c.why = job["run"].why \/ (job["run"].why = "ratchet" /\ c.why = "time")
AdjustMay(c) ==
    /\ c.pc \in {"idle", "unstop", "freed", "findStop", "placeStop", "sweep"}
    /\ c.pc # "idle" => c.why = "adjust"
    /\ st'.phase = st.phase /\ st'.entryId = st.entryId /\ status' = status
May(p, c) == (p = "run" /\ RunMay(c)) \/ (p = "adjust" /\ AdjustMay(c))

Statuses == {"pending", "executing", "failed", "filled", "skipped", "gone"}

\* f starts with a and takes the step h[i] at each place i.
Iterates(f, n, A, a, h) == f \in [0..n -> A] /\ f[0] = a /\ \A i \in 1..n : f[i] = h[i][f[i - 1]]

------------------------------------------------------------------------------
(***************************************************************************)
(* The entry is bought once.                                               *)
(***************************************************************************)
NoFault == "fault" \notin upsets
Entering(pc) == pc \in {"find", "enter"}

\* Nothing was bought and nothing is on order.
Unbought == bought = 0 /\ LiveOf("buy") = {}

\* A coroutine that may still send the entry finds nothing bought; so does a bracket, in
\* memory or in the file, that does not know its entry, while no request has failed.
Unsent ==
    /\ Entering(job["run"].pc) => Unbought
    /\ NoFault /\ disk # NoBracket /\ disk.entryId = 0 => Unbought
    /\ NoFault /\ st.entryId = 0 /\ status # "gone" => Unbought
    /\ status = "pending" => Unbought

\* The one entry on order buys no more than what is missing.
OneEntry ==
    /\ bought <= Buy
    /\ \A o \in LiveOf("buy") : Left(o) >= 1 /\ bought + Left(o) <= Buy
    /\ \A o, p \in LiveOf("buy") : o = p

\* Before its confirmation, and once a restart found it closed, there is no bracket.
Absent == status \in {"pending", "gone"} => /\ st = NoBracket /\ disk = NoBracket
                                            /\ \A p \in Procs : job[p].pc = "idle"

EInv == LostBoth \/ (Unsent /\ OneEntry /\ Absent)

\* What runBracket() is called with: a bracket whose entry has a client id, or the new one.
Starts == Brackets \cup {NewBracket}

\* One entry at most rests, and none when another may be sent without a look at the book.
Lone ==
    /\ \A o, p \in LiveOf("buy") : o = p
    /\ status = "pending" => LiveOf("buy") = {} /\ ~Entering(job["run"].pc)
    /\ job["run"].pc = "enter" => LiveOf("buy") = {}

\* A step that sends no entry.
NoNewBuy == /\ upsets \subseteq upsets'
            /\ \A o \in Orders : book'[o].kind = "buy" /\ book'[o].st = "live" => book'[o] = book[o]

\* The file holds what it held, nothing, or a bracket with the entry of the one in memory.
Kept(D) == D \in {disk, NoBracket} \/ D.entryId = st.entryId

\* A step of a coroutine of the bracket that leaves the entry as it is.
Goes(p) ==
    /\ st'.entryId = st.entryId /\ Kept(disk')
    /\ status' \in {status, "filled", "skipped", "failed", "executing"}
    /\ IF p = "run" THEN ~Entering(job'["run"].pc) ELSE job'["run"] = job["run"]

Passes == st.phase # "none" \/ st.filled > 0 \/ \E p \in Procs : job[p].pc # "idle"
Plain ==
    /\ NoNewBuy /\ bought' = bought
    /\ UNCHANGED <<st, status, job, disk>> \/ (Passes /\ \E p \in Procs : Goes(p))

------------------------------------------------------------------------------
(***************************************************************************)
(* One stop rests.                                                         *)
(***************************************************************************)
Adjusted == "adjust" \in upsets
Stops == LiveOf("stop")
Early == {"idle", "find", "enter", "awaitEntry", "dropEntry", "reread"}

\* A bracket, in memory or in the file: one that still enters has no stop, one that rests
\* its take-profit first has one order at a time.
Sound(S) ==
    /\ S.phase = "entering" => S.stopId = 0
    /\ spec.full => /\ S.tp1Id = 0 \/ S.stopId = 0
                    /\ ~spec.stop => S.stopId = 0 /\ S.stopPrice = 0

\* The coroutine of the bracket S: a stop is looked for and placed when none is known.
FitAt(S, pc, why, id) ==
    /\ pc \notin Early => S.phase # "entering"
    /\ pc \in {"find", "enter", "awaitEntry", "dropEntry", "reread", "protect",
               "force", "forced", "freed", "findStop"} => S.stopId = 0
    /\ pc \in {"unstop", "readStop"} => id = S.stopId
    /\ pc = "readTp1" => id = S.tp1Id /\ id # 0
    /\ pc = "protect" => why \in {"first", "again"}
    /\ pc \in {"readHeld", "forced"} \/ (pc \in {"findTp", "sell"} /\ why = "force") => S.tp1Id = 0
    /\ pc \in {"force", "forced"} => spec.full /\ (why = "stop" => spec.stop)
    /\ why = "scale" => spec.scale
    /\ pc \in {"findTp", "sell"} /\ why = "heal" => ~spec.stop
    /\ spec.full /\ pc \in {"findTp", "sell", "chase", "rechase"} => S.stopId = 0
    /\ spec.full /\ pc \in {"unstop", "freed", "findStop", "placeStop"} => spec.stop /\ S.tp1Id = 0
Fit(S, c) == FitAt(S, c.pc, c.why, c.id)
FitFor(S, pc, why) == FitAt(S, pc, why, 0)

\* While no request has failed, the bracket in memory and the one in the file know the
\* stop that rests.
Agreed ==
    /\ Sound(st) /\ Sound(disk) /\ Fit(st, job["run"])
    /\ status # "gone" => Stops \subseteq {st.stopId}
    /\ disk # NoBracket => Stops \subseteq {disk.stopId}
    /\ At("run", "sweep") => Stops \subseteq job["run"].ids

\* At most one rests, also after the one request that failed: none when one is placed.
Alone ==
    /\ At("adjust", "idle")
    /\ \A o, p \in Stops : o = p
    /\ At("run", "placeStop") => Stops = {}
    /\ At("run", "sweep") => job["run"].why = "close"

SInv == Adjusted \/ (Alone /\ (NoFault => Agreed))

\* A step that sends no stop.
NoNewStop == upsets \subseteq upsets' /\ Stops' \subseteq Stops

\* The brackets and the coroutine that a step of the monitor leaves.
Knows(S) == Sound(S) /\ Stops' \subseteq {S.stopId}
Filed(D) == D = NoBracket \/ Knows(D)
Fits(c) ==
    /\ Knows(st') /\ Filed(disk') /\ Fit(st', c)
    /\ c.pc = "sweep" => Stops' \subseteq c.ids
Settles ==
    \E c : /\ Become("run", c)
           /\ c.pc = "placeStop" => Stops' = {}
           /\ c.pc = "sweep" => c.why = "close"
           /\ NoFault' => Fits(c)

------------------------------------------------------------------------------
(***************************************************************************)
(* The parts of a tick, and the orders they leave.                         *)
(***************************************************************************)
Ahead(S) == S.phase # "entering" /\ Knows(S)
\* A bracket that rests its take-profit first has none when its stop is placed.
OneExit(S) == spec.full /\ spec.stop => S.tp1Id = 0
Tame(c) == c.pc \notin {"placeStop", "sweep"}

\* An await of the monitor itself.
Pauses(pc, last, amt) == Awaits("run", pc, "", last, amt, 0)
FitTick(S, pc) == FitAt(S, pc, "", 0)

------------------------------------------------------------------------------
(***************************************************************************)
(* Each step of the monitor.                                               *)
(***************************************************************************)
Before == IInv /\ SInv /\ EInv /\ ~Adjusted /\ ~Adjusted'
Lands == upsets \subseteq upsets' /\ (\A o, p \in Stops' : o = p) /\ spec' = spec /\ Settles

\* What a step of the monitor finds, as long as no request has failed.
Finds(pc) ==
    /\ job["run"].pc = pc /\ FitAt(st, pc, job["run"].why, job["run"].id)
    /\ Sound(st) /\ Knows(st) /\ Filed(disk) /\ Filed(NoBracket)
    /\ pc \notin Early => Ahead(st)

------------------------------------------------------------------------------
(***************************************************************************)
(* Beside the monitor.                                                     *)
(***************************************************************************)
\* The same orders, in the same phase or killed.
Twin(S, T) == /\ T.stopId = S.stopId /\ T.tp1Id = S.tp1Id /\ T.stopPrice = S.stopPrice
              /\ T.phase \in {S.phase, "aborted"}
Refiled == disk' \in {disk, NoBracket} \/ (Twin(st, disk') /\ (NoFault => status # "gone"))
Idles == job'["run"] = job["run"] /\ job'["adjust"] = job["adjust"] /\ status' = status

------------------------------------------------------------------------------
(***************************************************************************)
(* The protective level does not go down.                                  *)
(***************************************************************************)
Excused == Adjusted \/ LostBoth
Restarted == "restart" \in upsets
Bare == spec.full /\ ~spec.stop               \* the level is never set
First(c) == c.why \in {"first", "again"}

\* No lower than q, or the break-even of a runner without a stop of its own.
Raises(q, lvl) == lvl >= StopLevel /\ (lvl >= q \/ (~spec.stop /\ lvl = Entry))

\* What a coroutine wants of the level when it is q.
Wants(q, c) ==
    /\ c.pc \in {"findStop", "placeStop"} =>
          ~Bare /\ c.lvl >= StopLevel /\ (Raises(q, c.lvl) \/ (First(c) /\ Restarted))
    /\ c.pc \in {"unstop", "freed"} /\ c.why = "ratchet" => q # 0 /\ Raises(q, c.lvl)
    /\ c.pc \in {"force", "forced"} /\ c.why = "stop" => q # 0
    /\ c.pc = "protect" => First(c)
    /\ c.why = "scale" => spec.scale

\* Not protected yet, or about to be protected anew.
Fresh(c) == First(c) \/ c.pc \in {"find", "enter", "awaitEntry", "dropEntry", "reread", "protect"}
Priced(S) == 0 <= S.stopPrice /\ (Bare => S.stopPrice = 0)

Leveled ==
    /\ Priced(st) /\ Priced(disk) /\ Wants(st.stopPrice, job["run"])
    /\ status = "failed" => job["run"].pc = "idle"
    /\ ~Restarted /\ (Fresh(job["run"]) \/ status = "failed") => st.stopPrice <= StopLevel
    /\ ~Restarted => \A o \in Stops : Raises(st.stopPrice, book[o].lvl)

LInv == Excused \/ Leveled

\* Each step leaves a level that is no lower, and a coroutine that wants none lower.
Rises == \/ st'.stopPrice >= st.stopPrice \/ (~spec.stop /\ st'.stopPrice = Entry)
         \/ Restarted /\ First(job["run"])
Leveling(c) ==
    /\ Become("run", c) /\ (status' = "failed" => c.pc = "idle")
    /\ Priced(st') /\ Priced(disk') /\ Wants(st'.stopPrice, c)
    /\ ~Restarted => /\ Fresh(c) \/ status' = "failed" => st'.stopPrice <= StopLevel
                     /\ \A o \in Stops' : Raises(st'.stopPrice, book'[o].lvl)
Levels == spec' = spec /\ Restarted' = Restarted /\ Rises /\ \E c : Leveling(c)

\* What a step of the monitor starts from.
Below == Before /\ Leveled /\ upsets \subseteq upsets' /\ ~Excused'

------------------------------------------------------------------------------
(***************************************************************************)
(* The levels of the stops at the exchange.                                *)
(***************************************************************************)
SameStops == Restarted' = Restarted /\ \A o \in Stops' : o \in Stops /\ book'[o].lvl = book[o].lvl

------------------------------------------------------------------------------
(***************************************************************************)
(* Where the shared parts of a tick lead, at the level of S.               *)
(***************************************************************************)
Keeping(S, D, c) ==
    /\ Become("run", c) /\ status' = status /\ st'.stopPrice = S.stopPrice
    /\ disk'.stopPrice \in {D.stopPrice, S.stopPrice, 0}
    /\ Wants(S.stopPrice, c)
    /\ Fresh(c) => First(job["run"]) /\ S.stopId = 0

------------------------------------------------------------------------------
(***************************************************************************)
(* Steps that leave the level alone.                                       *)
(***************************************************************************)
Remains == st'.stopPrice = st.stopPrice /\ disk'.stopPrice \in {st.stopPrice, disk.stopPrice, 0}
Steady(c) ==
    /\ Become("run", c) /\ (status' = "failed" => c.pc = "idle") /\ Wants(st.stopPrice, c)
    /\ Fresh(c) \/ status' = "failed" => Fresh(job["run"])

\* A step of the monitor that moves no stop but away.
Stays == Below /\ SameStops /\ spec' = spec /\ job["run"].pc # "idle"

Wanted(pc, why, lvl) ==
    \A d : d.pc = pc /\ d.why = why /\ d.lvl = lvl
              => Wants(st.stopPrice, d) /\ (Fresh(d) => Fresh(job["run"]))

------------------------------------------------------------------------------
(***************************************************************************)
(* Every step.                                                             *)
(***************************************************************************)
Lasts ==
    /\ Leveled'
    /\ st'.stopPrice < st.stopPrice => \/ ~spec.stop /\ st'.stopPrice = Entry
                                       \/ "restart" \in upsets' \ upsets
                                       \/ Restarted /\ First(job["run"])

\* The level does not fall, but for the causes that are excepted.
Holds == st'.stopPrice < st.stopPrice =>
           \/ "adjust" \in upsets' \/ "restart" \in upsets' \ upsets \/ LostBoth'
           \/ "restart" \in upsets /\ job["run"].why \in {"first", "again"}
           \/ ~spec.stop /\ st'.stopPrice = Entry

------------------------------------------------------------------------------
(***************************************************************************)
(* A bracket that closes has sold or offered what it bought.  b is the     *)
(* book of the exchange, w what the bracket bought and still holds: the    *)
(* facts below are read before a step and after it.                        *)
(***************************************************************************)
Sober == {"fault", "cancel", "adjust"} \cap upsets = {}

Rest(b, o) == b[o].amt - b[o].got
OfSale(b, o) == b[o].kind \in {"stop", "sell"}
Unsold(b) == \A o \in Orders : ~OfSale(b, o)
Buying(b) == {o \in Orders : b[o].kind = "buy" /\ b[o].st = "live"}
Resting(b, o) == b[o].st = "live" /\ OfSale(b, o)

\* An order that sells all there is: one of a bracket that has a single exit at a time, and
\* a stop of one that has none in the beginning.
Whole(b, w, o) == (b[o].st = "live" => Rest(b, o) >= w) /\ (b[o].st = "filled" => w <= 0)
Single(kind) == spec.full \/ (kind = "stop" /\ ~spec.stop)

Booked(b, w) ==
    /\ Buying(b) # {} => Unsold(b)
    /\ \A o \in Orders : b[o].kind = "none" <=> b[o].st = "none"
    /\ \A o \in Orders : OfSale(b, o) =>
          /\ b[o].st = "live" => Rest(b, o) >= 1
          /\ b[o].st = "filled" => Rest(b, o) = 0
          /\ Single(b[o].kind) => Whole(b, w, o)

\* The bracket S, in memory or in the file: what it takes itself to hold is no less than
\* what there is; its exit, or its stop and its first target together, sell all of it.
Carried(S, b, w) == Buying(b) = {} /\ w <= S.position /\ w <= S.filled
Backed(S, b, w) ==
    /\ S.entryId # 0 => b[S.entryId].kind = "buy" /\ Buying(b) \subseteq {S.entryId}
    /\ S.stopId # 0 => b[S.stopId].kind = "stop"
    /\ S.tp1Id # 0 => b[S.tp1Id].kind = "sell"
    /\ S.phase = "entering" => Unsold(b) /\ w = IF S.entryId = 0 THEN 0 ELSE b[S.entryId].got
    /\ S.phase \in Holding => Carried(S, b, w)
    /\ S.phase = "exiting" /\ S.tp1Id # 0 => b[S.tp1Id].st = "cancelled" \/ Rest(b, S.tp1Id) >= w
    /\ S.tp1Id # 0 /\ S.stopId # 0 =>
          \/ b[S.tp1Id].st = "cancelled" \/ b[S.stopId].st = "cancelled"
          \/ Rest(b, S.tp1Id) + Rest(b, S.stopId) >= w

\* The coroutine c of the bracket S: the orders it works at,
Waits == {"awaitEntry", "dropEntry", "reread"}
Sells == {"findTp", "sell"}
Serves(S, c, b, w) ==
    /\ c.pc \notin Early => Carried(S, b, w)
    /\ c.pc \in Early \ {"idle"} => Unsold(b) /\ S.phase \in {"entering", "aborted"}
    /\ c.pc \in {"find", "enter"} => w = 0
    /\ c.pc \in Waits => b[S.entryId].kind = "buy" /\ w = b[S.entryId].got
    /\ c.pc = "reread" => b[S.entryId].st # "live"
    /\ c.pc \in Sells \cup {"protect"} => S.tp1Id = 0
    /\ c.why \in {"scale", "final", "time"} /\ c.pc # "force" => S.tp1Id = 0
    /\ c.pc = "placeStop" => S.stopId = 0
    /\ c.pc = "readStop" => S.stopId # 0
    /\ c.pc \in {"asleep", "readStop", "readTp1", "readHeld", "balance", "closing", "closed"} => c.why = ""
    /\ c.pc \in {"chase", "rechase", "force"} => c.id = S.tp1Id /\ c.id # 0
    /\ c.pc = "rechase" => b[S.tp1Id].st # "live"
    /\ c.pc \in {"placeStop", "chase", "rechase", "closing"} => c.amt >= 1
    /\ c.pc \in {"balance", "closing", "closed"} => S.stopId = 0 /\ S.tp1Id = 0
    /\ c.pc = "sweep" => \A o \in {S.stopId, S.tp1Id} : o # 0 /\ Resting(b, o) => o \in c.ids

\* and what it is about to offer.
Exits == {"final", "time", "force"}
Offers(S, c, b, w) ==
    /\ c.pc \in {"findStop", "placeStop"} => c.amt + (IF c.why = "scale" THEN Tranche(S.position) ELSE 0) >= w
    /\ c.pc = "sell" /\ c.why = "scale" =>
          S.stopId = 0 \/ b[S.stopId].st = "cancelled" \/ Rest(b, S.stopId) + c.amt >= w
    /\ c.pc \in Sells /\ (spec.full \/ c.why \in Exits) => c.amt >= w
    /\ c.pc \in {"chase", "rechase"} => c.amt >= w
    /\ c.pc = "findTp" => c.why \in {"heal", "first", "again"}
    /\ c.pc \in Sells \cup {"protect"} /\ c.why \notin Exits /\ ~spec.full => S.phase # "exiting"
    /\ c.why = "scale" => S.phase # "exiting" /\ (~spec.stop => Tranche(S.position) = 0)
    /\ c.pc \in Sells /\ c.why \in {"heal", "first", "again"} => spec.full \/ ~spec.stop
    /\ c.pc \in Sells /\ c.why = "heal" /\ ~spec.full => c.amt = Tranche(S.position)
    /\ c.pc \in {"findStop", "placeStop"} /\ c.why = "heal" /\ ~spec.stop => S.phase # "protected"
    /\ c.pc \in {"findStop", "placeStop"} /\ c.why \in {"first", "again"} => spec.stop
    /\ c.pc \in {"sweep", "balance", "closing"} /\ spec.full => w <= 0

\* The close, free being what no resting sell claims: it offers all there is, or all that
\* is free.
Closes(c, w, free) ==
    /\ c.pc = "closing" => c.amt >= w \/ free <= c.amt
    /\ c.pc = "closed" => free <= Wallet

\* The file holds a bracket that enters only until its first order.
Stored(D, b, w) == D # NoBracket /\ D.phase # "entering" => Carried(D, b, w)
Files(D, c) == D.phase = "entering" => c.pc \in Early \/ c.why = "first"

\* The kill cancels no take-profit but the one the bracket knows.
Aims(S, k, b) == \A o \in k.ids : b[o].kind = "sell" /\ b[o].st = "live" => o = S.tp1Id

\* Before the bracket and after it.
Done(x, S, D, c, b, w, free) ==
    /\ x = "pending" => Unsold(b) /\ w = 0
    /\ x = "failed" => c.pc = "idle" /\ S.phase # "entering" /\ D.phase # "entering"
    /\ x = "filled" => /\ c.pc = "idle" /\ Buying(b) = {}
                       /\ w <= 0 \/ (free <= Wallet /\ S.stopId = 0 /\ S.tp1Id = 0)

Offered ==
    /\ Booked(book, Owned) /\ Backed(st, book, Owned) /\ Backed(disk, book, Owned)
    /\ Serves(st, job["run"], book, Owned) /\ Offers(st, job["run"], book, Owned)
    /\ Closes(job["run"], Owned, Free) /\ Files(disk, job["run"]) /\ Stored(disk, book, Owned)
    /\ Aims(st, job["kill"], book) /\ Done(status, st, disk, job["run"], book, Owned, Free)
OInv == Sober => Offered

------------------------------------------------------------------------------
(***************************************************************************)
(* What the changes of the book leave of these facts.                      *)
(***************************************************************************)
Books == [Orders -> OrderRec]

\* Orders leave the book, if anything.
Thins(b, d) ==
    \A o \in Orders : /\ d[o].kind = b[o].kind /\ d[o].amt = b[o].amt /\ d[o].got = b[o].got
                      /\ d[o].st = b[o].st \/ (b[o].st = "live" /\ d[o].st = "cancelled")

\* A new order n among those that nothing refers to, U.
Adds(b, d, U, n, kind, a) ==
    /\ n \in U /\ U \subseteq Orders /\ \A o \in U : b[o].st # "live"
    /\ d[n].kind = kind /\ d[n].st = "live" /\ d[n].amt = a /\ d[n].got = 0
    /\ \A o \in Orders \ U : d[o] = b[o]
    /\ \A o \in U \ {n} : d[o] = NoOrder

------------------------------------------------------------------------------
(***************************************************************************)
(* Where the shared parts of a tick lead, with the book they leave.        *)
(***************************************************************************)
\* The phase of a bracket stays, or its exit begins while no other exit rests.
Advances(S, T) == T.phase = S.phase \/ (T.phase = "exiting" /\ S.tp1Id = 0)

Leaves(c, b, w) ==
    /\ Become("run", c) /\ Backed(st', b, w) /\ Backed(disk', b, w) /\ Stored(disk', b, w)
    /\ Serves(st', c, b, w) /\ Offers(st', c, b, w) /\ Files(disk', c)

\* The first target and the tranche of a scale-out that a tick of the bracket S may place.
Scalable(S) == spec.scale => ~spec.full /\ (~spec.stop /\ S.phase = "protected" /\ S.tp1Id = 0 => Tranche(S.position) = 0)

Scales(S) == ~spec.full /\ S.phase # "exiting" /\ (~spec.stop => Tranche(S.position) = 0)

------------------------------------------------------------------------------
(***************************************************************************)
(* A step of the bracket, and what it does to the book.                    *)
(***************************************************************************)
Sane == IInv /\ TypeOK' /\ SInv /\ EInv /\ Sober /\ Sober' /\ upsets \subseteq upsets' /\ Offered

\* No order that the kill is to cancel appears.
Frames ==
    \A o \in job["kill"].ids :
        book'[o].kind = "sell" /\ book'[o].st = "live" => book[o].kind = "sell" /\ book[o].st = "live"

------------------------------------------------------------------------------
(***************************************************************************)
(* What a step of the bracket leaves, with the book it leaves.             *)
(***************************************************************************)
Reaches ==
    \E c : /\ spec' = spec /\ Booked(book', Owned') /\ Leaves(c, book', Owned') /\ Closes(c, Owned', Free')
           /\ Aims(st', job["kill"], book') /\ Done(status', st', disk', c, book', Owned', Free')

Concluded(c, k) ==
    /\ job'["run"] = c /\ job'["kill"] = k
    /\ spec' = spec /\ Booked(book', Owned') /\ Backed(st', book', Owned') /\ Backed(disk', book', Owned')
    /\ Stored(disk', book', Owned') /\ Serves(st', c, book', Owned') /\ Offers(st', c, book', Owned')
    /\ Files(disk', c) /\ Closes(c, Owned', Free')
    /\ Aims(st', k, book') /\ Done(status', st', disk', c, book', Owned', Free')

\* A step of the run that trades nothing.
Ready ==
    /\ Sane /\ job["run"].pc # "idle" /\ spec' = spec /\ coins' = coins
    /\ Booked(book', Owned) /\ Frames

Target(S) == S.tp1Id = st.tp1Id \/ st.tp1Id = 0 \/ book'[st.tp1Id].st # "live"
Firm(S) == /\ S \in Brackets /\ Backed(S, book', Owned) /\ Carried(S, book', Owned)
           /\ S.phase # "entering" /\ Target(S)
OnFile(D) == Backed(D, book', Owned) /\ Stored(D, book', Owned) /\ D.phase # "entering"

Undone(c) == c.pc \notin {"closing", "closed"}

Stoppable(S) ==
    /\ job["run"].why = "heal" => Scalable(S)
    /\ job["run"].why = "scale" =>
          /\ S.tp1Id = 0 /\ S.phase # "exiting" /\ ~spec.full /\ (~spec.stop => Tranche(S.position) = 0)
          /\ S.stopId = 0 \/ book'[S.stopId].st = "cancelled"
             \/ Rest(book', S.stopId) + Tranche(S.position) >= Owned

\* The next read of a tick.
Reading(S, c) == /\ c.pc \in {"readStop", "readTp1", "readHeld"} /\ c.why = ""
                 /\ c.pc = "readStop" => S.stopId # 0

------------------------------------------------------------------------------
(***************************************************************************)
(* What the resting sells claim, as one of them changes.                   *)
(***************************************************************************)
Claims(b) == [o \in Orders |-> IF b[o].st = "live" /\ b[o].kind # "buy" THEN Rest(b, o) ELSE 0]

\* The first await of the bracket S.
Begins(S, c) ==
    \/ c.pc \in {"find", "enter"} /\ S.phase = "entering" /\ S.entryId = 0 /\ c.why = ""
    \/ c.pc = "awaitEntry" /\ S.phase = "entering" /\ S.entryId # 0 /\ c.why = ""
    \/ c.pc = "protect" /\ S.phase = "protected" /\ S.stopId = 0 /\ S.tp1Id = 0 /\ c.why = "again"
    \/ c.pc = "asleep" /\ S.phase # "entering" /\ c.why = ""

------------------------------------------------------------------------------
(***************************************************************************)
(* An order trades a coin.                                                 *)
(***************************************************************************)
Trades(b, d, o) ==
    /\ o \in Orders /\ b[o].st = "live" /\ d[o].kind = b[o].kind /\ d[o].got = b[o].got + 1
    /\ Rest(d, o) = Rest(b, o) - 1 /\ d[o].st = IF Rest(b, o) = 1 THEN "filled" ELSE "live"
    /\ \A x \in Orders : x # o => d[x] = b[x]

==============================================================================
