----------------------------- MODULE MirroredLog -----------------------------
(***************************************************************************)
(* What the audit log promises (the header of server/auditLog.ts): a       *)
(* history that is only ever appended to, each entry naming the one before *)
(* it, and a second copy of it that trails behind and never differs.       *)
(***************************************************************************)
EXTENDS Integers, Sequences

CONSTANT Hash   \* names of entries; 0 names the genesis

VARIABLES
    log,    \* the entries, oldest first: [id |-> name, prev |-> name of the one before]
    copied, \* how many of them the second copy holds
    broken  \* the second copy lacks an entry for good, or the chain itself is damaged

vars == <<log, copied, broken>>

HashOf(l) == IF l = <<>> THEN 0 ELSE l[Len(l)].id

Init == log = <<>> /\ copied = 0 /\ broken = FALSE

\* Entries recorded before the log is looked at may be copied later, one at a time.
Append1 ==
    /\ ~broken
    /\ \E h \in Hash \ {0} :
        /\ \A i \in 1..Len(log) : log[i].id # h
        /\ log' = Append(log, [id |-> h, prev |-> HashOf(log)])
    /\ UNCHANGED <<copied, broken>>

Copy ==
    /\ ~broken
    /\ copied < Len(log)
    /\ copied' = copied + 1
    /\ UNCHANGED <<log, broken>>

\* Nothing is promised of a damaged chain, or of a copy that missed an entry, ...
Break == broken' = TRUE

\* ... until the copy is seen to be complete.
Mend ==
    /\ broken /\ broken' = FALSE
    /\ log' = log /\ copied' = Len(log)

Next == Append1 \/ Copy \/ Break \/ Mend

Spec == Init /\ [][Next]_vars
=============================================================================
