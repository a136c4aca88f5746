------------------------------ MODULE MCBracket ------------------------------
(***************************************************************************)
(* Bracket for TLC.                                                        *)
(***************************************************************************)
EXTENDS Bracket

B(stop, full, scale, arm) == [stop |-> stop, full |-> full, scale |-> scale,
                              even |-> scale, arm |-> arm]

StopScaleOut == B(TRUE, FALSE, TRUE, TRUE)
TakeProfitFirst == B(TRUE, TRUE, FALSE, FALSE)
FastCash == B(FALSE, TRUE, FALSE, FALSE)
Sniper == B(FALSE, FALSE, TRUE, FALSE)
AllKinds == {StopScaleOut, TakeProfitFirst, FastCash, Sniper}

Trailing == B(TRUE, FALSE, FALSE, TRUE)
WithStop == {Trailing, TakeProfitFirst}

\* What may upset one behaviour: requests, the process and the kill; the operator beside them.
Faults == {{"fault"}, {"restart"}, {"cancel"}, {"kill"}, {"fault", "restart"}}
Operator == {{"kill"}, {"adjust"}, {"lock"}, {"fault"}, {"restart"},
             {"adjust", "fault"}, {"fault", "restart"}}
=============================================================================
