----------------------------- MODULE MCStateStore -----------------------------
(***************************************************************************)
(* StateStore for TLC: "plans" is a key whose hub deletes it when it has   *)
(* nothing to keep (active-plans.json), "trades" one that is only written. *)
(***************************************************************************)
EXTENDS StateStore
CONSTANTS plans, trades
None    == {}
Plans   == {plans}
TwoKeys == {plans, trades}
=============================================================================
