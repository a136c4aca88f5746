------------------------------ MODULE MCPeerSync ------------------------------
(***************************************************************************)
(* PeerSync for TLC: the desk syncs with the laptop and with a third node, *)
(* the laptop, whose hubs write, with the desk.                            *)
(***************************************************************************)
EXTENDS PeerSync, TLC
CONSTANTS desk, laptop, attic, layout, v1, v2, v3, r1, r2
ThreeNodes == {desk, laptop, attic}
Laptop     == {laptop}
OnePath    == {layout}
TwoRuns == {r1, r2}
AnyRun == Permutations(TwoRuns)
ThreeVersions == {v1, v2, v3}
Stamps == (v1 :> 1) @@ (v2 :> 2) @@ (v3 :> 3)
Hub    == (desk :> <<laptop, attic>>) @@ (laptop :> <<desk>>) @@ (attic :> <<>>)
=============================================================================
