------------------------------ MODULE MCBtcLadder ------------------------------
(***************************************************************************)
(* BtcLadder for TLC.                                                      *)
(***************************************************************************)
EXTENDS BtcLadder

\* Orders and passes upset, slice by slice, in the combinations the ledger survives.
Ordinary ==
    {{"roundtrip", "second", "third", "restart", "cancel", "dismiss"},
     {"roundtrip", "second", "restart", "cancel", "timestop", "foreign"},
     {"roundtrip", "second", "queued", "restart", "cancel"},
     {"roundtrip", "second", "stop", "dismiss"},
     {"roundtrip", "lost", "restart", "cancel", "timestop", "dismiss"},
     {"roundtrip", "fault", "cancel", "dismiss"},
     {"roundtrip", "naked", "second", "cancel", "timestop"},
     {"naked", "restart", "cancel", "timestop", "dismiss"},
     {"scaleout", "roundtrip", "restart", "cancel"}}

=============================================================================
