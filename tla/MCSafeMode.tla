------------------------------ MODULE MCSafeMode ------------------------------
(***************************************************************************)
(* SafeMode for TLC.                                                       *)
(***************************************************************************)
EXTENDS SafeMode

\* Trades and calls against firings, arms and disarms against firings and restarts, a
\* bracket's orders beside the operator's, a stopless plan, a symbol without a price, and the
\* enrichment's stale write.
Ordinary ==
    {{"trades", "overlap", "fault", "lost", "restart"},
     {"trades", "calls", "fault"},
     {"trades", "arming", "restart"},
     {"trades", "arming", "enrich"},
     {"trades", "brackets", "unpriced"},
     {"arming", "brackets", "stopless", "restart"}}

=============================================================================
