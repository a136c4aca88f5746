----------------------------- MODULE MCAgentFleet -----------------------------
(***************************************************************************)
(* AgentFleet for TLC: a desk of two agents, the second with a wake gate.  *)
(***************************************************************************)
EXTENDS AgentFleet

\* Questions against chats and timeouts, restarts, departures, events, alerts and sessions
\* that outlive their deadline; the operator's runs and chats beside idle conversations; trades
\* of overlapping sessions, with a lost answer.
Ordinary == {{"ask", "chat"}, {"ask", "crash"}, {"ask", "remove"}, {"ask", "event"},
             {"ask", "deaf"}, {"ask", "alert"}, {"idle", "chat", "event", "manual", "deaf"},
             {"trade", "chat", "lost"}, {"trade", "crash"}, {"trade", "remove"}}

\* A session goes on after its deadline.
Deaf == {{"deaf"}}
=============================================================================
