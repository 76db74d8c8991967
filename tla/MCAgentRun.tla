----------------------------- MODULE MCAgentRun -----------------------------
(* Instances of AgentRun for TLC.                                           *)
EXTENDS AgentRun

\* A session whose first question was answered and led to another.
SessionsUnderWay == {<<"user", "assistant", "user", "assistant">>}

\* The ids of an SRS as it was first numbered, and after its first feature was
\* dropped.
SomeDrafts == {<<1, 2>>, <<2, 3>>}
=============================================================================
