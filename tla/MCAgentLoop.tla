---------------------------- MODULE MCAgentLoop -----------------------------
(* Three rows on two workers: a conversation with tools and a single turn   *)
(* on the first, a single turn on the other.                                *)
EXTENDS AgentLoop, TLC

CONSTANTS c1, c2, c3, w1, w2

Chunks == c1 :> w1 @@ c2 :> w1 @@ c3 :> w2
Agents == c1 :> "tool_agent" @@ c2 :> "single_turn_agent" @@ c3 :> "single_turn_agent"
Prompts == c1 :> 1 @@ c2 :> 2 @@ c3 :> 1
BothTools == {"search", "sandbox"}
OneThreadEach == [t \in BothTools |-> 1]
Limits == [t \in BothTools |-> IF t = "search" THEN 1 ELSE 2]
TwoServers == {1, 2}
=============================================================================
