-------------------------- MODULE MCChatScheduler --------------------------
(* Three conversations; the third belongs to a second batch.               *)
EXTENDS ChatScheduler, TLC

CONSTANTS c1, c2, c3

TwoBatches == c1 :> 1 @@ c2 :> 1 @@ c3 :> 2

TwoServers == {1, 2}

=============================================================================
