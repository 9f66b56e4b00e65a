--------------------------- MODULE MCStateManager ---------------------------
(* Instances of StateManager for TLC: one worker per replica. *)
EXTENDS StateManager, TLC

CONSTANTS w1, w2

TwoReplicas == {1, 2}

MCHome == w1 :> 1 @@ w2 :> 2

TwoInstants == [r \in Replicas |-> {1, 2}]

OneInstant == [r \in Replicas |-> {1}]

\* A bound on the reports: the jobs of one worker fail, those of the other do not.
OneOutcomeEach == ingested[1]["succeeded"] = 0 /\ ingested[2]["failed"] = 0

GossipSpec == Init /\ [][Next /\ OneOutcomeEach']_vars /\ Fairness
=============================================================================
