--------------------------- MODULE MCStreamingHA ---------------------------
(* A pair with streaming replication and one promotion, no failure.  *)
EXTENDS StreamingHA
CONSTANTS n1, n2

MCClusters == {[mode |-> "streaming", nodes |-> {n1, n2}, old |-> {}]}
MCBound == [c \in MCClusters |-> [w \in Bounded |-> IF w = "promotion" THEN 1 ELSE 0]]
=============================================================================
