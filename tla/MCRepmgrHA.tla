----------------------------- MODULE MCRepmgrHA -----------------------------
(* Two nodes with streaming replication, and a repmgr cluster of a primary *)
(* and a standby with a third standby or with a witness.                   *)
EXTENDS RepmgrHA, TLC
CONSTANTS n1, n2, n3, w1, old

(* The earlier host old extends the name of n1 (10.0.0.2 and 10.0.0.20),   *)
(* so that grep finds n1 in a line about old.                              *)
MCHostPrefix == {<<n1, old>>}

(* Two pairs: a fresh node and one with a past; the second is touched. *)
Pair      == [mode |-> "streaming", nodes |-> {n1, n2}, old |-> {old}]
Touched   == [mode |-> "streaming", nodes |-> {n1, n2}, old |-> {}]
Trio      == [mode |-> "repmgr", nodes |-> {n1, n2, n3}, old |-> {}]
Witnessed == [mode |-> "repmgr", nodes |-> {n1, n2, w1}, old |-> {}]
MCClusters == {Pair, Touched, Trio, Witnessed}

Bounds(p, c, f, t) == [promotion |-> p, crash |-> c, failure |-> f, touch |-> t]
MCBound == Pair :> Bounds(2, 1, 2, 0) @@ Touched   :> Bounds(1, 0, 1, 1)
        @@ Trio :> Bounds(2, 1, 0, 0) @@ Witnessed :> Bounds(2, 2, 1, 0)
=============================================================================
