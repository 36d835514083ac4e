---------------------------- MODULE CommandList ----------------------------
(***************************************************************************)
(* What a resource of the provider is promised by RunCommands              *)
(* (src/internal/postgres/client.go): an ordered list of commands is       *)
(* executed on the host, each AT LEAST once before the next one begins,    *)
(* and the list stops at its first error.  Nothing is promised about how   *)
(* often a command runs, nor about when the last copy of it ends: the      *)
(* transport repeats a command whose connection was reset, and the host    *)
(* may finish a command nobody waits for any more.                         *)
(*                                                                         *)
(* The callers are the resource operations Terraform runs concurrently.    *)
(* SshTransport implements this specification.                             *)
(***************************************************************************)
EXTENDS Naturals

CONSTANTS Callers,      \* concurrent resource operations, one list each
          NumCommands   \* length of every caller's list, a positive number

VARIABLES phase,     \* phase[c]: the list of c is running, returned nil or an error
          acked,     \* acked[c]: how many leading commands RunCommands saw succeed
          begun,     \* begun[c]: commands of c that began at least once on the host
          finished   \* finished[c]: commands of c that ended at least once with status 0

vars == <<phase, acked, begun, finished>>

Cmds == 1 .. NumCommands

TypeOK == /\ phase \in [Callers -> {"run", "ok", "error"}]
          /\ acked \in [Callers -> 0 .. NumCommands]
          /\ begun \in [Callers -> SUBSET Cmds]
          /\ finished \in [Callers -> SUBSET Cmds]

Init == /\ phase = [c \in Callers |-> "run"]
        /\ acked = [c \in Callers |-> 0]
        /\ begun = [c \in Callers |-> {}]
        /\ finished = [c \in Callers |-> {}]

(* The host begins the command the list has reached. *)
Begin(c) ==
    /\ phase[c] = "run"
    /\ acked[c] < NumCommands
    /\ begun' = [begun EXCEPT ![c] = @ \cup {acked[c] + 1}]
    /\ UNCHANGED <<phase, acked, finished>>

(* The host ends a copy of a command with status 0, perhaps long after the list moved on. *)
Complete(c) ==
    /\ \E i \in begun[c] : finished' = [finished EXCEPT ![c] = @ \cup {i}]
    /\ UNCHANGED <<phase, acked, begun>>

(* RunCommands moves past a command only once that command has succeeded. *)
Ack(c) ==
    /\ phase[c] = "run"
    /\ acked[c] + 1 \in finished[c]
    /\ acked' = [acked EXCEPT ![c] = @ + 1]
    /\ phase' = [phase EXCEPT ![c] = IF acked[c] + 1 = NumCommands THEN "ok" ELSE "run"]
    /\ UNCHANGED <<begun, finished>>

(* Lists end with an error; the death of the provider process ends several at once. *)
Fail ==
    /\ \E S \in SUBSET Callers :
          /\ \A c \in S : phase[c] = "run"
          /\ phase' = [c \in Callers |-> IF c \in S THEN "error" ELSE phase[c]]
    /\ UNCHANGED <<acked, begun, finished>>

Next == Fail \/ \E c \in Callers : Begin(c) \/ Complete(c) \/ Ack(c)

Spec == Init /\ [][Next]_vars
=============================================================================
