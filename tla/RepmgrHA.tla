------------------------------ MODULE RepmgrHA ------------------------------
(***************************************************************************)
(* postgres_cluster_node with ha_mode "repmgr"                             *)
(* (src/internal/postgres/repmgr.go): the bring-up of StreamingHA, then    *)
(* the registration with repmgr and the enabling of repmgrd - which, once  *)
(* it runs, fails over and re-points standbys on its own (the rendered     *)
(* repmgr.conf says failover='automatic'), without the provider knowing.   *)
(*                                                                         *)
(* repmgr's metadata database is one set of registered nodes here: it is   *)
(* replicated with the data.  repmgr and repmgrd are external: they are    *)
(* modelled by what the provider relies on.                                *)
(***************************************************************************)
EXTENDS StreamingHA

VARIABLES
    registered,     \* the nodes repmgr knows
    daemon          \* the nodes whose repmgrd is enabled; it runs when the host does

rvars == <<registered, daemon>>
allVars == <<vars, rvars>>

Repmgr == cluster.mode = "repmgr"
PrimaryReady == IsPrimary(primary) /\ primary \in registered

RepmgrInit == Init /\ registered = {} /\ daemon = {}
-----------------------------------------------------------------------------
(* RepmgrPrimaryCommands: role and database are created where missing,     *)
(* then the primary is registered.  repmgr refuses a second primary while  *)
(* one is registered and runs.                                             *)
OtherPrimary(n) == \E p \in registered \ {n} : IsPrimary(p) /\ p \notin Witnesses

RegisterPrimary ==
    /\ Repmgr /\ op[primary].pc = "idle" /\ applied[primary] # primary
    /\ IsPrimary(primary) /\ ~OtherPrimary(primary)
    /\ prepared' = [prepared EXCEPT ![primary] = TRUE]
    /\ registered' = registered \cup {primary}
    /\ daemon' = daemon \cup {primary}
    /\ applied' = [applied EXCEPT ![primary] = primary]
    /\ UNCHANGED <<cluster, primary, op, shells, dir, up, events, used, acting>>

(* The list stops part way: after the role and the database, or after the  *)
(* registration and before repmgrd is enabled.                             *)
RegisterPrimaryFails ==
    /\ Repmgr /\ op[primary].pc = "idle" /\ applied[primary] # primary
    /\ IsPrimary(primary) /\ Spend("failure")
    /\ prepared' = [prepared EXCEPT ![primary] = TRUE]
    /\ \/ UNCHANGED registered
       \/ ~OtherPrimary(primary) /\ registered' = registered \cup {primary}
    /\ UNCHANGED <<cluster, primary, applied, op, shells, dir, up, events, acting, daemon>>

(* RepmgrWitnessCommands: role and database on the witness's own server,   *)
(* then the registration through the declared primary.                     *)
ApplyWitness(w) ==
    /\ Repmgr /\ w \in Witnesses /\ op[w].pc = "idle" /\ applied[w] # primary
    /\ up[w] /\ PrimaryReady
    /\ registered' = registered \cup {w}
    /\ daemon' = daemon \cup {w}
    /\ applied' = [applied EXCEPT ![w] = primary]
    /\ UNCHANGED <<cluster, primary, op, shells, dir, up, prepared, events, used, acting>>

(* The list stops after the registration and before repmgrd is enabled;    *)
(* one that stops earlier leaves nothing but the witness's own role.       *)
ApplyWitnessFails(w) ==
    /\ Repmgr /\ w \in Witnesses /\ op[w].pc = "idle" /\ applied[w] # primary
    /\ up[w] /\ PrimaryReady /\ Spend("failure")
    /\ registered' = registered \cup {w}
    /\ UNCHANGED <<cluster, primary, applied, op, shells, dir, up, prepared, events, acting, daemon>>

(* repmgr standby register --force connects to the local server, which     *)
(* must be in recovery, and to the primary repmgr knows of.                *)
CanRegister(n) == /\ up[n] /\ dir[n].kind = "cluster" /\ dir[n].signal
                  /\ \E p \in registered : IsPrimary(p)

Register(n) ==
    /\ op[n].pc = "register" /\ CanRegister(n)
    /\ registered' = registered \cup {n}
    /\ op' = [op EXCEPT ![n].pc = "daemon"]
    /\ UNCHANGED <<cluster, primary, applied, shells, dir, up, prepared, events, used, acting, daemon>>

RegisterFails(n) ==
    /\ op[n].pc = "register" /\ ~CanRegister(n)
    /\ op' = [op EXCEPT ![n].pc = "idle"]
    /\ UNCHANGED <<cluster, primary, applied, shells, dir, up, prepared, events, used, acting>>
    /\ UNCHANGED rvars

(* repmgrdEnableCommands; the apply has succeeded. *)
EnableDaemon(n) ==
    /\ op[n].pc = "daemon"
    /\ daemon' = daemon \cup {n}
    /\ Done(n)
    /\ UNCHANGED <<cluster, primary, shells, dir, up, prepared, events, used, acting, registered>>
-----------------------------------------------------------------------------
(* repmgrd of a standby that lost its upstream promotes it when more than  *)
(* half of the registered nodes but the upstream are visible to it.        *)
Electorate(n) == registered \ {dir[n].follow}
MayFailOver(n) ==
    /\ n \in daemon \cap registered
    /\ dir[n].follow # None /\ ~up[dir[n].follow]
    /\ 2 * Cardinality({m \in Electorate(n) : up[m]}) > Cardinality(Electorate(n))

FailOver(n) == Repmgr /\ MayFailOver(n) /\ Promotion(n) /\ UNCHANGED rvars

(* And repmgrd of the other standbys follows the new primary. *)
Follow(n) ==
    /\ Repmgr /\ n \in daemon \cap registered /\ acting \in registered
    /\ up[n] /\ dir[n].signal /\ dir[n].kind = "cluster" /\ n # acting
    /\ dir[n].follow # acting /\ IsPrimary(acting)
    /\ dir' = [dir EXCEPT ![n].follow = acting, ![n].hosts = {acting}]
    /\ Record(op[n].pc # "idle" \/ Active(n, "orphan"), "repointed meanwhile")
    /\ UNCHANGED <<cluster, primary, applied, op, shells, up, prepared, used, acting>>
    /\ UNCHANGED rvars
-----------------------------------------------------------------------------
RepmgrStep(n) == Register(n) \/ RegisterFails(n) \/ EnableDaemon(n)

RepmgrNext == \/ Next /\ UNCHANGED rvars
              \/ RegisterPrimary \/ RegisterPrimaryFails
              \/ \E n \in cluster.nodes :
                   \/ ApplyWitness(n) \/ ApplyWitnessFails(n)
                   \/ RepmgrStep(n) \/ FailOver(n) \/ Follow(n)

(* As in StreamingHA.  repmgrd need never act. *)
RepmgrFairness ==
    /\ WF_allVars(ApplyPrimary /\ UNCHANGED rvars)
    /\ WF_allVars(RegisterPrimary)
    /\ \A n \in Nodes : /\ WF_allVars(ApplyReplica(n) /\ UNCHANGED rvars)
                        /\ WF_allVars(NodeStep(n) /\ UNCHANGED rvars)
                        /\ WF_allVars(ServerStarts(n) /\ UNCHANGED rvars)
                        /\ WF_allVars(RepmgrStep(n))

RepmgrSpec == RepmgrInit /\ [][RepmgrNext]_allVars /\ RepmgrFairness
-----------------------------------------------------------------------------
RepmgrTypeOK == TypeOK /\ registered \subseteq Nodes /\ daemon \subseteq Nodes

(* What streaming's bring-up lets pass, repmgr's registration refuses: a   *)
(* node on which the clone was skipped for a stale host= line comes up as  *)
(* a second primary, and its apply then fails.  A repmgr apply succeeds    *)
(* for a running standby, unless it is promoted or wiped during the apply. *)
RegisteredIsStandby ==
    [][\A n \in Nodes : Repmgr /\ Succeeds(n) =>
          \/ up[n] /\ dir[n].kind = "cluster" /\ dir[n].signal
          \/ events \cap {"overlap", "promoted meanwhile"} # {}]_allVars
=============================================================================
