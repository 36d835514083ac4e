---------------------------- MODULE StreamingHA ----------------------------
(***************************************************************************)
(* postgres_cluster_node with physical replication: the bring-up of        *)
(* primaries and standbys (src/internal/postgres/streaming.go, dispatched  *)
(* by mode.go and cluster_node_resource.go), applied again and again while *)
(* servers fail over, hosts crash and connections are lost.  In mode       *)
(* "repmgr" the stop, the guarded clone and the start are the same, and    *)
(* RepmgrHA adds what follows and what repmgr does on its own.             *)
(*                                                                         *)
(* Of a node's datadir the model keeps what the bring-up reads and writes: *)
(* whether it is a complete copy of the cluster, the standby signal, the   *)
(* primary it would follow, and the host= lines of postgresql.auto.conf,   *)
(* on which the clone is guarded.  Credentials (.pgpass, the role's        *)
(* password) and server parameters are left out.                           *)
(*                                                                         *)
(* The clone command is a shell of its own on the node: at the deadline    *)
(* or when the connection is lost it goes on without the provider.         *)
(***************************************************************************)
EXTENDS Naturals, FiniteSets

CONSTANTS
    Nodes,
    Witnesses,      \* the nodes whose role is witness (mode "repmgr" only)
    Clusters,       \* the clusters that may be declared: [mode, nodes, old]; old is
                    \* the part of OldHosts its nodes may know
    OldHosts,       \* hosts of earlier clusters a node may have been a standby of
    HostPrefix,     \* pairs <<h, g>>: the text of host h is a prefix of that of g
    None,
    Bound           \* Bound[cluster]: how often each event of the environment happens

Hosts == Nodes \cup OldHosts
Modes == {"streaming", "repmgr"}
Bounded == {"promotion", "crash", "failure", "touch"}

ASSUME StreamingAssumption ==
    /\ IsFiniteSet(Nodes) /\ Nodes # {}
    /\ Nodes \cap OldHosts = {} /\ None \notin Hosts
    /\ HostPrefix \subseteq Hosts \X Hosts
    /\ Witnesses \subseteq Nodes
    /\ Clusters \subseteq [mode : Modes, nodes : SUBSET Nodes, old : SUBSET OldHosts]
    /\ \A c \in Clusters : /\ c.nodes \ Witnesses # {}
                           /\ c.mode = "streaming" => c.nodes \cap Witnesses = {}
    /\ Bound \in [Clusters -> [Bounded -> Nat]]

VARIABLES
    cluster,    \* the declared cluster, constant
    primary,    \* the node declared primary; every other one is its replica
    applied,    \* applied[n]: the primary recorded in the state (n itself: its role), or None
    op,         \* op[n]: the place in the command list, and the primary it was built for
    shells,     \* shells[n]: the clone shell the provider waits for, and an orphan
    dir,        \* dir[n]: the datadir
    up,         \* up[n]: the server runs
    prepared,   \* prepared[n]: the replication role and slot exist on n
    events,     \* history: what a quiet bring-up never meets
    acting,     \* history: the node last promoted, at first the primary
    used        \* how much of each bound is used

vars == <<cluster, primary, applied, op, shells, dir, up, prepared, events, acting, used>>

Shells == {"job", "orphan"}
NoShell == [stage |-> "none", target |-> None]
Active(n, s) == shells[n][s].stage # "none"

(* The datadir of a fresh package install, or one left by an earlier cluster. *)
Dir(kind, signal, follow, hosts) ==
    [kind |-> kind, signal |-> signal, follow |-> follow, hosts |-> hosts]
Empty == Dir("empty", FALSE, None, {})

(* pg_basebackup -R copies the primary's datadir, its postgresql.auto.conf *)
(* included, and appends primary_conninfo and standby.signal; repmgr       *)
(* replaces the primary_conninfo of the copy.                              *)
HostLines(p) == IF cluster.mode = "repmgr" THEN {p} ELSE dir[p].hosts \cup {p}
Clone(p)   == Dir(dir[p].kind, TRUE, p, HostLines(p))
Partials(p) == {Dir("partial", sig, None, hs) :
                  sig \in BOOLEAN, hs \in {{}, dir[p].hosts, HostLines(p)}}

Usable(n) == dir[n].kind \in {"cluster", "fresh"}
IsPrimary(n) == up[n] /\ dir[n].kind = "cluster" /\ ~dir[n].signal
Replicas == cluster.nodes \ (Witnesses \cup {primary})
IsStandbyOf(n, p) == dir[n].kind = "cluster" /\ dir[n].signal /\ dir[n].follow = p

(* grep 'host=<PrimaryHost>' finds every line it is a prefix of.           *)
(* Mutants: PG_VERSION, which every datadir has; no guard.                 *)
CloneGuard_PGVersion(n, p) == dir[n].kind # "empty"
CloneGuard_None(n, p) == FALSE
CloneGuard(n, p) == \E h \in dir[n].hosts : h = p \/ <<p, h>> \in HostPrefix

Spend(what) == used[what] < Bound[cluster][what] /\ used' = [used EXCEPT ![what] = @ + 1]
Record(happened, what) == events' = IF happened THEN events \cup {what} ELSE events

Init == /\ cluster \in Clusters
        /\ primary \in cluster.nodes \ Witnesses
        /\ applied = [n \in Nodes |-> None]
        /\ op = [n \in Nodes |-> [pc |-> "idle", target |-> None]]
        /\ shells = [n \in Nodes |-> [s \in Shells |-> NoShell]]
        /\ dir \in [Nodes -> {Dir("cluster", FALSE, None, {})}
                              \cup {Dir("fresh", FALSE, None, hs) : hs \in SUBSET cluster.old}]
        /\ \A n \in Nodes : /\ dir[n].kind = "cluster" <=> n = primary
                            /\ n \notin Replicas => dir[n].hosts = {}
        /\ up = [n \in Nodes |-> TRUE]
        /\ prepared = [n \in Nodes |-> FALSE]
        /\ events = IF \E n \in Nodes : \E h \in dir[n].hosts : <<primary, h>> \in HostPrefix
                    THEN {"foreign host line"} ELSE {}
        /\ acting = primary
        /\ used = [w \in Bounded |-> 0]
-----------------------------------------------------------------------------
(* StreamingPrimaryCommands: configuration, reload, role, slot; each of    *)
(* them creates what is missing.  A run that fails part way is repeated.   *)
ApplyPrimary ==
    /\ cluster.mode = "streaming"
    /\ op[primary].pc = "idle" /\ up[primary] /\ applied[primary] # primary
    /\ prepared' = [prepared EXCEPT ![primary] = TRUE]
    /\ applied' = [applied EXCEPT ![primary] = primary]
    /\ UNCHANGED <<cluster, primary, op, shells, dir, up, events, used, acting>>

(* Terraform applies a replica whose recorded primary is not the declared  *)
(* one, or whose last apply failed.  It cannot know who acts as primary.   *)
(* Mutant: NodeCommands dispatches the primary's role to the standby's     *)
(* commands.                                                               *)
StandbyCommands(n) ==
    /\ op[n].pc = "idle" /\ applied[n] # primary
    /\ op' = [op EXCEPT ![n] = [pc |-> "stop", target |-> primary]]
    /\ events' = events
          \cup (IF Active(n, "orphan") \/ Active(primary, "orphan") THEN {"overlap"} ELSE {})
          \cup (IF primary # acting THEN {"stale declaration"} ELSE {})
    /\ UNCHANGED <<cluster, primary, applied, shells, dir, up, prepared, acting, used>>

ApplyReplica_AnyRole(n) == StandbyCommands(n)
ApplyReplica(n) == n \in Replicas /\ StandbyCommands(n)

(* pg_ctlcluster stop || true: a failure to stop is ignored. *)
Stop(n) ==
    /\ op[n].pc = "stop"
    /\ op' = [op EXCEPT ![n].pc = "clone"]
    /\ \/ up' = [up EXCEPT ![n] = FALSE] /\ UNCHANGED <<events, used>>
       \/ up[n] /\ Spend("failure") /\ Record(TRUE, "stop ignored") /\ UNCHANGED up
    /\ UNCHANGED <<cluster, primary, applied, shells, dir, prepared, acting>>

(* The clone command reaches the node: its guard decides.  Run starts it   *)
(* again after a reset connection.                                         *)
CloneBegins(n) ==
    /\ op[n].pc = "clone"
    /\ IF CloneGuard(n, op[n].target)
       THEN /\ op' = [op EXCEPT ![n].pc = "start"]
            /\ UNCHANGED shells
       ELSE /\ op' = [op EXCEPT ![n].pc = "cloning"]
            /\ shells' = [shells EXCEPT ![n]["job"] = [stage |-> "wipe", target |-> op[n].target]]
    /\ Record(Active(n, "orphan"), "overlap")
    /\ UNCHANGED <<cluster, primary, applied, dir, up, prepared, used, acting>>

(* find <datadir> -mindepth 1 -delete *)
Wipe(n, s) ==
    /\ shells[n][s].stage = "wipe"
    /\ dir' = [dir EXCEPT ![n] = Empty]
    /\ prepared' = [prepared EXCEPT ![n] = FALSE]
    /\ shells' = [shells EXCEPT ![n][s].stage = "copy"]
    /\ UNCHANGED <<cluster, primary, applied, op, up, events, used, acting>>

(* The shell ended: a job hands its status to RunCommands.                 *)
(* Mutant: the status is lost, RunCommands waits for ever.                 *)
ShellEnds_StatusLost(n, s, next) ==
    /\ shells' = [shells EXCEPT ![n][s] = NoShell]
    /\ UNCHANGED op

ShellEnds(n, s, next) ==
    /\ shells' = [shells EXCEPT ![n][s] = NoShell]
    /\ op' = IF s = "job" THEN [op EXCEPT ![n].pc = next] ELSE op

CanCopy(n, p) == p # n /\ up[p] /\ prepared[p] /\ Usable(p)

(* pg_basebackup ends; two of them in one datadir may ruin it.  A copy has *)
(* the role but no slot, which repmgr does not use.                        *)
CopyEnds(n, s) ==
    LET p == shells[n][s].target IN
    /\ shells[n][s].stage = "copy" /\ CanCopy(n, p)
    /\ \E d \in {Clone(p)} \cup (IF \A z \in Shells : Active(n, z) THEN Partials(p) ELSE {}) :
          dir' = [dir EXCEPT ![n] = d]
    /\ prepared' = [prepared EXCEPT ![n] = cluster.mode = "repmgr"]
    /\ ShellEnds(n, s, "start")
    /\ UNCHANGED <<cluster, primary, applied, up, events, used, acting>>

(* pg_basebackup fails and removes what it wrote: the primary is down or   *)
(* has no slot, or the copy broke off.                                     *)
CopyFails(n, s) ==
    /\ shells[n][s].stage = "copy"
    /\ \/ ~CanCopy(n, shells[n][s].target) /\ UNCHANGED used
       \/ Spend("failure")
    /\ dir' = [dir EXCEPT ![n] = Empty]
    /\ ShellEnds(n, s, "idle")
    /\ UNCHANGED <<cluster, primary, applied, up, prepared, events, acting>>

(* The last command succeeded: the state is set. *)
Done(n) == /\ op' = [op EXCEPT ![n].pc = "idle"]
           /\ applied' = [applied EXCEPT ![n] = op[n].target]

(* pg_ctlcluster start, the last command in mode "streaming"; in "repmgr"  *)
(* the standby is registered next.  Mutant: it is not.                     *)
StartOK(n) == op[n].pc = "start" /\ ~up[n] /\ Usable(n)

AfterStart_Unregistered(n) == Done(n)
AfterStart(n) == IF cluster.mode = "streaming"
                 THEN Done(n)
                 ELSE op' = [op EXCEPT ![n].pc = "register"] /\ UNCHANGED applied

Start(n) ==
    /\ StartOK(n)
    /\ up' = [up EXCEPT ![n] = TRUE]
    /\ AfterStart(n)
    /\ UNCHANGED <<cluster, primary, shells, dir, prepared, events, used, acting>>

(* The server runs already, or the datadir is not one it can start from. *)
StartFails(n) ==
    /\ op[n].pc = "start" /\ ~StartOK(n)
    /\ op' = [op EXCEPT ![n].pc = "idle"]
    /\ UNCHANGED <<cluster, primary, applied, shells, dir, up, prepared, events, used, acting>>

(* A command fails before it has an effect: RunCommands stops. *)
CommandFails(n) ==
    /\ op[n].pc \in {"stop", "clone", "start", "register", "daemon"} /\ Spend("failure")
    /\ op' = [op EXCEPT ![n].pc = "idle"]
    /\ UNCHANGED <<cluster, primary, applied, shells, dir, up, prepared, events, acting>>

(* The clone's connection is lost: by the deadline (the apply fails) or by *)
(* a reset (Run tries the command again).  The shell becomes an orphan.    *)
CloneAbandoned(n) ==
    /\ op[n].pc = "cloning" /\ ~Active(n, "orphan") /\ Spend("failure")
    /\ shells' = [shells EXCEPT ![n] = [job |-> NoShell, orphan |-> shells[n]["job"]]]
    /\ \E pc \in {"idle", "clone"} : op' = [op EXCEPT ![n].pc = pc]
    /\ UNCHANGED <<cluster, primary, applied, dir, up, prepared, events, acting>>
-----------------------------------------------------------------------------
(* A standby is promoted; postgresql.auto.conf keeps its lines. *)
Promotion(n) ==
    /\ up[n] /\ dir[n].signal /\ dir[n].kind = "cluster" /\ Spend("promotion")
    /\ dir' = [dir EXCEPT ![n].signal = FALSE]
    /\ acting' = n
    /\ events' = events \cup {"promotion"}
          \cup (IF op[n].pc # "idle" \/ Active(n, "orphan") THEN {"promoted meanwhile"} ELSE {})
    /\ UNCHANGED <<cluster, primary, applied, op, shells, up, prepared>>

(* By an operator; in mode "repmgr" repmgrd does it. *)
Promote(n) == cluster.mode = "streaming" /\ Promotion(n)

(* The user declares a node that runs as a primary to be the primary: as a *)
(* rule the one last promoted.                                             *)
DeclarePrimary(n) ==
    /\ n # primary /\ n \notin Witnesses /\ IsPrimary(n) /\ op[n].pc = "idle"
    /\ primary' = n
    /\ events' = events \cup (IF Active(n, "orphan") THEN {"overlap"} ELSE {})
                         \cup (IF n # acting THEN {"declared back"} ELSE {})
    /\ UNCHANGED <<cluster, applied, op, shells, dir, up, prepared, acting, used>>

(* An attribute changes, or the resource is replaced: it is applied again. *)
Touch(n) ==
    /\ applied[n] # None /\ op[n].pc = "idle" /\ Spend("touch")
    /\ applied' = [applied EXCEPT ![n] = None]
    /\ UNCHANGED <<cluster, primary, op, shells, dir, up, prepared, events, acting>>

(* The host goes down with everything that runs on it.  A copy in progress *)
(* is left part way, its postgresql.auto.conf written or not.              *)
HostCrash(n) ==
    /\ Spend("crash")
    /\ up' = [up EXCEPT ![n] = FALSE]
    /\ shells' = [shells EXCEPT ![n] = [s \in Shells |-> NoShell]]
    /\ op' = [op EXCEPT ![n].pc = "idle"]
    /\ IF \E s \in Shells : shells[n][s].stage = "copy"
       THEN /\ \E s \in Shells : /\ shells[n][s].stage = "copy"
                                 /\ dir' \in {[dir EXCEPT ![n] = d] : d \in Partials(shells[n][s].target)}
            /\ Record(TRUE, "crash while copying")
       ELSE UNCHANGED <<dir, events>>
    /\ UNCHANGED <<cluster, primary, applied, prepared, acting>>

(* The host boots, or someone starts the server. *)
ServerStarts(n) ==
    /\ ~up[n] /\ Usable(n) /\ op[n].pc = "idle" /\ \A s \in Shells : ~Active(n, s)
    /\ up' = [up EXCEPT ![n] = TRUE]
    /\ UNCHANGED <<cluster, primary, applied, op, shells, dir, prepared, events, used, acting>>
-----------------------------------------------------------------------------
ShellStep(n, s) == Wipe(n, s) \/ CopyEnds(n, s) \/ CopyFails(n, s)
NodeStep(n) == \/ Stop(n) \/ CloneBegins(n) \/ Start(n) \/ StartFails(n) \/ ShellStep(n, "job")
Next == \/ ApplyPrimary
        \/ \E n \in cluster.nodes :
             \/ ApplyReplica(n) \/ NodeStep(n) \/ ShellStep(n, "orphan")
             \/ CommandFails(n) \/ CloneAbandoned(n)
             \/ Promote(n) \/ DeclarePrimary(n) \/ Touch(n) \/ HostCrash(n) \/ ServerStarts(n)

(* The user applies until the plan is empty, commands come to an end, and  *)
(* servers that are down are started again.  Orphans need never end.       *)
Fairness == /\ WF_vars(ApplyPrimary)
            /\ \A n \in Nodes : /\ WF_vars(ApplyReplica(n))
                                /\ WF_vars(NodeStep(n))
                                /\ WF_vars(ServerStarts(n))

Spec     == Init /\ [][Next]_vars
FairSpec == Spec /\ Fairness
-----------------------------------------------------------------------------
TypeOK == /\ cluster \in Clusters
          /\ primary \in cluster.nodes \ Witnesses /\ acting \in cluster.nodes
          /\ applied \in [Nodes -> Nodes \cup {None}]
          /\ op \in [Nodes -> [pc : {"idle", "stop", "clone", "cloning", "start", "register", "daemon"},
                               target : Nodes \cup {None}]]
          /\ shells \in [Nodes -> [Shells -> [stage : {"none", "wipe", "copy"},
                                              target : Nodes \cup {None}]]]
          /\ dir \in [Nodes -> [kind : {"cluster", "fresh", "empty", "partial"}, signal : BOOLEAN,
                                follow : Nodes \cup {None}, hosts : SUBSET Hosts]]
          /\ up \in [Nodes -> BOOLEAN]
          /\ prepared \in [Nodes -> BOOLEAN]
          /\ used \in [Bounded -> Nat]
          /\ \A n \in Nodes : op[n].pc = "cloning" <=> Active(n, "job")

(* Whatever fails over, crashes or is applied again, some node keeps a     *)
(* complete copy of the cluster: the wipe only ever hits nodes other than  *)
(* the declared primary, as long as no abandoned clone overlaps with a new *)
(* apply of its node or with its node becoming the primary.                *)
ClusterDataKept == "overlap" \notin events => \E n \in Nodes : dir[n].kind = "cluster"

(* "A re-apply is a no-op": the datadir of a standby of the very primary   *)
(* the command was built for is never wiped, unless clones overlap or      *)
(* repmgrd makes it one between the guard and the wipe.                    *)
StandbyNeverWiped ==
    [][\A n \in Nodes, s \in Shells :
          shells[n][s].stage = "wipe" /\ shells'[n][s].stage = "copy"
            => \/ ~IsStandbyOf(n, shells[n][s].target)
               \/ events \cap {"overlap", "repointed meanwhile"} # {}]_vars

(* The last command of a replica's apply ends it with success. *)
Succeeds(n) == op[n].pc # "idle" /\ op'[n].pc = "idle" /\ applied'[n] # applied[n]

(* A quiet bring-up - nothing promoted yet, no copy cut off by a crash, no *)
(* overlap, no foreign host line, every stop effective - reports success   *)
(* only for a running standby of the declared primary, whatever failed or  *)
(* was repeated on the way.                                                *)
QuietSuccessIsStandby ==
    [][\A n \in Nodes : Succeeds(n) /\ events = {} => IsStandbyOf(n, op[n].target)]_vars

(* The node that acts as primary is not wiped unless the user applies with *)
(* another node declared or it is promoted while an apply or an abandoned  *)
(* clone is at work on it: nothing else leads a wipe to it.                *)
WipesActing == \E s \in Shells : shells[acting][s].stage = "wipe" /\ shells'[acting][s].stage = "copy"
ActingKept ==
    [][WipesActing => events \cap {"stale declaration", "promoted meanwhile"} # {}]_vars

(* "A fresh node converges", and after one failover that the user declares *)
(* the old primary and the other standbys do: every replica ends up as a   *)
(* running standby of the new primary, whatever failed or was repeated.    *)
HealsUnless == {"overlap", "declared back", "stop ignored", "crash while copying", "foreign host line"}
FailoverHeals ==
    <>[](primary = acting /\ used["promotion"] <= 1 /\ events \cap HealsUnless = {})
      => <>[](\A n \in Replicas : up[n] /\ IsStandbyOf(n, primary))

(* streaming.go: a node that is not already a standby of this primary is   *)
(* wiped and cloned, so an apply that succeeds leaves such a standby.      *)
SuccessIsStandby == [][\A n \in Nodes : Succeeds(n) => IsStandbyOf(n, op[n].target)]_vars
=============================================================================
