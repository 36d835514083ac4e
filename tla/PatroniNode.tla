---------------------------- MODULE PatroniNode ----------------------------
(***************************************************************************)
(* postgres_cluster and postgres_cluster_node with ha_mode "patroni"       *)
(* (src/internal/postgres/patroni.go, dispatched by mode.go): the          *)
(* configuration and the systemd drop-in are written, the packaged         *)
(* cluster's datadir is handed over to Patroni - emptied, unless Patroni   *)
(* has left patroni.dynamic.json there - and Patroni is enabled, started   *)
(* and told to reload.                                                     *)
(*                                                                         *)
(* What the nodes do from then on is Patroni's: one of them bootstraps the *)
(* cluster, the others copy it, leaders come and go through the DCS.  The  *)
(* node's role is advisory, so all nodes are alike.                        *)
(*                                                                         *)
(* Of a configuration the model keeps its revision and whether it names a  *)
(* DCS.  apt, psql ports and credentials are left out.  A file that a lost *)
(* connection leaves cut has revision 0: if it does not parse it names no  *)
(* DCS either.                                                             *)
(***************************************************************************)
EXTENDS Naturals

CONSTANTS Nodes, None,
          MaxEdits, MaxCrashes, MaxFailures    \* bounds of the environment

ASSUME PatroniAssumption == MaxEdits \in Nat /\ MaxCrashes \in Nat /\ MaxFailures \in Nat

Configs == [rev : 1 .. MaxEdits + 1, dcs : BOOLEAN]

Files   == [rev : 0 .. MaxEdits + 1, dcs : BOOLEAN]

ASSUME NoneIsNone == None \notin Nodes \cup Files

VARIABLES
    config,     \* the cluster as the user declares it: [rev, dcs]
    record,     \* postgres_cluster in the state, or None
    applied,    \* applied[n]: the configuration in the state of node n, or None
    op,         \* op[n]: the command of n's apply, and the configuration applied
    shells,     \* shells[n]: the takeover shell that is waited for, and an orphan
    unit,       \* unit[n]: the packaged postgresql@ unit
    patroni,    \* patroni[n]: the Patroni unit: its file, whether the whole drop-in is
                \* written and known to systemd, what it runs with
    dir,        \* dir[n]: the datadir, and whether it holds patroni.dynamic.json
    dcs,        \* the initialize key and the leader
    events,     \* history: what an undisturbed bring-up never meets
    used

vars == <<config, record, applied, op, shells, unit, patroni, dir, dcs, events, used>>
host == <<unit, patroni, dir, dcs>>

Shells == {"job", "orphan"}
Active(n, s) == shells[n][s] # "none"

Limit == [edit |-> MaxEdits, crash |-> MaxCrashes, failure |-> MaxFailures]
Spend(what) == used[what] < Limit[what] /\ used' = [used EXCEPT ![what] = @ + 1]
Record(happened, what) == events' = IF happened THEN events \cup {what} ELSE events

Init == /\ \E d \in BOOLEAN : config = [rev |-> 1, dcs |-> d]
        /\ record = None
        /\ applied = [n \in Nodes |-> None]
        /\ op = [n \in Nodes |-> [pc |-> "idle", conf |-> None]]
        /\ shells = [n \in Nodes |-> [s \in Shells |-> "none"]]
        /\ unit = [n \in Nodes |-> [enabled |-> TRUE, active |-> TRUE]]
        /\ patroni = [n \in Nodes |-> [file |-> None, dropin |-> FALSE, known |-> FALSE,
                                       enabled |-> FALSE, active |-> FALSE, loaded |-> None]]
        /\ dir = [n \in Nodes |-> [kind |-> "packaged", cached |-> FALSE]]
        /\ dcs = [init |-> FALSE, leader |-> None]
        /\ events = {}
        /\ used = [w \in DOMAIN Limit |-> 0]
-----------------------------------------------------------------------------
(* postgres_cluster: Create and Update validate, then set the state; there *)
(* is nothing on a host, and Read keeps the state.  Mutant: no validation. *)
Valid_Any(c) == TRUE
Valid(c) == c.dcs

ApplyCluster ==
    /\ record # config /\ Valid(config)
    /\ record' = config
    /\ UNCHANGED <<config, applied, op, shells, host, events, used>>

(* A node takes the cluster's attributes by reference: Terraform applies   *)
(* it after the cluster, and not at all when the cluster fails.            *)
ApplyNode(n) ==
    /\ record = config /\ op[n].pc = "idle" /\ applied[n] # config
    /\ op' = [op EXCEPT ![n] = [pc |-> "conf", conf |-> config]]
    /\ Record(Active(n, "orphan"), "overlap")
    /\ UNCHANGED <<config, record, applied, shells, host, used>>

(* RunCommands: the command of n at pc succeeded, the next one follows. *)
Step(n, pc, next) == op[n].pc = pc /\ op' = [op EXCEPT ![n].pc = next]

WriteConf(n) ==
    /\ Step(n, "conf", "dropin")
    /\ patroni' = [patroni EXCEPT ![n].file = op[n].conf]
    /\ UNCHANGED <<config, record, applied, shells, unit, dir, dcs, events, used>>

(* Mutant: no daemon-reload, systemd knows the packaged unit only. *)
WriteDropIn_NoReload(n) == Step(n, "dropin", "takeover") /\ patroni' = [patroni EXCEPT ![n].dropin = TRUE]
WriteDropIn(n) == Step(n, "dropin", "daemon-reload") /\ patroni' = [patroni EXCEPT ![n].dropin = TRUE]

DaemonReload(n) ==
    /\ Step(n, "daemon-reload", "takeover")
    /\ patroni' = [patroni EXCEPT ![n].known = patroni[n].dropin]

DropIn(n) == /\ WriteDropIn(n) \/ DaemonReload(n)
             /\ UNCHANGED <<config, record, applied, shells, unit, dir, dcs, events, used>>

(* patroniTakeoverCommand reaches the node and looks for the file Patroni  *)
(* writes.  Mutant: it does not look.                                      *)
TakenOver_Never(n) == FALSE
TakenOver(n) == dir[n].cached

TakeoverBegins(n) ==
    /\ Step(n, "takeover", IF TakenOver(n) THEN "enable" ELSE "taking over")
    /\ shells' = IF TakenOver(n) THEN shells ELSE [shells EXCEPT ![n]["job"] = "stop"]
    /\ events' = events
         \cup (IF Active(n, "orphan") THEN {"overlap"} ELSE {})
         \cup (IF (patroni[n].active \/ dir[n].kind = "data") /\ ~dir[n].cached
                THEN {"applied before the file"} ELSE {})
    /\ UNCHANGED <<config, record, applied, host, used>>

(* Stop and disable the packaged unit; either may fail, the shell goes on. *)
(* Mutant: it is stopped only, and comes back when the host boots.         *)
Handover_StopOnly(n) == unit' = [unit EXCEPT ![n].active = FALSE]
Handover(n) == unit' = [unit EXCEPT ![n] = [enabled |-> FALSE, active |-> FALSE]]

ShellStops(n, s) ==
    /\ shells[n][s] = "stop"
    /\ shells' = [shells EXCEPT ![n][s] = "wipe"]
    /\ \/ Handover(n) /\ UNCHANGED <<events, used>>
       \/ /\ Spend("failure") /\ Record(TRUE, "unit not stopped")
          /\ unit' \in {[unit EXCEPT ![n].enabled = FALSE], [unit EXCEPT ![n].active = FALSE]}
    /\ UNCHANGED <<config, record, applied, op, patroni, dir, dcs>>

(* A job hands its status to RunCommands.  Mutant: the status is lost. *)
ShellEnds_StatusLost(n, s) == shells' = [shells EXCEPT ![n][s] = "none"] /\ UNCHANGED op
ShellEnds(n, s) == /\ shells' = [shells EXCEPT ![n][s] = "none"]
                   /\ op' = IF s = "job" THEN [op EXCEPT ![n].pc = "enable"] ELSE op

(* install -d; find <datadir> -mindepth 1 -delete *)
ShellWipes(n, s) ==
    /\ shells[n][s] = "wipe"
    /\ dir' = [dir EXCEPT ![n] = [kind |-> "empty", cached |-> FALSE]]
    /\ ShellEnds(n, s)
    /\ UNCHANGED <<config, record, applied, unit, patroni, dcs, events, used>>

(* systemctl enable --now.  Without the drop-in systemd skips the unit,    *)
(* and without a DCS Patroni gives up: both are reported as success.       *)
Usable(file) == file \in {f \in Files : f.dcs}
Starts(n) == patroni[n].known /\ Usable(patroni[n].file)

Enable(n) ==
    /\ Step(n, "enable", "reload")
    /\ patroni' = [patroni EXCEPT ![n].enabled = TRUE,
                                  ![n].active = @ \/ Starts(n),
                                  ![n].loaded = IF ~patroni[n].active /\ Starts(n)
                                                THEN patroni[n].file ELSE @]
    /\ UNCHANGED <<config, record, applied, shells, unit, dir, dcs, events, used>>

(* patronictl reload || true, of every member; a failure is ignored, and a *)
(* file Patroni cannot use leaves it as it runs.  Mutant: no reload.       *)
Reloaded_Nothing == patroni
Reloaded == [m \in Nodes |-> IF patroni[m].active /\ Usable(patroni[m].file)
                             THEN [patroni[m] EXCEPT !.loaded = patroni[m].file] ELSE patroni[m]]

Reload(n) ==
    /\ Step(n, "reload", "idle")
    /\ applied' = [applied EXCEPT ![n] = op[n].conf]
    /\ \/ patroni' = Reloaded /\ UNCHANGED <<events, used>>
       \/ Spend("failure") /\ Record(TRUE, "reload ignored") /\ UNCHANGED patroni
    /\ UNCHANGED <<config, record, shells, unit, dir, dcs>>

(* A command fails, or its connection is lost for good, before or after it *)
(* had its effect (after: the same as before the next one), or in between: *)
(* cat has emptied the file and has written no more than a part of it.     *)
Cut(n) == \/ op[n].pc = "conf" /\ \E d \in BOOLEAN :
                patroni' = [patroni EXCEPT ![n].file = [rev |-> 0, dcs |-> d]]
          \/ op[n].pc = "dropin" /\ patroni' = [patroni EXCEPT ![n].dropin = FALSE]

CommandFails(n) ==
    /\ op[n].pc \notin {"idle", "taking over"} /\ Spend("failure")
    /\ op' = [op EXCEPT ![n].pc = "idle"]
    /\ Cut(n) \/ UNCHANGED patroni
    /\ UNCHANGED <<config, record, applied, shells, unit, dir, dcs, events>>

(* The takeover's connection is lost: its shell goes on, and the apply     *)
(* fails or Run sends the command again.                                   *)
TakeoverAbandoned(n) ==
    /\ op[n].pc = "taking over" /\ ~Active(n, "orphan") /\ Spend("failure")
    /\ shells' = [shells EXCEPT ![n] = [job |-> "none", orphan |-> shells[n]["job"]]]
    /\ \E pc \in {"idle", "takeover"} : op' = [op EXCEPT ![n].pc = pc]
    /\ UNCHANGED <<config, record, applied, host, events>>
-----------------------------------------------------------------------------
(* Patroni.  A node that runs it with an empty datadir bootstraps the      *)
(* cluster when nobody has, or copies the leader's datadir; one with data  *)
(* writes patroni.dynamic.json in its loop, and may become the leader.     *)
Serves(n) == patroni[n].active /\ dir[n].kind = "data"

Bootstrap(n) ==
    /\ patroni[n].active /\ dir[n].kind = "empty" /\ ~dcs.init
    /\ dir' = [dir EXCEPT ![n].kind = "data"]
    /\ dcs' = [init |-> TRUE, leader |-> n]

CopyLeader(n) ==
    /\ patroni[n].active /\ dir[n].kind = "empty" /\ dcs.leader \in Nodes \ {n} /\ Serves(dcs.leader)
    /\ dir' = [dir EXCEPT ![n] = dir[dcs.leader]]
    /\ UNCHANGED dcs

CacheWritten(n) ==
    /\ Serves(n) /\ ~dir[n].cached
    /\ dir' = [dir EXCEPT ![n].cached = TRUE]
    /\ UNCHANGED dcs

Elected(n) ==
    /\ Serves(n) /\ dcs.init /\ dcs.leader # n
    /\ dcs.leader = None \/ ~Serves(dcs.leader)
    /\ dcs' = [dcs EXCEPT !.leader = n]
    /\ UNCHANGED dir

PatroniStep(n) == /\ Bootstrap(n) \/ CopyLeader(n) \/ CacheWritten(n) \/ Elected(n)
                  /\ UNCHANGED <<config, record, applied, op, shells, unit, patroni, events, used>>
-----------------------------------------------------------------------------
(* The user changes the configuration. *)
EditConfig ==
    /\ Spend("edit")
    /\ \E d \in BOOLEAN : config' = [rev |-> config.rev + 1, dcs |-> d]
    /\ UNCHANGED <<record, applied, op, shells, host, events>>

(* Patroni ends by itself.  systemd does not start it again, only a reboot *)
(* or an apply does: none comes if its own is all but reported as done.    *)
PatroniDies(n) ==
    /\ patroni[n].active /\ Spend("crash")
    /\ patroni' = [patroni EXCEPT ![n].active = FALSE, ![n].loaded = None]
    /\ events' = events \cup (IF op[n].pc = "reload" THEN {"died unnoticed"} ELSE {})
                        \cup (IF op[n].pc = "idle" /\ applied[n] = config THEN {"died applied"} ELSE {})
    /\ UNCHANGED <<config, record, applied, op, shells, unit, dir, dcs>>

(* The host reboots: shells are gone, enabled units start as they are on disk. *)
Reboot(n) ==
    /\ Spend("crash")
    /\ shells' = [shells EXCEPT ![n] = [s \in Shells |-> "none"]]
    /\ op' = [op EXCEPT ![n].pc = "idle"]
    /\ unit' = [unit EXCEPT ![n].active = unit[n].enabled /\ dir[n].kind # "empty"]
    /\ LET starts == patroni[n].enabled /\ patroni[n].dropin /\ Usable(patroni[n].file) IN
       patroni' = [patroni EXCEPT ![n].known = patroni[n].dropin,
                                  ![n].active = starts,
                                  ![n].loaded = IF starts THEN patroni[n].file ELSE None]
    /\ UNCHANGED <<config, record, applied, dir, dcs, events>>

NodeStep(n) == \/ WriteConf(n) \/ DropIn(n) \/ TakeoverBegins(n) \/ Enable(n) \/ Reload(n)
               \/ ShellStops(n, "job") \/ ShellWipes(n, "job")

Next == \/ ApplyCluster \/ EditConfig
        \/ \E n \in Nodes :
             \/ ApplyNode(n) \/ NodeStep(n) \/ CommandFails(n) \/ TakeoverAbandoned(n)
             \/ ShellStops(n, "orphan") \/ ShellWipes(n, "orphan")
             \/ PatroniStep(n) \/ PatroniDies(n) \/ Reboot(n)

(* The user applies until the plan is empty, commands come to an end, and  *)
(* Patroni goes about its loop.  Orphans need never end.                   *)
Fairness == /\ WF_vars(ApplyCluster)
            /\ \A n \in Nodes : WF_vars(ApplyNode(n)) /\ WF_vars(NodeStep(n)) /\ WF_vars(PatroniStep(n))

Spec     == Init /\ [][Next]_vars
FairSpec == Spec /\ Fairness
-----------------------------------------------------------------------------
TypeOK == /\ config \in Configs /\ record \in Configs \cup {None}
          /\ applied \in [Nodes -> Configs \cup {None}]
          /\ op \in [Nodes -> [pc : {"idle", "conf", "dropin", "daemon-reload", "takeover",
                                     "taking over", "enable", "reload"},
                               conf : Configs \cup {None}]]
          /\ shells \in [Nodes -> [Shells -> {"none", "stop", "wipe"}]]
          /\ unit \in [Nodes -> [enabled : BOOLEAN, active : BOOLEAN]]
          /\ patroni \in [Nodes -> [file : Files \cup {None}, dropin : BOOLEAN, known : BOOLEAN,
                                    enabled : BOOLEAN, active : BOOLEAN, loaded : Files \cup {None}]]
          /\ dir \in [Nodes -> [kind : {"packaged", "empty", "data"}, cached : BOOLEAN]]
          /\ dcs \in [init : BOOLEAN, leader : Nodes \cup {None}]
          /\ \A n \in Nodes : op[n].pc = "taking over" <=> Active(n, "job")

Wiped(n) == \E s \in Shells : shells[n][s] = "wipe" /\ shells'[n][s] = "none" /\ dir' # dir

(* patroniTakeoverCommand: the datadir is emptied "only before Patroni has *)
(* taken over".  What Patroni keeps there is wiped only by an apply that   *)
(* found it started and patroni.dynamic.json not yet written, or by an     *)
(* abandoned takeover: never by a later apply, edit, reboot or failover.   *)
PatroniDataKept ==
    [][\A n \in Nodes : Wiped(n) /\ dir[n].kind = "data"
          => events \cap {"applied before the file", "overlap"} # {}]_vars

(* Never do the packaged unit and Patroni run a server each in one         *)
(* datadir, whatever is rebooted, repeated or abandoned on the way: "not   *)
(* systemd must own the postgres process".                                 *)
OneOwner == \A n \in Nodes : unit[n].active /\ patroni[n].active => "unit not stopped" \in events

(* A node's apply reports success only when Patroni runs, with exactly the *)
(* configuration that was declared, whatever an earlier apply left cut or  *)
(* half done; enable --now alone does not tell, nor that it did not end at *)
(* once.                                                                   *)
SuccessIsRunningConf ==
    [][\A n \in Nodes : op[n].pc = "reload" /\ op'[n].pc = "idle" /\ applied'[n] # applied[n]
          => \/ patroni'[n].active /\ patroni'[n].loaded = op[n].conf
             \/ events' \cap {"reload ignored", "died unnoticed"} # {}]_vars

(* Repeated applies bring a valid cluster up: one leader, every node holds *)
(* the data, runs Patroni and is taken over for good - after lost          *)
(* connections, failures, reboots and the end of a Patroni that a later    *)
(* command or apply starts again, unless the data was wiped.               *)
Disturbed == events \cap {"applied before the file", "overlap", "unit not stopped",
                          "died unnoticed", "died applied"} # {}
BringUpConverges ==
    <>[](config.dcs /\ ~Disturbed
           => /\ dcs.leader \in Nodes
              /\ \A n \in Nodes : Serves(n) /\ dir[n].cached /\ applied[n] = config)

(* patroni.go and DESIGN.md: "a re-apply against a live Patroni node is a  *)
(* no-op and never wipes a running cluster" - abandoned takeovers aside.   *)
LiveNodeNeverWiped ==
    [][\A n \in Nodes : Wiped(n) /\ "overlap" \notin events => ~Serves(n)]_vars
=============================================================================
