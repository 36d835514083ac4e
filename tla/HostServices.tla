---------------------------- MODULE HostServices ----------------------------
(***************************************************************************)
(* postgres_package and postgres_service                                   *)
(* (src/internal/provider/package_resource.go, service_resource.go) on one *)
(* host: the apt package with its hold, and the systemd unit of the        *)
(* cluster that comes with it.                                             *)
(*                                                                         *)
(* restart_triggers stands for server settings that take a restart: the    *)
(* value `trigger` has in the configuration is what the files say, and     *)
(* running.with is what the server was last started with.  The version and *)
(* the cluster name do not change.                                         *)
(***************************************************************************)
EXTENDS Naturals

CONSTANTS Triggers,       \* values of restart_triggers
          None,           \* no resource, no value, no server running
          MaxEdits, MaxFailures, MaxOthers     \* bounds of the environment

Services == [enabled : BOOLEAN, started : BOOLEAN, trigger : Triggers \cup {None}]

ASSUME HostAssumption == /\ None \notin Triggers /\ None # "stopped" /\ "stopped" \notin Triggers
                         /\ None \notin BOOLEAN /\ None \notin Services
                         /\ MaxEdits \in Nat /\ MaxFailures \in Nat /\ MaxOthers \in Nat

VARIABLES
    pkgDeclared,    \* hold as declared
    pkgState,       \* hold as recorded, or None
    pkgOp,          \* the command of the package's apply
    pkg,            \* the package on the host; newer: apt knows a newer version
    declared,       \* the service as declared: [enabled, started, trigger]
    state,          \* the service as recorded, or None
    op,             \* where the service's run is, and whether it will restart
    unit,           \* the unit on the host: [enabled, with]
    events,         \* history: what makes host and state part unnoticed
    used

pkgVars == <<pkgDeclared, pkgState, pkgOp, pkg>>
svcVars == <<declared, state, op>>
vars    == <<pkgVars, svcVars, unit, events, used>>

Idle == [pc |-> "idle", restart |-> FALSE]
Running == unit.with # "stopped"

Limit == [edit |-> MaxEdits, failure |-> MaxFailures, others |-> MaxOthers]
Spend(what) == used[what] < Limit[what] /\ used' = [used EXCEPT ![what] = @ + 1]
Record(happened, what) == events' = IF happened THEN events \cup {what} ELSE events

Init == /\ pkgDeclared \in BOOLEAN /\ pkgState = None /\ pkgOp = "idle"
        /\ pkg = [installed |-> FALSE, held |-> FALSE, newer |-> FALSE]
        /\ declared \in {d \in Services : d.enabled /\ d.started}     \* the schema's defaults
        /\ state = None /\ op = Idle
        /\ unit = [enabled |-> FALSE, with |-> "stopped"]
        /\ events = {}
        /\ used = [w \in DOMAIN Limit |-> 0]

(* The unit is as the service declares it, and has been since; events that *)
(* part the two in a way that Read does not show.                          *)
AsDeclared == /\ unit.enabled = declared.enabled /\ Running = declared.started
              /\ Running => unit.with = declared.trigger
Unseen == {"blind", "unrecorded", "meanwhile", "created running", "imported"}

(* What Read does not look at: the package and its hold. *)
Unread == {"hold imported", "hold removed", "hold unrecorded", "unhold ignored", "package removed"}

(* A start loads the files; a running server keeps what it has. *)
Started == [unit EXCEPT !.with = IF Running THEN @ ELSE declared.trigger]
Restarted == [unit EXCEPT !.with = declared.trigger]

(* What touches the unit during a run is seen by the next Read; a start    *)
(* with other settings than the recorded triggers stand for is never seen. *)
Untold == state # None /\ unit'.with \notin {unit.with, "stopped", state.trigger}
Meanwhile == Record(unit' # unit /\ (op.pc # "idle" \/ Untold), "meanwhile")
-----------------------------------------------------------------------------
(* postgres_package.  Read refreshes a computed attribute only, so a plan  *)
(* compares the declared hold with the recorded one.                       *)
ApplyPackage ==
    /\ pkgOp = "idle" /\ pkgState # pkgDeclared
    /\ pkgOp' = "install"
    /\ UNCHANGED <<pkgDeclared, pkgState, pkg, svcVars, unit, events, used>>

(* apt-get install -y: installs and starts the cluster, or upgrades to a   *)
(* newer version, which restarts it, or refuses to change a held package.  *)
Installed == [pkg EXCEPT !.installed = TRUE, !.newer = FALSE]
Upgraded == /\ pkg' = Installed
            /\ unit' = IF Running THEN Restarted ELSE unit

Install ==
    /\ pkgOp = "install"
    /\ IF pkg.held /\ pkg.newer
       THEN pkgOp' = "idle" /\ UNCHANGED <<pkg, unit>>
       ELSE /\ pkgOp' = "mark"
            /\ IF ~pkg.installed
               THEN pkg' = Installed /\ unit' = [enabled |-> TRUE, with |-> None]
               ELSE IF pkg.newer THEN Upgraded ELSE UNCHANGED <<pkg, unit>>
    /\ Meanwhile
    /\ UNCHANGED <<pkgDeclared, pkgState, svcVars, used>>

(* apt-mark hold, or apt-mark unhold || true.  Mutant: || true for both.   *)
MarkFails_Ignored(hold) == TRUE
MarkFails(hold) == ~hold

Mark ==
    /\ pkgOp = "mark"
    /\ \/ /\ pkg' = [pkg EXCEPT !.held = pkgDeclared] /\ UNCHANGED used
          /\ events' = IF pkg.installed THEN events \ Unread ELSE events
       \/ /\ MarkFails(pkgDeclared) /\ Spend("failure") /\ UNCHANGED pkg
          /\ Record(~pkgDeclared /\ pkg.held, "unhold ignored")
    /\ pkgOp' = "idle"
    /\ pkgState' = pkgDeclared
    /\ UNCHANGED <<pkgDeclared, svcVars, unit>>

(* A command fails, or its connection is lost after it had its effect.     *)
PackageFails ==
    /\ pkgOp # "idle" /\ Spend("failure")
    /\ pkgOp' = "idle"
    /\ \/ UNCHANGED <<pkg, events>>
       \/ /\ pkgOp = "mark" /\ pkg' = [pkg EXCEPT !.held = pkgDeclared]
          /\ Record(pkg' # pkg, "hold unrecorded")
    /\ UNCHANGED <<pkgDeclared, pkgState, svcVars, unit>>

(* ImportState sets no hold, which is what a hold left out of the          *)
(* configuration is; a hold that is declared differs and is applied.       *)
ImportPackage ==
    /\ pkgOp = "idle" /\ pkgState = None /\ ~pkgDeclared /\ pkg.installed
    /\ pkgState' = FALSE
    /\ Record(pkg.held, "hold imported")
    /\ UNCHANGED <<pkgDeclared, pkgOp, pkg, svcVars, unit, used>>
-----------------------------------------------------------------------------
(* postgres_service.  Read asks systemd; a failed Read is recorded as a    *)
(* unit that is stopped and disabled.  Mutant: the state is kept.          *)
Refresh_Kept(enabled, started) ==
    op.pc = "idle" /\ op' = [op EXCEPT !.pc = "planned"] /\ UNCHANGED state
Refresh(enabled, started) ==
    /\ op.pc = "idle"
    /\ op' = [op EXCEPT !.pc = "planned"]
    /\ state' = IF state = None THEN None
                ELSE [state EXCEPT !.enabled = enabled, !.started = started]

Read == /\ Refresh(unit.enabled, Running)
        /\ events' = events \ {"blind"}
        /\ UNCHANGED <<pkgVars, declared, unit, used>>

ReadFails == /\ Spend("failure") /\ Refresh(FALSE, FALSE)
             /\ Record(TRUE, "blind")
             /\ UNCHANGED <<pkgVars, declared, unit>>

PlanNothing ==
    /\ op.pc = "planned" /\ state = declared
    /\ op' = Idle
    /\ UNCHANGED <<pkgVars, declared, state, unit, events, used>>

(* Create never restarts, Update does when the triggers differ.  Mutants:  *)
(* Update never does; it always does; Create does too.                     *)
NeedsRestart_Never == FALSE
NeedsRestart_Create == IF state = None THEN TRUE ELSE state.trigger # declared.trigger
NeedsRestart_Always == state # None
NeedsRestart == state # None /\ state.trigger # declared.trigger

Apply ==
    /\ op.pc = "planned" /\ state # declared
    /\ op' = [pc |-> "enable", restart |-> NeedsRestart]
    /\ UNCHANGED <<pkgVars, declared, state, unit, events, used>>

(* systemctl enable or disable, then stop, start or restart.  A unit of a  *)
(* package that is not installed fails.                                    *)
Enabling == unit' = [unit EXCEPT !.enabled = declared.enabled]
Acting == unit' = IF ~declared.started THEN [unit EXCEPT !.with = "stopped"]
                  ELSE IF op.restart THEN Restarted ELSE Started

Enable ==
    /\ op.pc = "enable" /\ pkg.installed
    /\ Enabling
    /\ op' = [op EXCEPT !.pc = "act"]
    /\ UNCHANGED <<pkgVars, declared, state, events, used>>

Act ==
    /\ op.pc = "act" /\ pkg.installed
    /\ UNCHANGED <<pkgVars, declared, used>>
    /\ Acting
    /\ op' = Idle
    /\ state' = declared
    /\ events' = IF AsDeclared' THEN events \ Unseen
                 ELSE events \cup {e \in {"created running"} : state = None}

NoUnit ==
    /\ op.pc \in {"enable", "act"} /\ ~pkg.installed
    /\ op' = Idle
    /\ UNCHANGED <<pkgVars, declared, state, unit, events, used>>

(* As PackageFails; a lost connection may also be tried again.             *)
ServiceFails ==
    /\ op.pc \in {"enable", "act"} /\ pkg.installed /\ Spend("failure")
    /\ \/ UNCHANGED <<unit, events>>
       \/ op.pc = "enable" /\ Enabling /\ UNCHANGED events
       \/ op.pc = "act" /\ Acting /\ Record(unit'.with # unit.with, "unrecorded")
    /\ op' \in {op, Idle}
    /\ UNCHANGED <<pkgVars, declared, state>>

(* ImportState: the id's parts; the next Read adds what systemd says.      *)
ImportState ==
    /\ op.pc = "idle" /\ state = None /\ pkg.installed
    /\ state' = [enabled |-> unit.enabled, started |-> Running, trigger |-> None]
    /\ Record(TRUE, "imported")
    /\ UNCHANGED <<pkgVars, declared, op, unit, used>>
-----------------------------------------------------------------------------
(* The user edits the configuration; a changed trigger comes with changed  *)
(* files.  Delete changes nothing on the host.                             *)
EditConfig ==
    /\ op.pc = "idle" /\ pkgOp = "idle" /\ Spend("edit")
    /\ \/ pkgDeclared' = ~pkgDeclared /\ UNCHANGED declared
       \/ declared' \in Services \ {declared} /\ UNCHANGED pkgDeclared
    /\ UNCHANGED <<pkgState, pkgOp, pkg, state, op, unit, events>>

Delete ==
    /\ op.pc = "idle" /\ pkgOp = "idle" /\ Spend("edit")
    /\ \/ pkgState # None /\ pkgState' = None /\ UNCHANGED state
       \/ state # None /\ state' = None /\ UNCHANGED pkgState
    /\ UNCHANGED <<pkgDeclared, pkgOp, pkg, declared, op, unit, events>>

(* systemctl by hand, or a reboot. *)
OthersUnit ==
    /\ pkg.installed /\ Spend("others")
    /\ unit' \in {[unit EXCEPT !.enabled = ~@], Started, [unit EXCEPT !.with = "stopped"],
                  [unit EXCEPT !.with = IF unit.enabled THEN declared.trigger ELSE "stopped"]}
    /\ Meanwhile
    /\ UNCHANGED <<pkgVars, svcVars>>

(* apt by hand or unattended: a new version comes out, it is installed     *)
(* unless the package is held, and the package or its hold is removed.     *)
OthersPackage ==
    /\ pkg.installed /\ Spend("others")
    /\ \/ ~pkg.newer /\ pkg' = [pkg EXCEPT !.newer = TRUE] /\ UNCHANGED <<unit, events>>
       \/ /\ pkg' = [installed |-> FALSE, held |-> FALSE, newer |-> FALSE]
          /\ unit' = [enabled |-> FALSE, with |-> "stopped"]
          /\ events' = events \cup {"package removed"} \cup {e \in {"meanwhile"} : op.pc # "idle"}
       \/ pkg.held /\ pkg' = [pkg EXCEPT !.held = FALSE] /\ Record(TRUE, "hold removed") /\ UNCHANGED unit
    /\ UNCHANGED <<pkgDeclared, pkgState, pkgOp, svcVars>>

UnattendedUpgrade ==
    /\ pkg.installed /\ pkg.newer /\ ~pkg.held /\ Upgraded /\ Meanwhile
    /\ UNCHANGED <<pkgDeclared, pkgState, pkgOp, svcVars, used>>

PackageRun == ApplyPackage \/ Install \/ Mark
ServiceRun == Read \/ PlanNothing \/ Apply \/ Enable \/ Act \/ NoUnit

Next == \/ PackageRun \/ PackageFails \/ ImportPackage \/ UnattendedUpgrade
        \/ ServiceRun \/ ReadFails \/ ServiceFails \/ ImportState
        \/ EditConfig \/ Delete \/ OthersUnit \/ OthersPackage

(* The user runs Terraform again and again; a run comes to its end. *)
Spec     == Init /\ [][Next]_vars
FairSpec == Spec /\ WF_vars(PackageRun) /\ WF_vars(ServiceRun)
-----------------------------------------------------------------------------
TypeOK == /\ pkgDeclared \in BOOLEAN /\ pkgState \in BOOLEAN \cup {None}
          /\ pkgOp \in {"idle", "install", "mark"}
          /\ pkg \in [installed : BOOLEAN, held : BOOLEAN, newer : BOOLEAN]
          /\ declared \in Services /\ state \in Services \cup {None}
          /\ op \in [pc : {"idle", "planned", "enable", "act"}, restart : BOOLEAN]
          /\ op.restart => state # None
          /\ unit \in [enabled : BOOLEAN, with : Triggers \cup {None, "stopped"}]

(* "apt-mark hold the package so unattended upgrades cannot bump it": once *)
(* a hold is recorded and still declared, the package is held, unless      *)
(* somebody removed it or an unhold took effect that was never recorded.   *)
HoldIsKept == pkgDeclared = TRUE /\ pkgState = TRUE => pkg.held \/ events \cap Unread # {}

(* An empty plan is true of the host: the unit is as declared, and runs    *)
(* with the settings its triggers stand for - unless the read failed, a    *)
(* restart took effect that was never recorded, somebody interfered during *)
(* the run, or the resource was created over a running server.             *)
AgreementIsTrue == [][op.pc = "planned" /\ state = declared /\ op'.pc = "idle" => AsDeclared \/ events \cap Unseen # {}]_vars

(* A running server that has the declared settings is not restarted,       *)
(* except where the provider cannot know that it has them: after an import *)
(* (no triggers are recorded), or a restart or start it did not see.       *)
NoNeedlessRestart ==
    [][op.pc = "act" /\ op.restart /\ declared.started /\ op'.pc = "idle" /\ state' = declared
          => unit.with # declared.trigger \/ events \cap Unseen # {}]_vars

(* Repeated runs end: host and state as declared, whatever failed or was   *)
(* done by hand, except for what Read does not look at (the package, its   *)
(* hold) and for a held package with a newer version, which apt refuses.   *)
Converges ==
    <>[](/\ "package removed" \notin events /\ ~(pkg.held /\ pkg.newer) /\ events \cap Unseen = {}
         => /\ pkg.installed /\ pkgState = pkgDeclared
            /\ pkg.held = pkgDeclared \/ events \cap Unread # {}
            /\ AsDeclared)
=============================================================================
