------------------------ MODULE HostServices_proofs ------------------------
(***************************************************************************)
(* Proofs about HostServices, for any restart triggers and any bounds of   *)
(* the environment.  The inductive invariant says what the recorded hold   *)
(* and the recorded triggers are worth: the package is held and the server *)
(* runs with the settings the triggers stand for, or the history tells why *)
(* not; and what was planned from a Read still is so when it is done.      *)
(***************************************************************************)
EXTENDS HostServices, TLAPS

PkgType  == [installed : BOOLEAN, held : BOOLEAN, newer : BOOLEAN]
OpType   == [pc : {"idle", "planned", "enable", "act"}, restart : BOOLEAN]
UnitType == [enabled : BOOLEAN, with : Triggers \cup {None, "stopped"}]

(* TypeOK but for the restart, which RestartInv decides. *)
Types == /\ pkgDeclared \in BOOLEAN /\ pkgState \in BOOLEAN \cup {None}
         /\ pkgOp \in {"idle", "install", "mark"} /\ pkg \in PkgType
         /\ declared \in Services /\ state \in Services \cup {None}
         /\ op \in OpType /\ unit \in UnitType

(* A recorded hold, declared or not, is in effect or the history tells.    *)
HoldInv == pkgState = TRUE => pkg.held \/ events \cap Unread # {}

(* The restart was decided from what is still declared and recorded. *)
RestartInv == IF op.pc \in {"enable", "act"} THEN op.restart <=> NeedsRestart
                                             ELSE ~op.restart

(* A running server has the settings of the recorded triggers; a failed    *)
(* Read does not matter, since the next one forgets it.                    *)
Told == Unseen \ {"blind"}
SinceInv == state # None /\ Running
              => unit.with = state.trigger \/ events \cap Told # {}

(* An empty plan is true from the Read on. *)
PlanInv == op.pc = "planned" /\ state = declared => AsDeclared \/ events \cap Unseen # {}

Inv == Types /\ HoldInv /\ RestartInv /\ SinceInv /\ PlanInv

(* The invariant implies the types. *)
LEMMA InvTypes == Inv => TypeOK
  BY DEF Inv, Types, TypeOK, RestartInv, NeedsRestart, PkgType, OpType, UnitType

(* Nothing is installed, recorded or running at first. *)
LEMMA InitInv == Init => Inv
<1> SUFFICES ASSUME Init PROVE Inv
  OBVIOUS
<1>1. Types
  BY DEF Init, Types, PkgType, OpType, UnitType, Idle, Services
<1>2. HoldInv /\ RestartInv /\ SinceInv /\ PlanInv
  BY HostAssumption DEF Init, HoldInv, RestartInv, SinceInv, PlanInv, Idle
<1> QED
  BY <1>1, <1>2 DEF Inv

-----------------------------------------------------------------------------
(* The records the steps write are what the types say. *)
LEMMA PackageTypes ==
  ASSUME Types
  PROVE  /\ Installed \in PkgType /\ (Installed.held <=> pkg.held)
         /\ \A held \in BOOLEAN : [pkg EXCEPT !.held = held] \in PkgType
         /\ [pkg EXCEPT !.newer = TRUE] \in PkgType
         /\ ([pkg EXCEPT !.newer = TRUE].held <=> pkg.held)
         /\ \A held \in BOOLEAN : [pkg EXCEPT !.held = held].held <=> held
<1>1. pkg \in PkgType
  BY DEF Types
<1> QED
  BY <1>1 DEF PkgType, Installed

(* A daemon that is started, restarted, enabled or given another           *)
(* configuration is a daemon.                                              *)
LEMMA UnitTypes ==
  ASSUME Types
  PROVE  /\ Started \in UnitType /\ Restarted \in UnitType
         /\ \A enabled \in BOOLEAN : [unit EXCEPT !.enabled = enabled] \in UnitType
         /\ \A with \in Triggers \cup {None, "stopped"} :
               [unit EXCEPT !.with = with] \in UnitType
<1>1. unit \in UnitType /\ declared.trigger \in Triggers \cup {None}
  BY DEF Types, Services
<1> QED
  BY <1>1 DEF UnitType, Started, Restarted

(* What Read, the plan and enableAndStart leave in progress is an          *)
(* operation.                                                              *)
LEMMA OpTypes ==
  ASSUME Types
  PROVE  /\ Idle \in OpType /\ [op EXCEPT !.pc = "act"] \in OpType
         /\ [pc |-> "enable", restart |-> NeedsRestart] \in OpType
<1>1. op \in OpType /\ NeedsRestart \in BOOLEAN
  BY DEF Types, NeedsRestart
<1>2. \A restart \in BOOLEAN : [pc |-> "enable", restart |-> restart] \in OpType
  BY DEF OpType
<1> QED
  BY <1>1, <1>2 DEF OpType, Idle

(* Every step keeps the types. *)
LEMMA TypesKept == Types /\ [Next]_vars => Types'
<1> SUFFICES ASSUME Types, [Next]_vars PROVE Types'
  OBVIOUS
<1> USE DEF Types
<1>1. CASE UNCHANGED vars
  BY <1>1 DEF vars, pkgVars, svcVars
<1>2. CASE ApplyPackage \/ ImportPackage
  BY <1>2 DEF ApplyPackage, ImportPackage, svcVars
<1>3. CASE Install
  <2>1. pkg' \in PkgType
    BY <1>3, PackageTypes DEF Install, Upgraded
  <2>2. unit' \in UnitType
    <3>1. [enabled |-> TRUE, with |-> None] \in UnitType
      BY DEF UnitType
    <3> QED
      BY <1>3, <3>1, UnitTypes DEF Install, Upgraded
  <2> QED
    BY <1>3, <2>1, <2>2 DEF Install, svcVars
<1>4. CASE Mark \/ PackageFails
  <2>1. pkg' \in PkgType
    BY <1>4, PackageTypes DEF Mark, PackageFails
  <2> QED
    BY <1>4, <2>1 DEF Mark, PackageFails, svcVars
<1>5. CASE UnattendedUpgrade
  <2>1. pkg' \in PkgType /\ unit' \in UnitType
    BY <1>5, PackageTypes, UnitTypes DEF UnattendedUpgrade, Upgraded
  <2> QED
    BY <1>5, <2>1 DEF UnattendedUpgrade, svcVars
<1>6. CASE Read \/ ReadFails
  <2>1. op' \in OpType
    BY <1>6 DEF Read, ReadFails, Refresh, OpType
  <2>2. ASSUME NEW e \in BOOLEAN, NEW s \in BOOLEAN, Refresh(e, s)
        PROVE  state' \in Services \cup {None}
    BY <2>2 DEF Refresh, Services
  <2>3. state' \in Services \cup {None}
    BY <1>6, <2>2 DEF Read, ReadFails, Running, UnitType
  <2> QED
    BY <1>6, <2>1, <2>3 DEF Read, ReadFails, pkgVars
<1>7. CASE PlanNothing \/ Apply \/ NoUnit
  <2>1. op' \in OpType
    BY <1>7, OpTypes DEF PlanNothing, Apply, NoUnit
  <2> QED
    BY <1>7, <2>1 DEF PlanNothing, Apply, NoUnit, pkgVars
<1>8. CASE Enable \/ Act \/ ServiceFails
  <2>1. op' \in OpType
    BY <1>8, OpTypes DEF Enable, Act, ServiceFails
  <2>2. declared.enabled \in BOOLEAN
    BY DEF Services
  <2>3. Enabling \/ Acting => unit' \in UnitType
    BY <2>2, UnitTypes DEF Enabling, Acting
  <2>4. unit' \in UnitType
    BY <1>8, <2>3 DEF Enable, Act, ServiceFails
  <2> QED
    BY <1>8, <2>1, <2>4 DEF Enable, Act, ServiceFails, pkgVars
<1>9. CASE ImportState
  <2>1. state' \in Services
    BY <1>9 DEF ImportState, Services, Running, UnitType
  <2> QED
    BY <1>9, <2>1 DEF ImportState, pkgVars
<1>10. CASE EditConfig \/ Delete
  BY <1>10 DEF EditConfig, Delete
<1>11. CASE OthersUnit
  <2>1. unit.enabled \in BOOLEAN /\ declared.trigger \in Triggers \cup {None}
    BY DEF UnitType, Services
  <2>2. [unit EXCEPT !.enabled = ~@] \in UnitType
    BY <2>1 DEF UnitType
  <2>3. unit' \in UnitType
    BY <1>11, <2>1, <2>2, UnitTypes DEF OthersUnit
  <2> QED
    BY <1>11, <2>3 DEF OthersUnit, pkgVars, svcVars
<1>12. CASE OthersPackage
  <2>1. pkg' \in PkgType
    <3>1. [installed |-> FALSE, held |-> FALSE, newer |-> FALSE] \in PkgType
      BY DEF PkgType
    <3> QED
      BY <1>12, <3>1, PackageTypes DEF OthersPackage
  <2>2. unit' \in UnitType
    <3>1. [enabled |-> FALSE, with |-> "stopped"] \in UnitType
      BY DEF UnitType
    <3> QED
      BY <1>12, <3>1 DEF OthersPackage
  <2> QED
    BY <1>12, <2>1, <2>2 DEF OthersPackage, svcVars
<1> QED
  BY <1>1, <1>2, <1>3, <1>4, <1>5, <1>6, <1>7, <1>8, <1>9, <1>10, <1>11, <1>12
     DEF Next, PackageRun, ServiceRun

(* The recorded hold: only apt-mark and other people change the hold, and  *)
(* only an apt-mark that had its effect forgets the history.               *)
LEMMA HoldKept == Types /\ HoldInv /\ [Next]_vars => HoldInv'
<1> SUFFICES ASSUME Types, HoldInv, [Next]_vars PROVE HoldInv'
  OBVIOUS
<1>1. CASE UNCHANGED <<pkgState, pkg>> /\ events \cap Unread \subseteq events'
  BY <1>1 DEF HoldInv
<1>2. CASE Install \/ UnattendedUpgrade
  <2>1. UNCHANGED pkgState /\ events \subseteq events' /\ (pkg'.held <=> pkg.held)
    BY <1>2, PackageTypes DEF Install, UnattendedUpgrade, Upgraded, Meanwhile, Record
  <2> QED
    BY <2>1 DEF HoldInv
<1>3. CASE Mark
  <2>1. pkgState' = pkgDeclared
    BY <1>3 DEF Mark
  <2>2. (pkg'.held <=> pkgDeclared) \/ pkgDeclared = FALSE
    BY <1>3, PackageTypes DEF Mark, MarkFails, Types
  <2> QED
    BY <2>1, <2>2 DEF HoldInv
<1>4. CASE PackageFails
  <2>1. UNCHANGED pkgState /\ events \subseteq events'
    BY <1>4 DEF PackageFails, Record
  <2>2. pkg' = pkg \/ "hold unrecorded" \in events'
    BY <1>4 DEF PackageFails, Record
  <2> QED
    BY <2>1, <2>2 DEF HoldInv, Unread
<1>5. CASE ImportPackage
  BY <1>5 DEF ImportPackage, HoldInv
<1>6. CASE Delete
  BY <1>6, HostAssumption DEF Delete, HoldInv
<1>7. CASE OthersPackage
  <2>1. UNCHANGED pkgState /\ events \subseteq events'
    BY <1>7 DEF OthersPackage, Record
  <2>2. (pkg'.held <=> pkg.held) \/ events' \cap Unread # {}
    BY <1>7, PackageTypes DEF OthersPackage, Record, Unread
  <2> QED
    BY <2>1, <2>2 DEF HoldInv
<1>8. CASE OthersUnit
  BY <1>8 DEF OthersUnit, Meanwhile, Record, pkgVars, HoldInv
<1>9. CASE UNCHANGED vars \/ ApplyPackage \/ EditConfig \/ ImportState \/ ServiceRun
           \/ ReadFails \/ ServiceFails
  <2>1. UNCHANGED <<pkgState, pkg>>
    BY <1>9 DEF vars, pkgVars, ApplyPackage, EditConfig, ImportState, ServiceRun, Read,
                PlanNothing, Apply, Enable, Act, NoUnit, ReadFails, ServiceFails
  <2>2. Unread \cap Unseen = {}
    BY DEF Unread, Unseen
  <2>3. events \ Unseen \subseteq events'
    BY <1>9 DEF vars, ApplyPackage, EditConfig, ImportState, ServiceRun, Read,
                PlanNothing, Apply, Enable, Act, NoUnit, ReadFails, ServiceFails, Record, Unseen
  <2> QED
    BY <1>1, <2>1, <2>2, <2>3
<1> QED
  BY <1>2, <1>3, <1>4, <1>5, <1>6, <1>7, <1>8, <1>9 DEF Next, PackageRun

(* The plan of the service holds its decision until the command is done.   *)
LEMMA RestartKept == Types /\ RestartInv /\ [Next]_vars => RestartInv'
<1> SUFFICES ASSUME Types, RestartInv, [Next]_vars PROVE RestartInv'
  OBVIOUS
<1>1. op \in OpType
  BY DEF Types
<1>2. CASE UNCHANGED svcVars
  BY <1>2 DEF RestartInv, NeedsRestart, svcVars
<1>3. CASE Read \/ ReadFails
  <2>1. op' = [op EXCEPT !.pc = "planned"] /\ op.pc = "idle"
    BY <1>3 DEF Read, ReadFails, Refresh
  <2>2. op'.pc = "planned" /\ (op'.restart <=> op.restart)
    BY <1>1, <2>1 DEF OpType
  <2> QED
    BY <2>1, <2>2 DEF RestartInv
<1>4. CASE Apply
  <2>1. op'.pc = "enable" /\ (op'.restart <=> NeedsRestart) /\ UNCHANGED <<declared, state>>
    BY <1>4 DEF Apply
  <2> QED
    BY <2>1 DEF RestartInv, NeedsRestart
<1>5. CASE PlanNothing \/ Act \/ NoUnit
  <2>1. op' = Idle
    BY <1>5 DEF PlanNothing, Act, NoUnit
  <2> QED
    BY <2>1 DEF Idle, RestartInv
<1>6. CASE Enable
  <2>1. op' = [op EXCEPT !.pc = "act"] /\ op.pc = "enable" /\ UNCHANGED <<declared, state>>
    BY <1>6 DEF Enable
  <2>2. op'.pc = "act" /\ (op'.restart <=> op.restart)
    BY <1>1, <2>1 DEF OpType
  <2> QED
    BY <2>1, <2>2 DEF RestartInv, NeedsRestart
<1>7. CASE ServiceFails
  BY <1>7 DEF ServiceFails, Idle, RestartInv, NeedsRestart
<1>8. CASE ImportState \/ EditConfig \/ Delete
  BY <1>8 DEF ImportState, EditConfig, Delete, RestartInv
<1> QED
  BY <1>2, <1>3, <1>4, <1>5, <1>6, <1>7, <1>8
     DEF Next, PackageRun, ServiceRun, vars, ApplyPackage, Install, Mark, PackageFails,
         ImportPackage, UnattendedUpgrade, OthersUnit, OthersPackage

-----------------------------------------------------------------------------
(* A step that leaves the record alone and records a start it does not     *)
(* know of keeps what a running server has.                                *)
LEMMA SinceStep ==
  ASSUME SinceInv, events \cap Told \subseteq events',
         \/ state' = None
         \/ state # None /\ state' # None /\ state'.trigger = state.trigger,
         unit'.with \in {unit.with, "stopped", state.trigger} \/ events' \cap Told # {}
  PROVE  SinceInv'
  BY DEF SinceInv, Running

(* Whoever starts the server without the provider is told of, unless it    *)
(* gets the settings it had or should have.                                *)
LEMMA MeanwhileTold ==
  ASSUME Meanwhile
  PROVE  /\ events \subseteq events'
         /\ unit' # unit /\ op.pc # "idle" => "meanwhile" \in events'
         /\ \/ state = None \/ unit'.with \in {unit.with, "stopped", state.trigger}
            \/ "meanwhile" \in events'
  BY DEF Meanwhile, Record, Untold

(* What the provider cannot be told of by a later Read. *)
LEMMA ToldEvents == /\ {"unrecorded", "meanwhile", "created running", "imported"} \subseteq Told
                    /\ Told \subseteq Unseen
  BY DEF Told, Unseen

(* The settings of a running server. *)
LEMMA SinceKept == Types /\ RestartInv /\ SinceInv /\ [Next]_vars => SinceInv'
<1> SUFFICES ASSUME Types, RestartInv, SinceInv, [Next]_vars PROVE SinceInv'
  OBVIOUS
<1>1. /\ unit \in UnitType /\ state \in Services \cup {None} /\ declared \in Services
      /\ None \notin Services /\ "stopped" \notin Triggers \cup {None}
  BY HostAssumption DEF Types
<1>2. CASE UNCHANGED vars \/ ApplyPackage \/ Mark \/ PackageFails \/ ImportPackage
           \/ PlanNothing \/ Apply \/ NoUnit \/ EditConfig
  <2>1. UNCHANGED <<state, unit>>
    BY <1>2 DEF vars, svcVars, ApplyPackage, Mark, PackageFails, ImportPackage, PlanNothing,
                Apply, NoUnit, EditConfig
  <2>2. Told \cap Unread = {}
    BY DEF Told, Unseen, Unread
  <2>3. events \ Unread \subseteq events'
    BY <1>2 DEF vars, svcVars, ApplyPackage, Mark, PackageFails, ImportPackage, PlanNothing,
                Apply, NoUnit, EditConfig, Record
  <2> QED
    BY <2>1, <2>2, <2>3, SinceStep
<1>3. CASE Install \/ UnattendedUpgrade \/ OthersUnit
  <2>1. Meanwhile /\ state' = state
    BY <1>3 DEF Install, UnattendedUpgrade, OthersUnit, svcVars
  <2>2. /\ events \subseteq events'
        /\ \/ state = None \/ unit'.with \in {unit.with, "stopped", state.trigger}
           \/ events' \cap Told # {}
    BY <2>1, MeanwhileTold, ToldEvents
  <2> QED
    BY <2>1, <2>2, SinceStep DEF SinceInv
<1>4. CASE Read \/ ReadFails
  <2>1. unit' = unit /\ events \cap Told \subseteq events'
    BY <1>4 DEF Read, ReadFails, Record, Told
  <2>2. ASSUME NEW e \in BOOLEAN, NEW s \in BOOLEAN, Refresh(e, s), state # None
        PROVE  state' \in Services /\ state'.trigger = state.trigger
    <3>1. state' = [state EXCEPT !.enabled = e, !.started = s] /\ state \in Services
      BY <1>1, <2>2 DEF Refresh
    <3> QED
      BY <3>1 DEF Services
  <2>3. \E e, s \in BOOLEAN : Refresh(e, s)
    BY <1>1, <1>4 DEF Read, ReadFails, UnitType, Running
  <2>4. state = None => state' = None
    BY <2>3 DEF Refresh
  <2>5. state' = None \/ (state # None /\ state' # None /\ state'.trigger = state.trigger)
    BY <1>1, <2>2, <2>3, <2>4
  <2> QED
    BY <2>1, <2>5, SinceStep
<1>5. CASE Enable
  <2>1. unit' = [unit EXCEPT !.enabled = declared.enabled] /\ UNCHANGED <<state, events>>
    BY <1>5 DEF Enable, Enabling
  <2>2. unit'.with = unit.with
    BY <1>1, <2>1 DEF UnitType
  <2> QED
    BY <2>1, <2>2, SinceStep
<1>6. CASE ServiceFails
  <2>1. state' = state /\ events \subseteq events'
    BY <1>6 DEF ServiceFails, Record
  <2>2. unit'.with = unit.with \/ "unrecorded" \in events'
    BY <1>1, <1>6 DEF ServiceFails, Enabling, Record, UnitType
  <2> QED
    BY <2>1, <2>2, ToldEvents, SinceStep
<1>7. CASE Act
  <2>1. /\ state' = declared /\ declared' = declared /\ Acting /\ op.pc = "act"
        /\ events' = IF AsDeclared' THEN events \ Unseen
                     ELSE events \cup {e \in {"created running"} : state = None}
    BY <1>7 DEF Act
  <2>2. CASE AsDeclared'
    BY <2>1, <2>2 DEF AsDeclared, SinceInv
  <2>3. CASE ~AsDeclared' /\ state = None
    <3>1. "created running" \in events'
      BY <2>1, <2>3
    <3> QED
      BY <3>1, ToldEvents DEF SinceInv
  <2>4. CASE ~AsDeclared' /\ state # None
    <3>1. op.restart <=> state.trigger # declared.trigger
      BY <2>1, <2>4 DEF RestartInv, NeedsRestart
    <3>2. \/ unit'.with = "stopped" \/ unit'.with = declared.trigger
          \/ Running /\ unit'.with = unit.with /\ declared.trigger = state.trigger
      BY <1>1, <2>1, <3>1 DEF Acting, Started, Restarted, UnitType
    <3> QED
      BY <2>1, <2>4, <3>2 DEF SinceInv, Running
  <2> QED
    BY <2>2, <2>3, <2>4
<1>8. CASE ImportState
  <2>1. "imported" \in events'
    BY <1>8 DEF ImportState, Record
  <2> QED
    BY <2>1, ToldEvents DEF SinceInv
<1>9. CASE Delete
  BY <1>9, SinceStep DEF Delete
<1>10. CASE OthersPackage
  <2>1. state' = state
    BY <1>10 DEF OthersPackage, svcVars
  <2>2. events \subseteq events'
    BY <1>10 DEF OthersPackage, Record
  <2>3. unit' = unit \/ unit' = [enabled |-> FALSE, with |-> "stopped"]
    BY <1>10 DEF OthersPackage
  <2>4. unit'.with \in {unit.with, "stopped"}
    BY <2>3
  <2> QED
    BY <2>1, <2>2, <2>4, SinceStep
<1> QED
  BY <1>2, <1>3, <1>4, <1>5, <1>6, <1>7, <1>8, <1>9, <1>10 DEF Next, PackageRun, ServiceRun

(* What a Read shows stays true until the plan is done. *)
LEMMA PlanKept == Types /\ SinceInv /\ PlanInv /\ [Next]_vars => PlanInv'
<1> SUFFICES ASSUME Types, SinceInv, PlanInv, [Next]_vars PROVE PlanInv'
  OBVIOUS
<1>1. /\ unit \in UnitType /\ state \in Services \cup {None} /\ declared \in Services
      /\ None \notin Services
  BY HostAssumption DEF Types
<1>2. CASE Read
  <2>1. /\ UNCHANGED <<unit, declared>> /\ events' = events \ {"blind"}
        /\ Refresh(unit.enabled, Running)
    BY <1>2 DEF Read
  <2>2. ASSUME state' = declared PROVE AsDeclared' \/ events' \cap Unseen # {}
    <3>1. /\ state \in Services
          /\ state' = [state EXCEPT !.enabled = unit.enabled, !.started = Running]
      BY <1>1, <2>1, <2>2 DEF Refresh
    <3>2. /\ state'.enabled = unit.enabled /\ state'.started = Running
          /\ state'.trigger = state.trigger
      BY <3>1 DEF Services
    <3>3. Running => unit.with = state.trigger \/ events' \cap Unseen # {}
      BY <1>1, <2>1, <3>1 DEF SinceInv, Told
    <3> QED
      BY <2>1, <2>2, <3>2, <3>3 DEF AsDeclared, Running
  <2> QED
    BY <2>1, <2>2 DEF PlanInv
<1>3. CASE ReadFails
  BY <1>3 DEF ReadFails, Record, PlanInv, Unseen
<1>4. CASE \/ PlanNothing \/ Apply \/ Enable \/ Act \/ NoUnit \/ ServiceFails
           \/ ImportState \/ EditConfig \/ Delete
  <2>1. op'.pc # "planned"
    <3>1. CASE Enable
      BY <3>1 DEF Enable, Types, OpType
    <3>2. CASE PlanNothing \/ Act \/ NoUnit
      <4>1. op' = Idle
        BY <3>2 DEF PlanNothing, Act, NoUnit
      <4> QED
        BY <4>1 DEF Idle
    <3>3. CASE Apply
      BY <3>3 DEF Apply
    <3>4. CASE ServiceFails
      BY <3>4 DEF ServiceFails, Idle
    <3>5. CASE ImportState \/ EditConfig \/ Delete
      BY <3>5 DEF ImportState, EditConfig, Delete
    <3> QED
      BY <1>4, <3>1, <3>2, <3>3, <3>4, <3>5
  <2> QED
    BY <2>1 DEF PlanInv
<1>5. CASE UNCHANGED vars \/ ApplyPackage \/ Mark \/ PackageFails \/ ImportPackage
  <2>1. UNCHANGED <<op, state, declared, unit>>
    BY <1>5 DEF vars, svcVars, ApplyPackage, Mark, PackageFails, ImportPackage
  <2>2. Unseen \cap Unread = {}
    BY DEF Unseen, Unread
  <2>3. events \ Unread \subseteq events'
    BY <1>5 DEF vars, ApplyPackage, Mark, PackageFails, ImportPackage, Record
  <2> QED
    BY <2>1, <2>2, <2>3 DEF PlanInv, AsDeclared, Running
<1>6. CASE Install \/ UnattendedUpgrade \/ OthersUnit \/ OthersPackage
  <2>1. UNCHANGED <<op, state, declared>>
    BY <1>6 DEF Install, UnattendedUpgrade, OthersUnit, OthersPackage, svcVars
  <2>2. /\ events \subseteq events'
        /\ op.pc = "planned" => unit' = unit \/ "meanwhile" \in events'
    <3>1. CASE Install \/ UnattendedUpgrade \/ OthersUnit
      BY <3>1, MeanwhileTold DEF Install, UnattendedUpgrade, OthersUnit
    <3>2. CASE OthersPackage
      BY <3>2 DEF OthersPackage, Record
    <3> QED
      BY <1>6, <3>1, <3>2
  <2> QED
    BY <2>1, <2>2 DEF PlanInv, AsDeclared, Running, Unseen
<1> QED
  BY <1>2, <1>3, <1>4, <1>5, <1>6 DEF Next, PackageRun, ServiceRun

-----------------------------------------------------------------------------
(* The invariant holds in every state. *)
LEMMA Invariant == Spec => []Inv
<1>1. Init => Inv
  BY InitInv
<1>2. Inv /\ [Next]_vars => Inv'
  BY TypesKept, HoldKept, RestartKept, SinceKept, PlanKept DEF Inv
<1> QED
  BY <1>1, <1>2, PTL DEF Spec

(* The state of the two resources and of the host has its types. *)
THEOREM HostTypes == Spec => []TypeOK
<1>1. Inv => TypeOK
  BY InvTypes
<1> QED
  BY <1>1, Invariant, PTL

(* A recorded hold that is still declared holds the package, unless        *)
(* somebody removed it or an unhold took effect that was never recorded.   *)
THEOREM HostHoldIsKept == Spec => []HoldIsKept
<1>1. Inv => HoldIsKept
  BY DEF Inv, HoldInv, HoldIsKept
<1> QED
  BY <1>1, Invariant, PTL

(* An empty plan of the service is true of the host, unless the history    *)
(* tells why it need not be.                                               *)
THEOREM HostAgreementIsTrue == Spec => AgreementIsTrue
<1>1. Inv /\ [Next]_vars =>
        [op.pc = "planned" /\ state = declared /\ op'.pc = "idle"
           => AsDeclared \/ events \cap Unseen # {}]_vars
  BY DEF Inv, PlanInv
<1> QED
  BY <1>1, Invariant, PTL DEF Spec, AgreementIsTrue

(* A restart is for settings the server does not have, as far as the       *)
(* provider can know.                                                      *)
THEOREM HostNoNeedlessRestart == Spec => NoNeedlessRestart
<1>1. Inv /\ [Next]_vars =>
        [op.pc = "act" /\ op.restart /\ declared.started /\ op'.pc = "idle" /\ state' = declared
           => unit.with # declared.trigger \/ events \cap Unseen # {}]_vars
  <2>1. ASSUME Inv, op.pc = "act", op.restart
        PROVE  unit.with # declared.trigger \/ events \cap Unseen # {}
    <3>1. state # None /\ state.trigger # declared.trigger
      BY <2>1 DEF Inv, RestartInv, NeedsRestart
    <3>2. Running => unit.with = state.trigger \/ events \cap Unseen # {}
      BY <2>1, <3>1 DEF Inv, SinceInv, Told
    <3>3. declared.trigger # "stopped"
      BY <2>1, HostAssumption DEF Inv, Types, Services
    <3> QED
      BY <3>1, <3>2, <3>3 DEF Running
  <2> QED
    BY <2>1
<1> QED
  BY <1>1, Invariant, PTL DEF Spec, NoNeedlessRestart
=============================================================================
