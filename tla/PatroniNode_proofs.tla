------------------------- MODULE PatroniNode_proofs -------------------------
(***************************************************************************)
(* Proofs about PatroniNode, for any number of nodes and any bounds of the *)
(* environment.  One inductive invariant carries all of them: what the     *)
(* place in the command list says about the files on the node and the      *)
(* running Patroni, who was handed the datadir, and what a takeover shell  *)
(* may still empty.                                                        *)
(***************************************************************************)
EXTENDS PatroniNode, TLAPS

(* The types, with the counter that bounds the revisions. *)
TypeInv == /\ TypeOK
           /\ used \in [{"edit", "crash", "failure"} -> Nat]
           /\ config.rev = used["edit"] + 1 /\ used["edit"] <= MaxEdits
           /\ record # None => record.dcs

(* What the place in the list of n, and Patroni's running, rest on. *)
ListInv(n) ==
    /\ op[n].pc # "idle" => op[n].conf \in Configs /\ op[n].conf.dcs
    /\ op[n].pc \notin {"idle", "conf"} => patroni[n].file = op[n].conf
    /\ op[n].pc = "daemon-reload" => patroni[n].dropin
    /\ op[n].pc \in {"takeover", "taking over", "enable", "reload"} => patroni[n].known
    /\ op[n].pc = "reload" => patroni[n].active \/ "died unnoticed" \in events
    /\ patroni[n].active => patroni[n].enabled

(* The packaged unit is off for good once the datadir may be Patroni's. *)
Patronis(n) == \/ patroni[n].enabled \/ dir[n].cached
               \/ op[n].pc \in {"enable", "reload"}
               \/ \E s \in Shells : shells[n][s] = "wipe"
OwnerInv(n) == "unit not stopped" \notin events /\ Patronis(n)
                 => ~unit[n].enabled /\ ~unit[n].active

(* A takeover shell is alone with an idle datadir, or the history tells.   *)
ShellInv(n) ==
    "overlap" \notin events =>
      /\ Active(n, "orphan") => op[n].pc \in {"idle", "takeover"}
      /\ (\E s \in Shells : Active(n, s)) /\ "applied before the file" \notin events
           => ~patroni[n].active /\ dir[n].kind # "data"

Inv == \A n \in Nodes : ListInv(n) /\ OwnerInv(n) /\ ShellInv(n)

Places == {"idle", "conf", "dropin", "daemon-reload", "takeover", "taking over", "enable",
           "reload"}
OpType == [pc : Places, conf : Configs \cup {None}]
PatroniType == [file : Files \cup {None}, dropin : BOOLEAN, known : BOOLEAN,
                enabled : BOOLEAN, active : BOOLEAN, loaded : Files \cup {None}]

(* What is declared can be a file on a node. *)
LEMMA ConfigFiles == Configs \subseteq Files /\ None \notin Configs
  BY PatroniAssumption, NoneIsNone DEF Configs, Files

(* TypeOK and the counters in the parts that the steps below are about. *)
Globals == /\ config \in Configs /\ record \in Configs \cup {None}
           /\ record # None => record.dcs
           /\ config.rev = used["edit"] + 1 /\ used["edit"] <= MaxEdits
           /\ used \in [{"edit", "crash", "failure"} -> Nat]
Lists   == /\ applied \in [Nodes -> Configs \cup {None}]
           /\ op \in [Nodes -> OpType]
           /\ shells \in [Nodes -> [Shells -> {"none", "stop", "wipe"}]]
           /\ \A n \in Nodes : op[n].pc = "taking over" <=> Active(n, "job")
OnHosts == /\ unit \in [Nodes -> [enabled : BOOLEAN, active : BOOLEAN]]
           /\ patroni \in [Nodes -> PatroniType]
           /\ dir \in [Nodes -> [kind : {"packaged", "empty", "data"}, cached : BOOLEAN]]
           /\ dcs \in [init : BOOLEAN, leader : Nodes \cup {None}]

(* TypeInv, cut into the parts a step is about. *)
LEMMA Parts == TypeInv <=> Globals /\ Lists /\ OnHosts
  BY DEF TypeInv, TypeOK, Globals, Lists, OnHosts, OpType, PatroniType, Places

(* The same of the next state, where the prover has to be told. *)
LEMMA PartsNext == TypeInv' <=> Globals' /\ Lists' /\ OnHosts'
  BY DEF TypeInv, TypeOK, Globals, Lists, OnHosts, OpType, PatroniType, Places

(* The initial states have the types. *)
LEMMA TypeInit == Init => TypeInv
<1> SUFFICES ASSUME Init PROVE TypeInv
  OBVIOUS
<1> USE PatroniAssumption, NoneIsNone
<1>1. Globals
  <2>1. used = [w \in {"edit", "crash", "failure"} |-> 0]
    BY DEF Init, Limit
  <2> QED
    BY <2>1 DEF Init, Globals, Configs
<1>2. Lists
  BY DEF Init, Lists, OpType, Places, Active, Shells
<1>3. OnHosts
  BY DEF Init, OnHosts, PatroniType
<1> QED
  BY <1>1, <1>2, <1>3, Parts

(* An edit apart, a step leaves the globals or spends a bounded event. *)
LEMMA SpendTypes ==
  ASSUME Globals, UNCHANGED <<config, record>>,
         \/ UNCHANGED used
         \/ \E what \in {"crash", "failure"} : Spend(what)
  PROVE  Globals'
  BY DEF Globals, Spend, Limit

ShellsType == [Shells -> {"none", "stop", "wipe"}]
UnitType == [enabled : BOOLEAN, active : BOOLEAN]
DirType == [kind : {"packaged", "empty", "data"}, cached : BOOLEAN]

(* The step writes o, s, u, p and d at node n, and nothing at the others. *)
At(n, o, s, u, p, d) ==
    /\ op' = [op EXCEPT ![n] = o] /\ shells' = [shells EXCEPT ![n] = s]
    /\ unit' = [unit EXCEPT ![n] = u] /\ patroni' = [patroni EXCEPT ![n] = p]
    /\ dir' = [dir EXCEPT ![n] = d]
Becomes(n, o, s, u, p, d) ==
    op'[n] = o /\ shells'[n] = s /\ unit'[n] = u /\ patroni'[n] = p /\ dir'[n] = d
OthersKeep(n) ==
    \A m \in Nodes \ {n} : /\ op'[m] = op[m] /\ shells'[m] = shells[m] /\ unit'[m] = unit[m]
                           /\ patroni'[m] = patroni[m] /\ dir'[m] = dir[m]

(* What is left alone is written back. *)
LEMMA Kept ==
  ASSUME Lists, OnHosts, NEW n \in Nodes
  PROVE  /\ op = [op EXCEPT ![n] = op[n]] /\ shells = [shells EXCEPT ![n] = shells[n]]
         /\ unit = [unit EXCEPT ![n] = unit[n]] /\ patroni = [patroni EXCEPT ![n] = patroni[n]]
         /\ dir = [dir EXCEPT ![n] = dir[n]]
         /\ op[n] \in OpType /\ shells[n] \in ShellsType /\ unit[n] \in UnitType
         /\ patroni[n] \in PatroniType /\ dir[n] \in DirType
         /\ op[n].pc = "taking over" <=> shells[n]["job"] # "none"
  BY DEF Lists, OnHosts, ShellsType, UnitType, DirType, Active

(* A step that writes typed values at one node keeps the types. *)
LEMMA AtTypes ==
  ASSUME Lists, OnHosts, NEW n \in Nodes,
         NEW o \in OpType, NEW s \in ShellsType, NEW u \in UnitType,
         NEW p \in PatroniType, NEW d \in DirType,
         o.pc = "taking over" <=> s["job"] # "none",
         At(n, o, s, u, p, d),
         applied' \in [Nodes -> Configs \cup {None}],
         dcs' \in [init : BOOLEAN, leader : Nodes \cup {None}]
  PROVE  Lists' /\ OnHosts' /\ Becomes(n, o, s, u, p, d) /\ OthersKeep(n)
<1>1. Becomes(n, o, s, u, p, d) /\ OthersKeep(n)
  BY DEF At, Becomes, OthersKeep, Lists, OnHosts
<1>2. op' \in [Nodes -> OpType] /\ shells' \in [Nodes -> ShellsType]
  BY DEF At, Lists, ShellsType
<1>3. ASSUME NEW m \in Nodes PROVE op'[m].pc = "taking over" <=> shells'[m]["job"] # "none"
  <2>1. op[m].pc = "taking over" <=> shells[m]["job"] # "none"
    BY DEF Lists, Active
  <2>2. CASE m = n
    BY <1>1, <2>2 DEF Becomes
  <2>3. CASE m # n
    BY <1>1, <2>1, <2>3 DEF OthersKeep
  <2> QED
    BY <2>2, <2>3
<1>4. unit' \in [Nodes -> UnitType] /\ patroni' \in [Nodes -> PatroniType]
      /\ dir' \in [Nodes -> DirType]
  BY DEF At, OnHosts, UnitType, DirType
<1> QED
  BY <1>1, <1>2, <1>3, <1>4 DEF Lists, OnHosts, Active, ShellsType, UnitType, DirType

(* The invariant is one of each node: what a step leaves alone keeps it. *)
LEMMA InvOthers ==
  ASSUME Inv, NEW n \in Nodes, OthersKeep(n), events \subseteq events',
         (ListInv(n) /\ OwnerInv(n) /\ ShellInv(n))'
  PROVE  Inv'
<1> SUFFICES ASSUME NEW m \in Nodes \ {n} PROVE (ListInv(m) /\ OwnerInv(m) /\ ShellInv(m))'
  BY DEF Inv
<1>1. ListInv(m) /\ OwnerInv(m) /\ ShellInv(m)
  BY DEF Inv
<1>2. ListInv(m)'
  BY <1>1 DEF ListInv, OthersKeep
<1>3. OwnerInv(m)'
  BY <1>1 DEF OwnerInv, Patronis, OthersKeep
<1>4. ShellInv(m)'
  BY <1>1 DEF ShellInv, Active, OthersKeep
<1> QED
  BY <1>2, <1>3, <1>4
(* Step(n, pc, next), and how records change. *)
LEMMA OpStep ==
  ASSUME Lists, NEW n \in Nodes, NEW pc, NEW next, Step(n, pc, next)
  PROVE  op[n].pc = pc /\ op' = [op EXCEPT ![n] = [pc |-> next, conf |-> op[n].conf]]
<1>1. op[n] \in OpType
  BY DEF Lists
<1>2. [op[n] EXCEPT !.pc = next] = [pc |-> next, conf |-> op[n].conf]
  BY <1>1 DEF OpType
<1>3. op' = [op EXCEPT ![n] = [op[n] EXCEPT !.pc = next]]
  BY DEF Step, Lists
<1> QED
  BY <1>2, <1>3 DEF Step

(* The same for a step that sets the place without looking at it. *)
LEMMA OpSet ==
  ASSUME Lists, NEW n \in Nodes, NEW pc, op' = [op EXCEPT ![n].pc = pc]
  PROVE  op' = [op EXCEPT ![n] = [pc |-> pc, conf |-> op[n].conf]]
<1>1. op[n] \in OpType
  BY DEF Lists
<1>2. [op[n] EXCEPT !.pc = pc] = [pc |-> pc, conf |-> op[n].conf]
  BY <1>1 DEF OpType
<1>3. op' = [op EXCEPT ![n] = [op[n] EXCEPT !.pc = pc]]
  BY DEF Lists
<1> QED
  BY <1>2, <1>3

(* The takeover shells of a node, written as a record. *)
LEMMA TwoShells ==
  ASSUME NEW x, NEW y
  PROVE  [job |-> x, orphan |-> y] = [k \in Shells |-> IF k = "job" THEN x ELSE y]
  BY DEF Shells

-----------------------------------------------------------------------------
(* One lemma per action of a node: its values have their types and keep    *)
(* the invariant of the node; the others keep theirs by InvOthers.         *)

(* An apply of node n begins, of a validated configuration. *)
LEMMA ApplyNodeStep ==
  ASSUME TypeInv, Inv, NEW n \in Nodes, ApplyNode(n)
  PROVE  TypeInv' /\ Inv'
<1> DEFINE o == [pc |-> "conf", conf |-> config]
<1>1. Globals /\ Lists /\ OnHosts /\ ListInv(n) /\ OwnerInv(n) /\ ShellInv(n)
  BY Parts DEF Inv
<1>2. /\ op[n] \in OpType /\ shells[n] \in ShellsType /\ unit[n] \in UnitType
      /\ patroni[n] \in PatroniType /\ dir[n] \in DirType
  BY <1>1, Kept
<1>3. op[n].pc = "idle" /\ config \in Configs /\ config.dcs
  BY <1>1, <1>2, ConfigFiles DEF ApplyNode, Globals
<1>4. o \in OpType
  BY <1>1, <1>2, <1>3, PatroniAssumption DEF ListInv, OpType, Places, PatroniType
<1>5. At(n, o, shells[n], unit[n], patroni[n], dir[n])
  <2>1. op' = [op EXCEPT ![n] = o]
    BY DEF ApplyNode
  <2>2. UNCHANGED <<shells, unit, patroni, dir>>
    BY DEF host, ApplyNode
  <2> HIDE DEF o
  <2> QED
    BY <1>1, <2>1, <2>2, Kept DEF At
<1>6. Globals'
  BY <1>1, SpendTypes DEF host, ApplyNode
<1>7. /\ Lists' /\ OnHosts'
      /\ Becomes(n, o, shells[n], unit[n], patroni[n], dir[n]) /\ OthersKeep(n)
  <2>1. /\ applied' \in [Nodes -> Configs \cup {None}]
        /\ dcs' \in [init : BOOLEAN, leader : Nodes \cup {None}]
    BY <1>1 DEF Lists, OnHosts, host, ApplyNode
  <2>2. op[n].pc = "taking over" <=> shells[n]["job"] # "none"
    BY <1>1 DEF Lists, Active
  <2>3. o.pc = "taking over" <=> shells[n]["job"] # "none"
    BY <1>3, <2>2 DEF Shells
  <2> HIDE DEF o
  <2> QED
    BY <1>1, <1>2, <1>4, <1>5, <2>1, <2>3, AtTypes
<1>8. /\ events \subseteq events'
      /\ Active(n, "orphan") => "overlap" \in events'
  BY <1>3 DEF Record, ApplyNode
<1>9. /\ op'[n].pc = "conf" /\ op'[n].conf = config /\ shells'[n] = shells[n]
      /\ unit'[n] = unit[n] /\ patroni'[n] = patroni[n] /\ dir'[n] = dir[n]
  BY <1>7 DEF Becomes
<1> HIDE DEF o
<1>10. ListInv(n)'
  BY <1>1, <1>2, <1>3, <1>8, <1>9 DEF ListInv
<1>11. OwnerInv(n)'
  BY <1>1, <1>2, <1>3, <1>8, <1>9 DEF OwnerInv, Patronis, ListInv, Shells
<1>12. ShellInv(n)'
  BY <1>1, <1>2, <1>3, <1>8, <1>9 DEF ShellInv, Active, ListInv, Shells
<1> QED
  BY <1>1, <1>6, <1>7, <1>8, <1>10, <1>11, <1>12, PartsNext, InvOthers

(* The configuration is written. *)
LEMMA WriteConfStep ==
  ASSUME TypeInv, Inv, NEW n \in Nodes, WriteConf(n)
  PROVE  TypeInv' /\ Inv'
<1> DEFINE o == [pc |-> "dropin", conf |-> op[n].conf]
           p == [file |-> op[n].conf, dropin |-> patroni[n].dropin, known |-> patroni[n].known,
                 enabled |-> patroni[n].enabled, active |-> patroni[n].active,
                 loaded |-> patroni[n].loaded]
<1>1. Globals /\ Lists /\ OnHosts /\ ListInv(n) /\ OwnerInv(n) /\ ShellInv(n)
  BY Parts DEF Inv
<1>2. /\ op[n] \in OpType /\ shells[n] \in ShellsType /\ unit[n] \in UnitType
      /\ patroni[n] \in PatroniType /\ dir[n] \in DirType
  BY <1>1, Kept
<1>3. op[n].pc = "conf" /\ op' = [op EXCEPT ![n] = o]
  BY <1>1, <1>2, OpStep DEF WriteConf
<1>4. o \in OpType /\ p \in PatroniType
  BY <1>1, <1>2, <1>3, ConfigFiles DEF ListInv, OpType, Places, PatroniType
<1>5. At(n, o, shells[n], unit[n], p, dir[n])
  <2>1. op' = [op EXCEPT ![n] = o]
    BY <1>3
  <2>2. patroni' = [patroni EXCEPT ![n] = p]
    <3>1. patroni' = [patroni EXCEPT ![n] = [patroni[n] EXCEPT !.file = op[n].conf]]
      BY <1>1, <1>3 DEF WriteConf, Lists, OnHosts
    <3>2. [patroni[n] EXCEPT !.file = op[n].conf] = p
      BY <1>2, <1>3 DEF PatroniType
    <3> QED
      BY <3>1, <3>2
  <2>3. UNCHANGED <<shells, unit, dir>>
    BY DEF host, WriteConf
  <2> HIDE DEF o, p
  <2> QED
    BY <1>1, <2>1, <2>2, <2>3, Kept DEF At
<1>6. Globals'
  BY <1>1, SpendTypes DEF host, WriteConf
<1>7. /\ Lists' /\ OnHosts'
      /\ Becomes(n, o, shells[n], unit[n], p, dir[n]) /\ OthersKeep(n)
  <2>1. /\ applied' \in [Nodes -> Configs \cup {None}]
        /\ dcs' \in [init : BOOLEAN, leader : Nodes \cup {None}]
    BY <1>1 DEF Lists, OnHosts, host, WriteConf
  <2>2. op[n].pc = "taking over" <=> shells[n]["job"] # "none"
    BY <1>1 DEF Lists, Active
  <2>3. o.pc = "taking over" <=> shells[n]["job"] # "none"
    BY <1>3, <2>2 DEF Shells
  <2> HIDE DEF o, p
  <2> QED
    BY <1>1, <1>2, <1>4, <1>5, <2>1, <2>3, AtTypes
<1>8. events' = events
  BY <1>3 DEF Record, WriteConf
<1>9. /\ op'[n].pc = "dropin" /\ op'[n].conf = op[n].conf /\ shells'[n] = shells[n]
      /\ unit'[n] = unit[n] /\ patroni'[n].file = op[n].conf
      /\ patroni'[n].dropin = patroni[n].dropin /\ patroni'[n].known = patroni[n].known
      /\ patroni'[n].enabled = patroni[n].enabled
      /\ patroni'[n].active = patroni[n].active /\ dir'[n] = dir[n]
  BY <1>7 DEF Becomes
<1> HIDE DEF o, p
<1>10. ListInv(n)'
  BY <1>1, <1>2, <1>3, <1>8, <1>9 DEF ListInv
<1>11. OwnerInv(n)'
  BY <1>1, <1>2, <1>3, <1>8, <1>9 DEF OwnerInv, Patronis, ListInv, Shells
<1>12. ShellInv(n)'
  BY <1>1, <1>2, <1>3, <1>8, <1>9 DEF ShellInv, Active, ListInv, Shells
<1> QED
  BY <1>1, <1>6, <1>7, <1>8, <1>10, <1>11, <1>12, PartsNext, InvOthers

(* The drop-in is written. *)
LEMMA WriteDropInStep ==
  ASSUME TypeInv, Inv, NEW n \in Nodes, WriteDropIn(n), DropIn(n)
  PROVE  TypeInv' /\ Inv'
<1> DEFINE o == [pc |-> "daemon-reload", conf |-> op[n].conf]
           p == [patroni[n] EXCEPT !.dropin = TRUE]
<1>1. Globals /\ Lists /\ OnHosts /\ ListInv(n) /\ OwnerInv(n) /\ ShellInv(n)
  BY Parts DEF Inv
<1>2. /\ op[n] \in OpType /\ shells[n] \in ShellsType /\ unit[n] \in UnitType
      /\ patroni[n] \in PatroniType /\ dir[n] \in DirType
  BY <1>1, Kept
<1>3. op[n].pc = "dropin" /\ op' = [op EXCEPT ![n] = o]
  BY <1>1, <1>2, OpStep DEF WriteDropIn, DropIn
<1>4. o \in OpType /\ p \in PatroniType
  BY <1>1, <1>2, <1>3, PatroniAssumption DEF ListInv, OpType, Places, PatroniType
<1>5. At(n, o, shells[n], unit[n], p, dir[n])
  <2>1. op' = [op EXCEPT ![n] = o]
    BY <1>3
  <2>2. patroni' = [patroni EXCEPT ![n] = p]
    BY <1>1, <1>3 DEF WriteDropIn, DropIn, OnHosts
  <2>3. UNCHANGED <<shells, unit, dir>>
    BY DEF host, WriteDropIn, DropIn
  <2> HIDE DEF o, p
  <2> QED
    BY <1>1, <2>1, <2>2, <2>3, Kept DEF At
<1>6. Globals'
  BY <1>1, SpendTypes DEF host, WriteDropIn, DropIn
<1>7. /\ Lists' /\ OnHosts'
      /\ Becomes(n, o, shells[n], unit[n], p, dir[n]) /\ OthersKeep(n)
  <2>1. /\ applied' \in [Nodes -> Configs \cup {None}]
        /\ dcs' \in [init : BOOLEAN, leader : Nodes \cup {None}]
    BY <1>1 DEF Lists, OnHosts, host, WriteDropIn, DropIn
  <2>2. op[n].pc = "taking over" <=> shells[n]["job"] # "none"
    BY <1>1 DEF Lists, Active
  <2>3. o.pc = "taking over" <=> shells[n]["job"] # "none"
    BY <1>3, <2>2 DEF Shells
  <2> HIDE DEF o, p
  <2> QED
    BY <1>1, <1>2, <1>4, <1>5, <2>1, <2>3, AtTypes
<1>8. events' = events
  BY <1>3 DEF Record, WriteDropIn, DropIn
<1>9. /\ op'[n].pc = "daemon-reload" /\ op'[n].conf = op[n].conf
      /\ shells'[n] = shells[n] /\ unit'[n] = unit[n]
      /\ patroni'[n].file = patroni[n].file
      /\ patroni'[n].dropin = TRUE /\ patroni'[n].known = patroni[n].known
      /\ patroni'[n].enabled = patroni[n].enabled
      /\ patroni'[n].active = patroni[n].active /\ dir'[n] = dir[n]
  BY <1>7, <1>2 DEF Becomes, PatroniType
<1> HIDE DEF o, p
<1>10. ListInv(n)'
  BY <1>1, <1>2, <1>3, <1>8, <1>9 DEF ListInv
<1>11. OwnerInv(n)'
  BY <1>1, <1>2, <1>3, <1>8, <1>9 DEF OwnerInv, Patronis, ListInv, Shells
<1>12. ShellInv(n)'
  BY <1>1, <1>2, <1>3, <1>8, <1>9 DEF ShellInv, Active, ListInv, Shells
<1> QED
  BY <1>1, <1>6, <1>7, <1>8, <1>10, <1>11, <1>12, PartsNext, InvOthers

(* systemd loads the drop-in. *)
LEMMA DaemonReloadStep ==
  ASSUME TypeInv, Inv, NEW n \in Nodes, DaemonReload(n), DropIn(n)
  PROVE  TypeInv' /\ Inv'
<1> DEFINE o == [pc |-> "takeover", conf |-> op[n].conf]
           p == [file |-> patroni[n].file, dropin |-> patroni[n].dropin,
                 known |-> patroni[n].dropin,
                 enabled |-> patroni[n].enabled, active |-> patroni[n].active,
                 loaded |-> patroni[n].loaded]
<1>1. Globals /\ Lists /\ OnHosts /\ ListInv(n) /\ OwnerInv(n) /\ ShellInv(n)
  BY Parts DEF Inv
<1>2. /\ op[n] \in OpType /\ shells[n] \in ShellsType /\ unit[n] \in UnitType
      /\ patroni[n] \in PatroniType /\ dir[n] \in DirType
  BY <1>1, Kept
<1>3. op[n].pc = "daemon-reload" /\ op' = [op EXCEPT ![n] = o]
  BY <1>1, <1>2, OpStep DEF DaemonReload, DropIn
<1>4. o \in OpType /\ p \in PatroniType
  BY <1>1, <1>2, <1>3, PatroniAssumption DEF ListInv, OpType, Places, PatroniType
<1>5. At(n, o, shells[n], unit[n], p, dir[n])
  <2>1. op' = [op EXCEPT ![n] = o]
    BY <1>3
  <2>2. patroni' = [patroni EXCEPT ![n] = p]
    <3>1. patroni' = [patroni EXCEPT ![n] = [patroni[n] EXCEPT !.known = patroni[n].dropin]]
      BY <1>1, <1>3 DEF DaemonReload, DropIn, Lists, OnHosts
    <3>2. [patroni[n] EXCEPT !.known = patroni[n].dropin] = p
      BY <1>2, <1>3 DEF PatroniType
    <3> QED
      BY <3>1, <3>2
  <2>3. UNCHANGED <<shells, unit, dir>>
    BY DEF host, DaemonReload, DropIn
  <2> HIDE DEF o, p
  <2> QED
    BY <1>1, <2>1, <2>2, <2>3, Kept DEF At
<1>6. Globals'
  BY <1>1, SpendTypes DEF host, DaemonReload, DropIn
<1>7. /\ Lists' /\ OnHosts'
      /\ Becomes(n, o, shells[n], unit[n], p, dir[n]) /\ OthersKeep(n)
  <2>1. /\ applied' \in [Nodes -> Configs \cup {None}]
        /\ dcs' \in [init : BOOLEAN, leader : Nodes \cup {None}]
    BY <1>1 DEF Lists, OnHosts, host, DaemonReload, DropIn
  <2>2. op[n].pc = "taking over" <=> shells[n]["job"] # "none"
    BY <1>1 DEF Lists, Active
  <2>3. o.pc = "taking over" <=> shells[n]["job"] # "none"
    BY <1>3, <2>2 DEF Shells
  <2> HIDE DEF o, p
  <2> QED
    BY <1>1, <1>2, <1>4, <1>5, <2>1, <2>3, AtTypes
<1>8. events' = events
  BY <1>3 DEF Record, DaemonReload, DropIn
<1>9. /\ op'[n].pc = "takeover" /\ op'[n].conf = op[n].conf /\ shells'[n] = shells[n]
      /\ unit'[n] = unit[n] /\ patroni'[n].file = patroni[n].file
      /\ patroni'[n].dropin = patroni[n].dropin /\ patroni'[n].known = patroni[n].dropin
      /\ patroni'[n].enabled = patroni[n].enabled
      /\ patroni'[n].active = patroni[n].active /\ dir'[n] = dir[n]
  BY <1>7 DEF Becomes
<1> HIDE DEF o, p
<1>10. ListInv(n)'
  BY <1>1, <1>2, <1>3, <1>8, <1>9 DEF ListInv
<1>11. OwnerInv(n)'
  BY <1>1, <1>2, <1>3, <1>8, <1>9 DEF OwnerInv, Patronis, ListInv, Shells
<1>12. ShellInv(n)'
  BY <1>1, <1>2, <1>3, <1>8, <1>9 DEF ShellInv, Active, ListInv, Shells
<1> QED
  BY <1>1, <1>6, <1>7, <1>8, <1>10, <1>11, <1>12, PartsNext, InvOthers

(* The takeover command meets patroni.dynamic.json. *)
LEMMA TakeoverKeptStep ==
  ASSUME TypeInv, Inv, NEW n \in Nodes, TakeoverBegins(n), TakenOver(n)
  PROVE  TypeInv' /\ Inv'
<1> DEFINE o == [pc |-> "enable", conf |-> op[n].conf]
<1>1. Globals /\ Lists /\ OnHosts /\ ListInv(n) /\ OwnerInv(n) /\ ShellInv(n)
  BY Parts DEF Inv
<1>2. /\ op[n] \in OpType /\ shells[n] \in ShellsType /\ unit[n] \in UnitType
      /\ patroni[n] \in PatroniType /\ dir[n] \in DirType
  BY <1>1, Kept
<1>3. op[n].pc = "takeover" /\ op' = [op EXCEPT ![n] = o] /\ dir[n].cached
  BY <1>1, <1>2, OpStep DEF TakeoverBegins, TakenOver
<1>4. o \in OpType
  BY <1>1, <1>2, <1>3, PatroniAssumption DEF ListInv, OpType, Places, PatroniType
<1>5. At(n, o, shells[n], unit[n], patroni[n], dir[n])
  <2>1. op' = [op EXCEPT ![n] = o]
    BY <1>3
  <2>2. UNCHANGED <<shells, unit, patroni, dir>>
    BY DEF host, TakeoverBegins
  <2> HIDE DEF o
  <2> QED
    BY <1>1, <2>1, <2>2, Kept DEF At
<1>6. Globals'
  BY <1>1, SpendTypes DEF host, TakeoverBegins
<1>7. /\ Lists' /\ OnHosts'
      /\ Becomes(n, o, shells[n], unit[n], patroni[n], dir[n]) /\ OthersKeep(n)
  <2>1. /\ applied' \in [Nodes -> Configs \cup {None}]
        /\ dcs' \in [init : BOOLEAN, leader : Nodes \cup {None}]
    BY <1>1 DEF Lists, OnHosts, host, TakeoverBegins
  <2>2. op[n].pc = "taking over" <=> shells[n]["job"] # "none"
    BY <1>1 DEF Lists, Active
  <2>3. o.pc = "taking over" <=> shells[n]["job"] # "none"
    BY <1>3, <2>2 DEF Shells
  <2> HIDE DEF o
  <2> QED
    BY <1>1, <1>2, <1>4, <1>5, <2>1, <2>3, AtTypes
<1>8. events \subseteq events' /\ (Active(n, "orphan") => "overlap" \in events')
  BY <1>3 DEF Record, TakeoverBegins
<1>9. /\ op'[n].pc = "enable" /\ op'[n].conf = op[n].conf /\ shells'[n] = shells[n]
      /\ unit'[n] = unit[n] /\ patroni'[n] = patroni[n] /\ dir'[n] = dir[n]
  BY <1>7 DEF Becomes
<1> HIDE DEF o
<1>10. ListInv(n)'
  BY <1>1, <1>2, <1>3, <1>8, <1>9 DEF ListInv
<1>11. OwnerInv(n)'
  BY <1>1, <1>2, <1>3, <1>8, <1>9 DEF OwnerInv, Patronis, ListInv, Shells
<1>12. ShellInv(n)'
  BY <1>1, <1>2, <1>3, <1>8, <1>9 DEF ShellInv, Active, ListInv, Shells
<1> QED
  BY <1>1, <1>6, <1>7, <1>8, <1>10, <1>11, <1>12, PartsNext, InvOthers

(* The takeover command begins its work. *)
LEMMA TakeoverBeginsStep ==
  ASSUME TypeInv, Inv, NEW n \in Nodes, TakeoverBegins(n), ~TakenOver(n)
  PROVE  TypeInv' /\ Inv'
<1> DEFINE o == [pc |-> "taking over", conf |-> op[n].conf]
           s == [x \in Shells |-> IF x = "job" THEN "stop" ELSE shells[n][x]]
<1>1. Globals /\ Lists /\ OnHosts /\ ListInv(n) /\ OwnerInv(n) /\ ShellInv(n)
  BY Parts DEF Inv
<1>2. /\ op[n] \in OpType /\ shells[n] \in ShellsType /\ unit[n] \in UnitType
      /\ patroni[n] \in PatroniType /\ dir[n] \in DirType
  BY <1>1, Kept
<1>3. op[n].pc = "takeover" /\ op' = [op EXCEPT ![n] = o] /\ ~dir[n].cached
  BY <1>1, <1>2, OpStep DEF TakeoverBegins, TakenOver
<1>4. o \in OpType /\ s \in ShellsType
  BY <1>1, <1>2, <1>3, PatroniAssumption DEF ListInv, OpType, Places, PatroniType,
         ShellsType, Shells
<1>5. At(n, o, s, unit[n], patroni[n], dir[n])
  <2>1. op' = [op EXCEPT ![n] = o]
    BY <1>3
  <2>2. shells' = [shells EXCEPT ![n] = s]
    <3>1. shells' = [shells EXCEPT ![n] = [shells[n] EXCEPT !["job"] = "stop"]]
      BY <1>1, <1>3 DEF TakeoverBegins, Lists, OnHosts
    <3>2. [shells[n] EXCEPT !["job"] = "stop"] = s
      BY <1>2, <1>3 DEF ShellsType, Shells
    <3> QED
      BY <3>1, <3>2
  <2>3. UNCHANGED <<unit, patroni, dir>>
    BY DEF host, TakeoverBegins
  <2> HIDE DEF o, s
  <2> QED
    BY <1>1, <2>1, <2>2, <2>3, Kept DEF At
<1>6. Globals'
  BY <1>1, SpendTypes DEF host, TakeoverBegins
<1>7. /\ Lists' /\ OnHosts'
      /\ Becomes(n, o, s, unit[n], patroni[n], dir[n]) /\ OthersKeep(n)
  <2>1. /\ applied' \in [Nodes -> Configs \cup {None}]
        /\ dcs' \in [init : BOOLEAN, leader : Nodes \cup {None}]
    BY <1>1 DEF Lists, OnHosts, host, TakeoverBegins
  <2>2. op[n].pc = "taking over" <=> shells[n]["job"] # "none"
    BY <1>1 DEF Lists, Active
  <2>3. o.pc = "taking over" <=> s["job"] # "none"
    BY <1>3, <2>2 DEF Shells
  <2> HIDE DEF o, s
  <2> QED
    BY <1>1, <1>2, <1>4, <1>5, <2>1, <2>3, AtTypes
<1>8. /\ events \subseteq events'
      /\ Active(n, "orphan") => "overlap" \in events'
      /\ patroni[n].active \/ dir[n].kind = "data" => "applied before the file" \in events'
  BY <1>3 DEF Record, TakeoverBegins
<1>s. s["job"] = "stop" /\ s["orphan"] = shells[n]["orphan"]
  BY DEF Shells
<1> HIDE DEF s
<1>9. /\ op'[n].pc = "taking over" /\ op'[n].conf = op[n].conf /\ shells'[n] = s
      /\ unit'[n] = unit[n] /\ patroni'[n] = patroni[n] /\ dir'[n] = dir[n]
  <2>1. op'[n] = o /\ shells'[n] = s
        /\ unit'[n] = unit[n] /\ patroni'[n] = patroni[n] /\ dir'[n] = dir[n]
    BY <1>7 DEF Becomes
  <2>2. o.pc = "taking over" /\ o.conf = op[n].conf
    OBVIOUS
  <2> QED
    BY <2>1, <2>2
<1> HIDE DEF o
<1>10. ListInv(n)'
  BY <1>s, <1>1, <1>2, <1>3, <1>8, <1>9 DEF ListInv
<1>11. OwnerInv(n)'
  BY <1>s, <1>1, <1>2, <1>3, <1>8, <1>9 DEF OwnerInv, Patronis, ListInv, Shells
<1>12. ShellInv(n)'
  BY <1>s, <1>1, <1>2, <1>3, <1>8, <1>9 DEF ShellInv, Active, ListInv, Shells
<1> QED
  BY <1>1, <1>6, <1>7, <1>8, <1>10, <1>11, <1>12, PartsNext, InvOthers

(* systemctl enable --now: with the drop-in loaded, Patroni starts. *)
LEMMA EnableStep ==
  ASSUME TypeInv, Inv, NEW n \in Nodes, Enable(n)
  PROVE  TypeInv' /\ Inv'
<1> DEFINE o == [pc |-> "reload", conf |-> op[n].conf]
           p == [patroni[n] EXCEPT !.enabled = TRUE, !.active = TRUE,
                               !.loaded = IF patroni[n].active THEN patroni[n].loaded
                                                               ELSE patroni[n].file]
<1>1. Globals /\ Lists /\ OnHosts /\ ListInv(n) /\ OwnerInv(n) /\ ShellInv(n)
  BY Parts DEF Inv
<1>2. /\ op[n] \in OpType /\ shells[n] \in ShellsType /\ unit[n] \in UnitType
      /\ patroni[n] \in PatroniType /\ dir[n] \in DirType
  BY <1>1, Kept
<1>3. op[n].pc = "enable" /\ op' = [op EXCEPT ![n] = o] /\ Starts(n) /\ ~Active(n, "job")
  <2>1. op[n].pc = "enable" /\ op' = [op EXCEPT ![n] = o]
    BY <1>1, OpStep DEF Enable
  <2>2. Starts(n)
    BY <1>1, <2>1, ConfigFiles DEF ListInv, Starts, Usable
  <2>3. ~Active(n, "job")
    BY <1>1, <2>1 DEF Lists
  <2> QED
    BY <2>1, <2>2, <2>3
<1>4. o \in OpType /\ p \in PatroniType
  BY <1>1, <1>2, <1>3, PatroniAssumption DEF ListInv, OpType, Places, PatroniType
<1>5. At(n, o, shells[n], unit[n], p, dir[n])
  <2>1. op' = [op EXCEPT ![n] = o]
    BY <1>3
  <2>2. patroni' = [patroni EXCEPT ![n] = p]
    BY <1>1, <1>3 DEF Enable, OnHosts
  <2>3. UNCHANGED <<shells, unit, dir>>
    BY DEF host, Enable
  <2> HIDE DEF o, p
  <2> QED
    BY <1>1, <2>1, <2>2, <2>3, Kept DEF At
<1>6. Globals'
  BY <1>1, SpendTypes DEF host, Enable
<1>7. /\ Lists' /\ OnHosts'
      /\ Becomes(n, o, shells[n], unit[n], p, dir[n]) /\ OthersKeep(n)
  <2>1. /\ applied' \in [Nodes -> Configs \cup {None}]
        /\ dcs' \in [init : BOOLEAN, leader : Nodes \cup {None}]
    BY <1>1 DEF Lists, OnHosts, host, Enable
  <2>2. op[n].pc = "taking over" <=> shells[n]["job"] # "none"
    BY <1>1 DEF Lists, Active
  <2>3. o.pc = "taking over" <=> shells[n]["job"] # "none"
    BY <1>3, <2>2 DEF Shells
  <2> HIDE DEF o, p
  <2> QED
    BY <1>1, <1>2, <1>4, <1>5, <2>1, <2>3, AtTypes
<1>8. events' = events
  BY <1>3 DEF Record, Enable
<1>9. /\ op'[n].pc = "reload" /\ op'[n].conf = op[n].conf /\ shells'[n] = shells[n]
      /\ unit'[n] = unit[n] /\ patroni'[n].enabled /\ patroni'[n].active
      /\ patroni'[n].file = patroni[n].file /\ patroni'[n].dropin = patroni[n].dropin
      /\ patroni'[n].known = patroni[n].known /\ dir'[n] = dir[n]
  BY <1>7, <1>2 DEF Becomes, PatroniType
<1> HIDE DEF o, p
<1>10. ListInv(n)'
  BY <1>1, <1>2, <1>3, <1>8, <1>9 DEF ListInv
<1>11. OwnerInv(n)'
  BY <1>1, <1>2, <1>3, <1>8, <1>9 DEF OwnerInv, Patronis, ListInv, Shells
<1>12. ShellInv(n)'
  BY <1>1, <1>2, <1>3, <1>8, <1>9 DEF ShellInv, Active, ListInv, Shells
<1> QED
  BY <1>1, <1>6, <1>7, <1>8, <1>10, <1>11, <1>12, PartsNext, InvOthers

(* What a failing command leaves of the unit: its file or its drop-in cut. *)
LEMMA CutUnit ==
  ASSUME TypeInv, NEW n \in Nodes, CommandFails(n)
  PROVE  \E p \in PatroniType :
           /\ patroni' = [patroni EXCEPT ![n] = p]
           /\ p.enabled = patroni[n].enabled /\ p.active = patroni[n].active
<1>1. patroni \in [Nodes -> PatroniType] /\ patroni[n] \in PatroniType
  BY Parts DEF OnHosts
<1>2. CASE UNCHANGED patroni
  <2>1. patroni' = [patroni EXCEPT ![n] = patroni[n]]
    BY <1>1, <1>2
  <2> QED
    BY <1>1, <2>1
<1>3. ASSUME NEW d \in BOOLEAN, patroni' = [patroni EXCEPT ![n].file = [rev |-> 0, dcs |-> d]]
      PROVE  \E p \in PatroniType :
               /\ patroni' = [patroni EXCEPT ![n] = p]
               /\ p.enabled = patroni[n].enabled /\ p.active = patroni[n].active
  <2> DEFINE p == [patroni[n] EXCEPT !.file = [rev |-> 0, dcs |-> d]]
  <2>1. [rev |-> 0, dcs |-> d] \in Files
    BY PatroniAssumption DEF Files
  <2>2. /\ p \in PatroniType /\ p.enabled = patroni[n].enabled
        /\ p.active = patroni[n].active
    BY <1>1, <2>1 DEF PatroniType
  <2>3. patroni' = [patroni EXCEPT ![n] = p]
    BY <1>1, <1>3
  <2> QED
    BY <2>2, <2>3
<1>4. CASE patroni' = [patroni EXCEPT ![n].dropin = FALSE]
  <2> DEFINE p == [patroni[n] EXCEPT !.dropin = FALSE]
  <2>1. /\ p \in PatroniType /\ p.enabled = patroni[n].enabled
        /\ p.active = patroni[n].active
    BY <1>1 DEF PatroniType
  <2>2. patroni' = [patroni EXCEPT ![n] = p]
    BY <1>1, <1>4
  <2> QED
    BY <2>1, <2>2
<1> QED
  BY <1>2, <1>3, <1>4 DEF CommandFails, Cut

(* A command fails: the place in the list changes, and what was being written. *)
LEMMA CommandFailsStep ==
  ASSUME TypeInv, Inv, NEW n \in Nodes, CommandFails(n), NEW p \in PatroniType,
         patroni' = [patroni EXCEPT ![n] = p],
         p.enabled = patroni[n].enabled, p.active = patroni[n].active
  PROVE  TypeInv' /\ Inv'
<1> DEFINE o == [pc |-> "idle", conf |-> op[n].conf]
<1>1. Globals /\ Lists /\ OnHosts /\ ListInv(n) /\ OwnerInv(n) /\ ShellInv(n)
  BY Parts DEF Inv
<1>2. /\ op[n] \in OpType /\ shells[n] \in ShellsType /\ unit[n] \in UnitType
      /\ patroni[n] \in PatroniType /\ dir[n] \in DirType
  BY <1>1, Kept
<1>3. op[n].pc \notin {"idle", "taking over"}
  BY <1>1, <1>2 DEF CommandFails
<1>4. o \in OpType
  BY <1>1, <1>2, <1>3, PatroniAssumption DEF ListInv, OpType, Places, PatroniType
<1>5. At(n, o, shells[n], unit[n], p, dir[n])
  <2>1. op' = [op EXCEPT ![n] = o]
    BY <1>1, <1>2, OpSet DEF CommandFails, Lists
  <2>2. UNCHANGED <<shells, unit, dir>>
    BY DEF host, CommandFails
  <2> HIDE DEF o
  <2> QED
    BY <1>1, <2>1, <2>2, Kept DEF At
<1>6. Globals'
  BY <1>1, SpendTypes DEF host, CommandFails
<1>7. /\ Lists' /\ OnHosts'
      /\ Becomes(n, o, shells[n], unit[n], p, dir[n]) /\ OthersKeep(n)
  <2>1. /\ applied' \in [Nodes -> Configs \cup {None}]
        /\ dcs' \in [init : BOOLEAN, leader : Nodes \cup {None}]
    BY <1>1 DEF Lists, OnHosts, host, CommandFails
  <2>2. op[n].pc = "taking over" <=> shells[n]["job"] # "none"
    BY <1>1 DEF Lists, Active
  <2>3. o.pc = "taking over" <=> shells[n]["job"] # "none"
    BY <1>3, <2>2 DEF Shells
  <2> HIDE DEF o
  <2> QED
    BY <1>1, <1>2, <1>4, <1>5, <2>1, <2>3, AtTypes
<1>8. events' = events
  BY <1>3 DEF Record, CommandFails
<1>9. /\ op'[n].pc = "idle" /\ op'[n].conf = op[n].conf /\ shells'[n] = shells[n]
      /\ unit'[n] = unit[n] /\ patroni'[n] = p /\ dir'[n] = dir[n]
  BY <1>7 DEF Becomes
<1> HIDE DEF o
<1>10. ListInv(n)'
  BY <1>1, <1>2, <1>3, <1>8, <1>9 DEF ListInv
<1>11. OwnerInv(n)'
  BY <1>1, <1>2, <1>3, <1>8, <1>9 DEF OwnerInv, Patronis, ListInv, Shells
<1>12. ShellInv(n)'
  BY <1>1, <1>2, <1>3, <1>8, <1>9 DEF ShellInv, Active, ListInv, Shells
<1> QED
  BY <1>1, <1>6, <1>7, <1>8, <1>10, <1>11, <1>12, PartsNext, InvOthers

(* The takeover is abandoned: its shell goes on as an orphan. *)
LEMMA TakeoverAbandonedStep ==
  ASSUME TypeInv, Inv, NEW n \in Nodes, NEW pc \in {"idle", "takeover"},
         TakeoverAbandoned(n), op' = [op EXCEPT ![n].pc = pc]
  PROVE  TypeInv' /\ Inv'
<1> DEFINE o == [pc |-> pc, conf |-> op[n].conf]
           s == [x \in Shells |-> IF x = "job" THEN "none" ELSE shells[n]["job"]]
<1>1. Globals /\ Lists /\ OnHosts /\ ListInv(n) /\ OwnerInv(n) /\ ShellInv(n)
  BY Parts DEF Inv
<1>2. /\ op[n] \in OpType /\ shells[n] \in ShellsType /\ unit[n] \in UnitType
      /\ patroni[n] \in PatroniType /\ dir[n] \in DirType
  BY <1>1, Kept
<1>3. op[n].pc = "taking over" /\ ~Active(n, "orphan")
  BY <1>1, <1>2 DEF TakeoverAbandoned
<1>4. o \in OpType /\ s \in ShellsType
  BY <1>1, <1>2, <1>3, PatroniAssumption DEF ListInv, OpType, Places, PatroniType,
         ShellsType, Shells
<1>5. At(n, o, s, unit[n], patroni[n], dir[n])
  <2>1. op' = [op EXCEPT ![n] = o]
    BY <1>1, <1>2, OpSet DEF TakeoverAbandoned, Lists
  <2>2. shells' = [shells EXCEPT ![n] = s]
    <3>1. shells' = [shells EXCEPT ![n] = [job |-> "none", orphan |-> shells[n]["job"]]]
      BY <1>1, <1>3 DEF TakeoverAbandoned, Lists, OnHosts
    <3>2. [job |-> "none", orphan |-> shells[n]["job"]] = s
      BY TwoShells
    <3> QED
      BY <3>1, <3>2
  <2>3. UNCHANGED <<unit, patroni, dir>>
    BY DEF host, TakeoverAbandoned
  <2> HIDE DEF o, s
  <2> QED
    BY <1>1, <2>1, <2>2, <2>3, Kept DEF At
<1>6. Globals'
  BY <1>1, SpendTypes DEF host, TakeoverAbandoned
<1>7. /\ Lists' /\ OnHosts'
      /\ Becomes(n, o, s, unit[n], patroni[n], dir[n]) /\ OthersKeep(n)
  <2>1. /\ applied' \in [Nodes -> Configs \cup {None}]
        /\ dcs' \in [init : BOOLEAN, leader : Nodes \cup {None}]
    BY <1>1 DEF Lists, OnHosts, host, TakeoverAbandoned
  <2>2. op[n].pc = "taking over" <=> shells[n]["job"] # "none"
    BY <1>1 DEF Lists, Active
  <2>3. o.pc = "taking over" <=> s["job"] # "none"
    BY <1>3, <2>2 DEF Shells
  <2> HIDE DEF o, s
  <2> QED
    BY <1>1, <1>2, <1>4, <1>5, <2>1, <2>3, AtTypes
<1>8. events' = events
  BY <1>3 DEF Record, TakeoverAbandoned
<1>s. s["job"] = "none" /\ s["orphan"] = shells[n]["job"]
  BY DEF Shells
<1> HIDE DEF s
<1>9. /\ op'[n].pc = pc /\ op'[n].conf = op[n].conf /\ shells'[n] = s
      /\ unit'[n] = unit[n] /\ patroni'[n] = patroni[n] /\ dir'[n] = dir[n]
  BY <1>7 DEF Becomes
<1> HIDE DEF o
<1>10. ListInv(n)'
  BY <1>s, <1>1, <1>2, <1>3, <1>8, <1>9 DEF ListInv
<1>11. OwnerInv(n)'
  BY <1>s, <1>1, <1>2, <1>3, <1>8, <1>9 DEF OwnerInv, Patronis, ListInv, Shells
<1>12. ShellInv(n)'
  BY <1>s, <1>1, <1>2, <1>3, <1>8, <1>9 DEF ShellInv, Active, ListInv, Shells
<1> QED
  BY <1>1, <1>6, <1>7, <1>8, <1>10, <1>11, <1>12, PartsNext, InvOthers

(* Patroni bootstraps an empty datadir. *)
LEMMA BootstrapStep ==
  ASSUME TypeInv, Inv, NEW n \in Nodes, Bootstrap(n), PatroniStep(n)
  PROVE  TypeInv' /\ Inv'
<1> DEFINE d == [kind |-> "data", cached |-> dir[n].cached]
<1>1. Globals /\ Lists /\ OnHosts /\ ListInv(n) /\ OwnerInv(n) /\ ShellInv(n)
  BY Parts DEF Inv
<1>2. /\ op[n] \in OpType /\ shells[n] \in ShellsType /\ unit[n] \in UnitType
      /\ patroni[n] \in PatroniType /\ dir[n] \in DirType
  BY <1>1, Kept
<1>3. patroni[n].active
  BY <1>1, <1>2 DEF Bootstrap
<1>4. d \in DirType
  BY <1>1, <1>2, <1>3, PatroniAssumption DEF ListInv, DirType, OpType, Places, PatroniType
<1>5. At(n, op[n], shells[n], unit[n], patroni[n], d)
  <2>1. dir' = [dir EXCEPT ![n] = d]
    <3>1. dir' = [dir EXCEPT ![n] = [dir[n] EXCEPT !.kind = "data"]]
      BY <1>1, <1>3 DEF Bootstrap, PatroniStep, Lists, OnHosts
    <3>2. [dir[n] EXCEPT !.kind = "data"] = d
      BY <1>2, <1>3 DEF DirType
    <3> QED
      BY <3>1, <3>2
  <2>2. UNCHANGED <<op, shells, unit, patroni>>
    BY DEF host, Bootstrap, PatroniStep
  <2> HIDE DEF d
  <2> QED
    BY <1>1, <2>1, <2>2, Kept DEF At
<1>6. Globals'
  BY <1>1, SpendTypes DEF host, Bootstrap, PatroniStep
<1>7. /\ Lists' /\ OnHosts'
      /\ Becomes(n, op[n], shells[n], unit[n], patroni[n], d) /\ OthersKeep(n)
  <2>1. /\ applied' \in [Nodes -> Configs \cup {None}]
        /\ dcs' \in [init : BOOLEAN, leader : Nodes \cup {None}]
    BY <1>1 DEF Lists, OnHosts, host, Bootstrap, PatroniStep
  <2>2. op[n].pc = "taking over" <=> shells[n]["job"] # "none"
    BY <1>1 DEF Lists, Active
  <2> HIDE DEF d
  <2> QED
    BY <1>1, <1>2, <1>4, <1>5, <2>1, <2>2, AtTypes
<1>8. events' = events
  BY <1>3 DEF Record, Bootstrap, PatroniStep
<1>9. /\ op'[n] = op[n] /\ shells'[n] = shells[n] /\ unit'[n] = unit[n]
      /\ patroni'[n] = patroni[n] /\ dir'[n].kind = "data"
      /\ dir'[n].cached = dir[n].cached
  BY <1>7 DEF Becomes
<1> HIDE DEF d
<1>10. ListInv(n)'
  BY <1>1, <1>2, <1>3, <1>8, <1>9 DEF ListInv
<1>11. OwnerInv(n)'
  BY <1>1, <1>2, <1>3, <1>8, <1>9 DEF OwnerInv, Patronis, ListInv, Shells
<1>12. ShellInv(n)'
  BY <1>1, <1>2, <1>3, <1>8, <1>9 DEF ShellInv, Active, ListInv, Shells
<1> QED
  BY <1>1, <1>6, <1>7, <1>8, <1>10, <1>11, <1>12, PartsNext, InvOthers

(* Patroni copies the datadir of the leader. *)
LEMMA CopyLeaderStep ==
  ASSUME TypeInv, Inv, NEW n \in Nodes, CopyLeader(n), PatroniStep(n)
  PROVE  TypeInv' /\ Inv'
<1> DEFINE d == dir[dcs.leader]
<1>1. Globals /\ Lists /\ OnHosts /\ ListInv(n) /\ OwnerInv(n) /\ ShellInv(n)
  BY Parts DEF Inv
<1>2. /\ op[n] \in OpType /\ shells[n] \in ShellsType /\ unit[n] \in UnitType
      /\ patroni[n] \in PatroniType /\ dir[n] \in DirType
  BY <1>1, Kept
<1>3. patroni[n].active /\ dir[dcs.leader] \in DirType
  BY <1>1, <1>2, Kept DEF CopyLeader
<1>4. d \in DirType
  BY <1>1, <1>2, <1>3, PatroniAssumption DEF ListInv, DirType, OpType, Places, PatroniType
<1>5. At(n, op[n], shells[n], unit[n], patroni[n], d)
  <2>1. dir' = [dir EXCEPT ![n] = d]
    BY DEF CopyLeader, PatroniStep
  <2>2. UNCHANGED <<op, shells, unit, patroni>>
    BY DEF host, CopyLeader, PatroniStep
  <2> HIDE DEF d
  <2> QED
    BY <1>1, <2>1, <2>2, Kept DEF At
<1>6. Globals'
  BY <1>1, SpendTypes DEF host, CopyLeader, PatroniStep
<1>7. /\ Lists' /\ OnHosts'
      /\ Becomes(n, op[n], shells[n], unit[n], patroni[n], d) /\ OthersKeep(n)
  <2>1. /\ applied' \in [Nodes -> Configs \cup {None}]
        /\ dcs' \in [init : BOOLEAN, leader : Nodes \cup {None}]
    BY <1>1 DEF Lists, OnHosts, host, CopyLeader, PatroniStep
  <2>2. op[n].pc = "taking over" <=> shells[n]["job"] # "none"
    BY <1>1 DEF Lists, Active
  <2> HIDE DEF d
  <2> QED
    BY <1>1, <1>2, <1>4, <1>5, <2>1, <2>2, AtTypes
<1>8. events' = events
  BY <1>3 DEF Record, CopyLeader, PatroniStep
<1>9. /\ op'[n] = op[n] /\ shells'[n] = shells[n] /\ unit'[n] = unit[n]
      /\ patroni'[n] = patroni[n] /\ dir'[n] = d
  BY <1>7 DEF Becomes
<1> HIDE DEF d
<1>10. ListInv(n)'
  BY <1>1, <1>2, <1>3, <1>8, <1>9 DEF ListInv
<1>11. OwnerInv(n)'
  BY <1>1, <1>2, <1>3, <1>8, <1>9 DEF OwnerInv, Patronis, ListInv, Shells
<1>12. ShellInv(n)'
  BY <1>1, <1>2, <1>3, <1>8, <1>9 DEF ShellInv, Active, ListInv, Shells
<1> QED
  BY <1>1, <1>6, <1>7, <1>8, <1>10, <1>11, <1>12, PartsNext, InvOthers

(* Patroni writes patroni.dynamic.json. *)
LEMMA CacheWrittenStep ==
  ASSUME TypeInv, Inv, NEW n \in Nodes, CacheWritten(n), PatroniStep(n)
  PROVE  TypeInv' /\ Inv'
<1> DEFINE d == [dir[n] EXCEPT !.cached = TRUE]
<1>1. Globals /\ Lists /\ OnHosts /\ ListInv(n) /\ OwnerInv(n) /\ ShellInv(n)
  BY Parts DEF Inv
<1>2. /\ op[n] \in OpType /\ shells[n] \in ShellsType /\ unit[n] \in UnitType
      /\ patroni[n] \in PatroniType /\ dir[n] \in DirType
  BY <1>1, Kept
<1>3. patroni[n].active
  BY <1>1, <1>2 DEF CacheWritten, Serves
<1>4. d \in DirType
  BY <1>1, <1>2, <1>3, PatroniAssumption DEF ListInv, DirType, OpType, Places, PatroniType
<1>5. At(n, op[n], shells[n], unit[n], patroni[n], d)
  <2>1. dir' = [dir EXCEPT ![n] = d]
    BY <1>1 DEF CacheWritten, OnHosts
  <2>2. UNCHANGED <<op, shells, unit, patroni>>
    BY DEF host, CacheWritten, PatroniStep
  <2> HIDE DEF d
  <2> QED
    BY <1>1, <2>1, <2>2, Kept DEF At
<1>6. Globals'
  BY <1>1, SpendTypes DEF host, CacheWritten, PatroniStep
<1>7. /\ Lists' /\ OnHosts'
      /\ Becomes(n, op[n], shells[n], unit[n], patroni[n], d) /\ OthersKeep(n)
  <2>1. /\ applied' \in [Nodes -> Configs \cup {None}]
        /\ dcs' \in [init : BOOLEAN, leader : Nodes \cup {None}]
    BY <1>1 DEF Lists, OnHosts, host, CacheWritten, PatroniStep
  <2>2. op[n].pc = "taking over" <=> shells[n]["job"] # "none"
    BY <1>1 DEF Lists, Active
  <2> HIDE DEF d
  <2> QED
    BY <1>1, <1>2, <1>4, <1>5, <2>1, <2>2, AtTypes
<1>8. events' = events
  BY <1>3 DEF Record, CacheWritten, PatroniStep
<1>9. /\ op'[n] = op[n] /\ shells'[n] = shells[n] /\ unit'[n] = unit[n]
      /\ patroni'[n] = patroni[n] /\ dir'[n].kind = dir[n].kind /\ dir'[n].cached
  BY <1>7, <1>2 DEF Becomes, DirType
<1> HIDE DEF d
<1>10. ListInv(n)'
  BY <1>1, <1>2, <1>3, <1>8, <1>9 DEF ListInv
<1>11. OwnerInv(n)'
  BY <1>1, <1>2, <1>3, <1>8, <1>9 DEF OwnerInv, Patronis, ListInv, Shells
<1>12. ShellInv(n)'
  BY <1>1, <1>2, <1>3, <1>8, <1>9 DEF ShellInv, Active, ListInv, Shells
<1> QED
  BY <1>1, <1>6, <1>7, <1>8, <1>10, <1>11, <1>12, PartsNext, InvOthers

(* The takeover shell stops and disables the packaged unit. *)
LEMMA HandedOverStep ==
  ASSUME TypeInv, Inv, NEW n \in Nodes, NEW k \in Shells, ShellStops(n, k), Handover(n),
         UNCHANGED <<events, used>>
  PROVE  TypeInv' /\ Inv'
<1> DEFINE s == [x \in Shells |-> IF x = k THEN "wipe" ELSE shells[n][x]]
           u == [enabled |-> FALSE, active |-> FALSE]
<1>1. Globals /\ Lists /\ OnHosts /\ ListInv(n) /\ OwnerInv(n) /\ ShellInv(n)
  BY Parts DEF Inv
<1>2. /\ op[n] \in OpType /\ shells[n] \in ShellsType /\ unit[n] \in UnitType
      /\ patroni[n] \in PatroniType /\ dir[n] \in DirType
  BY <1>1, Kept
<1>3. shells[n][k] = "stop"
  BY <1>1, <1>2 DEF ShellStops
<1>4. s \in ShellsType /\ u \in UnitType
  BY <1>1, <1>2, <1>3, PatroniAssumption DEF ListInv, OpType, Places, PatroniType,
         ShellsType, Shells, UnitType
<1>5. At(n, op[n], s, u, patroni[n], dir[n])
  <2>1. shells' = [shells EXCEPT ![n] = s]
    <3>1. shells' = [shells EXCEPT ![n] = [shells[n] EXCEPT ![k] = "wipe"]]
      BY <1>1, <1>3 DEF ShellStops, Handover, Lists, OnHosts
    <3>2. [shells[n] EXCEPT ![k] = "wipe"] = s
      BY <1>2, <1>3 DEF ShellsType, Shells
    <3> QED
      BY <3>1, <3>2
  <2>2. unit' = [unit EXCEPT ![n] = u]
    BY DEF ShellStops, Handover
  <2>3. UNCHANGED <<op, patroni, dir>>
    BY DEF host, ShellStops, Handover
  <2> HIDE DEF s, u
  <2> QED
    BY <1>1, <2>1, <2>2, <2>3, Kept DEF At
<1>6. Globals'
  BY <1>1, SpendTypes DEF host, ShellStops, Handover
<1>7. /\ Lists' /\ OnHosts'
      /\ Becomes(n, op[n], s, u, patroni[n], dir[n]) /\ OthersKeep(n)
  <2>1. /\ applied' \in [Nodes -> Configs \cup {None}]
        /\ dcs' \in [init : BOOLEAN, leader : Nodes \cup {None}]
    BY <1>1 DEF Lists, OnHosts, host, ShellStops, Handover
  <2>2. op[n].pc = "taking over" <=> shells[n]["job"] # "none"
    BY <1>1 DEF Lists, Active
  <2>3. op[n].pc = "taking over" <=> s["job"] # "none"
    BY <1>3, <2>2 DEF Shells
  <2> HIDE DEF s, u
  <2> QED
    BY <1>1, <1>2, <1>4, <1>5, <2>1, <2>3, AtTypes
<1>8. events' = events
  BY <1>3 DEF Record, ShellStops, Handover
<1>s. /\ s["job"] = (IF k = "job" THEN "wipe" ELSE shells[n]["job"])
      /\ s["orphan"] = (IF k = "orphan" THEN "wipe" ELSE shells[n]["orphan"])
  BY DEF Shells
<1> HIDE DEF s
<1>9. /\ op'[n] = op[n] /\ shells'[n] = s /\ unit'[n].enabled = FALSE
      /\ unit'[n].active = FALSE /\ patroni'[n] = patroni[n] /\ dir'[n] = dir[n]
  BY <1>7 DEF Becomes
<1> HIDE DEF u
<1>10. ListInv(n)'
  BY <1>s, <1>1, <1>2, <1>3, <1>8, <1>9 DEF ListInv
<1>11. OwnerInv(n)'
  BY <1>s, <1>1, <1>2, <1>3, <1>8, <1>9 DEF OwnerInv, Patronis, ListInv, Shells
<1>12. ShellInv(n)'
  BY <1>s, <1>1, <1>2, <1>3, <1>8, <1>9 DEF ShellInv, Active, ListInv, Shells
<1> QED
  BY <1>1, <1>6, <1>7, <1>8, <1>10, <1>11, <1>12, PartsNext, InvOthers

(* Stopping or disabling it fails; the shell goes on, and the history tells. *)
LEMMA NotStoppedStep ==
  ASSUME TypeInv, Inv, NEW n \in Nodes, NEW k \in Shells, ShellStops(n, k),
         NEW v \in UnitType, unit' = [unit EXCEPT ![n] = v],
         Spend("failure"), Record(TRUE, "unit not stopped")
  PROVE  TypeInv' /\ Inv'
<1> DEFINE s == [x \in Shells |-> IF x = k THEN "wipe" ELSE shells[n][x]]
           u == v
<1>1. Globals /\ Lists /\ OnHosts /\ ListInv(n) /\ OwnerInv(n) /\ ShellInv(n)
  BY Parts DEF Inv
<1>2. /\ op[n] \in OpType /\ shells[n] \in ShellsType /\ unit[n] \in UnitType
      /\ patroni[n] \in PatroniType /\ dir[n] \in DirType
  BY <1>1, Kept
<1>3. shells[n][k] = "stop"
  BY <1>1, <1>2 DEF ShellStops
<1>4. s \in ShellsType /\ u \in UnitType
  BY <1>1, <1>2, <1>3, PatroniAssumption DEF ListInv, OpType, Places, PatroniType,
         ShellsType, Shells, UnitType
<1>5. At(n, op[n], s, u, patroni[n], dir[n])
  <2>1. shells' = [shells EXCEPT ![n] = s]
    <3>1. shells' = [shells EXCEPT ![n] = [shells[n] EXCEPT ![k] = "wipe"]]
      BY <1>1, <1>3 DEF ShellStops, Lists, OnHosts
    <3>2. [shells[n] EXCEPT ![k] = "wipe"] = s
      BY <1>2, <1>3 DEF ShellsType, Shells
    <3> QED
      BY <3>1, <3>2
  <2>2. unit' = [unit EXCEPT ![n] = u]
    BY <1>1
  <2>3. UNCHANGED <<op, patroni, dir>>
    BY DEF host, ShellStops
  <2> HIDE DEF s, u
  <2> QED
    BY <1>1, <2>1, <2>2, <2>3, Kept DEF At
<1>6. Globals'
  BY <1>1, SpendTypes DEF host, ShellStops
<1>7. /\ Lists' /\ OnHosts'
      /\ Becomes(n, op[n], s, u, patroni[n], dir[n]) /\ OthersKeep(n)
  <2>1. /\ applied' \in [Nodes -> Configs \cup {None}]
        /\ dcs' \in [init : BOOLEAN, leader : Nodes \cup {None}]
    BY <1>1 DEF Lists, OnHosts, host, ShellStops
  <2>2. op[n].pc = "taking over" <=> shells[n]["job"] # "none"
    BY <1>1 DEF Lists, Active
  <2>3. op[n].pc = "taking over" <=> s["job"] # "none"
    BY <1>3, <2>2 DEF Shells
  <2> HIDE DEF s, u
  <2> QED
    BY <1>1, <1>2, <1>4, <1>5, <2>1, <2>3, AtTypes
<1>8. events \subseteq events' /\ "unit not stopped" \in events'
  BY <1>3 DEF Record, ShellStops
<1>s. /\ s["job"] = (IF k = "job" THEN "wipe" ELSE shells[n]["job"])
      /\ s["orphan"] = (IF k = "orphan" THEN "wipe" ELSE shells[n]["orphan"])
  BY DEF Shells
<1> HIDE DEF s
<1>9. /\ op'[n] = op[n] /\ shells'[n] = s /\ unit'[n] = u /\ patroni'[n] = patroni[n]
      /\ dir'[n] = dir[n]
  BY <1>7 DEF Becomes
<1> HIDE DEF u
<1>10. ListInv(n)'
  BY <1>s, <1>1, <1>2, <1>3, <1>8, <1>9 DEF ListInv
<1>11. OwnerInv(n)'
  BY <1>s, <1>1, <1>2, <1>3, <1>8, <1>9 DEF OwnerInv, Patronis, ListInv, Shells
<1>12. ShellInv(n)'
  BY <1>s, <1>1, <1>2, <1>3, <1>8, <1>9 DEF ShellInv, Active, ListInv, Shells
<1> QED
  BY <1>1, <1>6, <1>7, <1>8, <1>10, <1>11, <1>12, PartsNext, InvOthers

(* The job empties the datadir, and the next command follows. *)
LEMMA JobWipesStep ==
  ASSUME TypeInv, Inv, NEW n \in Nodes, ShellWipes(n, "job")
  PROVE  TypeInv' /\ Inv'
<1> DEFINE o == [pc |-> "enable", conf |-> op[n].conf]
           s == [x \in Shells |-> IF x = "job" THEN "none" ELSE shells[n][x]]
           d == [kind |-> "empty", cached |-> FALSE]
<1>1. Globals /\ Lists /\ OnHosts /\ ListInv(n) /\ OwnerInv(n) /\ ShellInv(n)
  BY Parts DEF Inv
<1>2. /\ op[n] \in OpType /\ shells[n] \in ShellsType /\ unit[n] \in UnitType
      /\ patroni[n] \in PatroniType /\ dir[n] \in DirType
  BY <1>1, Kept
<1>3. shells[n]["job"] = "wipe" /\ op[n].pc = "taking over"
  BY <1>1, <1>2 DEF ShellWipes, Lists, Active
<1>4. o \in OpType /\ s \in ShellsType /\ d \in DirType
  BY <1>1, <1>2, <1>3, PatroniAssumption DEF ListInv, DirType, OpType, Places, PatroniType,
         ShellsType, Shells
<1>5. At(n, o, s, unit[n], patroni[n], d)
  <2>1. op' = [op EXCEPT ![n] = o]
    BY <1>1, OpSet DEF ShellWipes, ShellEnds
  <2>2. shells' = [shells EXCEPT ![n] = s]
    <3>1. shells' = [shells EXCEPT ![n] = [shells[n] EXCEPT !["job"] = "none"]]
      BY <1>1, <1>3 DEF ShellWipes, ShellEnds, Lists, OnHosts
    <3>2. [shells[n] EXCEPT !["job"] = "none"] = s
      BY <1>2, <1>3 DEF ShellsType, Shells
    <3> QED
      BY <3>1, <3>2
  <2>3. dir' = [dir EXCEPT ![n] = d]
    BY DEF ShellWipes, ShellEnds
  <2>4. UNCHANGED <<unit, patroni>>
    BY DEF host, ShellWipes, ShellEnds
  <2> HIDE DEF o, s, d
  <2> QED
    BY <1>1, <2>1, <2>2, <2>3, <2>4, Kept DEF At
<1>6. Globals'
  BY <1>1, SpendTypes DEF host, ShellWipes, ShellEnds
<1>7. /\ Lists' /\ OnHosts'
      /\ Becomes(n, o, s, unit[n], patroni[n], d) /\ OthersKeep(n)
  <2>1. /\ applied' \in [Nodes -> Configs \cup {None}]
        /\ dcs' \in [init : BOOLEAN, leader : Nodes \cup {None}]
    BY <1>1 DEF Lists, OnHosts, host, ShellWipes, ShellEnds
  <2>2. op[n].pc = "taking over" <=> shells[n]["job"] # "none"
    BY <1>1 DEF Lists, Active
  <2>3. o.pc = "taking over" <=> s["job"] # "none"
    BY <1>3, <2>2 DEF Shells
  <2> HIDE DEF o, s, d
  <2> QED
    BY <1>1, <1>2, <1>4, <1>5, <2>1, <2>3, AtTypes
<1>8. events' = events
  BY <1>3 DEF Record, ShellWipes, ShellEnds
<1>s. s["job"] = "none" /\ s["orphan"] = shells[n]["orphan"]
  BY DEF Shells
<1> HIDE DEF s
<1>9. /\ op'[n].pc = "enable" /\ op'[n].conf = op[n].conf /\ shells'[n] = s
      /\ unit'[n] = unit[n] /\ patroni'[n] = patroni[n] /\ dir'[n].kind = "empty"
      /\ dir'[n].cached = FALSE
  BY <1>7 DEF Becomes
<1> HIDE DEF o, d
<1>10. ListInv(n)'
  BY <1>s, <1>1, <1>2, <1>3, <1>8, <1>9 DEF ListInv
<1>11. OwnerInv(n)'
  BY <1>s, <1>1, <1>2, <1>3, <1>8, <1>9 DEF OwnerInv, Patronis, ListInv, Shells
<1>12. ShellInv(n)'
  BY <1>s, <1>1, <1>2, <1>3, <1>8, <1>9 DEF ShellInv, Active, ListInv, Shells
<1> QED
  BY <1>1, <1>6, <1>7, <1>8, <1>10, <1>11, <1>12, PartsNext, InvOthers

(* An orphan empties the datadir. *)
LEMMA OrphanWipesStep ==
  ASSUME TypeInv, Inv, NEW n \in Nodes, ShellWipes(n, "orphan")
  PROVE  TypeInv' /\ Inv'
<1> DEFINE s == [x \in Shells |-> IF x = "orphan" THEN "none" ELSE shells[n][x]]
           d == [kind |-> "empty", cached |-> FALSE]
<1>1. Globals /\ Lists /\ OnHosts /\ ListInv(n) /\ OwnerInv(n) /\ ShellInv(n)
  BY Parts DEF Inv
<1>2. /\ op[n] \in OpType /\ shells[n] \in ShellsType /\ unit[n] \in UnitType
      /\ patroni[n] \in PatroniType /\ dir[n] \in DirType
  BY <1>1, Kept
<1>3. shells[n]["orphan"] = "wipe"
  BY <1>1, <1>2 DEF ShellWipes
<1>4. s \in ShellsType /\ d \in DirType
  BY <1>1, <1>2, <1>3, PatroniAssumption DEF ListInv, DirType, OpType, Places, PatroniType,
         ShellsType, Shells
<1>5. At(n, op[n], s, unit[n], patroni[n], d)
  <2>1. shells' = [shells EXCEPT ![n] = s]
    <3>1. shells' = [shells EXCEPT ![n] = [shells[n] EXCEPT !["orphan"] = "none"]]
      BY <1>1, <1>3 DEF ShellWipes, ShellEnds, Lists, OnHosts
    <3>2. [shells[n] EXCEPT !["orphan"] = "none"] = s
      BY <1>2, <1>3 DEF ShellsType, Shells
    <3> QED
      BY <3>1, <3>2
  <2>2. dir' = [dir EXCEPT ![n] = d]
    BY DEF ShellWipes, ShellEnds
  <2>3. UNCHANGED <<op, unit, patroni>>
    BY DEF host, ShellWipes, ShellEnds
  <2> HIDE DEF s, d
  <2> QED
    BY <1>1, <2>1, <2>2, <2>3, Kept DEF At
<1>6. Globals'
  BY <1>1, SpendTypes DEF host, ShellWipes, ShellEnds
<1>7. /\ Lists' /\ OnHosts'
      /\ Becomes(n, op[n], s, unit[n], patroni[n], d) /\ OthersKeep(n)
  <2>1. /\ applied' \in [Nodes -> Configs \cup {None}]
        /\ dcs' \in [init : BOOLEAN, leader : Nodes \cup {None}]
    BY <1>1 DEF Lists, OnHosts, host, ShellWipes, ShellEnds
  <2>2. op[n].pc = "taking over" <=> shells[n]["job"] # "none"
    BY <1>1 DEF Lists, Active
  <2>3. op[n].pc = "taking over" <=> s["job"] # "none"
    BY <1>3, <2>2 DEF Shells
  <2> HIDE DEF s, d
  <2> QED
    BY <1>1, <1>2, <1>4, <1>5, <2>1, <2>3, AtTypes
<1>8. events' = events
  BY <1>3 DEF Record, ShellWipes, ShellEnds
<1>s. s["job"] = shells[n]["job"] /\ s["orphan"] = "none"
  BY DEF Shells
<1> HIDE DEF s
<1>9. /\ op'[n] = op[n] /\ shells'[n] = s /\ unit'[n] = unit[n]
      /\ patroni'[n] = patroni[n] /\ dir'[n].kind = "empty" /\ dir'[n].cached = FALSE
  BY <1>7 DEF Becomes
<1> HIDE DEF d
<1>10. ListInv(n)'
  BY <1>s, <1>1, <1>2, <1>3, <1>8, <1>9 DEF ListInv
<1>11. OwnerInv(n)'
  BY <1>s, <1>1, <1>2, <1>3, <1>8, <1>9 DEF OwnerInv, Patronis, ListInv, Shells
<1>12. ShellInv(n)'
  BY <1>s, <1>1, <1>2, <1>3, <1>8, <1>9 DEF ShellInv, Active, ListInv, Shells
<1> QED
  BY <1>1, <1>6, <1>7, <1>8, <1>10, <1>11, <1>12, PartsNext, InvOthers

(* Patroni ends: it stays enabled, and nothing else of the node changes. *)
LEMMA PatroniDiesStep ==
  ASSUME TypeInv, Inv, NEW n \in Nodes, PatroniDies(n)
  PROVE  TypeInv' /\ Inv'
<1> DEFINE p == [patroni[n] EXCEPT !.active = FALSE, !.loaded = None]
<1>1. Globals /\ Lists /\ OnHosts /\ ListInv(n) /\ OwnerInv(n) /\ ShellInv(n)
  BY Parts DEF Inv
<1>2. /\ op[n] \in OpType /\ shells[n] \in ShellsType /\ unit[n] \in UnitType
      /\ patroni[n] \in PatroniType /\ dir[n] \in DirType
  BY <1>1, Kept
<1>3. p \in PatroniType
  BY <1>2 DEF PatroniType
<1>4. At(n, op[n], shells[n], unit[n], p, dir[n])
  <2>1. patroni' = [patroni EXCEPT ![n] = p]
    BY <1>1 DEF PatroniDies, OnHosts
  <2>2. UNCHANGED <<op, shells, unit, dir>>
    BY DEF PatroniDies
  <2> HIDE DEF p
  <2> QED
    BY <1>1, <2>1, <2>2, Kept DEF At
<1>5. Globals'
  BY <1>1, SpendTypes DEF PatroniDies
<1>6. /\ Lists' /\ OnHosts'
      /\ Becomes(n, op[n], shells[n], unit[n], p, dir[n]) /\ OthersKeep(n)
  <2>1. /\ applied' \in [Nodes -> Configs \cup {None}]
        /\ dcs' \in [init : BOOLEAN, leader : Nodes \cup {None}]
    BY <1>1 DEF Lists, OnHosts, PatroniDies
  <2>2. op[n].pc = "taking over" <=> shells[n]["job"] # "none"
    BY <1>1 DEF Lists, Active
  <2> HIDE DEF p
  <2> QED
    BY <1>1, <1>2, <1>3, <1>4, <2>1, <2>2, AtTypes
<1>7. /\ events \subseteq events'
      /\ op[n].pc = "reload" => "died unnoticed" \in events'
  BY DEF PatroniDies
<1>8. /\ op'[n] = op[n] /\ shells'[n] = shells[n] /\ unit'[n] = unit[n]
      /\ patroni'[n].file = patroni[n].file /\ patroni'[n].dropin = patroni[n].dropin
      /\ patroni'[n].known = patroni[n].known /\ patroni'[n].enabled = patroni[n].enabled
      /\ ~patroni'[n].active /\ dir'[n] = dir[n]
  BY <1>2, <1>6 DEF Becomes, PatroniType
<1> HIDE DEF p
<1>9. ListInv(n)'
  BY <1>1, <1>7, <1>8 DEF ListInv
<1>10. OwnerInv(n)'
  BY <1>1, <1>7, <1>8 DEF OwnerInv, Patronis, Shells
<1>11. ShellInv(n)'
  BY <1>1, <1>7, <1>8 DEF ShellInv, Active, Shells
<1> QED
  BY <1>1, <1>5, <1>6, <1>7, <1>9, <1>10, <1>11, PartsNext, InvOthers

(* The host reboots: enabled units start, shells are gone. *)
LEMMA RebootStep ==
  ASSUME TypeInv, Inv, NEW n \in Nodes, Reboot(n)
  PROVE  TypeInv' /\ Inv'
<1> DEFINE o == [pc |-> "idle", conf |-> op[n].conf]
           s == [x \in Shells |-> "none"]
           u == [unit[n] EXCEPT !.active = unit[n].enabled /\ dir[n].kind # "empty"]
           starts == /\ patroni[n].enabled /\ patroni[n].dropin
                     /\ Usable(patroni[n].file)
           p == [patroni[n] EXCEPT !.known = patroni[n].dropin, !.active = starts,
                               !.loaded = IF starts THEN patroni[n].file ELSE None]
<1>1. Globals /\ Lists /\ OnHosts /\ ListInv(n) /\ OwnerInv(n) /\ ShellInv(n)
  BY Parts DEF Inv
<1>2. /\ op[n] \in OpType /\ shells[n] \in ShellsType /\ unit[n] \in UnitType
      /\ patroni[n] \in PatroniType /\ dir[n] \in DirType
  BY <1>1, Kept
<1>3. starts \in BOOLEAN /\ (starts => patroni[n].enabled)
  BY <1>2 DEF PatroniType
<1>4. o \in OpType /\ s \in ShellsType /\ u \in UnitType /\ p \in PatroniType
  BY <1>1, <1>2, <1>3, PatroniAssumption DEF ListInv, OpType, Places, PatroniType,
         ShellsType, Shells, UnitType
<1>5. At(n, o, s, u, p, dir[n])
  <2>1. op' = [op EXCEPT ![n] = o]
    BY <1>1, OpSet DEF Reboot
  <2>2. shells' = [shells EXCEPT ![n] = s]
    BY DEF Reboot
  <2>3. unit' = [unit EXCEPT ![n] = u]
    BY <1>1 DEF Reboot, OnHosts
  <2>4. patroni' = [patroni EXCEPT ![n] = p]
    BY <1>1, <1>2 DEF Reboot, OnHosts
  <2>5. UNCHANGED <<dir>>
    BY DEF host, Reboot
  <2> HIDE DEF o, s, u, p
  <2> QED
    BY <1>1, <2>1, <2>2, <2>3, <2>4, <2>5, Kept DEF At
<1>6. Globals'
  BY <1>1, SpendTypes DEF host, Reboot
<1>7. /\ Lists' /\ OnHosts'
      /\ Becomes(n, o, s, u, p, dir[n]) /\ OthersKeep(n)
  <2>1. /\ applied' \in [Nodes -> Configs \cup {None}]
        /\ dcs' \in [init : BOOLEAN, leader : Nodes \cup {None}]
    BY <1>1 DEF Lists, OnHosts, host, Reboot
  <2>2. op[n].pc = "taking over" <=> shells[n]["job"] # "none"
    BY <1>1 DEF Lists, Active
  <2>3. o.pc = "taking over" <=> s["job"] # "none"
    BY <1>3, <2>2 DEF Shells
  <2> HIDE DEF o, s, u, p
  <2> QED
    BY <1>1, <1>2, <1>4, <1>5, <2>1, <2>3, AtTypes
<1>8. events' = events
  BY <1>3 DEF Record, Reboot
<1>s. s["job"] = "none" /\ s["orphan"] = "none"
  BY DEF Shells
<1> HIDE DEF s
<1>9. /\ op'[n].pc = "idle" /\ op'[n].conf = op[n].conf /\ shells'[n] = s
      /\ unit'[n].enabled = unit[n].enabled /\ (unit'[n].active => unit[n].enabled)
      /\ patroni'[n].enabled = patroni[n].enabled
      /\ (patroni'[n].active => patroni[n].enabled)
      /\ dir'[n] = dir[n]
  <2>1. u.enabled = unit[n].enabled /\ (u.active => unit[n].enabled)
    BY <1>2 DEF UnitType
  <2>2. p.enabled = patroni[n].enabled /\ (p.active => patroni[n].enabled)
    BY <1>2, <1>3 DEF PatroniType
  <2>5. o.pc = "idle" /\ o.conf = op[n].conf
    OBVIOUS
  <2> HIDE DEF o, u, p
  <2> QED
    BY <1>7, <2>1, <2>2, <2>5 DEF Becomes
<1> HIDE DEF o, u, p
<1>10. ListInv(n)'
  BY <1>s, <1>1, <1>2, <1>3, <1>8, <1>9 DEF ListInv
<1>11. OwnerInv(n)'
  BY <1>s, <1>1, <1>2, <1>3, <1>8, <1>9 DEF OwnerInv, Patronis, ListInv, Shells
<1>12. ShellInv(n)'
  BY <1>s, <1>1, <1>2, <1>3, <1>8, <1>9 DEF ShellInv, Active, ListInv, Shells
<1> QED
  BY <1>1, <1>6, <1>7, <1>8, <1>10, <1>11, <1>12, PartsNext, InvOthers

(* What belongs to no node leaves the nodes' invariants alone.             *)
LEMMA SameNodes ==
  ASSUME Inv, UNCHANGED <<op, shells, unit, patroni, dir, events>>
  PROVE  Inv'
  BY DEF Inv, ListInv, OwnerInv, Patronis, ShellInv, Active

(* postgres_cluster is applied, or the user edits it: nothing on a host.    *)
LEMMA ClusterStep ==
  ASSUME TypeInv, Inv, ApplyCluster \/ EditConfig
  PROVE  TypeInv' /\ Inv'
<1>1. Globals /\ Lists /\ OnHosts
  BY Parts
<1>2. CASE ApplyCluster
  <2>1. Globals' /\ Lists' /\ OnHosts'
    BY <1>1, <1>2 DEF ApplyCluster, host, Valid, Globals, Lists, OnHosts, Active
  <2> QED
    BY <1>2, <2>1, PartsNext, SameNodes DEF ApplyCluster, host
<1>3. CASE EditConfig
  <2>1. PICK d \in BOOLEAN : config' = [rev |-> config.rev + 1, dcs |-> d]
    BY <1>3 DEF EditConfig
  <2>2. /\ used' \in [{"edit", "crash", "failure"} -> Nat]
        /\ used'["edit"] = used["edit"] + 1 /\ used'["edit"] <= MaxEdits
    BY <1>1, <1>3, PatroniAssumption DEF EditConfig, Spend, Limit, Globals
  <2>3. config'.rev = used'["edit"] + 1
    BY <1>1, <2>1, <2>2 DEF Globals
  <2>4. config' \in Configs
    BY <1>1, <2>1, <2>2, <2>3, PatroniAssumption DEF Globals, Configs
  <2>5. Globals' /\ Lists' /\ OnHosts'
    BY <1>1, <1>3, <2>2, <2>3, <2>4 DEF EditConfig, host, Globals, Lists, OnHosts, Active
  <2> QED
    BY <1>3, <2>5, PartsNext, SameNodes DEF EditConfig, host
<1> QED
  BY <1>2, <1>3

(* Another node becomes the leader.                                        *)
LEMMA ElectedStep ==
  ASSUME TypeInv, Inv, NEW n \in Nodes, Elected(n), PatroniStep(n)
  PROVE  TypeInv' /\ Inv'
<1>1. Globals /\ Lists /\ OnHosts
  BY Parts
<1>2. dcs' \in [init : BOOLEAN, leader : Nodes \cup {None}]
  BY <1>1 DEF Elected, OnHosts
<1>3. Globals' /\ Lists' /\ OnHosts'
  BY <1>1, <1>2 DEF Elected, PatroniStep, Globals, Lists, OnHosts, Active
<1> QED
  BY <1>3, PartsNext, SameNodes DEF Elected, PatroniStep

(* patronictl reload || true: what every running Patroni runs with may     *)
(* change, and nothing else of the unit.                                   *)
LEMMA ReloadTypes ==
  ASSUME OnHosts, patroni' = Reloaded \/ UNCHANGED patroni
  PROVE  /\ patroni' \in [Nodes -> PatroniType]
         /\ \A m \in Nodes :
              /\ patroni'[m].file = patroni[m].file /\ patroni'[m].dropin = patroni[m].dropin
              /\ patroni'[m].known = patroni[m].known
              /\ patroni'[m].enabled = patroni[m].enabled
              /\ patroni'[m].active = patroni[m].active
<1>1. CASE UNCHANGED patroni
  BY <1>1 DEF OnHosts
<1>2. CASE patroni' = Reloaded
  <2>1. ASSUME NEW m \in Nodes
        PROVE  LET r == [patroni[m] EXCEPT !.loaded = patroni[m].file] IN
               /\ r \in PatroniType
               /\ r.file = patroni[m].file /\ r.dropin = patroni[m].dropin
               /\ r.known = patroni[m].known
               /\ r.enabled = patroni[m].enabled /\ r.active = patroni[m].active
    BY DEF OnHosts, PatroniType
  <2>2. \A m \in Nodes : patroni[m] \in PatroniType
    BY DEF OnHosts
  <2> QED
    BY <1>2, <2>1, <2>2 DEF Reloaded
<1> QED
  BY <1>1, <1>2

(* The list comes to its end: the apply of node n succeeds. *)
LEMMA ReloadStep ==
  ASSUME TypeInv, Inv, NEW n \in Nodes, Reload(n)
  PROVE  TypeInv' /\ Inv'
<1> DEFINE o == [pc |-> "idle", conf |-> op[n].conf]
<1>1. Globals /\ Lists /\ OnHosts
  BY Parts
<1>2. op[n].pc = "reload" /\ op' = [op EXCEPT ![n] = o]
  BY <1>1, OpStep DEF Reload
<1>3. op[n] \in OpType /\ o \in OpType
  BY <1>1 DEF Lists, OpType, Places
<1>4. /\ op' \in [Nodes -> OpType] /\ op'[n] = o
      /\ \A m \in Nodes \ {n} : op'[m] = op[m]
  BY <1>1, <1>2, <1>3 DEF Lists
<1>5. /\ applied' \in [Nodes -> Configs \cup {None}]
      /\ UNCHANGED <<config, record, shells, unit, dir, dcs>>
      /\ events \subseteq events'
  BY <1>1, <1>3 DEF Reload, Record, Lists, OpType
<1>6. /\ patroni' \in [Nodes -> PatroniType]
      /\ \A m \in Nodes :
           /\ patroni'[m].file = patroni[m].file /\ patroni'[m].dropin = patroni[m].dropin
           /\ patroni'[m].known = patroni[m].known
           /\ patroni'[m].enabled = patroni[m].enabled /\ patroni'[m].active = patroni[m].active
  BY <1>1, ReloadTypes DEF Reload
<1>7. Globals'
  BY <1>1, <1>5, SpendTypes DEF Reload
<1>8. ASSUME NEW m \in Nodes PROVE op'[m].pc = "taking over" <=> shells'[m]["job"] # "none"
  <2>1. op[m].pc = "taking over" <=> shells[m]["job"] # "none"
    BY <1>1 DEF Lists, Active
  <2>2. CASE m = n
    BY <1>2, <1>4, <1>5, <2>1, <2>2
  <2>3. CASE m # n
    BY <1>4, <1>5, <2>1, <2>3
  <2> QED
    BY <2>2, <2>3
<1>9. Lists' /\ OnHosts'
  BY <1>1, <1>4, <1>5, <1>6, <1>8 DEF Lists, OnHosts, Active
<1>10. ASSUME NEW m \in Nodes PROVE (ListInv(m) /\ OwnerInv(m) /\ ShellInv(m))'
  <2>1. ListInv(m) /\ OwnerInv(m) /\ ShellInv(m)
    BY DEF Inv
  <2>2. op'[m] = op[m] \/ (op[m].pc = "reload" /\ op'[m].pc = "idle")
    BY <1>2, <1>4
  <2>3. op'[m].pc = op[m].pc => op'[m].conf = op[m].conf
    BY <1>2, <1>4
  <2>4. ListInv(m)'
    BY <1>5, <1>6, <2>1, <2>2, <2>3 DEF ListInv
  <2>5. OwnerInv(m)'
    BY <1>5, <1>6, <2>1, <2>2 DEF OwnerInv, Patronis
  <2>6. ShellInv(m)'
    BY <1>5, <1>6, <2>1, <2>2 DEF ShellInv, Active
  <2> QED
    BY <2>4, <2>5, <2>6
<1> QED
  BY <1>7, <1>9, <1>10, PartsNext DEF Inv

(* systemctl stop and disable: both succeed, or one of them fails.         *)
LEMMA ShellStopsStep ==
  ASSUME TypeInv, Inv, NEW n \in Nodes, NEW k \in Shells, ShellStops(n, k)
  PROVE  TypeInv' /\ Inv'
<1>1. CASE Handover(n) /\ UNCHANGED <<events, used>>
  BY <1>1, HandedOverStep
<1>2. CASE /\ Spend("failure") /\ Record(TRUE, "unit not stopped")
           /\ unit' \in {[unit EXCEPT ![n].enabled = FALSE], [unit EXCEPT ![n].active = FALSE]}
  <2>1. unit[n] \in UnitType /\ unit \in [Nodes -> UnitType]
    BY Parts DEF OnHosts, UnitType
  <2>2. /\ [unit[n] EXCEPT !.enabled = FALSE] \in UnitType
        /\ [unit[n] EXCEPT !.active = FALSE] \in UnitType
    BY <2>1 DEF UnitType
  <2>3. \/ unit' = [unit EXCEPT ![n] = [unit[n] EXCEPT !.enabled = FALSE]]
        \/ unit' = [unit EXCEPT ![n] = [unit[n] EXCEPT !.active = FALSE]]
    BY <1>2, <2>1
  <2>4. PICK v \in UnitType : unit' = [unit EXCEPT ![n] = v]
    BY <2>2, <2>3
  <2> QED
    BY <1>2, <2>4, NotStoppedStep
<1> QED
  BY <1>1, <1>2 DEF ShellStops

-----------------------------------------------------------------------------
(* Nothing runs and nothing was handed over at first. *)
LEMMA InvInit == Init => Inv
<1> SUFFICES ASSUME Init, NEW n \in Nodes PROVE ListInv(n) /\ OwnerInv(n) /\ ShellInv(n)
  BY DEF Inv
<1>1. /\ op[n].pc = "idle" /\ ~Active(n, "job") /\ ~Active(n, "orphan")
      /\ shells[n]["job"] = "none" /\ shells[n]["orphan"] = "none"
      /\ ~patroni[n].active /\ ~patroni[n].enabled
      /\ dir[n].kind = "packaged" /\ ~dir[n].cached
  BY DEF Init, Active, Shells
<1> QED
  BY <1>1 DEF ListInv, OwnerInv, Patronis, ShellInv, Shells

(* A command of the list of n. *)
LEMMA NodeStepKeeps ==
  ASSUME TypeInv, Inv, NEW n \in Nodes, NodeStep(n)
  PROVE  TypeInv' /\ Inv'
<1>1. CASE WriteConf(n)
  BY <1>1, WriteConfStep
<1>2. CASE DropIn(n)
  BY <1>2, WriteDropInStep, DaemonReloadStep DEF DropIn
<1>3. CASE TakeoverBegins(n)
  BY <1>3, TakeoverKeptStep, TakeoverBeginsStep
<1>4. CASE Enable(n)
  BY <1>4, EnableStep
<1>5. CASE Reload(n)
  BY <1>5, ReloadStep
<1>6. CASE ShellStops(n, "job")
  BY <1>6, ShellStopsStep DEF Shells
<1>7. CASE ShellWipes(n, "job")
  BY <1>7, JobWipesStep
<1> QED
  BY <1>1, <1>2, <1>3, <1>4, <1>5, <1>6, <1>7 DEF NodeStep

(* Every step keeps the invariant: one step per action. *)
LEMMA NextKeeps == TypeInv /\ Inv /\ [Next]_vars => TypeInv' /\ Inv'
<1> SUFFICES ASSUME TypeInv, Inv, [Next]_vars PROVE TypeInv' /\ Inv'
  OBVIOUS
<1>1. CASE UNCHANGED vars
  <2>1. TypeInv'
    BY <1>1 DEF vars, TypeInv, TypeOK, Active
  <2> QED
    BY <1>1, <2>1, SameNodes DEF vars
<1>2. CASE ApplyCluster \/ EditConfig
  BY <1>2, ClusterStep
<1>3. ASSUME NEW n \in Nodes, ApplyNode(n) PROVE TypeInv' /\ Inv'
  BY <1>3, ApplyNodeStep
<1>4. ASSUME NEW n \in Nodes, NodeStep(n) PROVE TypeInv' /\ Inv'
  BY <1>4, NodeStepKeeps
<1>5. ASSUME NEW n \in Nodes, CommandFails(n) PROVE TypeInv' /\ Inv'
  BY <1>5, CutUnit, CommandFailsStep
<1>6. ASSUME NEW n \in Nodes, TakeoverAbandoned(n) PROVE TypeInv' /\ Inv'
  <2>1. PICK pc \in {"idle", "takeover"} : op' = [op EXCEPT ![n].pc = pc]
    BY <1>6 DEF TakeoverAbandoned
  <2> QED
    BY <1>6, <2>1, TakeoverAbandonedStep
<1>7. ASSUME NEW n \in Nodes, ShellStops(n, "orphan") PROVE TypeInv' /\ Inv'
  BY <1>7, ShellStopsStep DEF Shells
<1>8. ASSUME NEW n \in Nodes, ShellWipes(n, "orphan") PROVE TypeInv' /\ Inv'
  BY <1>8, OrphanWipesStep
<1>9. ASSUME NEW n \in Nodes, PatroniStep(n) PROVE TypeInv' /\ Inv'
  BY <1>9, BootstrapStep, CopyLeaderStep, CacheWrittenStep, ElectedStep DEF PatroniStep
<1>10. ASSUME NEW n \in Nodes, Reboot(n) PROVE TypeInv' /\ Inv'
  BY <1>10, RebootStep
<1>11. ASSUME NEW n \in Nodes, PatroniDies(n) PROVE TypeInv' /\ Inv'
  BY <1>11, PatroniDiesStep
<1> QED
  BY <1>1, <1>2, <1>3, <1>4, <1>5, <1>6, <1>7, <1>8, <1>9, <1>10, <1>11 DEF Next

(* The inductive invariant holds in every reachable state. *)
LEMMA Invariant == Spec => [](TypeInv /\ Inv)
<1>1. Init => TypeInv /\ Inv
  BY TypeInit, InvInit
<1> QED
  BY <1>1, NextKeeps, PTL DEF Spec
-----------------------------------------------------------------------------
(* Every variable keeps its type, and a takeover is waited for exactly     *)
(* while its shell runs: the commands of ApplyNode and RunCommands.        *)
THEOREM TypeCorrect == Spec => []TypeOK
<1>1. TypeInv => TypeOK
  BY DEF TypeInv
<1> QED
  BY <1>1, Invariant, PTL

(* The packaged unit and Patroni never run a server each in one datadir,   *)
(* however many nodes are applied, rebooted and abandoned, unless stopping *)
(* or disabling the unit failed: patroniTakeoverCommand.                   *)
THEOREM OneOwnerAlways == Spec => []OneOwner
<1>1. TypeInv /\ Inv => OneOwner
  <2> SUFFICES ASSUME TypeInv, Inv, NEW n \in Nodes, unit[n].active, patroni[n].active,
                      "unit not stopped" \notin events
               PROVE  FALSE
    BY DEF OneOwner
  <2>1. ListInv(n) /\ OwnerInv(n)
    BY DEF Inv
  <2>2. patroni[n].enabled
    BY <2>1 DEF ListInv
  <2> QED
    BY <2>1, <2>2 DEF OwnerInv, Patronis
<1> QED
  BY <1>1, Invariant, PTL

(* What Patroni keeps in a datadir is wiped only by an apply that found it *)
(* started with patroni.dynamic.json not yet written, or by an abandoned   *)
(* takeover: the test of patroniTakeoverCommand.                           *)
THEOREM DataKept == Spec => PatroniDataKept
<1>1. TypeInv /\ Inv /\ [Next]_vars
        => [\A n \in Nodes : Wiped(n) /\ dir[n].kind = "data"
              => events \cap {"applied before the file", "overlap"} # {}]_vars
  <2> SUFFICES ASSUME Inv, NEW n \in Nodes, Wiped(n), dir[n].kind = "data",
                      "applied before the file" \notin events, "overlap" \notin events
               PROVE  FALSE
    OBVIOUS
  <2>1. ShellInv(n)
    BY DEF Inv
  <2>2. PICK s \in Shells : shells[n][s] = "wipe"
    BY DEF Wiped
  <2> QED
    BY <2>1, <2>2 DEF ShellInv, Active
<1> QED
  BY <1>1, Invariant, PTL DEF Spec, PatroniDataKept

(* The list of a node ends with success only when its Patroni runs with    *)
(* the configuration the list wrote, unless the reload was ignored or it   *)
(* ended at once: whatever a failed apply left cut is written again, and a *)
(* drop-in loaded before enable --now makes systemd start it.              *)
THEOREM SuccessMeansRunning == Spec => SuccessIsRunningConf
<1>1. TypeInv /\ Inv /\ [Next]_vars
        => [\A n \in Nodes :
              op[n].pc = "reload" /\ op'[n].pc = "idle" /\ applied'[n] # applied[n]
              => \/ patroni'[n].active /\ patroni'[n].loaded = op[n].conf
                 \/ events' \cap {"reload ignored", "died unnoticed"} # {}]_vars
  <2> SUFFICES ASSUME TypeInv, Inv, [Next]_vars, NEW n \in Nodes,
                      op[n].pc = "reload", applied'[n] # applied[n],
                      events' \cap {"reload ignored", "died unnoticed"} = {}
               PROVE  patroni'[n].active /\ patroni'[n].loaded = op[n].conf
    OBVIOUS
  <2>1. PICK m \in Nodes : Reload(m)
    BY DEF Next, vars, host, ApplyCluster, EditConfig, ApplyNode, NodeStep, WriteConf, DropIn,
           TakeoverBegins, Enable, ShellStops, ShellWipes, CommandFails, TakeoverAbandoned,
           PatroniStep, PatroniDies, Reboot
  <2>2. ListInv(n) /\ Lists /\ OnHosts
    BY Parts DEF Inv
  <2>3. patroni' = Reloaded
    BY <2>1 DEF Reload, Record
  <2>4. "died unnoticed" \notin events
    BY <2>1 DEF Reload, Record
  <2>5. patroni[n].active /\ patroni[n].file = op[n].conf /\ Usable(patroni[n].file)
    BY <2>2, <2>4, ConfigFiles DEF ListInv, Usable
  <2>6. patroni[n] \in PatroniType
    BY <2>2 DEF OnHosts
  <2>7. patroni'[n] = [patroni[n] EXCEPT !.loaded = patroni[n].file]
    BY <2>3, <2>5 DEF Reloaded
  <2>8. patroni'[n].active /\ patroni'[n].loaded = patroni[n].file
    BY <2>5, <2>6, <2>7 DEF PatroniType
  <2> QED
    BY <2>5, <2>8
<1> QED
  BY <1>1, Invariant, PTL DEF Spec, SuccessIsRunningConf
=============================================================================
