--------------------------- MODULE RepmgrHA_proofs ---------------------------
(***************************************************************************)
(* Proofs about StreamingHA and RepmgrHA, for any nodes, any clusters that *)
(* may be declared, any prefixes among the host names and any bounds of    *)
(* the environment.  One inductive invariant carries all of them: which    *)
(* node a command list or a clone shell may be at work on, what a datadir  *)
(* says of the primary it follows, and what a clone may still wipe.        *)
(***************************************************************************)
EXTENDS RepmgrHA, TLAPS

OpType == [pc : {"idle", "stop", "clone", "cloning", "start", "register", "daemon"},
           target : Nodes \cup {None}]
ShellsType == [Shells -> [stage : {"none", "wipe", "copy"}, target : Nodes \cup {None}]]
DirType == [kind : {"cluster", "fresh", "empty", "partial"}, signal : BOOLEAN,
            follow : Nodes \cup {None}, hosts : SUBSET Hosts]

(* TypeOK without its last conjunct, which is part of Local. *)
Declared == /\ cluster \in Clusters
            /\ primary \in cluster.nodes \ Witnesses /\ acting \in cluster.nodes
            /\ used \in [Bounded -> Nat]
OnNodes == /\ applied \in [Nodes -> Nodes \cup {None}]
           /\ op \in [Nodes -> OpType]
           /\ shells \in [Nodes -> ShellsType]
           /\ dir \in [Nodes -> DirType]
           /\ up \in [Nodes -> BOOLEAN]
           /\ prepared \in [Nodes -> BOOLEAN]

(* The list and the shells of n belong together: the provider waits for    *)
(* the job, an orphan beside a list in progress is an overlap, and what    *)
(* they were built for is a node.                                          *)
ListInv(n) == /\ op[n].pc = "cloning" <=> Active(n, "job")
              /\ op[n].pc # "idle" => op[n].target \in Nodes
              /\ \A s \in Shells : Active(n, s) => shells[n][s].target \in Nodes
              /\ Active(n, "orphan") /\ op[n].pc \notin {"idle", "clone"}
                   => "overlap" \in events

(* The line of the primary a datadir follows is in it, which is what the   *)
(* guard looks for; so a wipe that is due does not hit a standby of it.    *)
DirInv(n) == /\ dir[n].follow # None => dir[n].follow \in dir[n].hosts
             /\ \A s \in Shells :
                  shells[n][s].stage = "wipe" /\ IsStandbyOf(n, shells[n][s].target)
                    => events \cap {"overlap", "repointed meanwhile"} # {}

(* A registered node is still what repmgr registered, or the history tells. *)
DaemonInv(n) == Repmgr /\ op[n].pc = "daemon" =>
                  \/ up[n] /\ dir[n].kind = "cluster" /\ dir[n].signal
                  \/ events \cap {"overlap", "promoted meanwhile"} # {}

(* Nothing is at work on the declared primary, and it has the data.        *)
PrimaryInv == /\ op[primary].pc = "idle"
              /\ "overlap" \notin events =>
                     dir[primary].kind = "cluster" /\ ~Active(primary, "orphan")

(* Nothing is at work on the acting primary. *)
ActingInv == events \cap {"stale declaration", "promoted meanwhile"} = {} =>
               op[acting].pc = "idle" /\ ~Active(acting, "orphan")

(* As long as nothing has happened, everything is about the one primary:   *)
(* what has its line or its data is its standby, and no other line looks   *)
(* like its own.                                                           *)
QuietNode(n) ==
    /\ op[n].pc # "idle" => op[n].target = primary
    /\ \A s \in Shells : Active(n, s) => shells[n][s].target = primary
    /\ dir[n].kind = "cluster" /\ n # primary => IsStandbyOf(n, primary)
    /\ primary \in dir[n].hosts => IsStandbyOf(n, primary)
    /\ \A h \in dir[n].hosts : h = primary \/ <<primary, h>> \notin HostPrefix
    /\ op[n].pc \in {"start", "register", "daemon"} => IsStandbyOf(n, primary)
QuietInv == events = {} => /\ acting = primary
                           /\ dir[primary] = Dir("cluster", FALSE, None, {})
                           /\ \A n \in Nodes : QuietNode(n)

Local(n) == ListInv(n) /\ DirInv(n) /\ DaemonInv(n)
Inv == /\ Declared /\ OnNodes
       /\ \A n \in Nodes : Local(n)
       /\ PrimaryInv /\ ActingInv /\ QuietInv

(* The invariant implies the types. *)
LEMMA InvTypes == Inv => TypeOK
  BY DEF Inv, Declared, OnNodes, Local, ListInv, TypeOK, OpType, ShellsType, DirType

(* The nodes of a declared cluster are nodes. *)
LEMMA ClusterNodes ==
  ASSUME Declared
  PROVE  /\ cluster.nodes \subseteq Nodes /\ cluster.old \subseteq OldHosts
         /\ primary \in Nodes /\ acting \in Nodes
  BY StreamingAssumption DEF Declared

-----------------------------------------------------------------------------
(* Steps that happen at one node. *)
OthersKeep(n) == \A m \in Nodes \ {n} :
    /\ op'[m] = op[m] /\ shells'[m] = shells[m] /\ dir'[m] = dir[m] /\ up'[m] = up[m]
Frame(n) == /\ UNCHANGED <<cluster, primary>>
            /\ events \subseteq events' /\ OthersKeep(n)

(* What has to be shown of a step at node n, one part for each invariant.  *)
PrimaryAt(n) == n = primary =>
    /\ op'[n].pc = "idle"
    /\ "overlap" \notin events' =>
         dir'[n].kind = "cluster" /\ shells'[n]["orphan"].stage = "none"
ActingAt(n) == n = acting /\ events' \cap {"stale declaration", "promoted meanwhile"} = {} =>
    op'[n].pc = "idle" /\ shells'[n]["orphan"].stage = "none"
QuietAt(n) == events' = {} => (n = primary => dir'[n] = dir[n]) /\ QuietNode(n)'

(* The other nodes keep their invariants. *)
LEMMA LocalOthers ==
  ASSUME Inv, NEW n \in Nodes, Frame(n), NEW m \in Nodes \ {n}
  PROVE  Local(m)'
<1> USE DEF Frame, OthersKeep
<1>1. ListInv(m)'
  BY DEF Inv, Local, ListInv, Active
<1>2. DirInv(m)'
  <2>1. DirInv(m) /\ dir'[m] = dir[m] /\ shells'[m] = shells[m] /\ events \subseteq events'
    BY DEF Inv, Local
  <2> QED
    BY <2>1 DEF DirInv, IsStandbyOf
<1>3. DaemonInv(m)'
  BY DEF Inv, Local, DaemonInv, Repmgr
<1> QED
  BY <1>1, <1>2, <1>3 DEF Local

(* So a step at one node is about that node alone. *)
LEMMA AtNode ==
  ASSUME Inv, NEW n \in Nodes, Frame(n), acting' = acting, used' \in [Bounded -> Nat], OnNodes',
         Local(n)', PrimaryAt(n), ActingAt(n), QuietAt(n)
  PROVE  Inv'
<1>1. Declared'
  BY DEF Inv, Declared, Frame
<1>2. \A m \in Nodes : Local(m)'
  BY LocalOthers
<1>3. primary \in Nodes /\ acting \in Nodes
  BY ClusterNodes DEF Inv
<1>4. PrimaryInv'
  BY <1>3 DEF Inv, PrimaryInv, PrimaryAt, Frame, OthersKeep, Active
<1>5. ActingInv'
  BY <1>3 DEF Inv, ActingInv, ActingAt, Frame, OthersKeep, Active
<1>6. ASSUME events' = {} PROVE QuietInv'
  <2>1. events = {}
    BY <1>6 DEF Frame
  <2>2. \A m \in Nodes : QuietNode(m)'
    BY <1>6, <2>1
       DEF Inv, QuietInv, QuietAt, QuietNode, Frame, OthersKeep, Active, IsStandbyOf
  <2>3. dir'[primary] = Dir("cluster", FALSE, None, {})
    BY <1>3, <1>6, <2>1 DEF Inv, QuietInv, QuietAt, Frame, OthersKeep
  <2> QED
    BY <2>1, <2>2, <2>3 DEF Inv, QuietInv, Frame, Dir
<1> QED
  BY <1>1, <1>2, <1>4, <1>5, <1>6 DEF Inv, QuietInv

(* The counters and the places keep their types. *)
LEMMA SpendTypes ==
  ASSUME Declared, UNCHANGED used \/ \E what \in Bounded : Spend(what)
  PROVE  used' \in [Bounded -> Nat]
<1>1. CASE UNCHANGED used
  BY <1>1 DEF Declared
<1>2. ASSUME NEW what \in Bounded, Spend(what) PROVE used' \in [Bounded -> Nat]
  <2>1. used \in [Bounded -> Nat] /\ used' = [used EXCEPT ![what] = used[what] + 1]
    BY <1>2 DEF Declared, Spend
  <2>2. used[what] + 1 \in Nat
    BY <2>1
  <2> HIDE <1>2
  <2> QED
    BY <2>1, <2>2
<1> QED
  BY <1>1, <1>2

(* A place in the list is set. *)
LEMMA OpSet ==
  ASSUME OnNodes, NEW n \in Nodes,
         NEW pc \in {"idle", "stop", "clone", "cloning", "start", "register", "daemon"},
         op' = [op EXCEPT ![n].pc = pc]
  PROVE  /\ op' \in [Nodes -> OpType]
         /\ op'[n].pc = pc /\ op'[n].target = op[n].target
         /\ \A m \in Nodes \ {n} : op'[m] = op[m]
<1>1. op \in [Nodes -> OpType] /\ op[n] \in OpType
  BY DEF OnNodes
<1>2. [op[n] EXCEPT !.pc = pc] = [pc |-> pc, target |-> op[n].target]
  BY <1>1 DEF OpType
<1>3. op' = [op EXCEPT ![n] = [pc |-> pc, target |-> op[n].target]]
  BY <1>1, <1>2
<1>4. [pc |-> pc, target |-> op[n].target] \in OpType
  BY <1>1 DEF OpType
<1> QED
  BY <1>1, <1>3, <1>4

(* The shell s of n becomes x. *)
ShellBecomes(n, s, x) == shells' = [shells EXCEPT ![n][s] = x]

(* One shell is written, the others are kept. *)
LEMMA ShellSet ==
  ASSUME OnNodes, NEW n \in Nodes, NEW s \in Shells,
         NEW x \in [stage : {"none", "wipe", "copy"}, target : Nodes \cup {None}],
         ShellBecomes(n, s, x)
  PROVE  /\ shells' \in [Nodes -> ShellsType] /\ shells'[n][s] = x
         /\ \A z \in Shells \ {s} : shells'[n][z] = shells[n][z]
         /\ \A m \in Nodes \ {n} : shells'[m] = shells[m]
<1>1. shells \in [Nodes -> ShellsType] /\ shells[n] \in ShellsType
  BY DEF OnNodes
<1>2. [shells[n] EXCEPT ![s] = x] \in ShellsType
  BY <1>1 DEF ShellsType
<1>3. shells' = [shells EXCEPT ![n] = [shells[n] EXCEPT ![s] = x]]
  BY <1>1 DEF ShellBecomes
<1>4. shells' \in [Nodes -> ShellsType] /\ shells'[n] = [shells[n] EXCEPT ![s] = x]
  BY <1>1, <1>2, <1>3
<1> QED
  BY <1>1, <1>3, <1>4 DEF ShellsType

(* The same, when the shell has ended. *)
LEMMA ShellEnded ==
  ASSUME OnNodes, NEW n \in Nodes, NEW s \in Shells, ShellBecomes(n, s, NoShell)
  PROVE  /\ shells' \in [Nodes -> ShellsType] /\ shells'[n][s].stage = "none"
         /\ \A z \in Shells \ {s} : shells'[n][z] = shells[n][z]
         /\ \A m \in Nodes \ {n} : shells'[m] = shells[m]
<1>1. /\ NoShell \in [stage : {"none", "wipe", "copy"}, target : Nodes \cup {None}]
      /\ NoShell.stage = "none"
  BY DEF NoShell
<1> QED
  BY <1>1, ShellSet

(* The wipe is done: the copy is the next stage of the shell. *)
LEMMA StageSet ==
  ASSUME OnNodes, NEW n \in Nodes, NEW s \in Shells,
         shells' = [shells EXCEPT ![n][s].stage = "copy"]
  PROVE  shells' = [shells EXCEPT ![n][s] = [stage |-> "copy", target |-> shells[n][s].target]]
<1>1. /\ shells \in [Nodes -> ShellsType] /\ shells[n] \in ShellsType
      /\ shells[n][s] \in [stage : {"none", "wipe", "copy"}, target : Nodes \cup {None}]
  BY DEF OnNodes, ShellsType
<1>2. [shells[n][s] EXCEPT !.stage = "copy"]
        = [stage |-> "copy", target |-> shells[n][s].target]
  BY <1>1
<1> QED
  BY <1>1, <1>2

(* A copy, whole or partial, is a datadir. *)
LEMMA CopyTypes ==
  ASSUME Declared, OnNodes, NEW p \in Nodes
  PROVE  Clone(p) \in DirType /\ Partials(p) \subseteq DirType
<1>1. dir[p] \in DirType /\ p \in Hosts
  BY DEF OnNodes, Hosts
<1>2. HostLines(p) \in SUBSET Hosts /\ dir[p].hosts \in SUBSET Hosts
  BY <1>1 DEF HostLines, DirType
<1>3. Clone(p) \in DirType
  BY <1>1, <1>2 DEF Clone, Dir, DirType
<1>4. Partials(p) \subseteq DirType
  BY <1>2 DEF Partials, Dir, DirType
<1> QED
  BY <1>3, <1>4

(* A datadir of a standby that is promoted, or made to follow another node. *)
Promoted(d) == [d EXCEPT !.signal = FALSE]
Following(d, a) == [d EXCEPT !.follow = a, !.hosts = {a}]

(* Both are datadirs again, with the other fields kept. *)
LEMMA DirEdits ==
  ASSUME NEW d \in DirType, NEW a \in Nodes
  PROVE  /\ Promoted(d) \in DirType
         /\ Promoted(d).kind = d.kind
         /\ ~Promoted(d).signal
         /\ Promoted(d).follow = d.follow
         /\ Promoted(d).hosts = d.hosts
         /\ Following(d, a) \in DirType
         /\ Following(d, a).kind = d.kind
         /\ (Following(d, a).signal <=> d.signal)
         /\ Following(d, a).follow = a
         /\ Following(d, a).hosts = {a}
<1>1. {a} \in SUBSET Hosts
  BY DEF Hosts
<1>2. Promoted(d) \in DirType
  BY DEF DirType, Promoted
<1>3. Following(d, a) \in DirType
  BY <1>1 DEF DirType, Following
<1> QED
  BY <1>2, <1>3 DEF DirType, Promoted, Following

(* A step that leaves the lists, the shells and the datadirs, and stops no server. *)
LEMMA Elsewhere ==
  ASSUME Inv, UNCHANGED <<cluster, primary, acting, op, shells, dir, events>>,
         up' \in [Nodes -> BOOLEAN], \A n \in Nodes : up[n] => up'[n],
         applied' \in [Nodes -> Nodes \cup {None}], prepared' \in [Nodes -> BOOLEAN],
         used' \in [Bounded -> Nat]
  PROVE  Inv'
<1>1. Declared' /\ OnNodes'
  BY DEF Inv, Declared, OnNodes
<1>2. ASSUME NEW n \in Nodes PROVE Local(n)'
  BY DEF Inv, Local, ListInv, DirInv, DaemonInv, Active, IsStandbyOf, Repmgr
<1>3. PrimaryInv' /\ ActingInv'
  BY DEF Inv, PrimaryInv, ActingInv, Active
<1>4. QuietInv'
  BY DEF Inv, QuietInv, QuietNode, Active, IsStandbyOf, Dir
<1> QED
  BY <1>1, <1>2, <1>3, <1>4 DEF Inv

(* Who is cloned: not the primary, and not the acting one, unless the      *)
(* history tells; and its list is not past the clone.                      *)
LEMMA WhoIsCloned ==
  ASSUME Inv, NEW n \in Nodes, NEW s \in Shells, Active(n, s)
  PROVE  /\ "overlap" \notin events => n # primary /\ op[n].pc \in {"idle", "clone", "cloning"}
         /\ n = acting => events \cap {"stale declaration", "promoted meanwhile"} # {}
         /\ s = "job" => op[n].pc = "cloning"
         /\ n = primary => s = "orphan" /\ op[n].pc = "idle"
         /\ shells[n][s].target \in Nodes
  BY DEF Inv, Local, ListInv, PrimaryInv, ActingInv, Shells

-----------------------------------------------------------------------------
(* One lemma per action: what it writes at its node, and each part of the  *)
(* invariant there.                                                        *)

(* A replica is applied: the overlap and the stale declaration are recorded. *)
LEMMA StandbyCommandsStep ==
  ASSUME Inv, NEW n \in cluster.nodes, StandbyCommands(n), n \in Replicas
  PROVE  Inv'
<1>1. /\ Declared /\ OnNodes /\ n \in Nodes /\ primary \in Nodes
      /\ ListInv(n) /\ DirInv(n) /\ DaemonInv(n) /\ PrimaryInv /\ ActingInv /\ QuietInv
      /\ QuietInv => (events = {} => QuietNode(n))
  BY ClusterNodes DEF Inv, Local, QuietInv
<1>2. Frame(n)
  BY <1>1 DEF Frame, OthersKeep, OnNodes, Record, Spend, StandbyCommands, Replicas
<1>3. /\ op'[n].pc = "stop" /\ op'[n].target = primary
      /\ shells'[n] = shells[n]
      /\ dir'[n] = dir[n]
      /\ op[n].pc = "idle"
      /\ n # primary
      /\ up' = up
  BY <1>1 DEF OnNodes, OpType, ShellsType, Shells, StandbyCommands, Replicas
<1>4. OnNodes'
  BY <1>1, <1>2, StreamingAssumption
     DEF OnNodes, OpType, ShellsType, DirType, Shells, StandbyCommands, Replicas
<1>5. used' \in [Bounded -> Nat]
  BY <1>1 DEF Declared, Spend, StandbyCommands, Replicas
<1>6. ListInv(n)'
  BY <1>1, <1>3 DEF ListInv, Active, Shells, Record, StandbyCommands, Replicas
<1>7. DirInv(n)'
  BY <1>1, <1>3 DEF DirInv, IsStandbyOf, Shells, Record, StandbyCommands, Replicas
<1>8. DaemonInv(n)'
  BY <1>1, <1>3 DEF DaemonInv, Repmgr, StandbyCommands, Replicas
<1>9. PrimaryAt(n) /\ ActingAt(n)
  BY <1>1, <1>3
     DEF PrimaryAt, ActingAt, PrimaryInv, ActingInv, ListInv, Active, StandbyCommands,
         Replicas
<1>10. QuietAt(n)
  BY <1>1, <1>3
     DEF QuietAt, QuietNode, QuietInv, PrimaryInv, ListInv, IsStandbyOf, Active, Record,
         StandbyCommands, Replicas
<1>11. acting' = acting
  BY DEF StandbyCommands, Replicas
<1> QED
  BY <1>1, <1>2, <1>11, <1>4, <1>5, <1>6, <1>7, <1>8, <1>9, <1>10, AtNode DEF Local

(* The clone goes on as an orphan. *)
LEMMA CloneAbandonedStep ==
  ASSUME Inv, NEW n \in cluster.nodes, CloneAbandoned(n)
  PROVE  Inv'
<1>1. /\ Declared /\ OnNodes /\ n \in Nodes /\ primary \in Nodes
      /\ ListInv(n) /\ DirInv(n) /\ DaemonInv(n) /\ PrimaryInv /\ ActingInv /\ QuietInv
      /\ QuietInv => (events = {} => QuietNode(n))
  BY ClusterNodes DEF Inv, Local, QuietInv
<1>2. Frame(n)
  BY <1>1 DEF Frame, OthersKeep, OnNodes, Record, Spend, CloneAbandoned
<1>3. /\ op[n].pc = "cloning" /\ shells[n]["orphan"].stage = "none"
      /\ op'[n].pc \in {"idle", "clone"} /\ op'[n].target = op[n].target
      /\ shells'[n] = [job |-> NoShell, orphan |-> shells[n]["job"]]
      /\ shells'[n]["job"].stage = "none" /\ shells'[n]["orphan"] = shells[n]["job"]
      /\ dir'[n] = dir[n]
      /\ events' = events
  <2>1. /\ op' \in [Nodes -> OpType] /\ op'[n].pc \in {"idle", "clone"}
        /\ op'[n].target = op[n].target
    BY <1>1, OpSet DEF CloneAbandoned
  <2>2. shells'[n] = [job |-> NoShell, orphan |-> shells[n]["job"]]
    BY <1>1 DEF OnNodes, CloneAbandoned
  <2>3. shells'[n]["job"] = NoShell /\ shells'[n]["orphan"] = shells[n]["job"]
    BY <2>2
  <2> QED
    BY <1>1, <2>1, <2>2, <2>3 DEF CloneAbandoned, Active, NoShell
<1>4. OnNodes'
  <2>1. op' \in [Nodes -> OpType]
    BY <1>1, OpSet DEF CloneAbandoned
  <2>2. shells' \in [Nodes -> ShellsType]
    BY <1>1, <1>3, <1>2 DEF OnNodes, ShellsType, Shells, NoShell, CloneAbandoned
  <2>3. dir' \in [Nodes -> DirType]
    BY <1>1 DEF OnNodes, CloneAbandoned
  <2>4. /\ applied' \in [Nodes -> Nodes \cup {None}]
        /\ up' \in [Nodes -> BOOLEAN] /\ prepared' \in [Nodes -> BOOLEAN]
    BY <1>1 DEF OnNodes, OpType, CloneAbandoned
  <2> QED
    BY <2>1, <2>2, <2>3, <2>4 DEF OnNodes
<1>5. used' \in [Bounded -> Nat]
  BY <1>1, SpendTypes DEF Bounded, CloneAbandoned
<1>6. ListInv(n)'
  BY <1>1, <1>3 DEF ListInv, Active, Shells, Record, CloneAbandoned
<1>7. DirInv(n)'
  <2>1. shells[n]["job"].stage = "wipe" /\ IsStandbyOf(n, shells[n]["job"].target)
          => events \cap {"overlap", "repointed meanwhile"} # {}
    BY <1>1 DEF DirInv, Shells
  <2> QED
    BY <1>1, <1>3, <2>1 DEF DirInv, IsStandbyOf, Shells
<1>8. DaemonInv(n)'
  BY <1>1, <1>3 DEF DaemonInv, Repmgr, CloneAbandoned
<1>9. PrimaryAt(n) /\ ActingAt(n)
  BY <1>1, <1>3
     DEF PrimaryAt, ActingAt, PrimaryInv, ActingInv, ListInv, Active, CloneAbandoned
<1>10. QuietAt(n)
  <2>1. ASSUME events = {} PROVE QuietNode(n) /\ n # primary
    BY <1>1, <1>3, <2>1 DEF PrimaryInv
  <2>2. ASSUME events' = {} PROVE QuietNode(n)' /\ n # primary
    <3>1. events = {} /\ QuietNode(n) /\ n # primary /\ primary' = primary
      BY <1>2, <2>1, <2>2 DEF Frame
    <3>2. \A z \in Shells : Active(n, z)' => shells'[n][z].target = primary
      BY <1>3, <3>1 DEF QuietNode, Active, Shells
    <3>3. dir'[n].kind = "cluster" => IsStandbyOf(n, primary)'
      BY <1>3, <3>1 DEF QuietNode, IsStandbyOf, Shells
    <3>4. primary \in dir'[n].hosts => IsStandbyOf(n, primary)'
      BY <1>3, <3>1 DEF QuietNode, IsStandbyOf, Shells
    <3>5. \A h \in dir'[n].hosts : h = primary \/ <<primary, h>> \notin HostPrefix
      BY <1>3, <3>1 DEF QuietNode
    <3>6. /\ op'[n].pc # "idle" => op'[n].target = primary
          /\ op'[n].pc \in {"start", "register", "daemon"} => IsStandbyOf(n, primary)'
      BY <1>1, <1>3, <3>1 DEF QuietNode, IsStandbyOf
    <3> QED
      BY <3>1, <3>2, <3>3, <3>4, <3>5, <3>6 DEF QuietNode
  <2> QED
    BY <2>2 DEF QuietAt
<1>11. acting' = acting
  BY DEF CloneAbandoned
<1> QED
  BY <1>1, <1>2, <1>11, <1>4, <1>5, <1>6, <1>7, <1>8, <1>9, <1>10, AtNode DEF Local

(* The clone shell empties the datadir. *)
LEMMA WipeStep ==
  ASSUME Inv, NEW n \in cluster.nodes, NEW s \in Shells, Wipe(n, s)
  PROVE  Inv'
<1>0. /\ "overlap" \notin events => n # primary /\ op[n].pc \in {"idle", "clone", "cloning"}
      /\ n = acting => events \cap {"stale declaration", "promoted meanwhile"} # {}
      /\ s = "job" => op[n].pc = "cloning"
      /\ n = primary => s = "orphan" /\ op[n].pc = "idle"
      /\ shells[n][s].target \in Nodes
  BY WhoIsCloned, ClusterNodes DEF Wipe, Active, Inv
<1>1. /\ Declared /\ OnNodes /\ n \in Nodes /\ primary \in Nodes
      /\ ListInv(n) /\ DirInv(n) /\ DaemonInv(n) /\ PrimaryInv /\ ActingInv /\ QuietInv
      /\ QuietInv => (events = {} => QuietNode(n))
  BY ClusterNodes DEF Inv, Local, QuietInv
<1>2. Frame(n)
  BY <1>1 DEF Frame, OthersKeep, OnNodes, Record, Spend, Wipe, Empty, Dir
<1>3. /\ op'[n].pc = op[n].pc /\ op'[n].target = op[n].target
      /\ shells[n][s].stage = "wipe"
      /\ shells'[n][s].stage = "copy" /\ shells'[n][s].target = shells[n][s].target
      /\ \A z \in Shells \ {s} : shells'[n][z] = shells[n][z]
      /\ events' = events
      /\ dir'[n] = Empty
      /\ dir'[n].kind = "empty" /\ dir'[n].follow = None /\ dir'[n].hosts = {}
  BY <1>1 DEF OnNodes, OpType, ShellsType, Shells, Wipe, Empty, Dir
<1>4. OnNodes'
  <2>1. op' \in [Nodes -> OpType]
    BY <1>1 DEF OnNodes, Wipe, Empty, Dir
  <2>2. shells' \in [Nodes -> ShellsType]
    <3>1. shells[n][s] \in [stage : {"none", "wipe", "copy"}, target : Nodes \cup {None}]
      BY <1>1 DEF OnNodes, ShellsType
    <3>2. shells' = [shells EXCEPT ![n][s] = [stage |-> "copy", target |-> shells[n][s].target]]
      BY <1>1, StageSet DEF Wipe
    <3> QED
      BY <1>1, <3>1, <3>2, ShellSet DEF ShellBecomes
  <2>3. dir' \in [Nodes -> DirType]
    BY <1>1 DEF OnNodes, DirType, Wipe, Empty, Dir
  <2>4. /\ applied' \in [Nodes -> Nodes \cup {None}]
        /\ up' \in [Nodes -> BOOLEAN] /\ prepared' \in [Nodes -> BOOLEAN]
    BY <1>1 DEF OnNodes, OpType, Wipe, Empty, Dir
  <2> QED
    BY <2>1, <2>2, <2>3, <2>4 DEF OnNodes
<1>5. used' \in [Bounded -> Nat]
  BY <1>1 DEF Declared, Spend, Wipe, Empty, Dir
<1>6. ListInv(n)'
  BY <1>1, <1>3 DEF ListInv, Active, Shells, Record, Wipe, Empty, Dir
<1>7. DirInv(n)'
  BY <1>1, <1>3 DEF DirInv, IsStandbyOf, Shells, Record, Wipe, Empty, Dir
<1>8. DaemonInv(n)'
  BY <1>1, <1>2, <1>3, <1>0 DEF PrimaryAt, ActingAt, DaemonInv, Repmgr, Frame
<1>9. PrimaryAt(n) /\ ActingAt(n)
  BY <1>1, <1>2, <1>3, <1>0 DEF PrimaryAt, ActingAt, DaemonInv, Repmgr, Frame
<1>10. QuietAt(n)
  <2>1. ASSUME events = {} PROVE QuietNode(n) /\ n # primary
    BY <1>0, <1>1, <2>1
  <2>2. ASSUME events' = {} PROVE QuietNode(n)' /\ n # primary
    <3>1. events = {} /\ QuietNode(n) /\ n # primary /\ primary' = primary
      BY <1>2, <2>1, <2>2 DEF Frame
    <3>2. \A z \in Shells : Active(n, z)' => shells'[n][z].target = primary
      BY <1>3, <3>1 DEF QuietNode, Active, Shells
    <3>3. dir'[n].kind = "cluster" => IsStandbyOf(n, primary)'
      BY <1>3, <3>1 DEF QuietNode, IsStandbyOf, Shells
    <3>4. primary \in dir'[n].hosts => IsStandbyOf(n, primary)'
      BY <1>3, <3>1 DEF QuietNode, IsStandbyOf, Shells
    <3>5. \A h \in dir'[n].hosts : h = primary \/ <<primary, h>> \notin HostPrefix
      BY <1>3, <3>1 DEF QuietNode
    <3>6. /\ op'[n].pc # "idle" => op'[n].target = primary
          /\ op'[n].pc \in {"start", "register", "daemon"} => IsStandbyOf(n, primary)'
      BY <1>0, <1>1, <1>3, <3>1 DEF QuietNode, IsStandbyOf
    <3> QED
      BY <3>1, <3>2, <3>3, <3>4, <3>5, <3>6 DEF QuietNode
  <2> QED
    BY <2>2 DEF QuietAt
<1>11. acting' = acting
  BY DEF Wipe, Empty, Dir
<1> QED
  BY <1>1, <1>2, <1>11, <1>4, <1>5, <1>6, <1>7, <1>8, <1>9, <1>10, AtNode DEF Local

(* The copy fails and is removed. *)
LEMMA CopyFailsStep ==
  ASSUME Inv, NEW n \in cluster.nodes, NEW s \in Shells, CopyFails(n, s)
  PROVE  Inv'
<1>0. /\ "overlap" \notin events => n # primary /\ op[n].pc \in {"idle", "clone", "cloning"}
      /\ n = acting => events \cap {"stale declaration", "promoted meanwhile"} # {}
      /\ s = "job" => op[n].pc = "cloning"
      /\ n = primary => s = "orphan" /\ op[n].pc = "idle"
      /\ shells[n][s].target \in Nodes
  BY WhoIsCloned, ClusterNodes DEF CopyFails, Active, Inv
<1>1. /\ Declared /\ OnNodes /\ n \in Nodes /\ primary \in Nodes
      /\ ListInv(n) /\ DirInv(n) /\ DaemonInv(n) /\ PrimaryInv /\ ActingInv /\ QuietInv
      /\ QuietInv => (events = {} => QuietNode(n))
  BY ClusterNodes DEF Inv, Local, QuietInv
<1>2. Frame(n)
  BY <1>1 DEF Frame, OthersKeep, OnNodes, Record, Spend, CopyFails, ShellEnds, Empty, Dir
<1>3. /\ op'[n].pc = (IF s = "job" THEN "idle" ELSE op[n].pc)
      /\ op'[n].target = op[n].target
      /\ shells[n][s].stage = "copy"
      /\ shells'[n][s].stage = "none"
      /\ \A z \in Shells \ {s} : shells'[n][z] = shells[n][z]
      /\ events' = events
      /\ dir'[n] = Empty
      /\ dir'[n].kind = "empty" /\ dir'[n].follow = None /\ dir'[n].hosts = {}
  <2>1. shells' = [shells EXCEPT ![n][s] = NoShell] /\ shells[n][s].stage = "copy"
    BY DEF CopyFails, ShellEnds
  <2>2. shells'[n][s].stage = "none" /\ \A z \in Shells \ {s} : shells'[n][z] = shells[n][z]
    BY <1>1, <2>1, ShellEnded DEF ShellBecomes
  <2>3. dir' = [dir EXCEPT ![n] = Empty]
    BY DEF CopyFails
  <2>4. dir'[n] = Empty
    BY <1>1, <2>3 DEF OnNodes
  <2>5. /\ op'[n].pc = (IF s = "job" THEN "idle" ELSE op[n].pc)
        /\ op'[n].target = op[n].target
    BY <1>1, OpSet DEF CopyFails, ShellEnds
  <2> QED
    BY <2>1, <2>2, <2>4, <2>5 DEF CopyFails, Empty, Dir
<1>4. OnNodes'
  <2>1. op' \in [Nodes -> OpType]
    BY <1>1, OpSet DEF CopyFails, ShellEnds, OnNodes
  <2>2. shells' \in [Nodes -> ShellsType]
    BY <1>1, ShellEnded DEF CopyFails, ShellEnds, ShellBecomes
  <2>3. dir' \in [Nodes -> DirType]
    BY <1>1 DEF OnNodes, DirType, CopyFails, Empty, Dir
  <2>4. /\ applied' \in [Nodes -> Nodes \cup {None}]
        /\ up' \in [Nodes -> BOOLEAN] /\ prepared' \in [Nodes -> BOOLEAN]
    BY <1>1 DEF OnNodes, OpType, CopyFails, ShellEnds, Empty, Dir
  <2> QED
    BY <2>1, <2>2, <2>3, <2>4 DEF OnNodes
<1>5. used' \in [Bounded -> Nat]
  BY <1>1, SpendTypes DEF Bounded, CopyFails, ShellEnds, Empty, Dir
<1>6. ListInv(n)'
  BY <1>1, <1>3 DEF ListInv, Active, Shells, Record, CopyFails, ShellEnds, Empty, Dir
<1>7. DirInv(n)'
  BY <1>1, <1>3 DEF DirInv, IsStandbyOf, Shells, Record, CopyFails, ShellEnds, Empty, Dir
<1>8. DaemonInv(n)'
  BY <1>1, <1>2, <1>3, <1>0 DEF PrimaryAt, ActingAt, DaemonInv, Repmgr, Frame
<1>9. PrimaryAt(n) /\ ActingAt(n)
  BY <1>1, <1>2, <1>3, <1>0 DEF PrimaryAt, ActingAt, DaemonInv, Repmgr, Frame
<1>10. QuietAt(n)
  <2>1. ASSUME events = {} PROVE QuietNode(n) /\ n # primary
    BY <1>0, <1>1, <2>1
  <2>2. ASSUME events' = {} PROVE QuietNode(n)' /\ n # primary
    <3>1. events = {} /\ QuietNode(n) /\ n # primary /\ primary' = primary
      BY <1>2, <2>1, <2>2 DEF Frame
    <3>2. \A z \in Shells : Active(n, z)' => shells'[n][z].target = primary
      BY <1>3, <3>1 DEF QuietNode, Active, Shells
    <3>3. dir'[n].kind = "cluster" => IsStandbyOf(n, primary)'
      BY <1>3, <3>1 DEF QuietNode, IsStandbyOf, Shells
    <3>4. primary \in dir'[n].hosts => IsStandbyOf(n, primary)'
      BY <1>3, <3>1 DEF QuietNode, IsStandbyOf, Shells
    <3>5. \A h \in dir'[n].hosts : h = primary \/ <<primary, h>> \notin HostPrefix
      BY <1>3, <3>1 DEF QuietNode
    <3>6. /\ op'[n].pc # "idle" => op'[n].target = primary
          /\ op'[n].pc \in {"start", "register", "daemon"} => IsStandbyOf(n, primary)'
      BY <1>0, <1>1, <1>3, <3>1 DEF QuietNode, IsStandbyOf
    <3> QED
      BY <3>1, <3>2, <3>3, <3>4, <3>5, <3>6 DEF QuietNode
  <2> QED
    BY <2>2 DEF QuietAt
<1>11. acting' = acting
  BY DEF CopyFails, ShellEnds, Empty, Dir
<1> QED
  BY <1>1, <1>2, <1>11, <1>4, <1>5, <1>6, <1>7, <1>8, <1>9, <1>10, AtNode DEF Local

(* The commands of the primary and of a witness, the touching of a node    *)
(* and the start of its server write what is applied, prepared and up.     *)
LEMMA AppliedSteps ==
  ASSUME Inv,
         \/ ApplyPrimary \/ RegisterPrimary \/ RegisterPrimaryFails
         \/ \E n \in cluster.nodes : \/ Touch(n) \/ ServerStarts(n)
                                    \/ ApplyWitness(n) \/ ApplyWitnessFails(n)
  PROVE  Inv'
<1>1. Declared /\ OnNodes /\ cluster.nodes \subseteq Nodes /\ primary \in Nodes
  BY ClusterNodes DEF Inv
<1> USE DEF ApplyPrimary, RegisterPrimary, RegisterPrimaryFails, Touch, ServerStarts,
           ApplyWitness, ApplyWitnessFails
<1>2. UNCHANGED <<cluster, primary, acting, op, shells, dir, events>>
  OBVIOUS
<1>3. /\ applied' \in [Nodes -> Nodes \cup {None}] /\ prepared' \in [Nodes -> BOOLEAN]
      /\ up' \in [Nodes -> BOOLEAN]
  BY <1>1 DEF OnNodes
<1>4. \A n \in Nodes : up[n] => up'[n]
  BY <1>1 DEF OnNodes
<1>5. used' \in [Bounded -> Nat]
  <2>1. UNCHANGED used \/ \E what \in Bounded : Spend(what)
    BY DEF Bounded
  <2> QED
    BY <1>1, <2>1, SpendTypes
<1> QED
  BY <1>2, <1>3, <1>4, <1>5, Elsewhere

(* The list of n goes on, or ends, and nothing else of the node changes    *)
(* but its server.                                                         *)
Moves(n, pc) ==
    /\ op' = [op EXCEPT ![n].pc = pc]
    /\ UNCHANGED <<cluster, primary, acting, shells, dir>>
    /\ events \subseteq events'
    /\ \A m \in Nodes \ {n} : up'[m] = up[m]

(* A move down the list keeps the invariant. *)
LEMMA PlaceMoves ==
  ASSUME Inv, NEW n \in Nodes, NEW pc \in {"idle", "clone", "register", "daemon"}, Moves(n, pc),
         op[n].pc \notin {"idle", "cloning"},
         pc \in {"register", "daemon"} => op[n].pc \in {"start", "register"},
         pc = "daemon" => up'[n] /\ dir[n].kind = "cluster" /\ dir[n].signal,
         applied' \in [Nodes -> Nodes \cup {None}], up' \in [Nodes -> BOOLEAN],
         prepared' \in [Nodes -> BOOLEAN], used' \in [Bounded -> Nat]
  PROVE  Inv'
<1>1. /\ Declared /\ OnNodes /\ PrimaryInv /\ ActingInv /\ QuietInv
      /\ ListInv(n) /\ DirInv(n)
  BY DEF Inv, Local
<1>2. /\ op' \in [Nodes -> OpType] /\ op'[n].pc = pc /\ op'[n].target = op[n].target
      /\ \A m \in Nodes \ {n} : op'[m] = op[m]
  BY <1>1, OpSet DEF Moves
<1>3. Frame(n) /\ shells' = shells /\ dir' = dir /\ acting' = acting
  BY <1>2 DEF Frame, OthersKeep, Moves
<1>4. OnNodes'
  BY <1>1, <1>2, <1>3 DEF OnNodes
<1>5. ListInv(n)'
  BY <1>1, <1>2, <1>3 DEF ListInv, Active, Frame
<1>6. DirInv(n)'
  BY <1>1, <1>2, <1>3 DEF DirInv, IsStandbyOf, Frame
<1>7. DaemonInv(n)'
  BY <1>2, <1>3 DEF DaemonInv
<1>8. PrimaryAt(n) /\ ActingAt(n)
  BY <1>1, <1>2, <1>3 DEF PrimaryAt, ActingAt, PrimaryInv, ActingInv, Frame
<1>9. QuietAt(n)
  <2>1. CASE events' = {}
    <3>1. QuietNode(n) /\ primary' = primary
      BY <1>1, <1>3, <2>1 DEF QuietInv, Frame
    <3>2. QuietNode(n)'
      BY <1>2, <1>3, <3>1 DEF QuietNode, IsStandbyOf, Active
    <3> QED
      BY <1>3, <3>2 DEF QuietAt
  <2> QED
    BY <2>1 DEF QuietAt
<1> QED
  BY <1>3, <1>4, <1>5, <1>6, <1>7, <1>8, <1>9, AtNode DEF Local

(* The commands of a replica's list but the clone, and their failures.     *)
LEMMA PlaceSteps ==
  ASSUME Inv, NEW n \in cluster.nodes,
         \/ Stop(n) \/ Start(n) \/ StartFails(n) \/ CommandFails(n)
         \/ Register(n) \/ RegisterFails(n) \/ EnableDaemon(n)
  PROVE  Inv'
<1>1. Declared /\ OnNodes /\ n \in Nodes
  BY ClusterNodes DEF Inv
<1>2. /\ applied' \in [Nodes -> Nodes \cup {None}]
      /\ up' \in [Nodes -> BOOLEAN] /\ prepared' \in [Nodes -> BOOLEAN]
  BY <1>1 DEF OnNodes, OpType, Stop, Start, AfterStart, Done, StartFails, CommandFails,
              Register, RegisterFails, EnableDaemon
<1>3. used' \in [Bounded -> Nat]
  <2>1. UNCHANGED used \/ \E what \in Bounded : Spend(what)
    BY
       DEF Bounded, Stop, Start, StartFails, CommandFails, Register, RegisterFails,
           EnableDaemon
  <2> QED
    BY <1>1, <2>1, SpendTypes
<1>4. CASE Stop(n)
  <2>1. Moves(n, "clone") /\ op[n].pc = "stop"
    BY <1>1, <1>4 DEF Moves, Stop, Record, OnNodes
  <2> QED
    BY <1>1, <1>2, <1>3, <2>1, PlaceMoves
<1>5. CASE Start(n)
  <2>1. (Moves(n, "idle") \/ Moves(n, "register")) /\ op[n].pc = "start"
    BY <1>1, <1>5 DEF Moves, Start, StartOK, AfterStart, Done, OnNodes
  <2> QED
    BY <1>1, <1>2, <1>3, <2>1, PlaceMoves
<1>6. CASE StartFails(n) \/ CommandFails(n) \/ RegisterFails(n) \/ EnableDaemon(n)
  <2>1. Moves(n, "idle") /\ op[n].pc \notin {"idle", "cloning"}
    BY <1>6 DEF Moves, StartFails, CommandFails, RegisterFails, EnableDaemon, Done
  <2> QED
    BY <1>1, <1>2, <1>3, <2>1, PlaceMoves
<1>7. CASE Register(n)
  <2>1. /\ Moves(n, "daemon") /\ op[n].pc = "register"
        /\ up'[n] /\ dir[n].kind = "cluster" /\ dir[n].signal
    BY <1>7 DEF Moves, Register, CanRegister
  <2> QED
    BY <1>1, <1>2, <1>3, <2>1, PlaceMoves
<1> QED
  BY <1>4, <1>5, <1>6, <1>7

(* The guard decides: nothing, or a shell that will wipe what is no standby. *)
LEMMA CloneBeginsStep ==
  ASSUME Inv, NEW n \in cluster.nodes, CloneBegins(n)
  PROVE  Inv'
<1>1. /\ Declared /\ OnNodes /\ n \in Nodes /\ primary \in Nodes
      /\ ListInv(n) /\ DirInv(n) /\ DaemonInv(n) /\ PrimaryInv /\ ActingInv /\ QuietInv
      /\ QuietInv => (events = {} => QuietNode(n))
  BY ClusterNodes DEF Inv, Local, QuietInv
<1>2. Frame(n)
  BY <1>1 DEF Frame, OthersKeep, OnNodes, Record, Spend, CloneBegins
<1>3. /\ op[n].pc = "clone" /\ op[n].target \in Nodes
      /\ op'[n].target = op[n].target
      /\ \/ CloneGuard(n, op[n].target) /\ op'[n].pc = "start" /\ shells' = shells
         \/ /\ ~CloneGuard(n, op[n].target) /\ op'[n].pc = "cloning"
            /\ shells' = [shells EXCEPT
                            ![n]["job"] = [stage |-> "wipe", target |-> op[n].target]]
            /\ shells'[n]["job"] = [stage |-> "wipe", target |-> op[n].target]
            /\ shells'[n]["orphan"] = shells[n]["orphan"]
      /\ shells[n]["job"].stage = "none"
      /\ Active(n, "orphan") => "overlap" \in events'
      /\ dir' = dir /\ up' = up /\ used' = used
  <2>1. op[n].pc = "clone" /\ op[n].target \in Nodes /\ shells[n]["job"].stage = "none"
    BY <1>1 DEF CloneBegins, ListInv, Active
  <2>2. /\ Active(n, "orphan") => "overlap" \in events'
        /\ dir' = dir /\ up' = up /\ used' = used
    BY DEF CloneBegins, Record
  <2>3. CASE CloneGuard(n, op[n].target)
    <3>1. op' = [op EXCEPT ![n].pc = "start"] /\ shells' = shells
      BY <2>3 DEF CloneBegins
    <3>2. op'[n].pc = "start" /\ op'[n].target = op[n].target
      BY <1>1, <3>1, OpSet
    <3> QED
      BY <2>1, <2>2, <2>3, <3>1, <3>2
  <2>4. CASE ~CloneGuard(n, op[n].target)
    <3> DEFINE x == [stage |-> "wipe", target |-> op[n].target]
    <3>1. /\ op' = [op EXCEPT ![n].pc = "cloning"]
          /\ shells' = [shells EXCEPT ![n]["job"] = x]
      BY <2>4 DEF CloneBegins
    <3>2. op'[n].pc = "cloning" /\ op'[n].target = op[n].target
      BY <1>1, <3>1, OpSet
    <3>3. x \in [stage : {"none", "wipe", "copy"}, target : Nodes \cup {None}]
      BY <2>1
    <3>4. shells'[n]["job"] = x /\ shells'[n]["orphan"] = shells[n]["orphan"]
      <4> HIDE DEF x
      <4> QED
        BY <1>1, <3>1, <3>3, ShellSet DEF Shells, ShellBecomes
    <3> QED
      BY <2>1, <2>2, <2>4, <3>1, <3>2, <3>4
  <2> QED
    BY <2>3, <2>4
<1>4. OnNodes'
  <2>1. op' \in [Nodes -> OpType]
    BY <1>1, OpSet DEF CloneBegins
  <2>2. CASE shells' = shells
    BY <1>1, <1>3, <2>1, <2>2 DEF OnNodes, CloneBegins
  <2>3. CASE shells' = [shells EXCEPT ![n]["job"] = [stage |-> "wipe", target |-> op[n].target]]
    <3> DEFINE x == [stage |-> "wipe", target |-> op[n].target]
    <3>1. x \in [stage : {"none", "wipe", "copy"}, target : Nodes \cup {None}]
      BY <1>3
    <3>2. shells' \in [Nodes -> ShellsType]
      <4>1. shells' = [shells EXCEPT ![n]["job"] = x]
        BY <2>3
      <4> HIDE DEF x
      <4> QED
        BY <1>1, <3>1, <4>1, ShellSet DEF Shells, ShellBecomes
    <3> QED
      BY <1>1, <2>1, <3>2 DEF OnNodes, CloneBegins
  <2> QED
    BY <1>3, <2>2, <2>3
<1>5. used' \in [Bounded -> Nat]
  BY <1>1, SpendTypes DEF Bounded, CloneBegins
<1>6. ListInv(n)'
  BY <1>1, <1>2, <1>3 DEF ListInv, Active, Shells, Frame
<1>7. DirInv(n)'
  <2>1. dir'[n] = dir[n] /\ events \subseteq events' /\ DirInv(n) /\ op[n].target # None
    BY <1>1, <1>2, <1>3, StreamingAssumption DEF Frame, Hosts
  <2>2. ~CloneGuard(n, op[n].target) => ~IsStandbyOf(n, op[n].target)
    BY <2>1 DEF CloneGuard, IsStandbyOf, DirInv
  <2>3. ASSUME NEW z \in Shells, shells'[n][z].stage = "wipe",
               IsStandbyOf(n, shells'[n][z].target)
        PROVE  events' \cap {"overlap", "repointed meanwhile"} # {}
    <3>1. z = "orphan" \/ shells' = shells
      BY <1>3, <2>2, <2>3 DEF Shells
    <3>2. shells'[n][z] = shells[n][z]
      BY <1>3, <3>1
    <3> QED
      BY <2>1, <2>3, <3>2 DEF DirInv
  <2> QED
    BY <2>1, <2>3 DEF DirInv, IsStandbyOf
<1>8. DaemonInv(n)'
  BY <1>3 DEF DaemonInv
<1>9. PrimaryAt(n) /\ ActingAt(n)
  BY <1>1, <1>2, <1>3 DEF PrimaryAt, ActingAt, PrimaryInv, ActingInv, Active, Frame
<1>10. QuietAt(n)
  <2>1. CASE events' = {}
    <3>1. /\ events = {} /\ QuietNode(n) /\ n # primary /\ primary' = primary
          /\ op[n].target = primary /\ dir' = dir
      BY <1>1, <1>2, <1>3, <2>1 DEF Frame, PrimaryInv, QuietNode
    <3>2. CloneGuard(n, primary) => IsStandbyOf(n, primary)
      BY <3>1 DEF CloneGuard, QuietNode
    <3>3. \A z \in Shells : Active(n, z)' => shells'[n][z].target = primary
      BY <1>3, <3>1 DEF QuietNode, Active, Shells
    <3>4. op'[n].pc \in {"start", "register", "daemon"} => IsStandbyOf(n, primary)
      BY <1>3, <3>1, <3>2
    <3>5. QuietNode(n)'
      BY <1>3, <3>1, <3>3, <3>4 DEF QuietNode, IsStandbyOf
    <3> QED
      BY <3>1, <3>5 DEF QuietAt
  <2> QED
    BY <2>1 DEF QuietAt
<1>11. acting' = acting
  BY DEF CloneBegins
<1> QED
  BY <1>1, <1>2, <1>11, <1>4, <1>5, <1>6, <1>7, <1>8, <1>9, <1>10, AtNode DEF Local

(* The copy ends. *)
LEMMA CopyEndsStep ==
  ASSUME Inv, NEW n \in cluster.nodes, NEW s \in Shells, CopyEnds(n, s)
  PROVE  Inv'
<1>0. /\ "overlap" \notin events => n # primary /\ op[n].pc \in {"idle", "clone", "cloning"}
      /\ n = acting => events \cap {"stale declaration", "promoted meanwhile"} # {}
      /\ s = "job" => op[n].pc = "cloning"
      /\ n = primary => s = "orphan" /\ op[n].pc = "idle"
      /\ shells[n][s].target \in Nodes
  BY WhoIsCloned, ClusterNodes DEF CopyEnds, Active, Inv
<1>1. /\ Declared /\ OnNodes /\ n \in Nodes /\ primary \in Nodes
      /\ ListInv(n) /\ DirInv(n) /\ DaemonInv(n) /\ PrimaryInv /\ ActingInv /\ QuietInv
      /\ QuietInv => (events = {} => QuietNode(n))
  BY ClusterNodes DEF Inv, Local, QuietInv
<1>2. Frame(n)
  <2>1. \A m \in Nodes \ {n} : shells'[m] = shells[m]
    BY <1>1, ShellEnded DEF CopyEnds, ShellEnds, ShellBecomes
  <2>2. \A m \in Nodes \ {n} : op'[m] = op[m]
    BY <1>1 DEF CopyEnds, ShellEnds, OnNodes
  <2>3. \A m \in Nodes \ {n} : dir'[m] = dir[m]
    BY <1>1 DEF CopyEnds, OnNodes
  <2> QED
    BY <2>1, <2>2, <2>3 DEF Frame, OthersKeep, CopyEnds
<1>3. /\ op'[n].pc = (IF s = "job" THEN "start" ELSE op[n].pc)
      /\ op'[n].target = op[n].target
      /\ shells'[n][s].stage = "none"
      /\ \A z \in Shells \ {s} : shells'[n][z] = shells[n][z]
      /\ events' = events
      /\ \/ dir'[n] = Clone(shells[n][s].target)
         \/ "overlap" \in events /\ dir'[n] \in Partials(shells[n][s].target)
      /\ \A z \in Shells \ {s} : Active(n, z) => "overlap" \in events
  <2>1. shells' = [shells EXCEPT ![n][s] = NoShell]
    BY DEF CopyEnds, ShellEnds
  <2>2. shells'[n][s].stage = "none" /\ \A z \in Shells \ {s} : shells'[n][z] = shells[n][z]
    BY <1>1, <2>1, ShellEnded DEF ShellBecomes
  <2>3. \A z \in Shells \ {s} : Active(n, z) => "overlap" \in events
    BY <1>1, <1>0 DEF ListInv, Shells, CopyEnds, Active
  <2>4. \/ dir' = [dir EXCEPT ![n] = Clone(shells[n][s].target)]
        \/ /\ "overlap" \in events
           /\ \E d \in Partials(shells[n][s].target) : dir' = [dir EXCEPT ![n] = d]
    <3>1. (\A z \in Shells : Active(n, z)) => "overlap" \in events
      BY <2>3 DEF Shells
    <3> QED
      BY <3>1 DEF CopyEnds
  <2>5. \/ dir'[n] = Clone(shells[n][s].target)
        \/ "overlap" \in events /\ dir'[n] \in Partials(shells[n][s].target)
    BY <1>1, <2>4 DEF OnNodes
  <2>6. /\ op'[n].pc = (IF s = "job" THEN "start" ELSE op[n].pc)
        /\ op'[n].target = op[n].target
    BY <1>1, OpSet DEF CopyEnds, ShellEnds
  <2>7. events' = events
    BY DEF CopyEnds
  <2> QED
    BY <2>2, <2>3, <2>5, <2>6, <2>7
<1>4. OnNodes'
  <2>1. op' \in [Nodes -> OpType]
    BY <1>1, OpSet DEF CopyEnds, ShellEnds, OnNodes
  <2>2. shells' \in [Nodes -> ShellsType]
    BY <1>1, ShellEnded DEF CopyEnds, ShellEnds, ShellBecomes
  <2>3. \E d \in {Clone(shells[n][s].target)} \cup Partials(shells[n][s].target) :
          dir' = [dir EXCEPT ![n] = d]
    BY DEF CopyEnds
  <2>4. {Clone(shells[n][s].target)} \cup Partials(shells[n][s].target) \subseteq DirType
    BY <1>0, <1>1, CopyTypes
  <2>5. dir' \in [Nodes -> DirType]
    BY <1>1, <2>3, <2>4 DEF OnNodes
  <2>6. /\ applied' \in [Nodes -> Nodes \cup {None}]
        /\ up' \in [Nodes -> BOOLEAN] /\ prepared' \in [Nodes -> BOOLEAN]
    BY <1>1 DEF OnNodes, CopyEnds
  <2> QED
    BY <2>1, <2>2, <2>5, <2>6 DEF OnNodes
<1>5. used' \in [Bounded -> Nat]
  BY <1>1, SpendTypes DEF Bounded, CopyEnds
<1>6. ListInv(n)'
  BY <1>1, <1>2, <1>3, <1>0 DEF ListInv, Active, Shells, Frame
<1>7. DirInv(n)'
  <2>1. dir'[n].follow # None => dir'[n].follow \in dir'[n].hosts
    BY <1>3 DEF Clone, HostLines, Partials, Dir
  <2>2. ASSUME NEW z \in Shells, shells'[n][z].stage = "wipe" PROVE "overlap" \in events'
    BY <1>3, <2>2 DEF Active
  <2> QED
    BY <2>1, <2>2 DEF DirInv
<1>8. DaemonInv(n)'
  BY <1>1, <1>2, <1>3, <1>0 DEF PrimaryAt, ActingAt, DaemonInv, Repmgr, Frame
<1>9. PrimaryAt(n) /\ ActingAt(n)
  BY <1>1, <1>2, <1>3, <1>0 DEF PrimaryAt, ActingAt, DaemonInv, Repmgr, Frame
<1>10. QuietAt(n)
  <2>1. CASE events' = {}
    <3>1. /\ events = {} /\ QuietNode(n) /\ n # primary /\ primary' = primary
          /\ cluster' = cluster /\ shells[n][s].target = primary
      BY <1>0, <1>1, <1>2, <1>3, <2>1 DEF Frame, QuietNode, CopyEnds, Active
    <3>2. dir[primary] = Dir("cluster", FALSE, None, {})
      BY <1>1, <3>1 DEF QuietInv
    <3>3. /\ dir'[n] = Dir("cluster", TRUE, primary, {primary})
      BY <1>3, <2>1, <3>1, <3>2 DEF Clone, HostLines, Dir
    <3>4. IsStandbyOf(n, primary)' /\ dir'[n].hosts = {primary}
      BY <3>1, <3>3 DEF IsStandbyOf, Dir
    <3>5. \A z \in Shells : Active(n, z)' => shells'[n][z].target = primary
      BY <1>3, <3>1 DEF QuietNode, Active, Shells
    <3>6. op'[n].pc # "idle" => op'[n].target = primary
      BY <1>0, <1>3, <3>1 DEF QuietNode
    <3>7. QuietNode(n)'
      BY <1>3, <3>1, <3>4, <3>5, <3>6 DEF QuietNode
    <3> QED
      BY <3>1, <3>7 DEF QuietAt
  <2> QED
    BY <2>1 DEF QuietAt
<1>11. acting' = acting
  BY DEF CopyEnds
<1> QED
  BY <1>1, <1>2, <1>11, <1>4, <1>5, <1>6, <1>7, <1>8, <1>9, <1>10, AtNode DEF Local

(* The host goes down, perhaps in the middle of a copy. *)
LEMMA HostCrashStep ==
  ASSUME Inv, NEW n \in cluster.nodes, HostCrash(n)
  PROVE  Inv'
<1>1. /\ Declared /\ OnNodes /\ n \in Nodes /\ primary \in Nodes
      /\ ListInv(n) /\ DirInv(n) /\ DaemonInv(n) /\ PrimaryInv /\ ActingInv /\ QuietInv
      /\ QuietInv => (events = {} => QuietNode(n))
  BY ClusterNodes DEF Inv, Local, QuietInv
<1>2. Frame(n)
  <2>1. \A m \in Nodes \ {n} : dir'[m] = dir[m]
    BY <1>1 DEF HostCrash, OnNodes
  <2>2. events \subseteq events'
    BY DEF HostCrash, Record
  <2> QED
    BY <1>1, <2>1, <2>2 DEF Frame, OthersKeep, HostCrash, OnNodes
<1>3. /\ op'[n].pc = "idle" /\ op'[n].target = op[n].target
      /\ \A z \in Shells : shells'[n][z].stage = "none"
      /\ \/ dir' = dir
         \/ \E s \in Shells : /\ Active(n, s) /\ shells[n][s].target \in Nodes
                              /\ \E d \in Partials(shells[n][s].target) :
                                   dir' = [dir EXCEPT ![n] = d] /\ dir'[n] = d
                              /\ "crash while copying" \in events'
      /\ events \subseteq events' /\ primary' = primary
  <2>1. op'[n].pc = "idle" /\ op'[n].target = op[n].target
    BY <1>1, OpSet DEF HostCrash
  <2>2. \A z \in Shells : shells'[n][z].stage = "none"
    BY <1>1 DEF HostCrash, OnNodes, NoShell
  <2>3. CASE \E s \in Shells : shells[n][s].stage = "copy"
    <3>1. PICK s \in Shells :
            /\ shells[n][s].stage = "copy"
            /\ dir' \in {[dir EXCEPT ![n] = d] : d \in Partials(shells[n][s].target)}
      BY <2>3 DEF HostCrash
    <3>2. Active(n, s) /\ shells[n][s].target \in Nodes
      BY <1>1, <3>1 DEF Active, ListInv
    <3>3. \E d \in Partials(shells[n][s].target) : dir' = [dir EXCEPT ![n] = d] /\ dir'[n] = d
      BY <1>1, <3>1 DEF OnNodes
    <3>4. "crash while copying" \in events'
      BY <2>3 DEF HostCrash, Record
    <3> QED
      BY <1>2, <2>1, <2>2, <3>2, <3>3, <3>4 DEF Frame
  <2>4. CASE ~\E s \in Shells : shells[n][s].stage = "copy"
    BY <1>2, <2>1, <2>2, <2>4 DEF HostCrash, Frame
  <2> QED
    BY <2>3, <2>4
<1>4. OnNodes'
  <2>1. op' \in [Nodes -> OpType]
    BY <1>1, OpSet DEF HostCrash
  <2>2. shells' \in [Nodes -> ShellsType]
    BY <1>1 DEF OnNodes, ShellsType, NoShell, HostCrash
  <2>3. dir' \in [Nodes -> DirType]
    <3>1. CASE dir' = dir
      BY <1>1, <3>1 DEF OnNodes
    <3>2. ASSUME NEW s \in Shells, shells[n][s].target \in Nodes,
                 NEW d \in Partials(shells[n][s].target), dir' = [dir EXCEPT ![n] = d]
          PROVE  dir' \in [Nodes -> DirType]
      <4>1. d \in DirType
        BY <1>1, <3>2, CopyTypes
      <4> QED
        BY <1>1, <3>2, <4>1 DEF OnNodes
    <3> QED
      BY <1>3, <3>1, <3>2
  <2>4. /\ applied' \in [Nodes -> Nodes \cup {None}]
        /\ up' \in [Nodes -> BOOLEAN] /\ prepared' \in [Nodes -> BOOLEAN]
    BY <1>1 DEF OnNodes, OpType, HostCrash
  <2> QED
    BY <2>1, <2>2, <2>3, <2>4 DEF OnNodes
<1>5. used' \in [Bounded -> Nat]
  BY <1>1, SpendTypes DEF Bounded, HostCrash
<1>6. ListInv(n)'
  BY <1>3 DEF ListInv, Active, Shells
<1>7. DirInv(n)'
  <2>1. dir'[n].follow # None => dir'[n].follow \in dir'[n].hosts
    <3>1. dir' = dir \/ \E s \in Shells : dir'[n] \in Partials(shells[n][s].target)
      BY <1>3
    <3>2. \A s \in Shells : \A d \in Partials(shells[n][s].target) : d.follow = None
      BY DEF Partials, Dir
    <3> QED
      BY <1>1, <3>1, <3>2 DEF DirInv
  <2> QED
    BY <1>3, <2>1 DEF DirInv
<1>8. DaemonInv(n)'
  BY <1>3 DEF DaemonInv
<1>9. PrimaryAt(n) /\ ActingAt(n)
  <2>1. ActingAt(n)
    BY <1>3 DEF ActingAt, Shells
  <2>2. ASSUME n = primary, "overlap" \notin events' PROVE dir'[n].kind = "cluster"
    <3>1. "overlap" \notin events
      BY <1>3, <2>2
    <3>2. \A s \in Shells : ~Active(n, s)
      BY <1>1, <2>2, <3>1, WhoIsCloned
    <3>3. dir' = dir
      BY <1>3, <3>2
    <3> QED
      BY <1>1, <2>2, <3>1, <3>3 DEF PrimaryInv
  <2> QED
    BY <1>3, <2>1, <2>2 DEF PrimaryAt, Shells
<1>10. QuietAt(n)
  <2>1. CASE events' = {}
    <3>1. events = {} /\ QuietNode(n) /\ dir' = dir
      BY <1>1, <1>3, <2>1
    <3> QED
      BY <1>3, <3>1 DEF QuietAt, QuietNode, IsStandbyOf, Active
  <2> QED
    BY <2>1 DEF QuietAt
<1>11. acting' = acting
  BY DEF HostCrash
<1> QED
  BY <1>1, <1>2, <1>11, <1>4, <1>5, <1>6, <1>7, <1>8, <1>9, <1>10, AtNode DEF Local

(* repmgrd follows the acting primary. *)
LEMMA FollowStep ==
  ASSUME Inv, NEW n \in cluster.nodes, Follow(n)
  PROVE  Inv'
<1>1. /\ Declared /\ OnNodes /\ n \in Nodes /\ primary \in Nodes
      /\ ListInv(n) /\ DirInv(n) /\ DaemonInv(n) /\ PrimaryInv /\ ActingInv /\ QuietInv
      /\ QuietInv => (events = {} => QuietNode(n))
  BY ClusterNodes DEF Inv, Local, QuietInv
<1>2. Frame(n)
  BY <1>1 DEF Frame, OthersKeep, OnNodes, Record, Spend, Follow
<1>3. /\ op'[n].pc = op[n].pc /\ op'[n].target = op[n].target
      /\ shells'[n] = shells[n]
      /\ dir'[n].kind = dir[n].kind /\ (dir'[n].signal <=> dir[n].signal)
      /\ dir'[n].follow = acting /\ dir'[n].hosts = {acting} /\ dir'[n] \in DirType
      /\ n # acting /\ dir[n].kind = "cluster" /\ dir[n].follow # acting /\ IsPrimary(acting)
      /\ op[n].pc # "idle" \/ Active(n, "orphan") => "repointed meanwhile" \in events'
      /\ up' = up
  <2>1. dir[n] \in DirType /\ acting \in Nodes
    BY <1>1, ClusterNodes DEF OnNodes
  <2>2. dir' = [dir EXCEPT ![n].follow = acting, ![n].hosts = {acting}]
    BY DEF Follow
  <2>3. dir'[n] = Following(dir[n], acting)
    BY <1>1, <2>2 DEF OnNodes, Following
  <2>4. /\ dir'[n].kind = dir[n].kind /\ (dir'[n].signal <=> dir[n].signal)
        /\ dir'[n].follow = acting /\ dir'[n].hosts = {acting}
    BY <2>1, <2>3, DirEdits
  <2>5. dir'[n] \in DirType
    <3>1. Following(dir[n], acting) \in DirType
      BY <2>1, DirEdits
    <3> QED
      BY <2>3, <3>1
  <2> QED
    BY <2>4, <2>5 DEF Follow, Record
<1>4. OnNodes'
  <2>1. dir' = [dir EXCEPT ![n] = dir'[n]]
    BY <1>1 DEF Follow, OnNodes
  <2>2. dir' \in [Nodes -> DirType]
    BY <1>1, <1>3, <2>1 DEF OnNodes
  <2> QED
    BY <1>1, <2>2 DEF OnNodes, Follow
<1>5. used' \in [Bounded -> Nat]
  BY <1>1 DEF Declared, Spend, Follow
<1>6. ListInv(n)'
  BY <1>1, <1>3 DEF ListInv, Active, Shells, Record, Follow
<1>7. DirInv(n)'
  BY <1>1, <1>3 DEF DirInv, ListInv, Active, Shells
<1>8. DaemonInv(n)'
  BY <1>1, <1>2, <1>3 DEF DaemonInv, Repmgr, Frame
<1>9. PrimaryAt(n) /\ ActingAt(n)
  BY <1>1, <1>2, <1>3 DEF PrimaryAt, ActingAt, PrimaryInv, Frame, Active
<1>10. QuietAt(n)
  <2>1. CASE events' = {}
    <3>1. events = {} /\ QuietNode(n) /\ acting = primary
      BY <1>1, <1>2, <2>1 DEF Frame, QuietInv
    <3> QED
      BY <1>3, <3>1 DEF QuietNode, IsStandbyOf
  <2> QED
    BY <2>1 DEF QuietAt
<1>11. acting' = acting
  BY DEF Follow
<1> QED
  BY <1>1, <1>2, <1>11, <1>4, <1>5, <1>6, <1>7, <1>8, <1>9, <1>10, AtNode DEF Local

(* A standby is promoted: whatever is at work on it is in the history.     *)
LEMMA PromotionStep ==
  ASSUME Inv, NEW n \in cluster.nodes, Promotion(n)
  PROVE  Inv'
<1>1. /\ Declared /\ OnNodes /\ n \in Nodes /\ primary \in Nodes
      /\ ListInv(n) /\ DirInv(n) /\ DaemonInv(n) /\ PrimaryInv
  BY ClusterNodes DEF Inv, Local
<1>2. Frame(n) /\ acting' = n /\ op' = op /\ shells' = shells /\ events \subseteq events'
  BY <1>1 DEF Frame, OthersKeep, OnNodes, Promotion
<1>3. /\ dir'[n].kind = dir[n].kind /\ ~dir'[n].signal /\ dir'[n].follow = dir[n].follow
      /\ dir'[n].hosts = dir[n].hosts /\ dir' \in [Nodes -> DirType]
  <2>1. dir[n] \in DirType
    BY <1>1 DEF OnNodes
  <2>2. dir' = [dir EXCEPT ![n] = Promoted(dir[n])]
    BY <1>1 DEF Promotion, OnNodes, Promoted
  <2>3. dir'[n] = Promoted(dir[n])
    BY <1>1, <2>2 DEF OnNodes
  <2>4. dir' \in [Nodes -> DirType]
    <3>1. Promoted(dir[n]) \in DirType
      BY <1>1, <2>1, DirEdits
    <3> QED
      BY <1>1, <2>2, <3>1 DEF OnNodes
  <2>5. /\ dir'[n].kind = dir[n].kind /\ ~dir'[n].signal
        /\ dir'[n].follow = dir[n].follow /\ dir'[n].hosts = dir[n].hosts
    BY <1>1, <2>1, <2>3, DirEdits
  <2> QED
    BY <2>4, <2>5
<1>4. Declared' /\ OnNodes'
  <2>1. used' \in [Bounded -> Nat]
    BY <1>1, SpendTypes DEF Promotion, Bounded
  <2> QED
    BY <1>1, <1>2, <1>3, <2>1 DEF Declared, OnNodes, Promotion
<1>5. Local(n)'
  <2>1. ListInv(n)'
    BY <1>1, <1>2 DEF ListInv, Active
  <2>2. DirInv(n)'
    BY <1>1, <1>2, <1>3 DEF DirInv, IsStandbyOf
  <2>3. DaemonInv(n)'
    <3>1. op[n].pc = "daemon" => "promoted meanwhile" \in events'
      BY DEF Promotion
    <3> QED
      BY <1>2, <3>1 DEF DaemonInv
  <2> QED
    BY <2>1, <2>2, <2>3 DEF Local
<1>6. \A m \in Nodes : Local(m)'
  BY <1>1, <1>2, <1>5, LocalOthers
<1>7. PrimaryInv'
  BY <1>1, <1>2, <1>3 DEF PrimaryInv, Frame, OthersKeep, Active
<1>8. ActingInv'
  BY <1>2 DEF ActingInv, Active, Promotion
<1>9. QuietInv'
  BY DEF QuietInv, Promotion
<1> QED
  BY <1>4, <1>6, <1>7, <1>8, <1>9 DEF Inv

(* A node that runs as a primary, with nothing at work on it but what the  *)
(* history tells, is declared the primary.                                 *)
LEMMA DeclarePrimaryStep ==
  ASSUME Inv, NEW n \in cluster.nodes, DeclarePrimary(n)
  PROVE  Inv'
<1>1. /\ n # primary /\ n \notin Witnesses /\ IsPrimary(n) /\ op[n].pc = "idle" /\ primary' = n
      /\ UNCHANGED <<cluster, applied, op, shells, dir, up, prepared, acting, used>>
      /\ events \subseteq events' /\ (Active(n, "orphan") => "overlap" \in events')
  BY DEF DeclarePrimary
<1>2. Declared' /\ OnNodes'
  BY <1>1 DEF Inv, Declared, OnNodes
<1>3. ASSUME NEW m \in Nodes PROVE Local(m)'
  <2>1. ListInv(m) /\ DirInv(m) /\ DaemonInv(m)
    BY DEF Inv, Local
  <2>2. ListInv(m)'
    BY <1>1, <2>1 DEF ListInv, Active
  <2>3. DirInv(m)'
    BY <1>1, <2>1 DEF DirInv, IsStandbyOf
  <2>4. DaemonInv(m)'
    BY <1>1, <2>1 DEF DaemonInv, Repmgr
  <2> QED
    BY <2>2, <2>3, <2>4 DEF Local
<1>4. PrimaryInv'
  BY <1>1 DEF PrimaryInv, IsPrimary, Active
<1>5. ActingInv'
  BY <1>1 DEF Inv, ActingInv, Active
<1>6. events # {}
  <2>1. ASSUME events = {} PROVE FALSE
    <3>1. QuietNode(n)
      BY <2>1, ClusterNodes DEF Inv, QuietInv
    <3> QED
      BY <1>1, <3>1 DEF QuietNode, IsStandbyOf, IsPrimary
  <2> QED
    BY <2>1
<1>7. QuietInv'
  BY <1>1, <1>6 DEF QuietInv
<1> QED
  BY <1>2, <1>3, <1>4, <1>5, <1>7 DEF Inv

-----------------------------------------------------------------------------
(* Initially nothing is at work, only the primary has data, and a fresh    *)
(* node knows at most hosts of earlier clusters.                           *)
LEMMA InitInv == Init => Inv
<1> SUFFICES ASSUME Init PROVE Inv
  OBVIOUS
<1>1. /\ cluster \in Clusters /\ primary \in cluster.nodes \ Witnesses /\ acting = primary
      /\ used \in [Bounded -> Nat] /\ primary \in Nodes /\ cluster.old \subseteq OldHosts
  BY StreamingAssumption DEF Init
<1>2. /\ \A n \in Nodes : op[n].pc = "idle"
      /\ \A n \in Nodes, s \in Shells : shells[n][s].stage = "none"
  BY DEF Init, NoShell
<1>3. \A n \in Nodes : /\ dir[n].kind \in {"cluster", "fresh"} /\ ~dir[n].signal
                       /\ dir[n].follow = None /\ dir[n].hosts \subseteq cluster.old
                       /\ (dir[n].kind = "cluster" <=> n = primary)
  <2> SUFFICES ASSUME NEW n \in Nodes
               PROVE  /\ dir[n].kind \in {"cluster", "fresh"} /\ ~dir[n].signal
                      /\ dir[n].follow = None /\ dir[n].hosts \subseteq cluster.old
    BY DEF Init
  <2>1. \E kind \in {"cluster", "fresh"}, hs \in SUBSET cluster.old :
           dir[n] = Dir(kind, FALSE, None, hs)
    BY DEF Init
  <2> QED
    BY <2>1 DEF Dir
<1>4. OnNodes
  <2>1. /\ applied \in [Nodes -> Nodes \cup {None}]
        /\ up \in [Nodes -> BOOLEAN] /\ prepared \in [Nodes -> BOOLEAN]
    BY DEF Init
  <2>2. op \in [Nodes -> OpType]
    BY DEF Init, OpType
  <2>3. shells \in [Nodes -> ShellsType]
    BY DEF Init, ShellsType, NoShell
  <2>4. dir \in [Nodes -> DirType]
    <3>1. ASSUME NEW kind \in {"cluster", "fresh"}, NEW hs \in SUBSET cluster.old
          PROVE  Dir(kind, FALSE, None, hs) \in DirType
      BY <1>1 DEF Dir, DirType, Hosts
    <3>2. {Dir("cluster", FALSE, None, {})}
            \cup {Dir("fresh", FALSE, None, hs) : hs \in SUBSET cluster.old} \subseteq DirType
      BY <3>1
    <3> QED
      BY <3>2 DEF Init
  <2> QED
    BY <2>1, <2>2, <2>3, <2>4 DEF OnNodes
<1>5. ASSUME NEW n \in Nodes PROVE Local(n)
  BY <1>2, <1>3 DEF Local, ListInv, DirInv, DaemonInv, Active, Shells
<1>6. PrimaryInv /\ ActingInv
  BY <1>1, <1>2, <1>3 DEF PrimaryInv, ActingInv, Active, Shells
<1>7. dir[primary] = Dir("cluster", FALSE, None, {})
  <2>1. dir[primary].hosts = {}
    BY <1>1 DEF Init, Replicas
  <2>2. dir[primary] \in {Dir("cluster", FALSE, None, {})}
            \cup {Dir("fresh", FALSE, None, hs) : hs \in SUBSET cluster.old}
    BY <1>1 DEF Init
  <2>3. dir[primary].kind # "fresh"
    BY <1>1, <1>3
  <2>4. \A hs : Dir("fresh", FALSE, None, hs).kind = "fresh"
    BY DEF Dir
  <2> QED
    BY <2>2, <2>3, <2>4
<1>8. ASSUME events = {}, NEW n \in Nodes PROVE QuietNode(n)
  <2>1. \A h \in dir[n].hosts : <<primary, h>> \notin HostPrefix
    BY <1>8 DEF Init
  <2>2. primary \notin dir[n].hosts
    BY <1>1, <1>3, StreamingAssumption
  <2> QED
    BY <1>2, <1>3, <2>1, <2>2 DEF QuietNode, Active
<1> QED
  BY <1>1, <1>4, <1>5, <1>6, <1>7, <1>8 DEF Inv, Declared, QuietInv

(* Every step keeps the invariant. *)
LEMMA NextInv == Inv /\ [Next]_vars => Inv'
<1> SUFFICES ASSUME Inv, [Next]_vars PROVE Inv'
  OBVIOUS
<1>1. CASE UNCHANGED vars
  BY <1>1, Elsewhere DEF Inv, Declared, OnNodes, vars
<1>2. CASE ApplyPrimary
  BY <1>2, AppliedSteps
<1>3. ASSUME NEW n \in cluster.nodes,
             \/ ApplyReplica(n) \/ NodeStep(n) \/ ShellStep(n, "orphan")
             \/ CommandFails(n) \/ CloneAbandoned(n)
             \/ Promote(n) \/ DeclarePrimary(n) \/ Touch(n) \/ HostCrash(n) \/ ServerStarts(n)
      PROVE  Inv'
  <2>1. CASE ApplyReplica(n)
    BY <2>1, StandbyCommandsStep DEF ApplyReplica
  <2>2. ASSUME NEW s \in Shells, ShellStep(n, s) PROVE Inv'
    BY <2>2, WipeStep, CopyEndsStep, CopyFailsStep DEF ShellStep
  <2>3. CASE NodeStep(n)
    BY <2>2, <2>3, PlaceSteps, CloneBeginsStep DEF NodeStep, Shells
  <2>4. CASE ShellStep(n, "orphan")
    BY <2>2, <2>4 DEF Shells
  <2>5. CASE CommandFails(n) \/ CloneAbandoned(n)
    BY <2>5, PlaceSteps, CloneAbandonedStep
  <2>6. CASE Promote(n)
    BY <2>6, PromotionStep DEF Promote
  <2>7. CASE DeclarePrimary(n)
    BY <2>7, DeclarePrimaryStep
  <2>8. CASE Touch(n) \/ ServerStarts(n)
    BY <2>8, AppliedSteps
  <2>9. CASE HostCrash(n)
    BY <2>9, HostCrashStep
  <2> QED
    BY <1>3, <2>1, <2>3, <2>4, <2>5, <2>6, <2>7, <2>8, <2>9
<1> QED
  BY <1>1, <1>2, <1>3 DEF Next

(* The steps of repmgr's part keep it too. *)
LEMMA RepmgrNextInv == Inv /\ [RepmgrNext]_allVars => Inv'
<1> SUFFICES ASSUME Inv, [RepmgrNext]_allVars PROVE Inv'
  OBVIOUS
<1>1. CASE [Next]_vars
  BY <1>1, NextInv
<1>2. CASE RegisterPrimary \/ RegisterPrimaryFails
  BY <1>2, AppliedSteps
<1>3. ASSUME NEW n \in cluster.nodes,
             \/ ApplyWitness(n) \/ ApplyWitnessFails(n)
             \/ RepmgrStep(n) \/ FailOver(n) \/ Follow(n)
      PROVE  Inv'
  <2>1. CASE ApplyWitness(n) \/ ApplyWitnessFails(n)
    BY <2>1, AppliedSteps
  <2>2. CASE RepmgrStep(n)
    BY <2>2, PlaceSteps DEF RepmgrStep
  <2>3. CASE FailOver(n)
    BY <2>3, PromotionStep DEF FailOver
  <2>4. CASE Follow(n)
    BY <2>4, FollowStep
  <2> QED
    BY <1>3, <2>1, <2>2, <2>3, <2>4
<1> QED
  BY <1>1, <1>2, <1>3 DEF RepmgrNext, allVars

(* repmgr's own variables hold nodes. *)
RepmgrSets == registered \subseteq Nodes /\ daemon \subseteq Nodes
(* They only ever add nodes of the cluster. *)
LEMMA RepmgrSetsKept == Inv /\ RepmgrSets /\ [RepmgrNext]_allVars => RepmgrSets'
<1> SUFFICES ASSUME Inv, RepmgrSets, [RepmgrNext]_allVars PROVE RepmgrSets'
  OBVIOUS
<1>1. cluster.nodes \subseteq Nodes /\ primary \in Nodes
  BY ClusterNodes DEF Inv
<1>2. CASE UNCHANGED rvars
  BY <1>2 DEF RepmgrSets, rvars
<1>3. CASE RegisterPrimary \/ RegisterPrimaryFails
  BY <1>1, <1>3 DEF RepmgrSets, RegisterPrimary, RegisterPrimaryFails
<1>4. ASSUME NEW n \in cluster.nodes,
             \/ ApplyWitness(n) \/ ApplyWitnessFails(n)
             \/ RepmgrStep(n) \/ FailOver(n) \/ Follow(n)
      PROVE  RepmgrSets'
  BY <1>1, <1>4 DEF RepmgrSets, rvars, ApplyWitness, ApplyWitnessFails, RepmgrStep, Register, RegisterFails,
                    EnableDaemon, FailOver, Follow
<1> QED
  BY <1>2, <1>3, <1>4 DEF RepmgrNext, allVars

-----------------------------------------------------------------------------
(* A replica's apply succeeds with the last command of its mode.           *)
LEMMA Successes ==
  ASSUME Inv, [RepmgrNext]_allVars, NEW n \in Nodes, Succeeds(n)
  PROVE  op[n].pc = "daemon" \/ (op[n].pc = "start" /\ cluster.mode = "streaming")
<1>1. op[n].pc # "idle" /\ op'[n].pc = "idle" /\ applied'[n] # applied[n]
  BY DEF Succeeds
<1>2. OnNodes /\ cluster.nodes \subseteq Nodes /\ primary \in Nodes
  BY ClusterNodes DEF Inv
<1>3. applied' # applied
  BY <1>1
<1>4. CASE ApplyPrimary \/ RegisterPrimary \/ RegisterPrimaryFails
  BY <1>1, <1>2, <1>4 DEF ApplyPrimary, RegisterPrimary, RegisterPrimaryFails, OnNodes
<1>5. ASSUME NEW m \in cluster.nodes, Start(m) \/ Touch(m) \/ ApplyWitness(m) \/ EnableDaemon(m)
      PROVE  op[n].pc = "daemon" \/ (op[n].pc = "start" /\ cluster.mode = "streaming")
  <2>1. m = n
    BY <1>1, <1>2, <1>5
       DEF OnNodes, Start, AfterStart, Touch, ApplyWitness, EnableDaemon, Done
  <2>2. CASE Start(m)
    BY <1>3, <2>1, <2>2 DEF Start, StartOK, AfterStart
  <2>3. CASE Touch(m) \/ ApplyWitness(m)
    BY <1>1, <2>1, <2>3 DEF Touch, ApplyWitness
  <2>4. CASE EnableDaemon(m)
    <3>1. op[m].pc = "daemon"
      BY <2>4 DEF EnableDaemon
    <3> QED
      BY <2>1, <3>1
  <2> QED
    BY <1>5, <2>2, <2>3, <2>4
<1>6. \/ ApplyPrimary \/ RegisterPrimary \/ RegisterPrimaryFails
      \/ \E m \in cluster.nodes : Start(m) \/ Touch(m) \/ ApplyWitness(m) \/ EnableDaemon(m)
  <2>1. CASE Next
    BY <1>3, <2>1
       DEF Next, NodeStep, ShellStep, ApplyReplica, StandbyCommands, Stop, CloneBegins,
       StartFails, Wipe, CopyEnds, CopyFails, CommandFails, CloneAbandoned, Promote, Promotion,
       DeclarePrimary, HostCrash, ServerStarts
  <2>2. CASE RegisterPrimary \/ RegisterPrimaryFails
    BY <2>2
  <2>3. ASSUME NEW m \in cluster.nodes,
               \/ ApplyWitness(m) \/ ApplyWitnessFails(m)
               \/ RepmgrStep(m) \/ FailOver(m) \/ Follow(m)
        PROVE  ApplyWitness(m) \/ EnableDaemon(m)
    BY <1>3, <2>3 DEF ApplyWitnessFails, RepmgrStep, Register, RegisterFails, FailOver, Promotion, Follow
  <2> QED
    BY <1>3, <2>1, <2>2, <2>3 DEF RepmgrNext, allVars, vars
<1> QED
  BY <1>4, <1>5, <1>6

(* What the invariant says of the copies of the cluster. *)
LEMMA InvDataKept == Inv => ClusterDataKept
  BY ClusterNodes DEF Inv, PrimaryInv, ClusterDataKept

(* The invariant holds in every state of either specification. *)
LEMMA StreamingInvariant == Spec => []Inv
<1>1. Init => Inv
  BY InitInv
<1>2. Inv /\ [Next]_vars => Inv'
  BY NextInv
<1> QED
  BY <1>1, <1>2, PTL DEF Spec

(* With repmgr, and its own sets. *)
LEMMA RepmgrInvariant == RepmgrSpec => [](Inv /\ RepmgrSets)
<1>1. RepmgrInit => Inv /\ RepmgrSets
  BY InitInv DEF RepmgrInit, RepmgrSets
<1>2. Inv /\ RepmgrSets /\ [RepmgrNext]_allVars => (Inv /\ RepmgrSets)'
  BY RepmgrNextInv, RepmgrSetsKept
<1> QED
  BY <1>1, <1>2, PTL DEF RepmgrSpec

-----------------------------------------------------------------------------
(* The state of the bring-up has its types, with streaming alone and with  *)
(* repmgr acting on its own.                                               *)
THEOREM StreamingTypes == Spec => []TypeOK
<1>1. Inv => TypeOK
  BY InvTypes
<1> QED
  BY <1>1, StreamingInvariant, PTL

(* The same with repmgr, whose sets hold nodes. *)
THEOREM RepmgrTypes == RepmgrSpec => []RepmgrTypeOK
<1>1. Inv /\ RepmgrSets => RepmgrTypeOK
  BY InvTypes DEF RepmgrTypeOK, RepmgrSets
<1> QED
  BY <1>1, RepmgrInvariant, PTL

(* Unless an abandoned clone overlaps with a later apply, some node keeps  *)
(* a complete copy of the cluster: for the guarded wipe of streaming.go    *)
(* and repmgr.go, whatever fails over, crashes or is applied again.        *)
THEOREM StreamingDataKept == Spec => []ClusterDataKept
<1>1. Inv => ClusterDataKept
  BY InvDataKept
<1> QED
  BY <1>1, StreamingInvariant, PTL

(* And with repmgrd's failovers, which the provider does not see.         *)
THEOREM RepmgrDataKept == RepmgrSpec => []ClusterDataKept
<1>1. Inv => ClusterDataKept
  BY InvDataKept
<1> QED
  BY <1>1, RepmgrInvariant, PTL

(* The clone's guard: no standby of the primary the command was built for  *)
(* is wiped, unless clones overlap or repmgrd made it one meanwhile.       *)
THEOREM RepmgrStandbyNeverWiped == RepmgrSpec => StandbyNeverWiped
<1>1. Inv /\ [RepmgrNext]_allVars =>
        [\A n \in Nodes, s \in Shells :
           shells[n][s].stage = "wipe" /\ shells'[n][s].stage = "copy"
             => \/ ~IsStandbyOf(n, shells[n][s].target)
                \/ events \cap {"overlap", "repointed meanwhile"} # {}]_vars
  BY DEF Inv, Local, DirInv
<1> QED
  BY <1>1, RepmgrInvariant, PTL DEF RepmgrSpec, StandbyNeverWiped

(* The acting primary is wiped only after an apply with another node       *)
(* declared, or when it was promoted while it was being applied.           *)
THEOREM RepmgrActingKept == RepmgrSpec => ActingKept
<1>1. Inv /\ [RepmgrNext]_allVars =>
        [WipesActing => events \cap {"stale declaration", "promoted meanwhile"} # {}]_vars
  <2>1. ASSUME Inv, WipesActing
        PROVE  events \cap {"stale declaration", "promoted meanwhile"} # {}
    <3>1. PICK s \in Shells : shells[acting][s].stage = "wipe"
      BY <2>1 DEF WipesActing
    <3>2. Active(acting, s) /\ acting \in Nodes
      BY <2>1, <3>1, ClusterNodes DEF Active, Inv
    <3> QED
      BY <2>1, <3>2, WhoIsCloned
  <2> QED
    BY <2>1
<1> QED
  BY <1>1, RepmgrInvariant, PTL DEF RepmgrSpec, ActingKept

(* A quiet apply succeeds only for a standby of the declared primary.      *)
THEOREM RepmgrQuietSuccess == RepmgrSpec => QuietSuccessIsStandby
<1>1. Inv /\ [RepmgrNext]_allVars =>
        [\A n \in Nodes : Succeeds(n) /\ events = {} => IsStandbyOf(n, op[n].target)]_vars
  <2>1. ASSUME Inv, [RepmgrNext]_allVars, NEW n \in Nodes, Succeeds(n), events = {}
        PROVE  IsStandbyOf(n, op[n].target)
    <3>1. op[n].pc \in {"daemon", "start"}
      BY <2>1, Successes
    <3>2. QuietNode(n)
      BY <2>1 DEF Inv, QuietInv
    <3> QED
      BY <3>1, <3>2 DEF QuietNode
  <2> QED
    BY <2>1
<1> QED
  BY <1>1, RepmgrInvariant, PTL DEF RepmgrSpec, QuietSuccessIsStandby

(* A repmgr apply succeeds only for a running standby, unless it was       *)
(* promoted or wiped during the apply: the registration saw to that.       *)
THEOREM RepmgrRegistered == RepmgrSpec => RegisteredIsStandby
<1>1. Inv /\ [RepmgrNext]_allVars =>
        [\A n \in Nodes : Repmgr /\ Succeeds(n) =>
           \/ up[n] /\ dir[n].kind = "cluster" /\ dir[n].signal
           \/ events \cap {"overlap", "promoted meanwhile"} # {}]_allVars
  <2>1. ASSUME Inv, [RepmgrNext]_allVars, NEW n \in Nodes, Repmgr, Succeeds(n)
        PROVE  \/ up[n] /\ dir[n].kind = "cluster" /\ dir[n].signal
               \/ events \cap {"overlap", "promoted meanwhile"} # {}
    <3>1. op[n].pc = "daemon"
      BY <2>1, Successes DEF Repmgr
    <3> QED
      BY <2>1, <3>1 DEF Inv, Local, DaemonInv
  <2> QED
    BY <2>1
<1> QED
  BY <1>1, RepmgrInvariant, PTL DEF RepmgrSpec, RegisteredIsStandby
=============================================================================
