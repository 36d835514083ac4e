----------------------- MODULE ConfigResource_proofs -----------------------
(***************************************************************************)
(* Proofs about ConfigResource, for any keys, values, rules and lists of   *)
(* rules and any bounds of the environment.  The inductive invariant says  *)
(* how the three copies of a setting relate while nothing interferes: the  *)
(* state knows what the files have and the server runs with it; during an  *)
(* apply it says how far the commands have brought the files.              *)
(***************************************************************************)
EXTENDS ConfigResource, SequenceTheorems, TLAPS

States == [keys : Settings, hba : Seq(HbaEntries) \cup {Unset}]

HasRules(c) == c.hba # Unset /\ c.hba # <<>>

(* A block the host has still to write has rules. *)
LateWrites == {w \in FileCommands \X Configs : w[1] = "rewrite pg_hba block" => HasRules(w[2])}

(* TypeOK but for the commands, which ApplyInv lists. *)
Types == /\ declared \in Configs
         /\ state \in {None} \cup States
         /\ file \in HostConfigs
         /\ running \in HostConfigs
         /\ phase \in {"idle", "planned", "applying"}
         /\ late \in SUBSET LateWrites
         /\ interrupted \in BOOLEAN /\ touched \in BOOLEAN /\ overtaken \in BOOLEAN
         /\ edits \in 0 .. MaxEdits /\ failures \in 0 .. MaxFailures

Ctl(c) == IF NeedsRestart(c) THEN "restart" ELSE "reload"

(* How far an apply has come: before the drop-in, before the block, before *)
(* the reload or restart.  A late write may undo what the apply has done.  *)
FilesWritten == /\ file.keys = declared.keys
                /\ HasRules(declared) => file.hba = RenderPgHba(declared.hba)
ToWrite   == todo = buildConfigCommands(declared)
ToRewrite == /\ HasRules(declared) /\ todo = <<"rewrite pg_hba block", Ctl(declared)>>
             /\ overtaken \/ file.keys = declared.keys
ToCtl     == /\ todo = <<Ctl(declared)>>
             /\ overtaken \/ FilesWritten

ApplyInv == IF phase = "applying" THEN state # declared /\ (ToWrite \/ ToRewrite \/ ToCtl)
                                  ELSE todo = <<>>

(* Nothing has touched the files since the last apply, nor this one. *)
Undisturbed == ~interrupted /\ ~touched /\ (phase = "applying" => ToWrite /\ ~overtaken)

(* What is recorded is what the files have. *)
RecordedInv == Undisturbed /\ state # None =>
    /\ \A k \in Keys : state.keys[k] \in {Unset, file.keys[k]}
    /\ HasRules(state) => file.hba = RenderPgHba(state.hba)

(* What the files have is what the server runs with; a restart key that is *)
(* no longer in the drop-in keeps its value until the next restart.        *)
RunningInv == Undisturbed =>
    /\ running.hba = file.hba
    /\ \A k \in ReloadKeys : running.keys[k] = file.keys[k]
    /\ \A k \in RestartKeys : file.keys[k] \in {Unset, running.keys[k]}

Inv == Types /\ ApplyInv /\ RecordedInv /\ RunningInv

-----------------------------------------------------------------------------
(* RenderPgHba writes a method for every rule, and what names its methods  *)
(* is written as it is.                                                    *)
Written == Rules \X {"default", "trust"}

(* Every entry is written as a rule with its method spelled out. *)
LEMMA RenderTypes ==
  ASSUME NEW l \in Seq(HbaEntries)
  PROVE  RenderPgHba(l) \in Seq(Written)
<1>1. /\ Len(l) \in Nat /\ DOMAIN l = 1 .. Len(l)
      /\ \A i \in 1 .. Len(l) : l[i] \in HbaEntries
  OBVIOUS
<1>2. ASSUME NEW e \in HbaEntries
      PROVE  (IF e[2] = Unset THEN <<e[1], "default">> ELSE e) \in Written
  <2>1. PICK r \in Rules, m \in {Unset, "default", "trust"} : e = <<r, m>>
    BY DEF HbaEntries
  <2>2. e[1] = r /\ e[2] = m
    BY <2>1
  <2> QED
    BY <2>1, <2>2 DEF Written
<1> DEFINE f(i) == IF l[i][2] = Unset THEN <<l[i][1], "default">> ELSE l[i]
<1>3. \A i \in 1 .. Len(l) : f(i) \in Written
  BY <1>1, <1>2
<1>4. RenderPgHba(l) = [i \in 1 .. Len(l) |-> f(i)]
  BY <1>1 DEF RenderPgHba
<1> HIDE DEF f
<1> QED
  BY <1>1, <1>3, <1>4

(* What was written reads back as itself. *)
LEMMA RenderWritten ==
  ASSUME NEW l \in Seq(Written)
  PROVE  RenderPgHba(l) = l /\ l \in Seq(HbaEntries)
<1>1. /\ Len(l) \in Nat /\ DOMAIN l = 1 .. Len(l) /\ l \in [1 .. Len(l) -> Written]
  OBVIOUS
<1>2. ASSUME NEW e \in Written PROVE e[2] # Unset /\ e \in HbaEntries
  <2>1. PICK r \in Rules, m \in {"default", "trust"} : e = <<r, m>>
    BY DEF Written
  <2>2. e[2] = m
    BY <2>1
  <2> QED
    BY <2>1, <2>2, ConfigAssumption DEF HbaEntries
<1>3. \A i \in DOMAIN l : l[i][2] # Unset
  BY <1>1, <1>2
<1>4. RenderPgHba(l) = [i \in DOMAIN l |-> l[i]]
  BY <1>3 DEF RenderPgHba
<1>5. l \in Seq(HbaEntries)
  BY <1>1, <1>2
<1> QED
  BY <1>1, <1>4, <1>5

(* Two and three commands in a row. *)
LEMMA TwoInARow ==
  ASSUME NEW x, NEW y
  PROVE  <<x>> \o <<>> \o <<y>> = <<x, y>>
<1> DEFINE s == <<x>> \o <<>> \o <<y>>
           t == <<x, y>>
<1>1. s \in Seq({x, y}) /\ Len(s) = 2 /\ s[1] = x /\ s[2] = y
  OBVIOUS
<1>2. t \in Seq({x, y}) /\ Len(t) = 2 /\ t[1] = x /\ t[2] = y
  OBVIOUS
<1> HIDE DEF s, t
<1>3. s = t
  BY <1>1, <1>2, SeqEqual
<1> QED
  BY <1>3 DEF s, t

(* Three commands, one after the other. *)
LEMMA ThreeInARow ==
  ASSUME NEW x, NEW y, NEW z
  PROVE  <<x>> \o <<y>> \o <<z>> = <<x, y, z>>
<1> DEFINE s == <<x>> \o <<y>> \o <<z>>
           t == <<x, y, z>>
<1>1. s \in Seq({x, y, z}) /\ Len(s) = 3 /\ s[1] = x /\ s[2] = y /\ s[3] = z
  OBVIOUS
<1>2. t \in Seq({x, y, z}) /\ Len(t) = 3 /\ t[1] = x /\ t[2] = y /\ t[3] = z
  OBVIOUS
<1> HIDE DEF s, t
<1>3. s = t
  BY <1>1, <1>2, SeqEqual
<1> QED
  BY <1>3 DEF s, t

(* The commands of an apply, in their order. *)
LEMMA CommandLists ==
  ASSUME NEW c
  PROVE  buildConfigCommands(c) = IF HasRules(c)
             THEN <<"write conf.d drop-in", "rewrite pg_hba block", Ctl(c)>>
             ELSE <<"write conf.d drop-in", Ctl(c)>>
<1>1. CtlCommand(c) = <<Ctl(c)>>
  BY DEF CtlCommand, Ctl
<1>2. CASE HasRules(c)
  <2>1. HbaCommand(c) = <<"rewrite pg_hba block">>
    BY <1>2 DEF HbaCommand, HasRules
  <2> QED
    BY <1>1, <1>2, <2>1, ThreeInARow DEF buildConfigCommands
<1>3. CASE ~HasRules(c)
  <2>1. HbaCommand(c) = <<>>
    BY <1>3 DEF HbaCommand, HasRules
  <2> QED
    BY <1>1, <1>3, <2>1, TwoInARow DEF buildConfigCommands
<1> QED
  BY <1>2, <1>3

(* The last command reloads or restarts. *)
LEMMA CommandTypes ==
  /\ \A c : Ctl(c) \in {"reload", "restart"} /\ Ctl(c) \in Commands
  /\ "write conf.d drop-in" \in Commands /\ "rewrite pg_hba block" \in Commands
  BY DEF Ctl, Commands, FileCommands

(* The pg_hba command is there only for a configuration with rules. *)
LEMMA CommandsLength ==
  ASSUME NEW c
  PROVE  /\ HasRules(c) => Len(buildConfigCommands(c)) = 3
         /\ ~HasRules(c) => Len(buildConfigCommands(c)) = 2
<1>1. ASSUME NEW x, NEW y, NEW z PROVE Len(<<x, y, z>>) = 3 /\ Len(<<x, y>>) = 2
  OBVIOUS
<1>2. CASE HasRules(c)
  BY <1>1, <1>2, CommandLists
<1>3. CASE ~HasRules(c)
  BY <1>1, <1>3, CommandLists
<1> QED
  BY <1>2, <1>3

(* What is left to run at each point of an apply. *)
LEMMA WriteLeft ==
  ASSUME ToWrite
  PROVE  /\ todo \in Seq(Commands) /\ Len(todo) > 1 /\ Head(todo) = "write conf.d drop-in"
         /\ Len(todo) = Len(buildConfigCommands(declared))
         /\ Tail(todo) = IF HasRules(declared) THEN <<"rewrite pg_hba block", Ctl(declared)>>
                                              ELSE <<Ctl(declared)>>
<1>1. CASE HasRules(declared)
  <2> DEFINE x == "write conf.d drop-in"
             y == "rewrite pg_hba block"
             z == Ctl(declared)
  <2>1. todo = <<x, y, z>> /\ x \in Commands /\ y \in Commands /\ z \in Commands
    BY <1>1, CommandLists, CommandTypes DEF ToWrite
  <2> HIDE DEF x, y, z
  <2>2. todo \in Seq(Commands) /\ Len(todo) = 3 /\ Head(todo) = x /\ Tail(todo) = <<y, z>>
    BY <2>1
  <2>3. Len(todo) > 1 /\ Len(todo) = Len(buildConfigCommands(declared))
    BY <2>2 DEF ToWrite
  <2> QED
    BY <1>1, <2>2, <2>3, Zenon DEF x, y, z
<1>2. CASE ~HasRules(declared)
  <2> DEFINE x == "write conf.d drop-in"
             z == Ctl(declared)
  <2>1. todo = <<x, z>> /\ x \in Commands /\ z \in Commands
    BY <1>2, CommandLists, CommandTypes DEF ToWrite
  <2> HIDE DEF x, z
  <2>2. todo \in Seq(Commands) /\ Len(todo) = 2 /\ Head(todo) = x /\ Tail(todo) = <<z>>
    BY <2>1
  <2>3. Len(todo) > 1 /\ Len(todo) = Len(buildConfigCommands(declared))
    BY <2>2 DEF ToWrite
  <2> QED
    BY <1>2, <2>2, <2>3, Zenon DEF x, z
<1> QED
  BY <1>1, <1>2

(* What is left once the drop-in is written. *)
LEMMA RewriteLeft ==
  ASSUME ToRewrite
  PROVE  /\ todo \in Seq(Commands) /\ Len(todo) > 1 /\ Head(todo) = "rewrite pg_hba block"
         /\ Len(todo) < Len(buildConfigCommands(declared))
         /\ Tail(todo) = <<Ctl(declared)>>
<1> DEFINE y == "rewrite pg_hba block"
           z == Ctl(declared)
<1>1. todo = <<y, z>> /\ y \in Commands /\ z \in Commands
  BY CommandTypes DEF ToRewrite
<1>2. Len(buildConfigCommands(declared)) = 3
  BY CommandsLength DEF ToRewrite
<1> HIDE DEF y, z
<1>3. todo \in Seq(Commands) /\ Len(todo) = 2 /\ Head(todo) = y /\ Tail(todo) = <<z>>
  BY <1>1
<1>4. Len(todo) > 1 /\ Len(todo) < Len(buildConfigCommands(declared))
  BY <1>2, <1>3
<1> QED
  BY <1>3, <1>4, Zenon DEF y, z

(* What is left once the files are written. *)
LEMMA CtlLeft ==
  ASSUME ToCtl
  PROVE  /\ todo \in Seq(Commands) /\ Len(todo) = 1 /\ Head(todo) = Ctl(declared)
         /\ Len(todo) < Len(buildConfigCommands(declared))
<1> DEFINE z == Ctl(declared)
<1>1. todo = <<z>> /\ z \in Commands
  BY CommandTypes DEF ToCtl
<1> HIDE DEF z
<1>2. todo \in Seq(Commands) /\ Len(todo) = 1 /\ Head(todo) = z
  BY <1>1
<1>3. \/ Len(buildConfigCommands(declared)) = 3
      \/ Len(buildConfigCommands(declared)) = 2
  BY CommandsLength, Zenon
<1>4. Len(todo) < Len(buildConfigCommands(declared))
  <2> DEFINE n == Len(buildConfigCommands(declared))
             m == Len(todo)
  <2>1. m = 1 /\ (n = 3 \/ n = 2)
    BY <1>2, <1>3
  <2> HIDE DEF n, m
  <2>2. m < n
    BY <2>1
  <2> QED
    BY <2>2 DEF n, m
<1> QED
  BY <1>2, <1>4, Zenon DEF z

-----------------------------------------------------------------------------
(* What each command does to the files and the server. *)
LEMMA WriteEffect ==
  ASSUME Types, Effect("write conf.d drop-in")
  PROVE  /\ running' = running /\ file' \in HostConfigs
         /\ file'.keys = declared.keys /\ file'.hba = file.hba
<1>1. file' = [file EXCEPT !.keys = declared.keys] /\ running' = running
  BY DEF Effect, FileAfter
<1>2. declared.keys \in Settings
  BY DEF Types, Configs
<1> QED
  BY <1>1, <1>2 DEF Types, HostConfigs

(* The second command touches the rules alone. *)
LEMMA RewriteEffect ==
  ASSUME Types, HasRules(declared), Effect("rewrite pg_hba block")
  PROVE  /\ running' = running /\ file' \in HostConfigs
         /\ file'.keys = file.keys /\ file'.hba = RenderPgHba(declared.hba)
<1>1. file' = [file EXCEPT !.hba = RenderPgHba(declared.hba)] /\ running' = running
  BY DEF Effect, FileAfter
<1>2. declared.hba \in Seq(HbaEntries)
  BY ConfigAssumption DEF Types, Configs, HasRules
<1>3. RenderPgHba(declared.hba) \in Seq(Written)
  BY <1>2, RenderTypes
<1> QED
  BY <1>1, <1>3 DEF Types, HostConfigs, Written

(* The last command puts into effect what the files say, as far as it can. *)
LEMMA CtlEffect ==
  ASSUME Types, Effect(Ctl(declared))
  PROVE  /\ file' = file /\ running' \in HostConfigs
         /\ running'.hba = file.hba
         /\ \A k \in ReloadKeys : running'.keys[k] = file.keys[k]
         /\ NeedsRestart(declared) => running' = file
<1>1. /\ file \in HostConfigs /\ running \in HostConfigs
      /\ file.keys \in Settings /\ running.keys \in Settings
  BY DEF Types, HostConfigs
<1>2. CASE NeedsRestart(declared)
  <2>1. running' = file /\ file' = file
    BY <1>2 DEF Effect, FileAfter, Ctl
  <2> QED
    BY <1>1, <2>1
<1>3. CASE ~NeedsRestart(declared)
  <2> DEFINE keys == [k \in Keys |-> IF k \in ReloadKeys THEN file.keys[k]
                                                       ELSE running.keys[k]]
  <2>1. running' = [keys |-> keys, hba |-> file.hba] /\ file' = file
    BY <1>3 DEF Effect, FileAfter, Ctl, Reloaded
  <2>2. keys \in Settings /\ \A k \in ReloadKeys : keys[k] = file.keys[k]
    BY <1>1 DEF Settings, Keys
  <2> HIDE DEF keys
  <2> QED
    BY <1>1, <1>3, <2>1, <2>2 DEF HostConfigs
<1> QED
  BY <1>2, <1>3

(* The last command is alone, and an apply is at one point at a time. *)
LEMMA OneCtl ==
  ASSUME ToCtl
  PROVE  ~(Len(todo) > 1)
<1>1. Len(todo) = 1
  BY CtlLeft, Zenon
<1> QED
  BY <1>1

(* What is left tells how far the apply is. *)
LEMMA OneStage == ~(ToWrite /\ ToRewrite) /\ ~(ToWrite /\ ToCtl) /\ ~(ToRewrite /\ ToCtl)
<1>1. ~(ToWrite /\ ToRewrite)
  BY WriteLeft, RewriteLeft, Zenon
<1>2. ToWrite \/ ToRewrite => Len(todo) > 1
  BY WriteLeft, RewriteLeft, Zenon
<1> QED
  BY <1>1, <1>2, OneCtl

(* A command that ran was the next one of the apply. *)
LEMMA TodoEffect ==
  ASSUME Types, ApplyInv, phase = "applying", Effect(Head(todo))
  PROVE  /\ file' \in HostConfigs /\ running' \in HostConfigs
         /\ ToWrite => running' = running /\ file'.keys = declared.keys /\ file'.hba = file.hba
         /\ ToRewrite => /\ running' = running /\ file'.keys = file.keys
                         /\ file'.hba = RenderPgHba(declared.hba)
         /\ ToCtl => Effect(Ctl(declared))
<1>1. CASE ToWrite
  <2>1. Head(todo) = "write conf.d drop-in"
    BY <1>1, WriteLeft
  <2>2. Effect("write conf.d drop-in")
    BY <2>1, Zenon
  <2>3. /\ running' = running /\ file' \in HostConfigs
        /\ file'.keys = declared.keys /\ file'.hba = file.hba
    BY <2>2, WriteEffect, Zenon
  <2> QED
    BY <1>1, <2>3, OneStage DEF Types
<1>2. CASE ToRewrite
  <2>1. Head(todo) = "rewrite pg_hba block"
    BY <1>2, RewriteLeft
  <2>2. Effect("rewrite pg_hba block")
    BY <2>1, Zenon
  <2>3. HasRules(declared)
    BY <1>2 DEF ToRewrite
  <2>4. /\ running' = running /\ file' \in HostConfigs
        /\ file'.keys = file.keys /\ file'.hba = RenderPgHba(declared.hba)
    BY <2>2, <2>3, RewriteEffect, Zenon
  <2> QED
    BY <1>2, <2>3, <2>4, OneStage DEF Types
<1>3. CASE ToCtl
  <2>1. Effect(Ctl(declared))
    BY <1>3, CtlLeft, Zenon
  <2> QED
    BY <1>3, <2>1, CtlEffect, OneStage DEF Types
<1> QED
  BY <1>1, <1>2, <1>3 DEF ApplyInv

(* What a write leaves that was cut, and what an abandoned one may write. *)
LEMMA CutEffect ==
  ASSUME Types, ApplyInv, phase = "applying", file' \in {file} \cup CutFiles(Head(todo))
  PROVE  /\ file' \in HostConfigs
         /\ ToRewrite => file'.keys = file.keys
         /\ ToCtl => file' = file
         /\ Head(todo) \in FileCommands => <<Head(todo), declared>> \in LateWrites
<1>1. /\ file \in HostConfigs /\ file.keys \in Settings /\ file.hba \in Seq(Written)
      /\ declared \in Configs /\ declared.keys \in Settings
  BY DEF Types, Configs, HostConfigs, Written
<1>2. CASE ToWrite
  <2>1. Head(todo) = "write conf.d drop-in"
    BY <1>2, WriteLeft
  <2>2. ASSUME NEW K \in SUBSET Keys
        PROVE  [file EXCEPT !.keys = [k \in Keys |-> IF k \in K THEN declared.keys[k] ELSE Unset]]
                 \in HostConfigs
    <3>1. [k \in Keys |-> IF k \in K THEN declared.keys[k] ELSE Unset] \in Settings
      BY <1>1 DEF Settings
    <3> QED
      BY <1>1, <3>1 DEF HostConfigs
  <2>3. file' \in HostConfigs
    BY <1>1, <2>1, <2>2 DEF CutFiles
  <2>4. <<Head(todo), declared>> \in LateWrites
    BY <1>1, <2>1 DEF LateWrites, FileCommands
  <2> QED
    BY <1>2, <2>3, <2>4, OneStage
<1>3. CASE ToRewrite
  <2>1. Head(todo) = "rewrite pg_hba block"
    BY <1>3, RewriteLeft
  <2>2. HasRules(declared) /\ declared.hba \in Seq(HbaEntries)
    BY <1>1, <1>3, ConfigAssumption DEF ToRewrite, HasRules, Configs
  <2>3. RenderPgHba(declared.hba) \in Seq(Written)
    BY <2>2, RenderTypes
  <2>4. ASSUME NEW n \in 0 .. Len(RenderPgHba(declared.hba))
        PROVE  /\ [file EXCEPT !.hba = SubSeq(RenderPgHba(declared.hba), 1, n)] \in HostConfigs
               /\ [file EXCEPT !.hba = SubSeq(RenderPgHba(declared.hba), 1, n)].keys = file.keys
    <3>1. SubSeq(RenderPgHba(declared.hba), 1, n) \in Seq(Written)
      BY <2>3
    <3> QED
      BY <1>1, <3>1 DEF HostConfigs, Written
  <2>5. file' \in HostConfigs /\ file'.keys = file.keys
    <3>1. CutFiles("rewrite pg_hba block") =
            {[file EXCEPT !.hba = SubSeq(RenderPgHba(declared.hba), 1, n)] :
                n \in 0 .. Len(RenderPgHba(declared.hba))}
      BY DEF CutFiles
    <3>2. CASE file' = file
      BY <1>1, <3>2
    <3>3. CASE \E n \in 0 .. Len(RenderPgHba(declared.hba)) :
                 file' = [file EXCEPT !.hba = SubSeq(RenderPgHba(declared.hba), 1, n)]
      BY <2>4, <3>3
    <3> QED
      BY <2>1, <3>1, <3>2, <3>3
  <2>6. <<Head(todo), declared>> \in LateWrites
    BY <1>1, <2>1, <2>2 DEF LateWrites, FileCommands
  <2> QED
    BY <1>3, <2>5, <2>6, OneStage
<1>4. CASE ToCtl
  <2>1. Head(todo) \in {"reload", "restart"}
    BY <1>4, CtlLeft, CommandTypes
  <2>2. file' = file
    BY <2>1 DEF CutFiles
  <2> QED
    BY <1>1, <1>4, <2>1, <2>2, OneStage DEF FileCommands
<1> QED
  BY <1>2, <1>3, <1>4 DEF ApplyInv

(* A failed attempt: the types, and what it may have done by its point.    *)
LEMMA AttemptEffect ==
  ASSUME Types, ApplyInv, AttemptFails
  PROVE  /\ file' \in HostConfigs /\ running' \in HostConfigs /\ late' \in SUBSET LateWrites
         /\ failures' \in 0 .. MaxFailures
         /\ ToWrite => running' = running
         /\ ToRewrite => file'.keys = file.keys
         /\ ToCtl => file' = file
<1>1. /\ phase = "applying" /\ failures < MaxFailures /\ failures' = failures + 1
      /\ \/ Effect(Head(todo)) /\ late' = late
         \/ /\ file' \in {file} \cup CutFiles(Head(todo)) /\ running' = running
            /\ \/ late' = late
               \/ Head(todo) \in FileCommands /\ late' = late \cup {<<Head(todo), declared>>}
  BY DEF AttemptFails
<1>2. /\ failures' \in 0 .. MaxFailures /\ late \in SUBSET LateWrites
      /\ running \in HostConfigs
  BY <1>1, ConfigAssumption DEF Types
<1>3. CASE Effect(Head(todo)) /\ late' = late
  <2>1. ToCtl => file' = file
    BY <1>1, <1>3, TodoEffect, CtlEffect, Zenon
  <2> QED
    BY <1>1, <1>2, <1>3, <2>1, TodoEffect
<1>4. CASE /\ file' \in {file} \cup CutFiles(Head(todo)) /\ running' = running
           /\ \/ late' = late
              \/ Head(todo) \in FileCommands /\ late' = late \cup {<<Head(todo), declared>>}
  BY <1>1, <1>2, <1>4, CutEffect
<1> QED
  BY <1>1, <1>3, <1>4

(* A late write leaves files of their type. *)
LEMMA LateEffect ==
  ASSUME Types, NEW w \in late
  PROVE  FileAfter(w[1], w[2]) \in HostConfigs
<1>1. w \in LateWrites /\ file \in HostConfigs /\ file.keys \in Settings /\ file.hba \in Seq(Written)
  BY DEF Types, HostConfigs, Written
<1>2. PICK cmd \in FileCommands, c \in Configs : w = <<cmd, c>>
  <2>1. w \in FileCommands \X Configs
    BY <1>1 DEF LateWrites
  <2> QED
    BY <2>1
<1>3. w[1] = cmd /\ w[2] = c /\ c.keys \in Settings
  BY <1>2 DEF Configs
<1>4. CASE cmd = "write conf.d drop-in"
  <2>1. FileAfter(cmd, c) = [file EXCEPT !.keys = c.keys]
    BY <1>4 DEF FileAfter
  <2> QED
    BY <1>1, <1>3, <2>1 DEF HostConfigs, Written
<1>5. CASE cmd = "rewrite pg_hba block"
  <2>1. FileAfter(cmd, c) = [file EXCEPT !.hba = RenderPgHba(c.hba)]
    BY <1>5 DEF FileAfter
  <2>2. c.hba \in Seq(HbaEntries)
    BY <1>1, <1>2, <1>3, <1>5, ConfigAssumption DEF LateWrites, HasRules, Configs
  <2>3. RenderPgHba(c.hba) \in Seq(Written)
    BY <2>2, RenderTypes
  <2> QED
    BY <1>1, <1>3, <2>1, <2>3 DEF HostConfigs, Written
<1> QED
  BY <1>2, <1>4, <1>5 DEF FileCommands

-----------------------------------------------------------------------------
(* Read records what the files have, in the form of a state. *)
LEMMA ReconcileTypes ==
  ASSUME Types, state # None
  PROVE  /\ reconcile(state) \in States
         /\ \A k \in Keys : reconcile(state).keys[k] \in
              IF state.keys[k] # Unset /\ file.keys[k] # Unset THEN {file.keys[k]}
                                                             ELSE {state.keys[k]}
         /\ reconcile(state).hba = IF state.hba # Unset THEN file.hba ELSE state.hba
<1> DEFINE keys == [k \in Keys |-> IF state.keys[k] # Unset /\ file.keys[k] # Unset
                                 THEN file.keys[k] ELSE state.keys[k]]
           hba  == IF state.hba # Unset THEN file.hba ELSE state.hba
<1>1. /\ state.keys \in Settings /\ file.keys \in Settings
      /\ state.hba \in Seq(HbaEntries) \cup {Unset} /\ file.hba \in Seq(Written)
  BY DEF Types, States, HostConfigs, Written
<1>2. keys \in Settings
  BY <1>1 DEF Settings
<1>3. hba \in Seq(HbaEntries) \cup {Unset}
  BY <1>1, RenderWritten
<1>4. reconcile(state) = [keys |-> keys, hba |-> hba]
  BY DEF reconcile
<1>5. \A k \in Keys : keys[k] \in IF state.keys[k] # Unset /\ file.keys[k] # Unset
                                  THEN {file.keys[k]} ELSE {state.keys[k]}
  OBVIOUS
<1> HIDE DEF keys, hba
<1>6. reconcile(state) \in States /\ reconcile(state).keys = keys /\ reconcile(state).hba = hba
  BY <1>2, <1>3, <1>4 DEF States
<1> QED
  BY <1>5, <1>6 DEF hba

(* What is declared can be recorded. *)
LEMMA ConfigsAreStates == Configs \subseteq States
  BY ConfigAssumption DEF Configs, States

(* Every step keeps the types. *)
LEMMA TypesKept == Types /\ ApplyInv /\ [Next]_vars => Types'
<1> SUFFICES ASSUME Types, ApplyInv, [Next]_vars PROVE Types'
  OBVIOUS
<1> USE DEF Types
<1>1. MaxEdits \in Nat /\ MaxFailures \in Nat
  BY ConfigAssumption
<1>2. CASE UNCHANGED vars
  BY <1>2 DEF vars, history
<1>3. CASE EditConfig
  BY <1>1, <1>3 DEF EditConfig, history
<1>4. CASE HandEdit
  <2>1. file.keys \in Settings /\ file.hba \in Seq(Written)
    BY DEF HostConfigs, Written
  <2>2. ASSUME NEW k \in Keys, NEW v \in Values \cup {Unset}
        PROVE  [file EXCEPT !.keys[k] = v] \in HostConfigs
    <3>1. [file.keys EXCEPT ![k] = v] \in Settings
      BY <2>1 DEF Settings
    <3> QED
      BY <3>1 DEF HostConfigs
  <2>3. ASSUME NEW l \in HbaLists
        PROVE  [file EXCEPT !.hba = RenderPgHba(l)] \in HostConfigs
    <3>1. RenderPgHba(l) \in Seq(Written)
      BY ConfigAssumption, RenderTypes
    <3> QED
      BY <3>1 DEF HostConfigs, Written
  <2>4. file' \in HostConfigs
    BY <1>4, <2>2, <2>3 DEF HandEdit
  <2> QED
    BY <1>1, <1>4, <2>4 DEF HandEdit
<1>5. CASE ServerRestart
  <2>1. Reloaded \in HostConfigs
    BY DEF Reloaded, HostConfigs, Settings
  <2> QED
    BY <1>5, <2>1 DEF ServerRestart, history
<1>6. CASE ImportState \/ Delete
  <2>1. Imported \in States
    BY DEF Imported, States, Settings
  <2> QED
    BY <1>1, <1>6, <2>1 DEF ImportState, Delete, history
<1>7. CASE Read \/ ReadFails
  <2>1. state' \in {None} \cup States
    BY <1>7, ReconcileTypes DEF Read, ReadFails
  <2> QED
    BY <1>1, <1>7, <2>1 DEF Read, ReadFails, history
<1>8. CASE NoDiff \/ Apply
  BY <1>8 DEF NoDiff, Apply, history
<1>9. CASE CommandSucceeds
  BY <1>9, TodoEffect DEF CommandSucceeds, history
<1>10. CASE ApplySucceeds
  BY <1>10, TodoEffect, ConfigsAreStates DEF ApplySucceeds
<1>11. CASE CommandRepeats \/ CommandFails
  <2>1. /\ UNCHANGED <<declared, state, edits>> /\ phase' \in {phase, "idle"} /\ AttemptFails
        /\ interrupted' \in BOOLEAN /\ touched' \in BOOLEAN /\ overtaken' \in BOOLEAN
    BY <1>11 DEF CommandRepeats, CommandFails
  <2>2. /\ file' \in HostConfigs /\ running' \in HostConfigs /\ late' \in SUBSET LateWrites
        /\ failures' \in 0 .. MaxFailures
    BY <2>1, AttemptEffect
  <2> QED
    BY <2>1, <2>2
<1>12. CASE LateWrite
  <2>1. PICK w \in late : late' = late \ {w} /\ file' = FileAfter(w[1], w[2])
    BY <1>12 DEF LateWrite
  <2>2. file' \in HostConfigs
    BY <2>1, LateEffect
  <2>3. /\ UNCHANGED <<declared, state, running, phase, interrupted, edits, failures>>
        /\ touched' \in BOOLEAN /\ overtaken' \in BOOLEAN
    BY <1>12 DEF LateWrite
  <2> QED
    BY <2>1, <2>2, <2>3
<1> QED
  BY <1>2, <1>3, <1>4, <1>5, <1>6, <1>7, <1>8, <1>9, <1>10, <1>11, <1>12 DEF Next

(* Where an apply goes from each point. *)
LEMMA StageSucceeds ==
  ASSUME Types, ApplyInv, CommandSucceeds
  PROVE  /\ phase' = "applying" /\ UNCHANGED <<declared, state>>
         /\ ToRewrite' \/ ToCtl'
<1>1. /\ phase = "applying" /\ phase' = phase /\ UNCHANGED <<declared, state, overtaken>>
      /\ Effect(Head(todo)) /\ todo' = Tail(todo) /\ Len(todo) > 1
  BY DEF CommandSucceeds, history
<1>2. CASE ToWrite
  <2>1. file'.keys = declared'.keys
    BY <1>1, <1>2, TodoEffect
  <2>2. CASE HasRules(declared)
    <3>1. todo' = <<"rewrite pg_hba block", Ctl(declared)>>
      BY <1>1, <1>2, <2>2, WriteLeft, Zenon
    <3>2. Ctl(declared') = Ctl(declared) /\ HasRules(declared')
      BY <1>1, <2>2, Zenon
    <3> QED
      BY <2>1, <3>1, <3>2, <1>1, Zenon DEF ToRewrite
  <2>3. CASE ~HasRules(declared)
    <3>1. todo' = <<Ctl(declared)>>
      BY <1>1, <1>2, <2>3, WriteLeft, Zenon
    <3> QED
      BY <1>1, <2>1, <2>3, <3>1 DEF ToCtl, FilesWritten, Ctl, HasRules, NeedsRestart, DeclaredKeys
  <2> QED
    BY <1>1, <2>2, <2>3
<1>3. CASE ToRewrite
  <2>1. /\ overtaken' \/ file'.keys = declared'.keys
        /\ file'.hba = RenderPgHba(declared.hba)
    BY <1>1, <1>3, TodoEffect DEF ToRewrite
  <2>2. todo' = <<Ctl(declared)>>
    BY <1>1, <1>3, RewriteLeft, Zenon
  <2> QED
    BY <1>1, <2>1, <2>2
       DEF ToCtl, FilesWritten, Ctl, HasRules, NeedsRestart, DeclaredKeys, RenderPgHba
<1>4. CASE ToCtl
  <2>1. ~(Len(todo) > 1)
    BY <1>4, OneCtl
  <2> QED
    BY <1>1, <2>1
<1> QED
  BY <1>1, <1>2, <1>3, <1>4 DEF ApplyInv

(* The point of an apply is kept as long as what it has written is.        *)
LEMMA StageKept ==
  ASSUME ApplyInv, UNCHANGED <<declared, state, phase, todo>>, overtaken' = overtaken,
         ToRewrite => file'.keys = file.keys, ToCtl => file' = file
  PROVE  ApplyInv'
<1>1. ToWrite => ToWrite'
  BY DEF ToWrite
<1>2. ToRewrite => ToRewrite'
  BY DEF ToRewrite
<1>3. ToCtl => ToCtl'
  BY DEF ToCtl, FilesWritten
<1> QED
  BY <1>1, <1>2, <1>3 DEF ApplyInv

(* Every step keeps what is left to run in step with the files.            *)
LEMMA ApplyKept == Types /\ ApplyInv /\ [Next]_vars => ApplyInv'
<1> SUFFICES ASSUME Types, ApplyInv, [Next]_vars PROVE ApplyInv'
  OBVIOUS
<1>1. CASE UNCHANGED vars \/ ServerRestart
  <2>1. UNCHANGED <<declared, state, file, phase, todo, overtaken>>
    BY <1>1 DEF vars, history, ServerRestart
  <2> QED
    BY <2>1, StageKept
<1>2. CASE \/ EditConfig \/ HandEdit \/ ImportState \/ Delete \/ Read \/ ReadFails \/ NoDiff
  <2>1. phase # "applying" /\ phase' # "applying" /\ todo' = todo
    BY <1>2 DEF EditConfig, HandEdit, ImportState, Delete, Read, ReadFails, NoDiff
  <2> QED
    BY <2>1 DEF ApplyInv
<1>3. CASE Apply
  <2>1. /\ phase' = "applying" /\ UNCHANGED <<declared, state>> /\ state # declared
        /\ todo' = buildConfigCommands(declared)
    BY <1>3 DEF Apply
  <2> QED
    BY <2>1 DEF ApplyInv, ToWrite
<1>4. CASE CommandSucceeds
  <2>1. phase = "applying"
    BY <1>4 DEF CommandSucceeds
  <2> QED
    BY <1>4, <2>1, StageSucceeds DEF ApplyInv
<1>5. CASE ApplySucceeds \/ CommandFails
  <2>1. phase' = "idle" /\ todo' = <<>>
    BY <1>5 DEF ApplySucceeds, CommandFails
  <2> QED
    BY <2>1 DEF ApplyInv
<1>6. CASE CommandRepeats
  <2>1. UNCHANGED <<declared, state, phase, todo, overtaken>> /\ AttemptFails
    BY <1>6 DEF CommandRepeats
  <2>2. (ToRewrite => file'.keys = file.keys) /\ (ToCtl => file' = file)
    BY <2>1, AttemptEffect
  <2> QED
    BY <2>1, <2>2, StageKept
<1>7. CASE LateWrite
  <2>1. /\ UNCHANGED <<declared, state, phase, todo>>
        /\ phase = "applying" => overtaken' = (overtaken \/ file' # file)
    BY <1>7 DEF LateWrite
  <2>2. CASE phase = "applying" /\ ~overtaken'
    <3>1. file' = file /\ ~overtaken
      BY <2>1, <2>2
    <3> QED
      BY <2>1, <2>2, <3>1, StageKept DEF Types
  <2>3. CASE phase = "applying" /\ overtaken'
    BY <2>1, <2>3 DEF ApplyInv, ToWrite, ToRewrite, ToCtl
  <2>4. CASE phase # "applying"
    BY <2>1, <2>4 DEF ApplyInv
  <2> QED
    BY <2>2, <2>3, <2>4
<1> QED
  BY <1>1, <1>2, <1>3, <1>4, <1>5, <1>6, <1>7 DEF Next

(* The last command brings the files into effect.                          *)
LEMMA SuccessEffect ==
  ASSUME Types, ApplyInv, ApplySucceeds
  PROVE  /\ ToCtl /\ UNCHANGED <<declared, file>> /\ state' = declared
         /\ running'.hba = file.hba
         /\ \A k \in ReloadKeys : running'.keys[k] = file.keys[k]
         /\ ~overtaken => /\ FilesWritten
                          /\ \A k \in RestartKeys : file.keys[k] \in {Unset, running'.keys[k]}
<1>1. /\ phase = "applying" /\ Effect(Head(todo)) /\ Len(todo) = 1
      /\ UNCHANGED declared /\ state' = declared
  BY DEF ApplySucceeds
<1>2. ToCtl
  <2>1. ~(Len(todo) > 1)
    BY <1>1
  <2> QED
    BY <1>1, <2>1, WriteLeft, RewriteLeft, Zenon DEF ApplyInv
<1>3. Effect(Ctl(declared)) /\ (overtaken \/ FilesWritten)
  <2>1. Effect(Ctl(declared))
    BY <1>1, <1>2, TodoEffect
  <2> QED
    BY <1>2, <2>1, Zenon DEF ToCtl
<1>4. /\ file' = file /\ running'.hba = file.hba
      /\ \A k \in ReloadKeys : running'.keys[k] = file.keys[k]
  BY <1>3, CtlEffect
<1>5. CASE NeedsRestart(declared)
  BY <1>1, <1>2, <1>3, <1>4, <1>5, CtlEffect
<1>6. CASE ~NeedsRestart(declared)
  <2>1. ~overtaken => \A k \in RestartKeys : file.keys[k] = Unset
    BY <1>3, <1>6 DEF FilesWritten, NeedsRestart, DeclaredKeys, Keys
  <2> QED
    BY <1>1, <1>2, <1>3, <1>4, <2>1
<1> QED
  BY <1>5, <1>6

(* A command that failed and left nothing to tell of was the first one,    *)
(* and it left the files as they were.                                     *)
LEMMA SilentFailure ==
  ASSUME Types, ApplyInv, CommandFails, ~interrupted', ~touched'
  PROVE  Undisturbed /\ UNCHANGED <<state, file, running>>
<1>1. /\ phase = "applying" /\ UNCHANGED <<declared, state>> /\ AttemptFails
      /\ touched' = (touched \/ overtaken)
      /\ interrupted' = (interrupted \/ file' # file
                            \/ Len(todo) < Len(buildConfigCommands(declared)))
  <2>1. AttemptFails
    BY DEF CommandFails
  <2> QED
    BY <2>1, Zenon DEF CommandFails, AttemptFails
<1>2. /\ ~interrupted /\ ~touched /\ ~overtaken /\ file' = file
      /\ ~(Len(todo) < Len(buildConfigCommands(declared)))
  BY <1>1
<1>3. ToWrite
  BY <1>1, <1>2, RewriteLeft, CtlLeft, Zenon DEF ApplyInv
<1>4. running' = running
  BY <1>1, <1>3, AttemptEffect
<1> QED
  BY <1>1, <1>2, <1>3, <1>4 DEF Undisturbed

(* Before an apply has begun its first command nothing is disturbed that   *)
(* was not.                                                                *)
LEMMA UndisturbedStep ==
  ASSUME Types, ApplyInv, [Next]_vars, ~ApplySucceeds, ~CommandFails, Undisturbed'
  PROVE  Undisturbed /\ UNCHANGED file
<1>1. CASE UNCHANGED vars \/ ServerRestart
  BY <1>1 DEF vars, history, ServerRestart, Undisturbed, ToWrite
<1>2. CASE HandEdit
  BY <1>2 DEF HandEdit, Undisturbed
<1>3. CASE \/ EditConfig \/ ImportState \/ Delete \/ Read \/ ReadFails \/ NoDiff \/ Apply
  <2>1. UNCHANGED <<file, interrupted, touched>> /\ phase # "applying"
    BY <1>3 DEF EditConfig, ImportState, Delete, Read, ReadFails, NoDiff, Apply, history
  <2> QED
    BY <2>1 DEF Undisturbed
<1>4. CASE CommandSucceeds
  <2>1. phase' = "applying" /\ (ToRewrite' \/ ToCtl')
    BY <1>4, StageSucceeds
  <2>2. ToWrite'
    BY <2>1 DEF Undisturbed
  <2>3. (~(ToWrite /\ ToRewrite) /\ ~(ToWrite /\ ToCtl))'
    BY OneStage, PTL
  <2> QED
    BY <2>1, <2>2, <2>3
<1>5. CASE CommandRepeats
  <2>1. /\ UNCHANGED <<declared, phase, todo, touched, overtaken>>
        /\ interrupted' = (interrupted \/ file' # file)
    BY <1>5 DEF CommandRepeats
  <2> QED
    BY <2>1 DEF Undisturbed, ToWrite
<1>6. CASE LateWrite
  <2>1. /\ UNCHANGED <<declared, phase, todo, interrupted>>
        /\ IF phase = "applying"
             THEN overtaken' = (overtaken \/ file' # file) /\ touched' = touched
             ELSE touched' = (touched \/ file' # file)
    BY <1>6 DEF LateWrite
  <2>2. CASE phase = "applying"
    BY <2>1, <2>2 DEF Undisturbed, ToWrite
  <2>3. CASE phase # "applying"
    BY <2>1, <2>3 DEF Undisturbed
  <2> QED
    BY <2>2, <2>3
<1> QED
  BY <1>1, <1>2, <1>3, <1>4, <1>5, <1>6 DEF Next

(* What is recorded is what the files have: an apply and a Read see to it. *)
LEMMA RecordedKept == Types /\ ApplyInv /\ RecordedInv /\ [Next]_vars => RecordedInv'
<1> SUFFICES ASSUME Types, ApplyInv, RecordedInv, [Next]_vars, Undisturbed', state' # None
             PROVE  /\ \A k \in Keys : state'.keys[k] \in {Unset, file'.keys[k]}
                    /\ HasRules(state') => file'.hba = RenderPgHba(state'.hba)
  BY DEF RecordedInv
<1>1. CASE ApplySucceeds
  <2>1. ~overtaken
    BY <1>1 DEF Undisturbed, ApplySucceeds
  <2>2. FilesWritten /\ file' = file /\ state' = declared
    BY <1>1, <2>1, SuccessEffect
  <2> QED
    BY <2>2 DEF FilesWritten
<1>2. CASE CommandFails
  <2>1. Undisturbed /\ UNCHANGED <<state, file>>
    BY <1>2, SilentFailure DEF Undisturbed
  <2> QED
    BY <2>1 DEF RecordedInv
<1>3. CASE ~ApplySucceeds /\ ~CommandFails
  <2>1. Undisturbed /\ file' = file
    BY <1>3, UndisturbedStep
  <2>2. CASE state' = state
    BY <2>1, <2>2 DEF RecordedInv
  <2>3. CASE Read
    <3>1. state # None /\ state' = reconcile(state)
      BY <2>3 DEF Read
    <3>2. \A k \in Keys : state'.keys[k] \in {Unset, file.keys[k]}
      BY <2>1, <3>1, ReconcileTypes DEF RecordedInv
    <3>3. state'.hba = IF state.hba # Unset THEN file.hba ELSE state.hba
      BY <3>1, ReconcileTypes
    <3>4. RenderPgHba(file.hba) = file.hba
      BY RenderWritten DEF Types, HostConfigs, Written
    <3>5. HasRules(state') => state'.hba = file.hba
      BY <3>3 DEF HasRules
    <3> QED
      BY <2>1, <3>2, <3>4, <3>5
  <2>4. CASE ImportState
    BY <2>4 DEF ImportState, Imported, HasRules
  <2>5. CASE state' = None
    BY <2>5
  <2> QED
    BY <1>3, <2>2, <2>3, <2>4, <2>5
       DEF Next, vars, EditConfig, HandEdit, ServerRestart, Delete,
       ReadFails, NoDiff, Apply, CommandSucceeds, CommandRepeats, LateWrite
<1> QED
  BY <1>1, <1>2, <1>3

(* What the files have is in effect: an apply and a restart see to it.     *)
LEMMA RunningKept == Types /\ ApplyInv /\ RunningInv /\ [Next]_vars => RunningInv'
<1> SUFFICES ASSUME Types, ApplyInv, RunningInv, [Next]_vars, Undisturbed'
             PROVE  /\ running'.hba = file'.hba
                    /\ \A k \in ReloadKeys : running'.keys[k] = file'.keys[k]
                    /\ \A k \in RestartKeys : file'.keys[k] \in {Unset, running'.keys[k]}
  BY DEF RunningInv
<1>1. CASE ApplySucceeds
  <2>1. ~overtaken
    BY <1>1 DEF Undisturbed, ApplySucceeds
  <2> QED
    BY <1>1, <2>1, SuccessEffect
<1>2. CASE CommandFails
  <2>1. Undisturbed /\ UNCHANGED <<running, file>>
    BY <1>2, SilentFailure DEF Undisturbed
  <2> QED
    BY <2>1 DEF RunningInv
<1>3. CASE ServerRestart
  <2>1. Undisturbed /\ file' = file
    BY <1>3 DEF ServerRestart, Undisturbed, ToWrite, history
  <2>2. CASE running' = file
    BY <2>1, <2>2
  <2>3. CASE running' = Reloaded
    BY <2>1, <2>3 DEF RunningInv, Reloaded, Keys
  <2> QED
    BY <1>3, <2>2, <2>3 DEF ServerRestart
<1>4. CASE ~ApplySucceeds /\ ~CommandFails /\ ~ServerRestart
  <2>1. Undisturbed /\ file' = file
    BY <1>4, UndisturbedStep
  <2>2. CASE running' = running
    BY <2>1, <2>2 DEF RunningInv
  <2>3. CASE CommandSucceeds
    <3>1. phase = "applying"
      BY <2>3 DEF CommandSucceeds
    <3>2. ToWrite /\ Effect(Head(todo))
      BY <2>1, <2>3, <3>1 DEF CommandSucceeds, Undisturbed
    <3>3. running' = running
      BY <3>1, <3>2, TodoEffect
    <3> QED
      BY <2>2, <3>3
  <2>4. CASE CommandRepeats
    <3>1. AttemptFails /\ phase = "applying"
      BY <2>4 DEF CommandRepeats, AttemptFails
    <3>2. running' = running
      BY <2>1, <3>1, AttemptEffect DEF Undisturbed
    <3> QED
      BY <2>2, <3>2
  <2> QED
    BY <1>4, <2>2, <2>3, <2>4 DEF Next, vars, EditConfig, HandEdit, ImportState, Delete, Read,
       ReadFails, NoDiff, Apply, LateWrite
<1> QED
  BY <1>1, <1>2, <1>3, <1>4

-----------------------------------------------------------------------------
(* Nothing is recorded at first, and the files are as packaged. *)
LEMMA InitInv == Init => Inv
<1> SUFFICES ASSUME Init PROVE Inv
  OBVIOUS
<1>1. Packaged \in HostConfigs
  <2>1. [k \in Keys |-> Unset] \in Settings
    BY DEF Settings
  <2>2. <<>> \in Seq(Rules \X {"default", "trust"})
    OBVIOUS
  <2> QED
    BY <2>1, <2>2 DEF Packaged, HostConfigs
<1>2. Types
  <2>1. 0 \in 0 .. MaxEdits /\ 0 \in 0 .. MaxFailures
    BY ConfigAssumption
  <2> QED
    BY <1>1, <2>1 DEF Init, Types
<1>3. ApplyInv /\ RecordedInv /\ RunningInv
  BY DEF Init, ApplyInv, RecordedInv, RunningInv, Packaged, Keys
<1> QED
  BY <1>2, <1>3 DEF Inv

(* The invariant holds in every state. *)
LEMMA Invariant == Spec => []Inv
<1>1. Init => Inv
  BY InitInv
<1>2. Inv /\ [Next]_vars => Inv'
  BY TypesKept, ApplyKept, RecordedKept, RunningKept DEF Inv
<1> QED
  BY <1>1, <1>2, PTL DEF Spec

(* The configuration, the recorded state, the files, the server's settings *)
(* and the commands left to run have their types.                          *)
THEOREM ConfigTypes == Spec => []TypeOK
<1>1. ASSUME Inv PROVE TypeOK
  <2>1. todo \in Seq(Commands)
    <3>1. CASE phase = "applying"
      BY <1>1, <3>1, WriteLeft, RewriteLeft, CtlLeft, Zenon DEF Inv, ApplyInv
    <3>2. CASE phase # "applying"
      BY <1>1, <3>2 DEF Inv, ApplyInv
    <3> QED
      BY <3>1, <3>2
  <2> QED
    BY <1>1, <2>1 DEF Inv, Types, States, LateWrites, TypeOK
<1> QED
  BY <1>1, Invariant, PTL

(* What is recorded and in the files is what the server runs with.         *)
LEMMA RecordedInEffect ==
  ASSUME Inv, state = declared, ~interrupted, ~touched
  PROVE  InEffect(declared)
<1>1. state # None /\ phase # "applying"
  BY ConfigAssumption DEF Inv, Types, ApplyInv
<1>2. Undisturbed
  BY <1>1 DEF Undisturbed
<1>3. /\ \A k \in Keys : declared.keys[k] \in {Unset, file.keys[k]}
      /\ HasRules(declared) => file.hba = RenderPgHba(declared.hba)
  BY <1>1, <1>2 DEF Inv, RecordedInv
<1>4. /\ running.hba = file.hba
      /\ \A k \in ReloadKeys : running.keys[k] = file.keys[k]
      /\ \A k \in RestartKeys : file.keys[k] \in {Unset, running.keys[k]}
  BY <1>2 DEF Inv, RunningInv
<1>5. \A k \in DeclaredKeys(declared) : running.keys[k] = declared.keys[k]
  BY <1>3, <1>4 DEF DeclaredKeys, Keys
<1>6. declared.hba \notin {Unset, <<>>} => running.hba = RenderPgHba(declared.hba)
  BY <1>3, <1>4 DEF HasRules
<1> QED
  BY <1>5, <1>6 DEF InEffect

(* A plan without differences is the truth: a configuration that agrees    *)
(* with the recorded state is in effect, unless an apply was interrupted   *)
(* or the files were edited by hand.                                       *)
THEOREM ConfigAgreementIsInEffect == Spec => []AgreementIsInEffect
<1>1. Inv => AgreementIsInEffect
  BY RecordedInEffect DEF AgreementIsInEffect
<1> QED
  BY <1>1, Invariant, PTL

(* An apply that reports success has brought the configuration into effect.*)
THEOREM ConfigSuccessIsInEffect == Spec => SuccessIsInEffect
<1> DEFINE Done == phase = "applying" /\ state' = declared /\ phase' = "idle" /\ ~overtaken
           Effective == /\ InEffect(declared)'
                        /\ \A k \in ReloadKeys \ DeclaredKeys(declared) :
                             running'.keys[k] = Unset
<1>1. ASSUME Inv, [Next]_vars, Done PROVE Effective
  <2>1. ApplySucceeds
    <3>1. state # declared
      BY <1>1 DEF Inv, ApplyInv
    <3>2. state' # state
      BY <1>1, <3>1
    <3> QED
      BY <1>1, <3>2
         DEF Next, vars, EditConfig, HandEdit, ServerRestart, ImportState, Delete, Read,
         ReadFails, NoDiff, Apply, CommandSucceeds, CommandRepeats, CommandFails, LateWrite
  <2>2. /\ FilesWritten /\ declared' = declared
        /\ running'.hba = file.hba
        /\ \A k \in ReloadKeys : running'.keys[k] = file.keys[k]
        /\ \A k \in RestartKeys : file.keys[k] \in {Unset, running'.keys[k]}
    BY <1>1, <2>1, SuccessEffect DEF Inv
  <2>3. /\ file.keys = declared.keys
        /\ HasRules(declared) => file.hba = RenderPgHba(declared.hba)
    BY <2>2 DEF FilesWritten
  <2>4. \A k \in DeclaredKeys(declared) : running'.keys[k] = declared.keys[k]
    BY <2>2, <2>3 DEF DeclaredKeys, Keys
  <2>5. \A k \in ReloadKeys \ DeclaredKeys(declared) : running'.keys[k] = Unset
    BY <2>2, <2>3 DEF DeclaredKeys, Keys
  <2>6. declared.hba \notin {Unset, <<>>} => running'.hba = RenderPgHba(declared.hba)
    BY <2>2, <2>3 DEF HasRules
  <2> QED
    BY <2>2, <2>4, <2>5, <2>6 DEF InEffect, DeclaredKeys, RenderPgHba
<1>2. Inv /\ [Next]_vars => [Done => Effective]_vars
  BY <1>1
<1> QED
  BY <1>2, Invariant, PTL DEF Spec, SuccessIsInEffect
=============================================================================
