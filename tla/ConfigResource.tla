--------------------------- MODULE ConfigResource ---------------------------
(***************************************************************************)
(* postgres_config (src/internal/provider/config_resource.go) in the       *)
(* refresh - plan - apply loop that drives it: the declared configuration, *)
(* the recorded state, the two files on the host (conf.d drop-in, managed  *)
(* block of pg_hba.conf) and the settings the server runs with.            *)
(*                                                                         *)
(* The three copies of a setting - state, file, running server - are       *)
(* changed by different steps, any of which may fail, and Read looks at    *)
(* the files only.                                                         *)
(***************************************************************************)
EXTENDS Naturals, Sequences

CONSTANTS
    ReloadKeys,     \* keys a reload brings into effect
    RestartKeys,    \* restartRequiredKeys: postmaster context
    Values,         \* values of a key
    Rules,          \* pg_hba rules, without their method
    Unset,          \* a null attribute; in a file or the server: the packaged default
    None,           \* no recorded state
    HbaLists,       \* the pg_hba lists a configuration may declare
    MaxEdits,       \* bound: edits of the configuration or, by hand, of the host
    MaxFailures     \* bound: commands that fail

Keys == ReloadKeys \cup RestartKeys

(* An access rule with its method; "default" is DefaultHBAMethod written out. *)
HbaEntries == Rules \X {Unset, "default", "trust"}

VARIABLES
    declared,     \* the configuration: [keys, hba]
    state,        \* the recorded state: None, or a value like declared
    file,         \* [keys, hba] as the host's files have it; hba: <<>> without a block
    running,      \* [keys, hba] the server runs with
    phase,        \* "idle", "planned" or "applying"
    todo,         \* commands RunCommands has still to run
    late,         \* writes the host has not ended though the client gave up on them
    interrupted,  \* history: an apply failed after touching a file, none succeeded since
    touched,      \* history: the files changed behind the provider since the last success
    overtaken,    \* history: a late write changed them during this apply
    edits, failures

history == <<interrupted, touched, overtaken>>
vars == <<declared, state, file, running, phase, todo, late, history, edits, failures>>

Settings == [Keys -> Values \cup {Unset}]
Configs  == [keys : Settings, hba : HbaLists \cup {Unset}]
HostConfigs == [keys : Settings, hba : Seq(Rules \X {"default", "trust"})]

ASSUME ConfigAssumption ==
    /\ ReloadKeys \cap RestartKeys = {}
    /\ Unset \notin Values \cup HbaLists \cup {"default", "trust"}
    /\ None \notin Configs
    /\ HbaLists \subseteq Seq(HbaEntries)
    /\ MaxEdits \in Nat /\ MaxFailures \in Nat

FileCommands == {"write conf.d drop-in", "rewrite pg_hba block"}
Commands == FileCommands \cup {"reload", "restart"}

(* Every key declared is one settings() collects.  password_encryption has *)
(* a default, so the list is never empty and the drop-in always written.   *)
DeclaredKeys(c) == {k \in Keys : c.keys[k] # Unset}

(* RenderPgHba: an entry without a method gets the default one.            *)
(* Mutant: the method is written as declared.                              *)
RenderPgHba_NoDefault(list) == list
RenderPgHba(list) ==
    [i \in DOMAIN list |-> IF list[i][2] = Unset THEN <<list[i][1], "default">> ELSE list[i]]

(* Mutant: only the keys whose value changed decide. *)
NeedsRestart_ChangedKeys(c) == \E k \in RestartKeys \cap DeclaredKeys(c) : file.keys[k] # c.keys[k]
NeedsRestart(c) == DeclaredKeys(c) \cap RestartKeys # {}

(* The last of the three commands; the rewrite only for a non-empty list. *)
CtlCommand(c) == <<IF NeedsRestart(c) THEN "restart" ELSE "reload">>
HbaCommand(c) == IF c.hba # Unset /\ c.hba # <<>> THEN <<"rewrite pg_hba block">> ELSE <<>>

(* Mutant: pg_ctlcluster runs before the block is written. *)
buildConfigCommands_CtlEarly(c) == <<"write conf.d drop-in">> \o CtlCommand(c) \o HbaCommand(c)
buildConfigCommands(c) == <<"write conf.d drop-in">> \o HbaCommand(c) \o CtlCommand(c)

(* reconcile: a declared key takes the value the drop-in has for it, if it *)
(* has one; a declared pg_hba list is replaced by the parsed block.        *)
(* Mutant: the list is replaced even if it was not declared.               *)
reconcile_AlwaysHba(s) ==
    [keys |-> [k \in Keys |-> IF s.keys[k] # Unset /\ file.keys[k] # Unset
                              THEN file.keys[k] ELSE s.keys[k]],
     hba  |-> file.hba]
reconcile(s) ==
    [keys |-> [k \in Keys |-> IF s.keys[k] # Unset /\ file.keys[k] # Unset
                              THEN file.keys[k] ELSE s.keys[k]],
     hba  |-> IF s.hba # Unset THEN file.hba ELSE s.hba]

Packaged == [keys |-> [k \in Keys |-> Unset], hba |-> <<>>]

Init == /\ declared \in Configs
        /\ state = None
        /\ file = Packaged
        /\ running = Packaged
        /\ phase = "idle"
        /\ todo = <<>>
        /\ late = {}
        /\ interrupted = FALSE /\ touched = FALSE /\ overtaken = FALSE
        /\ edits = 0
        /\ failures = 0
-----------------------------------------------------------------------------
(* The user changes the configuration. *)
EditConfig ==
    /\ phase = "idle" /\ edits < MaxEdits
    /\ edits' = edits + 1
    /\ declared' \in Configs \ {declared}
    /\ UNCHANGED <<state, file, running, phase, todo, late, history, failures>>

(* Someone edits the files on the host, without a reload. *)
HandEdit ==
    /\ phase = "idle" /\ edits < MaxEdits
    /\ edits' = edits + 1
    /\ touched' = TRUE
    /\ \/ \E k \in Keys, v \in Values \cup {Unset} : file' = [file EXCEPT !.keys[k] = v]
       \/ \E l \in HbaLists : file' = [file EXCEPT !.hba = RenderPgHba(l)]
    /\ UNCHANGED <<declared, state, running, phase, todo, late, interrupted, overtaken, failures>>

(* What a reload brings into effect. *)
Reloaded == [keys |-> [k \in Keys |-> IF k \in ReloadKeys THEN file.keys[k] ELSE running.keys[k]],
             hba  |-> file.hba]

(* The server restarts or reloads without this apply: a reboot, or a       *)
(* command nobody waited for.                                              *)
ServerRestart ==
    /\ running # file
    /\ running' \in {file, Reloaded}
    /\ UNCHANGED <<declared, state, file, phase, todo, late, history, edits, failures>>

(* ImportState records the id only; every other attribute starts null. *)
Imported == [keys |-> [k \in Keys |-> Unset], hba |-> Unset]

ImportState ==
    /\ phase = "idle" /\ state = None
    /\ state' = Imported
    /\ UNCHANGED <<declared, file, running, phase, todo, late, history, edits, failures>>

(* The resource leaves the configuration: Delete is a no-op on the host. *)
Delete ==
    /\ phase = "idle" /\ state # None /\ edits < MaxEdits
    /\ edits' = edits + 1
    /\ state' = None
    /\ UNCHANGED <<declared, file, running, phase, todo, late, history, failures>>

(* Read: the state is refreshed from the files before every plan. *)
Read ==
    /\ phase = "idle"
    /\ phase' = "planned"
    /\ state' = IF state = None THEN None ELSE reconcile(state)
    /\ UNCHANGED <<declared, file, running, todo, late, history, edits, failures>>

(* Read could not reach the host: the run ends with the error. *)
ReadFails ==
    /\ phase = "idle" /\ failures < MaxFailures
    /\ failures' = failures + 1
    /\ UNCHANGED <<declared, state, file, running, phase, todo, late, history, edits>>

(* The plan shows no difference: nothing is applied. *)
NoDiff ==
    /\ phase = "planned" /\ state = declared
    /\ phase' = "idle"
    /\ UNCHANGED <<declared, state, file, running, todo, late, history, edits, failures>>

(* Create or Update: both build and run the same commands. *)
Apply ==
    /\ phase = "planned" /\ state # declared
    /\ phase' = "applying"
    /\ todo' = buildConfigCommands(declared)
    /\ UNCHANGED <<declared, state, file, running, late, history, edits, failures>>

(* The files after a command that was built from the configuration c. *)
FileAfter(cmd, c) ==
    CASE cmd = "write conf.d drop-in" -> [file EXCEPT !.keys = c.keys]
      [] cmd = "rewrite pg_hba block" -> [file EXCEPT !.hba = RenderPgHba(c.hba)]
      [] OTHER -> file

(* What a command does to the host. *)
Effect(cmd) ==
    /\ file' = FileAfter(cmd, declared)
    /\ running' = CASE cmd = "reload"  -> Reloaded
                    [] cmd = "restart" -> file
                    [] OTHER -> running

CommandSucceeds ==
    /\ phase = "applying" /\ Len(todo) > 1
    /\ Effect(Head(todo))
    /\ todo' = Tail(todo)
    /\ UNCHANGED <<declared, state, phase, late, history, edits, failures>>

(* The last command succeeds: write returns true and the state is set to the plan. *)
ApplySucceeds ==
    /\ phase = "applying" /\ Len(todo) = 1
    /\ Effect(Head(todo))
    /\ todo' = <<>>
    /\ phase' = "idle"
    /\ state' = declared
    /\ interrupted' = FALSE
    /\ touched' = overtaken
    /\ overtaken' = FALSE
    /\ UNCHANGED <<declared, late, edits, failures>>

(* The files after a write that lost its connection half way: it has the   *)
(* first lines of what it was given.                                       *)
CutFiles(cmd) ==
    CASE cmd = "write conf.d drop-in" ->
           {[file EXCEPT !.keys = [k \in Keys |-> IF k \in K THEN declared.keys[k] ELSE Unset]] :
               K \in SUBSET Keys}
      [] cmd = "rewrite pg_hba block" ->
           {[file EXCEPT !.hba = SubSeq(RenderPgHba(declared.hba), 1, n)] :
               n \in 0 .. Len(RenderPgHba(declared.hba))}
      [] OTHER -> {}

(* An attempt fails: after its effect, without one, or half way; where it  *)
(* was a write the host may go on with it, for the deadline and a reset    *)
(* end the client's side alone.                                            *)
AttemptFails ==
    /\ phase = "applying" /\ failures < MaxFailures
    /\ failures' = failures + 1
    /\ \/ Effect(Head(todo)) /\ late' = late
       \/ /\ file' \in {file} \cup CutFiles(Head(todo))
          /\ \/ late' = late
             \/ Head(todo) \in FileCommands /\ late' = late \cup {<<Head(todo), declared>>}
          /\ UNCHANGED running

(* The connection was reset: Run tries the command again. *)
CommandRepeats ==
    /\ AttemptFails
    /\ interrupted' = (interrupted \/ file' # file)
    /\ UNCHANGED <<declared, state, phase, todo, touched, overtaken, edits>>

(* RunCommands stops, the error is reported and the state stays what it was. *)
CommandFails ==
    /\ AttemptFails
    /\ todo' = <<>>
    /\ phase' = "idle"
    /\ interrupted' = (interrupted \/ file' # file \/ Len(todo) < Len(buildConfigCommands(declared)))
    /\ touched' = (touched \/ overtaken)
    /\ overtaken' = FALSE
    /\ UNCHANGED <<declared, state, edits>>

(* The host ends a write nobody waits for. *)
LateWrite ==
    \E w \in late :
        /\ late' = late \ {w}
        /\ file' = FileAfter(w[1], w[2])
        /\ IF phase = "applying"
             THEN overtaken' = (overtaken \/ file' # file) /\ touched' = touched
             ELSE touched' = (touched \/ file' # file) /\ overtaken' = overtaken
        /\ UNCHANGED <<declared, state, running, phase, todo, interrupted, edits, failures>>
-----------------------------------------------------------------------------
Next == \/ EditConfig \/ HandEdit \/ ServerRestart \/ ImportState \/ Delete
        \/ Read \/ ReadFails \/ NoDiff \/ Apply
        \/ CommandSucceeds \/ ApplySucceeds \/ CommandRepeats \/ CommandFails \/ LateWrite

(* The user runs refresh, plan and apply again and again; a command that   *)
(* is running ends.                                                        *)
Fairness == WF_vars(Read \/ NoDiff \/ Apply \/ CommandSucceeds \/ ApplySucceeds)

Spec     == Init /\ [][Next]_vars
FairSpec == Spec /\ Fairness
-----------------------------------------------------------------------------
TypeOK == /\ declared \in Configs
          /\ state \in {None} \cup [keys : Settings, hba : Seq(HbaEntries) \cup {Unset}]
          /\ file \in HostConfigs
          /\ running \in HostConfigs
          /\ phase \in {"idle", "planned", "applying"}
          /\ todo \in Seq(Commands)
          /\ late \in SUBSET (FileCommands \X Configs)
          /\ interrupted \in BOOLEAN /\ touched \in BOOLEAN /\ overtaken \in BOOLEAN
          /\ edits \in 0 .. MaxEdits /\ failures \in 0 .. MaxFailures

(* The server runs with what the configuration c declares. *)
InEffect(c) == /\ \A k \in DeclaredKeys(c) : running.keys[k] = c.keys[k]
               /\ c.hba \notin {Unset, <<>>} => running.hba = RenderPgHba(c.hba)

(* When an apply reports success the server runs with every declared key   *)
(* and the declared access rules, and a reloadable key that is no longer   *)
(* declared is back at its default (apply, buildConfigCommands) - unless a *)
(* write of an earlier, abandoned apply ended between its commands.        *)
SuccessIsInEffect ==
    [][phase = "applying" /\ state' = declared /\ phase' = "idle" /\ ~overtaken =>
          /\ InEffect(declared)'
          /\ \A k \in ReloadKeys \ DeclaredKeys(declared) : running'.keys[k] = Unset]_vars

(* A state that agrees with the configuration is one the server runs with, *)
(* unless an apply was interrupted after touching a file or the files were *)
(* changed behind the provider: Read compares files, so these two are the  *)
(* cases where an empty plan hides a server running with something else.   *)
AgreementIsInEffect ==
    state = declared /\ ~interrupted /\ ~touched => InEffect(declared)

(* A plan whose lists name their methods and are not empty. *)
Canonical(c) == c.hba = Unset \/ (c.hba # <<>> /\ RenderPgHba(c.hba) = c.hba)

(* A configuration whose plan is never empty: Read records the block with  *)
(* every method written out, and an empty list never empties the block.    *)
Endless(c) == /\ c.hba # Unset
              /\ IF c.hba = <<>> THEN file.hba # <<>> ELSE RenderPgHba(c.hba) # c.hba

(* Repeated applies settle, whatever an earlier one left cut, undone or to *)
(* end late: once edits and failures stop, the plan of a canonical         *)
(* configuration is and stays empty (RenderConfD and ParseConfD are        *)
(* inverse, Read after Update).  One whose plan is never empty is applied  *)
(* over and over: it is in effect at last and stays so, for every apply    *)
(* writes and reloads or restarts all of it (apply, buildConfigCommands).  *)
Settles == <>[](/\ Canonical(declared) => state = declared
                /\ Endless(declared) => InEffect(declared))
=============================================================================
