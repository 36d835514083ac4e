------------------------ MODULE SshTransport_proofs ------------------------
(***************************************************************************)
(* Proofs about SshTransport, for any number of callers, commands and      *)
(* attempts.  Nothing here is inductive by itself: that an attempt number  *)
(* stays within MaxAttempts needs that only a loop with attempts left      *)
(* sleeps, and the order and repetition of executions need what ties the   *)
(* host's history (ran, completed, resets) to how far the loops of         *)
(* RunCommands and Run have got.  Inv collects these facts per caller.     *)
(***************************************************************************)
EXTENDS SshTransport, TLAPS

(* Some attempt of command j of caller c ended with status 0. *)
Done(c, j) == \E a \in Attempts : <<j, a>> \in completed[c]

(* What the place of a caller says about its current execution. *)
PlaceInv(c) ==
    /\ pc[c] = "backoff" => att[c] < MaxAttempts /\ Exec(c) \in resets[c]
    /\ pc[c] \in {"executing", "zero", "nonzero"} => Exec(c) \in ran[c]
    /\ pc[c] \in {"zero", "ok"} => Exec(c) \in completed[c]
    /\ pc[c] = "ok" => idx[c] = NumCommands

(* What the counters of the two loops say about the past. *)
LoopInv(c) ==
    /\ \A j \in 1 .. idx[c] - 1 : Done(c, j)
    /\ \A b \in 1 .. att[c] - 1 : <<idx[c], b>> \in resets[c]

(* What is known of every execution the host has seen. *)
HostInv(c) ==
    /\ completed[c] \subseteq ran[c]
    /\ orphans[c] \subseteq ran[c]
    /\ \A e \in ran[c] : e[1] <= idx[c]
    /\ \A e \in ran[c] : \A b \in 1 .. e[2] - 1 : <<e[1], b>> \in resets[c]

Inv == \A c \in Callers : PlaceInv(c) /\ LoopInv(c) /\ HostInv(c)

(* The initial state has the right types. *)
LEMMA TypeInit == Init => TypeOK
<1> SUFFICES ASSUME Init PROVE TypeOK
  OBVIOUS
<1> USE TransportAssumption
<1>1. 1 \in Cmds /\ 1 \in Attempts
  BY DEF Cmds, Attempts
<1> QED
  BY <1>1 DEF Init, TypeOK, PcStates

(* A step keeps the types, given what Inv says of the attempt counter. *)
LEMMA TypeStep == TypeOK /\ Inv /\ [Next]_vars => TypeOK'
<1> SUFFICES ASSUME TypeOK, Inv, [Next]_vars PROVE TypeOK'
  OBVIOUS
<1> USE TransportAssumption
<1>1. ASSUME NEW c \in Callers PROVE Exec(c) \in Executions /\ Key(c) \in Callers \X Executions
  BY DEF TypeOK, Exec, Key, Executions
<1>2. CASE UNCHANGED vars
  BY <1>2 DEF TypeOK, vars
<1>3. CASE Kill
  BY <1>1, <1>3 DEF TypeOK, Kill, PcStates, Ended
<1>4. CASE Terminating
  BY <1>4 DEF TypeOK, Terminating, vars
<1>5. ASSUME NEW c \in Callers, RunOnceReturns(c)
      PROVE  /\ orphans' \in [Callers -> SUBSET Executions]
             /\ keys' \subseteq Callers \X Executions
  BY <1>1, <1>5 DEF TypeOK, RunOnceReturns
<1>6. ASSUME NEW c \in Callers, Provider(c) PROVE TypeOK'
  <2>1. CASE NotConfigured(c)
    BY <2>1 DEF TypeOK, NotConfigured, PcStates, Ended
  <2>2. CASE IdentityFails(c)
    BY <2>2 DEF TypeOK, IdentityFails, PcStates, Ended
  <2>3. CASE StartSsh(c)
    BY <2>3, <1>1 DEF TypeOK, StartSsh, PcStates, SshAlive
  <2>4. CASE Succeeds(c)
    BY <2>4, <1>5 DEF TypeOK, Succeeds, PcStates, Ended, Cmds, Attempts
  <2>5. CASE Deadline(c)
    BY <2>5, <1>5 DEF TypeOK, Deadline, RunOnceFails, AfterFailure, PcStates, Ended
  <2>6. CASE BackoffEnds(c)
    BY <2>6 DEF TypeOK, BackoffEnds, PcStates, Attempts, Inv, PlaceInv
  <2> QED
    BY <1>6, <2>1, <2>2, <2>3, <2>4, <2>5, <2>6 DEF Provider
<1>7. ASSUME NEW c \in Callers, Environment(c) PROVE TypeOK'
  <2>1. CASE ExecBegins(c)
    BY <2>1, <1>1 DEF TypeOK, ExecBegins, PcStates, SshAlive
  <2>2. CASE ExecEndsZero(c)
    BY <2>2, <1>1 DEF TypeOK, ExecEndsZero, PcStates, SshAlive
  <2>3. CASE ExecEndsNonzero(c)
    BY <2>3 DEF TypeOK, ExecEndsNonzero, PcStates, SshAlive
  <2>4. CASE OrphanEnds(c)
    BY <2>4 DEF TypeOK, OrphanEnds
  <2>5. CASE Reset(c)
    BY <2>5, <1>1, <1>5 DEF TypeOK, Reset, AfterReset, PcStates, Ended
  <2>6. CASE Rejected(c)
    BY <2>6, <1>5 DEF TypeOK, Rejected, RunOnceFails, AfterFailure, PcStates, Ended
  <2> QED
    BY <1>7, <2>1, <2>2, <2>3, <2>4, <2>5, <2>6 DEF Environment
<1> QED
  BY <1>2, <1>3, <1>4, <1>6, <1>7 DEF Next

(* Inv holds initially. *)
LEMMA InvInit == Init => Inv
  BY TransportAssumption DEF Init, Inv, PlaceInv, LoopInv, HostInv, Done, Exec

(* An action of one caller disturbs the invariant of no other. *)
Others(c) == \A d \in Callers \ {c} :
    /\ pc'[d] = pc[d] /\ idx'[d] = idx[d] /\ att'[d] = att[d] /\ resets'[d] = resets[d]
    /\ ran'[d] = ran[d] /\ completed'[d] = completed[d] /\ orphans'[d] = orphans[d]

(* A step of one caller leaves the facts about the others alone. *)
LEMMA InvOthers ==
  ASSUME Inv, NEW c \in Callers, Others(c), (PlaceInv(c) /\ LoopInv(c) /\ HostInv(c))'
  PROVE  Inv'
<1> SUFFICES ASSUME NEW d \in Callers PROVE (PlaceInv(d) /\ LoopInv(d) /\ HostInv(d))'
  BY DEF Inv
<1>1. CASE d = c
  BY <1>1
<1>2. CASE d # c
  BY <1>2 DEF Others, Inv, PlaceInv, LoopInv, HostInv, Done, Exec
<1> QED
  BY <1>1, <1>2

(* Every step keeps Inv, caller by caller. *)
LEMMA InvStep == TypeOK /\ Inv /\ [Next]_vars => Inv'
<1> SUFFICES ASSUME TypeOK, Inv, [Next]_vars PROVE Inv'
  OBVIOUS
<1> USE TransportAssumption
<1>1. CASE UNCHANGED vars
  BY <1>1 DEF vars, Inv, PlaceInv, LoopInv, HostInv, Done, Exec
<1>2. CASE Kill
  BY <1>2 DEF TypeOK, Kill, Ended, Inv, PlaceInv, LoopInv, HostInv, Done, Exec
<1>3. CASE Terminating
  BY <1>1, <1>3 DEF Terminating
<1>4. ASSUME NEW c \in Callers, Provider(c) PROVE Inv'
  <2> DEFINE CInv == PlaceInv(c) /\ LoopInv(c) /\ HostInv(c)
  <2> USE DEF PlaceInv, LoopInv, HostInv, Done, Exec
  <2>0. CInv /\ idx[c] \in Cmds /\ att[c] \in Attempts
    BY DEF Inv, TypeOK
  <2>1. CASE NotConfigured(c)
    <3>1. CInv' /\ Others(c)
      BY <2>0, <2>1 DEF TypeOK, NotConfigured, Others
    <3> QED
      BY <3>1, InvOthers
  <2>2. CASE IdentityFails(c)
    <3>1. CInv' /\ Others(c)
      BY <2>0, <2>2 DEF TypeOK, IdentityFails, Others
    <3> QED
      BY <3>1, InvOthers
  <2>3. CASE StartSsh(c)
    <3>1. CInv' /\ Others(c)
      BY <2>0, <2>3 DEF TypeOK, StartSsh, Others
    <3> QED
      BY <3>1, InvOthers
  <2>4. CASE Succeeds(c)
    <3>1. Others(c)
      BY <2>4 DEF TypeOK, Succeeds, RunOnceReturns, Others
    <3>2. orphans'[c] = orphans[c]
      BY <2>4 DEF TypeOK, Succeeds, RunOnceReturns
    <3>3. CASE idx[c] = NumCommands
      BY <2>0, <2>4, <3>1, <3>2, <3>3, InvOthers DEF TypeOK, Succeeds
    <3>4. CASE idx[c] # NumCommands
      <4>1. idx'[c] = idx[c] + 1 /\ att'[c] = 1 /\ pc'[c] = "attempt"
        BY <2>4, <3>4 DEF TypeOK, Succeeds
      <4>2. Done(c, idx[c])
        BY <2>0, <2>4 DEF Succeeds
      <4>3. LoopInv(c)'
        BY <2>0, <2>4, <4>1, <4>2 DEF Succeeds, Cmds
      <4>4. HostInv(c)'
        BY <2>0, <2>4, <3>2, <4>1 DEF TypeOK, Succeeds, Cmds, Attempts, Executions
      <4> QED
        BY <3>1, <4>1, <4>3, <4>4, InvOthers
    <3> QED
      BY <3>3, <3>4
  <2>5. CASE Deadline(c)
    <3>1. CInv' /\ Others(c)
      BY <2>0, <2>5 DEF TypeOK, Deadline, RunOnceFails, RunOnceReturns, AfterFailure, Others
    <3> QED
      BY <3>1, InvOthers
  <2>6. CASE BackoffEnds(c)
    <3>1. CInv' /\ Others(c)
      BY <2>0, <2>6 DEF TypeOK, BackoffEnds, Attempts, Others
    <3> QED
      BY <3>1, InvOthers
  <2> QED
    BY <1>4, <2>1, <2>2, <2>3, <2>4, <2>5, <2>6 DEF Provider
<1>5. ASSUME NEW c \in Callers, Environment(c) PROVE Inv'
  <2> DEFINE CInv == PlaceInv(c) /\ LoopInv(c) /\ HostInv(c)
  <2> USE DEF PlaceInv, LoopInv, HostInv, Done, Exec
  <2>0. CInv /\ idx[c] \in Cmds /\ att[c] \in Attempts
    BY DEF Inv, TypeOK
  <2>1. CASE ExecBegins(c)
    <3>1. ran'[c] = ran[c] \cup {<<idx[c], att[c]>>}
      BY <2>1 DEF TypeOK, ExecBegins
    <3>2. idx[c] <= idx[c] /\ \A b \in 1 .. att[c] - 1 : <<idx[c], b>> \in resets[c]
      BY <2>0 DEF Cmds
    <3>3. HostInv(c)'
      BY <2>0, <2>1, <3>1, <3>2 DEF ExecBegins
    <3>4. PlaceInv(c)' /\ LoopInv(c)' /\ Others(c)
      BY <2>0, <2>1, <3>1 DEF TypeOK, ExecBegins, Others
    <3> QED
      BY <3>3, <3>4, InvOthers
  <2>2. CASE ExecEndsZero(c)
    <3>1. CInv' /\ Others(c)
      BY <2>0, <2>2 DEF TypeOK, ExecEndsZero, Others
    <3> QED
      BY <3>1, InvOthers
  <2>3. CASE ExecEndsNonzero(c)
    <3>1. CInv' /\ Others(c)
      BY <2>0, <2>3 DEF TypeOK, ExecEndsNonzero, Others
    <3> QED
      BY <3>1, InvOthers
  <2>4. CASE OrphanEnds(c)
    <3>1. PICK e \in orphans[c] :
             /\ orphans' = [orphans EXCEPT ![c] = @ \ {e}]
             /\ completed' \in {completed, [completed EXCEPT ![c] = @ \cup {e}]}
      BY <2>4 DEF OrphanEnds
    <3>2. completed'[c] \in {completed[c], completed[c] \cup {e}} /\ orphans'[c] = orphans[c] \ {e}
      BY <3>1 DEF TypeOK
    <3>3. Others(c)
      BY <2>4, <3>1 DEF TypeOK, OrphanEnds, Others
    <3>4. CInv'
      BY <2>0, <2>4, <3>2 DEF OrphanEnds
    <3> QED
      BY <3>3, <3>4, InvOthers
  <2>5. CASE Reset(c)
    <3>1. CInv' /\ Others(c)
      BY <2>0, <2>5 DEF TypeOK, Reset, RunOnceReturns, AfterReset, Attempts, Others
    <3> QED
      BY <3>1, InvOthers
  <2>6. CASE Rejected(c)
    <3>1. CInv' /\ Others(c)
      BY <2>0, <2>6 DEF TypeOK, Rejected, RunOnceFails, RunOnceReturns, AfterFailure, Others
    <3> QED
      BY <3>1, InvOthers
  <2> QED
    BY <1>5, <2>1, <2>2, <2>3, <2>4, <2>5, <2>6 DEF Environment
<1> QED
  BY <1>1, <1>2, <1>3, <1>4, <1>5 DEF Next

(* Types and Inv hold in every reachable state. *)
LEMMA Invariance == Spec => [](TypeOK /\ Inv)
<1>1. Init => TypeOK /\ Inv
  BY TypeInit, InvInit
<1>2. TypeOK /\ Inv /\ [Next]_vars => (TypeOK /\ Inv)'
  BY TypeStep, InvStep
<1> QED
  BY <1>1, <1>2, PTL DEF Spec

(* Every variable keeps its type; in particular no attempt is ever started *)
(* beyond maxSSHAttempts (Run).                                            *)
THEOREM TypeCorrect == Spec => []TypeOK
  BY Invariance, PTL

(* RunCommands: a command begins only after every earlier one succeeded,   *)
(* and a list that returns nil ran to its end.                             *)
THEOREM OrderIsKept == Spec => []PrefixCompleted
<1>1. TypeOK /\ Inv => PrefixCompleted
  <2> SUFFICES ASSUME TypeOK, Inv PROVE PrefixCompleted
    OBVIOUS
  <2> USE TransportAssumption
  <2>1. ASSUME NEW c \in Callers, NEW e \in ran[c], NEW j \in 1 .. e[1] - 1 PROVE Done(c, j)
    BY <2>1 DEF TypeOK, Inv, LoopInv, HostInv, Executions, Cmds
  <2>2. ASSUME NEW c \in Callers, pc[c] = "ok", NEW j \in Cmds PROVE Done(c, j)
    <3>1. idx[c] = NumCommands /\ att[c] \in Attempts /\ <<idx[c], att[c]>> \in completed[c]
      BY <2>2 DEF TypeOK, Inv, PlaceInv, Exec
    <3>2. CASE j = NumCommands
      BY <3>1, <3>2 DEF Done
    <3>3. CASE j # NumCommands
      BY <3>1, <3>3 DEF Inv, LoopInv, Cmds
    <3> QED
      BY <3>2, <3>3
  <2> QED
    BY <2>1, <2>2 DEF PrefixCompleted, Done
<1> QED
  BY <1>1, Invariance, PTL

(* Run: only a reset connection leads to a second execution; what timed    *)
(* out or failed is never repeated.                                        *)
THEOREM OnlyResetsRepeat == Spec => []RepeatsOnlyAfterReset
<1>1. Inv => RepeatsOnlyAfterReset
  BY DEF Inv, HostInv, RepeatsOnlyAfterReset
<1> QED
  BY <1>1, Invariance, PTL

(* The key file invariant of one caller, which KeyFileLifetime states for all. *)
KeysOf(c) == {k \in keys : k[1] = c}
KeyInv(c) == pc[c] # "killed" =>
    KeysOf(c) = IF identity = "pem" /\ pc[c] \in SshAlive THEN {Key(c)} ELSE {}

(* A step that leaves the place and the files of a caller alone. *)
LEMMA KeyUnchanged ==
  ASSUME NEW d \in Callers, KeyInv(d), KeysOf(d)' = KeysOf(d),
         pc'[d] = pc[d], idx'[d] = idx[d], att'[d] = att[d], identity' = identity
  PROVE  KeyInv(d)'
  BY DEF KeyInv, KeysOf, Key, Exec

(* However runOnce returns, the caller is left without a key file. *)
LEMMA KeyRemoved ==
  ASSUME NEW c \in Callers, KeyInv(c), pc[c] \in SshAlive, RunOnceReturns(c)
  PROVE  KeysOf(c)' = {} /\ \A d \in Callers \ {c} : KeysOf(d)' = KeysOf(d)
<1>1. KeysOf(c) \subseteq {Key(c)}
  BY DEF KeyInv, SshAlive
<1>2. keys' = keys \ {Key(c)} /\ Key(c)[1] = c
  BY DEF RunOnceReturns, Key
<1> QED
  BY <1>1, <1>2 DEF KeysOf

(* Every step keeps at most the identity file of the running attempt. *)
LEMMA KeyStep ==
  ASSUME TypeOK, \A c \in Callers : KeyInv(c), [Next]_vars
  PROVE  (\A c \in Callers : KeyInv(c))'
<1> SUFFICES ASSUME NEW d \in Callers PROVE KeyInv(d)'
  OBVIOUS
<1> USE DEF TypeOK
<1>1. CASE UNCHANGED vars
  BY <1>1, KeyUnchanged DEF vars, KeysOf
<1>2. CASE Kill
  <2>1. CASE pc[d] \in Ended
    BY <1>2, <2>1, KeyUnchanged DEF Kill, KeysOf
  <2>2. CASE pc[d] \notin Ended
    BY <1>2, <2>2 DEF Kill, KeyInv
  <2> QED
    BY <2>1, <2>2
<1>3. CASE Terminating
  BY <1>1, <1>3 DEF Terminating
<1>4. ASSUME NEW c \in Callers, pc[c] \in SshAlive, RunOnceReturns(c),
             pc'[c] \notin SshAlive, identity' = identity,
             \A e \in Callers \ {c} : pc'[e] = pc[e] /\ idx'[e] = idx[e] /\ att'[e] = att[e]
      PROVE  KeyInv(d)'
  <2>1. CASE d = c
    BY <1>4, <2>1, KeyRemoved DEF KeyInv
  <2>2. CASE d # c
    BY <1>4, <2>2, KeyRemoved, KeyUnchanged
  <2> QED
    BY <2>1, <2>2
<1>5. ASSUME NEW c \in Callers, Provider(c) PROVE KeyInv(d)'
  <2>1. CASE NotConfigured(c)
    BY <2>1 DEF NotConfigured, KeyInv, KeysOf, Key, Exec, SshAlive
  <2>2. CASE IdentityFails(c)
    BY <2>2 DEF IdentityFails, KeyInv, KeysOf, Key, Exec, SshAlive
  <2>3. CASE StartSsh(c)
    <3>1. Key(c)[1] = c
      BY DEF Key
    <3>2. CASE d = c
      <4>1. KeysOf(c) = {} /\ Key(c)' = Key(c) /\ pc'[c] = "connecting" /\ identity' = identity
        BY <2>3 DEF StartSsh, KeyInv, SshAlive, Key, Exec
      <4>2. KeysOf(c)' = IF identity = "pem" THEN {Key(c)} ELSE {}
        BY <2>3, <3>1, <4>1 DEF StartSsh, KeysOf
      <4> QED
        BY <3>2, <4>1, <4>2 DEF KeyInv, SshAlive
    <3>3. CASE d # c
      <4>1. KeysOf(d)' = KeysOf(d)
        BY <2>3, <3>1, <3>3 DEF StartSsh, KeysOf
      <4> QED
        BY <2>3, <3>3, <4>1, KeyUnchanged DEF StartSsh
    <3> QED
      BY <3>2, <3>3
  <2>4. CASE Succeeds(c)
    BY <2>4, <1>4 DEF Succeeds, SshAlive
  <2>5. CASE Deadline(c)
    BY <2>5, <1>4 DEF Deadline, RunOnceFails, AfterFailure, SshAlive
  <2>6. CASE BackoffEnds(c)
    BY <2>6 DEF BackoffEnds, KeyInv, KeysOf, Key, Exec, SshAlive
  <2> QED
    BY <1>5, <2>1, <2>2, <2>3, <2>4, <2>5, <2>6 DEF Provider
<1>6. ASSUME NEW c \in Callers, Environment(c) PROVE KeyInv(d)'
  <2>1. CASE ExecBegins(c) \/ ExecEndsZero(c) \/ ExecEndsNonzero(c) \/ OrphanEnds(c)
    BY <2>1 DEF ExecBegins, ExecEndsZero, ExecEndsNonzero, OrphanEnds,
                KeyInv, KeysOf, Key, Exec, SshAlive
  <2>2. CASE Reset(c)
    BY <2>2, <1>4 DEF Reset, AfterReset, SshAlive
  <2>3. CASE Rejected(c)
    BY <2>3, <1>4 DEF Rejected, RunOnceFails, AfterFailure, SshAlive
  <2> QED
    BY <1>6, <2>1, <2>2, <2>3 DEF Environment
<1> QED
  BY <1>1, <1>2, <1>3, <1>5, <1>6 DEF Next

(* identityFile and its deferred cleanup: a key file exists exactly while  *)
(* the ssh process of its attempt does, whatever other operations do.      *)
THEOREM KeyFilesAreTemporary == Spec => []KeyFileLifetime
<1>1. Init => \A c \in Callers : KeyInv(c)
  BY DEF Init, KeyInv, KeysOf, SshAlive
<1>2. TypeOK /\ (\A c \in Callers : KeyInv(c)) /\ [Next]_vars => (\A c \in Callers : KeyInv(c))'
  BY KeyStep
<1>3. (\A c \in Callers : KeyInv(c)) => KeyFileLifetime
  BY DEF KeyInv, KeysOf, KeyFileLifetime
<1> QED
  BY <1>1, <1>2, <1>3, TypeCorrect, PTL DEF Spec

(* As long as no connection of a caller was reset and its list did not     *)
(* fail, the host has executed a prefix of the list, each command once.    *)
Reached(c) == IF pc[c] \in {"executing", "zero", "nonzero", "ok"} THEN idx[c] ELSE idx[c] - 1
Passed(c)  == IF pc[c] \in {"zero", "ok"} THEN idx[c] ELSE idx[c] - 1

CleanInv(c) ==
    resets[c] = {} /\ pc[c] \notin {"failed", "killed"} =>
        /\ att[c] = 1
        /\ ran[c] = (1 .. Reached(c)) \X {1}
        /\ completed[c] = (1 .. Passed(c)) \X {1}
        /\ orphans[c] = {}

(* One more command of the list, in its first attempt. *)
LEMMA PrefixGrows ==
  ASSUME NEW i \in Nat \ {0}
  PROVE  (1 .. i) \X {1} = ((1 .. i - 1) \X {1}) \cup {<<i, 1>>}
<1>1. 1 .. i = (1 .. i - 1) \cup {i}
  OBVIOUS
<1> QED
  BY <1>1

(* Every step keeps what an undisturbed list has executed. *)
LEMMA CleanStep ==
  ASSUME TypeOK, Inv, \A c \in Callers : CleanInv(c), [Next]_vars
  PROVE  (\A c \in Callers : CleanInv(c))'
<1> SUFFICES ASSUME NEW d \in Callers, resets'[d] = {}, pc'[d] \notin {"failed", "killed"}
             PROVE  CleanInv(d)'
  BY DEF CleanInv
<1> USE TransportAssumption
<1>0. idx[d] \in Cmds /\ idx[d] \in Nat \ {0}
  BY DEF TypeOK, Cmds
<1>1. CASE UNCHANGED vars
  BY <1>1 DEF vars, CleanInv, Reached, Passed
<1>2. CASE Kill
  BY <1>2 DEF TypeOK, Kill, Ended, CleanInv, Reached, Passed
<1>3. CASE Terminating
  BY <1>1, <1>3 DEF Terminating
<1>4. ASSUME NEW c \in Callers, Others(c), c # d PROVE CleanInv(d)'
  BY <1>4 DEF Others, CleanInv, Reached, Passed
<1>5. CASE Provider(d)
  <2>1. CASE NotConfigured(d) \/ IdentityFails(d)
    BY <2>1 DEF TypeOK, NotConfigured, IdentityFails
  <2>2. CASE StartSsh(d)
    BY <2>2 DEF TypeOK, StartSsh, CleanInv, Reached, Passed
  <2>3. CASE Succeeds(d)
    <3>1. orphans'[d] = orphans[d] /\ ran' = ran /\ completed' = completed /\ resets' = resets
      BY <2>3 DEF TypeOK, Succeeds, RunOnceReturns
    <3>2. /\ att[d] = 1 /\ orphans[d] = {}
          /\ ran[d] = (1 .. idx[d]) \X {1} /\ completed[d] = (1 .. idx[d]) \X {1}
      BY <2>3, <3>1 DEF Succeeds, CleanInv, Reached, Passed
    <3>3. CASE idx[d] = NumCommands
      BY <2>3, <3>1, <3>2, <3>3 DEF TypeOK, Succeeds, CleanInv, Reached, Passed
    <3>4. CASE idx[d] # NumCommands
      <4>1. pc'[d] = "attempt" /\ idx'[d] = idx[d] + 1 /\ att'[d] = 1 /\ idx'[d] - 1 = idx[d]
        BY <1>0, <2>3, <3>4 DEF TypeOK, Succeeds
      <4> QED
        BY <3>1, <3>2, <4>1 DEF CleanInv, Reached, Passed
    <3> QED
      BY <3>3, <3>4
  <2>4. CASE Deadline(d)
    BY <2>4 DEF TypeOK, Deadline, RunOnceFails, AfterFailure
  <2>5. CASE BackoffEnds(d)
    BY <2>5 DEF BackoffEnds, Inv, PlaceInv
  <2> QED
    BY <1>5, <2>1, <2>2, <2>3, <2>4, <2>5 DEF Provider
<1>6. CASE Environment(d)
  <2>1. CASE ExecBegins(d)
    <3>1. pc[d] = "connecting" /\ pc'[d] = "executing" /\ ran'[d] = ran[d] \cup {<<idx[d], att[d]>>}
      BY <2>1 DEF TypeOK, ExecBegins, Exec
    <3>2. /\ att[d] = 1 /\ orphans[d] = {}
          /\ ran[d] = (1 .. idx[d] - 1) \X {1} /\ completed[d] = (1 .. idx[d] - 1) \X {1}
      BY <2>1, <3>1 DEF ExecBegins, CleanInv, Reached, Passed
    <3>3. ran'[d] = (1 .. idx[d]) \X {1}
      BY <1>0, <3>1, <3>2, PrefixGrows
    <3> QED
      BY <2>1, <3>1, <3>2, <3>3 DEF ExecBegins, CleanInv, Reached, Passed
  <2>2. CASE ExecEndsZero(d)
    <3>1. /\ pc[d] = "executing" /\ pc'[d] = "zero"
          /\ completed'[d] = completed[d] \cup {<<idx[d], att[d]>>}
      BY <2>2 DEF TypeOK, ExecEndsZero, Exec
    <3>2. /\ att[d] = 1 /\ orphans[d] = {}
          /\ ran[d] = (1 .. idx[d]) \X {1} /\ completed[d] = (1 .. idx[d] - 1) \X {1}
      BY <2>2, <3>1 DEF ExecEndsZero, CleanInv, Reached, Passed
    <3>3. completed'[d] = (1 .. idx[d]) \X {1}
      BY <1>0, <3>1, <3>2, PrefixGrows
    <3> QED
      BY <2>2, <3>1, <3>2, <3>3 DEF ExecEndsZero, CleanInv, Reached, Passed
  <2>3. CASE ExecEndsNonzero(d)
    BY <2>3 DEF TypeOK, ExecEndsNonzero, CleanInv, Reached, Passed
  <2>4. CASE OrphanEnds(d)
    BY <2>4 DEF OrphanEnds, CleanInv
  <2>5. CASE Reset(d)
    BY <2>5 DEF TypeOK, Reset
  <2>6. CASE Rejected(d)
    BY <2>6 DEF TypeOK, Rejected, RunOnceFails, AfterFailure
  <2> QED
    BY <1>6, <2>1, <2>2, <2>3, <2>4, <2>5, <2>6 DEF Environment
<1>7. ASSUME NEW c \in Callers, c # d, Provider(c) \/ Environment(c) PROVE Others(c)
  BY <1>7 DEF TypeOK, Others, Provider, Environment, NotConfigured, IdentityFails, StartSsh,
              Succeeds, Deadline, BackoffEnds, ExecBegins, ExecEndsZero, ExecEndsNonzero,
              OrphanEnds, Reset, Rejected, RunOnceFails, RunOnceReturns
<1> QED
  BY <1>1, <1>2, <1>3, <1>4, <1>5, <1>6, <1>7 DEF Next

(* Run and RunCommands: without a reset a successful list was executed     *)
(* command by command, each once, and nothing is left running.             *)
THEOREM CleanIsExactlyOnce == Spec => []CleanSuccessIsExactlyOnce
<1>1. Init => \A c \in Callers : CleanInv(c)
  BY TransportAssumption DEF Init, CleanInv, Reached, Passed
<1>2. TypeOK /\ Inv /\ (\A c \in Callers : CleanInv(c)) /\ [Next]_vars
        => (\A c \in Callers : CleanInv(c))'
  BY CleanStep
<1>3. Inv /\ (\A c \in Callers : CleanInv(c)) => CleanSuccessIsExactlyOnce
  BY DEF Inv, PlaceInv, CleanInv, Reached, Passed, CleanSuccessIsExactlyOnce, Cmds
<1> QED
  BY <1>1, <1>2, <1>3, Invariance, PTL DEF Spec

-----------------------------------------------------------------------------
(* SshTransport implements CommandList under the mapping Phase, Acked,     *)
(* Begun, Finished.  Only five kinds of steps are visible to a caller of   *)
(* RunCommands: an execution begins (Begin), one ends with status 0        *)
(* (Complete), the loop moves on (Ack), an operation ends with an error    *)
(* (Fail), the provider dies (Fail, of several).  All others stutter.      *)

Mapped == <<Phase, Acked, Begun, Finished>>

(* The initial state is one of the abstract list. *)
LEMMA InitSimulated == Init => List!Init
  BY TransportAssumption DEF Init, List!Init, Ended, Phase, Acked, Begun, Finished

(* The abstract variables see pc, idx, ran and completed only. *)
LEMMA Stutter ==
  ASSUME UNCHANGED <<idx, ran, completed>>,
         \A d \in Callers : pc'[d] = pc[d] \/ {pc[d], pc'[d]} \cap Ended = {}
  PROVE  UNCHANGED Mapped
<1>1. Phase' = Phase /\ Acked' = Acked
  BY DEF Phase, Acked, Ended
<1>2. Begun' = Begun /\ Finished' = Finished
  BY DEF Begun, Finished
<1> QED
  BY <1>1, <1>2 DEF Mapped

(* An operation that has not ended does so with an error, or several do. *)
LEMMA Fails ==
  ASSUME UNCHANGED <<idx, ran, completed>>, NEW S \in SUBSET Callers,
         \A c \in S : pc[c] \notin Ended /\ pc'[c] \in {"failed", "killed"},
         \A d \in Callers \ S : pc'[d] = pc[d]
  PROVE  List!Fail
<1>1. \A c \in S : Phase[c] = "run"
  BY DEF Phase, Ended
<1>2. Phase' = [c \in Callers |-> IF c \in S THEN "error" ELSE Phase[c]]
  BY DEF Phase, Ended
<1>3. Acked' = Acked
  BY DEF Acked, Ended
<1>4. Begun' = Begun /\ Finished' = Finished
  BY DEF Begun, Finished
<1> QED
  BY <1>1, <1>2, <1>3, <1>4 DEF List!Fail

(* Executions that end with status 0, awaited or not. *)
LEMMA Completes ==
  ASSUME TypeOK, UNCHANGED <<idx, ran>>, NEW c \in Callers, NEW e \in ran[c],
         completed' = [completed EXCEPT ![c] = @ \cup {e}],
         \A d \in Callers : pc'[d] = pc[d] \/ {pc[d], pc'[d]} \cap Ended = {}
  PROVE  List!Complete(c)
<1>1. Phase' = Phase /\ Acked' = Acked
  BY DEF Phase, Acked, Ended
<1>2. Begun' = Begun
  BY DEF Begun
<1>3. e[1] \in Begun[c]
  BY DEF Begun
<1>4. ASSUME NEW d \in Callers
      PROVE  Finished'[d] = [Finished EXCEPT ![c] = @ \cup {e[1]}][d]
  BY DEF TypeOK, Finished
<1>5. Finished' = [Finished EXCEPT ![c] = @ \cup {e[1]}]
  BY <1>4 DEF Finished
<1> QED
  BY <1>1, <1>2, <1>3, <1>5 DEF List!Complete

(* The commands of a set of executions with one more in it. *)
LEMMA CommandsGrow ==
  ASSUME NEW S, NEW x
  PROVE  {e[1] : e \in S \cup {x}} = {e[1] : e \in S} \cup {x[1]}
  OBVIOUS

(* An execution that begins is Begin of the list, or a stutter. *)
LEMMA BeginSimulated ==
  ASSUME TypeOK, NEW c \in Callers, ExecBegins(c)
  PROVE  List!Begin(c)
<1> USE TransportAssumption
<1>1. Phase[c] = "run" /\ Acked[c] = idx[c] - 1 /\ idx[c] \in 1 .. NumCommands
  BY DEF ExecBegins, Phase, Ended, Acked, TypeOK, Cmds
<1>2. Phase' = Phase /\ Acked' = Acked /\ Finished' = Finished
  BY DEF ExecBegins, Phase, Ended, Acked, Finished, TypeOK
<1>3. ASSUME NEW d \in Callers
      PROVE  Begun'[d] = [Begun EXCEPT ![c] = @ \cup {Acked[c] + 1}][d]
  <2>1. ran'[d] = IF d = c THEN ran[c] \cup {<<idx[c], att[c]>>} ELSE ran[d]
    BY DEF ExecBegins, TypeOK, Exec
  <2>2. Acked[c] + 1 = idx[c]
    BY <1>1
  <2>3. {e[1] : e \in ran[c] \cup {<<idx[c], att[c]>>}} = {e[1] : e \in ran[c]} \cup {idx[c]}
    BY CommandsGrow, <<idx[c], att[c]>>[1] = idx[c]
  <2>4. Begun[d] = {e[1] : e \in ran[d]} /\ Begun'[d] = {e[1] : e \in ran'[d]}
    BY DEF Begun
  <2>5. [Begun EXCEPT ![c] = @ \cup {Acked[c] + 1}][d] =
           IF d = c THEN Begun[c] \cup {idx[c]} ELSE Begun[d]
    BY <2>2 DEF Begun
  <2> QED
    BY <2>1, <2>3, <2>4, <2>5
<1>4. Begun' = [Begun EXCEPT ![c] = @ \cup {Acked[c] + 1}]
  BY <1>3 DEF Begun
<1> QED
  BY <1>1, <1>2, <1>4 DEF List!Begin

(* Moving on to the next command is Ack of the list, or a stutter. *)
LEMMA AckSimulated ==
  ASSUME TypeOK, Inv, NEW c \in Callers, Succeeds(c)
  PROVE  List!Ack(c)
<1> USE TransportAssumption
<1>1. Phase[c] = "run" /\ Acked[c] = idx[c] - 1 /\ idx[c] \in 1 .. NumCommands
  BY DEF Succeeds, Phase, Ended, Acked, TypeOK, Cmds
<1>2. Acked[c] + 1 \in Finished[c]
  <2>1. <<idx[c], att[c]>> \in completed[c]
    BY DEF Succeeds, Inv, PlaceInv, Exec
  <2> QED
    BY <1>1, <2>1 DEF Finished
<1>3. Begun' = Begun /\ Finished' = Finished
  BY DEF Succeeds, Begun, Finished
<1>4. /\ Acked[c] + 1 = idx[c]
      /\ Acked'[c] = idx[c]
      /\ Phase'[c] = IF idx[c] = NumCommands THEN "ok" ELSE "run"
  <2>1. CASE idx[c] = NumCommands
    <3>1. pc'[c] = "ok"
      BY <2>1 DEF Succeeds, TypeOK
    <3> QED
      BY <1>1, <2>1, <3>1 DEF Phase, Acked
  <2>2. CASE idx[c] # NumCommands
    <3>1. pc'[c] = "attempt" /\ idx'[c] = idx[c] + 1
      BY <2>2 DEF Succeeds, TypeOK
    <3> QED
      BY <1>1, <2>2, <3>1 DEF Phase, Acked, Ended
  <2> QED
    BY <2>1, <2>2
<1>5. ASSUME NEW d \in Callers \ {c} PROVE Phase'[d] = Phase[d] /\ Acked'[d] = Acked[d]
  BY DEF Succeeds, TypeOK, Phase, Acked
<1>6. Acked' = [Acked EXCEPT ![c] = @ + 1]
  BY <1>4, <1>5 DEF Acked
<1>7. Phase' = [Phase EXCEPT ![c] = IF Acked[c] + 1 = NumCommands THEN "ok" ELSE "run"]
  BY <1>4, <1>5 DEF Phase
<1> QED
  BY <1>1, <1>2, <1>3, <1>6, <1>7 DEF List!Ack

(* Every step of the transport is a step of the list or a stutter. *)
LEMMA StepSimulated ==
  ASSUME TypeOK, Inv, [Next]_vars
  PROVE  List!Next \/ UNCHANGED Mapped
<1> USE DEF Ended
<1>1. CASE UNCHANGED vars \/ Terminating
  BY <1>1, Stutter DEF vars, Terminating
<1>2. CASE Kill
  <2> DEFINE S == {c \in Callers : pc[c] \notin Ended}
  <2>1. \A c \in S : pc[c] \notin Ended /\ pc'[c] \in {"failed", "killed"}
    BY <1>2 DEF Kill
  <2>2. \A d \in Callers \ S : pc'[d] = pc[d]
    BY <1>2 DEF Kill
  <2>3. UNCHANGED <<idx, ran, completed>> /\ S \in SUBSET Callers
    BY <1>2 DEF Kill
  <2> HIDE DEF S
  <2>4. List!Fail
    BY <2>1, <2>2, <2>3, Fails
  <2> QED
    BY <2>4 DEF List!Next
<1>3. ASSUME NEW c \in Callers, UNCHANGED <<idx, ran, completed>>,
             pc[c] \notin Ended, pc'[c] = "failed", \A d \in Callers \ {c} : pc'[d] = pc[d]
      PROVE  List!Next
  <2>1. List!Fail
    BY <1>3, Fails
  <2> QED
    BY <2>1 DEF List!Next
<1>4. ASSUME NEW c \in Callers, Provider(c) PROVE List!Next \/ UNCHANGED Mapped
  <2>1. CASE NotConfigured(c) \/ IdentityFails(c)
    BY <2>1, <1>3 DEF TypeOK, NotConfigured, IdentityFails
  <2>2. CASE StartSsh(c) \/ BackoffEnds(c)
    BY <2>2, Stutter DEF TypeOK, StartSsh, BackoffEnds
  <2>3. CASE Succeeds(c)
    BY <2>3, AckSimulated DEF List!Next
  <2>4. CASE Deadline(c)
    BY <2>4, <1>3 DEF TypeOK, Deadline, RunOnceFails, AfterFailure, SshAlive
  <2> QED
    BY <1>4, <2>1, <2>2, <2>3, <2>4 DEF Provider
<1>5. ASSUME NEW c \in Callers, Environment(c) PROVE List!Next \/ UNCHANGED Mapped
  <2>1. CASE ExecBegins(c)
    BY <2>1, BeginSimulated DEF List!Next
  <2>2. CASE ExecEndsZero(c)
    <3>1. Exec(c) \in ran[c]
      BY <2>2 DEF ExecEndsZero, Inv, PlaceInv
    <3>2. List!Complete(c)
      BY <2>2, <3>1, Completes DEF TypeOK, ExecEndsZero
    <3> QED
      BY <3>2 DEF List!Next
  <2>3. CASE ExecEndsNonzero(c)
    BY <2>3, Stutter DEF TypeOK, ExecEndsNonzero
  <2>4. CASE OrphanEnds(c)
    <3>1. PICK e \in orphans[c] : completed' \in {completed, [completed EXCEPT ![c] = @ \cup {e}]}
      BY <2>4 DEF OrphanEnds
    <3>2. e \in ran[c]
      BY <3>1 DEF Inv, HostInv
    <3>3. CASE completed' = completed
      BY <2>4, <3>3, Stutter DEF OrphanEnds
    <3>4. CASE completed' = [completed EXCEPT ![c] = @ \cup {e}]
      <4>1. List!Complete(c)
        BY <2>4, <3>2, <3>4, Completes DEF OrphanEnds
      <4> QED
        BY <4>1 DEF List!Next
    <3> QED
      BY <3>1, <3>3, <3>4
  <2>5. CASE Reset(c)
    <3>1. CASE att[c] = MaxAttempts
      BY <2>5, <3>1, <1>3 DEF TypeOK, Reset, AfterReset, SshAlive
    <3>2. CASE att[c] # MaxAttempts
      BY <2>5, <3>2, Stutter DEF TypeOK, Reset, AfterReset, SshAlive
    <3> QED
      BY <3>1, <3>2
  <2>6. CASE Rejected(c)
    BY <2>6, <1>3 DEF TypeOK, Rejected, RunOnceFails, AfterFailure, SshAlive
  <2> QED
    BY <1>5, <2>1, <2>2, <2>3, <2>4, <2>5, <2>6 DEF Environment
<1> QED
  BY <1>1, <1>2, <1>4, <1>5 DEF Next

(* SSHClient.Run under RunCommands is, to a resource operation, the        *)
(* ordered, stop at the first error, at least once execution of its list.  *)
THEOREM TransportImplementsList == Spec => ImplementsCommandList
<1>1. TypeOK /\ Inv /\ [Next]_vars => [List!Next]_List!vars
  BY StepSimulated DEF Mapped, List!vars
<1> QED
  BY <1>1, InitSimulated, Invariance, PTL DEF Spec, ImplementsCommandList, List!Spec
=============================================================================
