---------------------------- MODULE SshTransport ----------------------------
(***************************************************************************)
(* The SSH transport of the provider: SSHClient.Run and runOnce            *)
(* (src/internal/postgres/ssh.go) under RunCommands (client.go).           *)
(*                                                                         *)
(* Every caller is one resource operation executing its own command list.  *)
(* A command is tried up to MaxAttempts times; only an error that looks    *)
(* like a reset connection (transientSSH) is tried again.  The local ssh   *)
(* process and the command on the host are different things: a connection  *)
(* may be lost, or the local process killed at the deadline, while the     *)
(* host goes on executing.  Such an execution is an orphan: it still       *)
(* takes effect, at a time nobody observes.                                *)
(*                                                                         *)
(* An execution is named <<i, a>>: command i, attempt a.                   *)
(***************************************************************************)
EXTENDS Naturals, FiniteSets

CONSTANTS Callers,      \* concurrent resource operations
          NumCommands,  \* length of every caller's command list
          MaxAttempts   \* maxSSHAttempts (4 in the source)

ASSUME TransportAssumption ==
    /\ NumCommands \in Nat \ {0}
    /\ MaxAttempts \in Nat \ {0}

VARIABLES identity,   \* how the provider was configured to authenticate
          pc,         \* pc[c]: where the operation of c is
          idx,        \* idx[c]: the command RunCommands is executing
          att,        \* att[c]: the attempt of Run's loop
          ran,        \* ran[c]: executions that began on the host
          completed,  \* completed[c]: executions that ended with status 0
          orphans,    \* orphans[c]: executions running with no ssh process waiting
          resets,     \* resets[c]: attempts that ended in a transient error
          keys        \* temporary identity files on the runner's disk

vars == <<identity, pc, idx, att, ran, completed, orphans, resets, keys>>

Cmds       == 1 .. NumCommands
Attempts   == 1 .. MaxAttempts
Executions == Cmds \X Attempts

(* "unconfigured": the provider has no ssh_host, Client.SSH is nil.        *)
(* "pem": ssh_key_pem is written to a fresh temporary file per attempt.    *)
Identities == {"unconfigured", "file", "pem", "agent"}

(* The ssh process of the attempt exists: it is connecting, the command    *)
(* runs on the host, or the command ended with status zero or nonzero and  *)
(* ssh has not yet returned.                                               *)
SshAlive == {"connecting", "executing", "zero", "nonzero"}
Ended    == {"ok", "failed", "killed"}
PcStates == {"attempt", "backoff"} \cup SshAlive \cup Ended

Exec(c) == <<idx[c], att[c]>>
Key(c)  == <<c, Exec(c)>>

Init == /\ identity \in Identities
        /\ pc = [c \in Callers |-> "attempt"]
        /\ idx = [c \in Callers |-> 1]
        /\ att = [c \in Callers |-> 1]
        /\ ran = [c \in Callers |-> {}]
        /\ completed = [c \in Callers |-> {}]
        /\ orphans = [c \in Callers |-> {}]
        /\ resets = [c \in Callers |-> {}]
        /\ keys = {}
-----------------------------------------------------------------------------
(* Client.Run without a transport: an error before anything is attempted. *)
NotConfigured(c) ==
    /\ pc[c] = "attempt"
    /\ identity = "unconfigured"
    /\ pc' = [pc EXCEPT ![c] = "failed"]
    /\ UNCHANGED <<identity, idx, att, ran, completed, orphans, resets, keys>>

(* identityFile could not materialise the key.  Its failure paths remove   *)
(* the file; the error is not an SSHError, so Run does not try again.      *)
IdentityFails(c) ==
    /\ pc[c] = "attempt"
    /\ identity = "pem"
    /\ pc' = [pc EXCEPT ![c] = "failed"]
    /\ UNCHANGED <<identity, idx, att, ran, completed, orphans, resets, keys>>

(* runOnce starts ssh, with a private identity file when the key is PEM. *)
StartSsh(c) ==
    /\ pc[c] = "attempt"
    /\ identity # "unconfigured"
    /\ pc' = [pc EXCEPT ![c] = "connecting"]
    /\ keys' = IF identity = "pem" THEN keys \cup {Key(c)} ELSE keys
    /\ UNCHANGED <<identity, idx, att, ran, completed, orphans, resets>>

(* The host receives the command and begins to execute it. *)
ExecBegins(c) ==
    /\ pc[c] = "connecting"
    /\ pc' = [pc EXCEPT ![c] = "executing"]
    /\ ran' = [ran EXCEPT ![c] = @ \cup {Exec(c)}]
    /\ UNCHANGED <<identity, idx, att, completed, orphans, resets, keys>>

ExecEndsZero(c) ==
    /\ pc[c] = "executing"
    /\ pc' = [pc EXCEPT ![c] = "zero"]
    /\ completed' = [completed EXCEPT ![c] = @ \cup {Exec(c)}]
    /\ UNCHANGED <<identity, idx, att, ran, orphans, resets, keys>>

ExecEndsNonzero(c) ==
    /\ pc[c] = "executing"
    /\ pc' = [pc EXCEPT ![c] = "nonzero"]
    /\ UNCHANGED <<identity, idx, att, ran, completed, orphans, resets, keys>>

(* What runOnce leaves behind however it returns: the deferred cleanup     *)
(* removed this attempt's identity file, and an execution still running    *)
(* on the host is now an orphan.  Mutant: the cleanup is not deferred.     *)
RunOnceReturns_NoCleanup(c) ==
    /\ orphans' = [orphans EXCEPT ![c] = IF pc[c] = "executing" THEN @ \cup {Exec(c)} ELSE @]
    /\ UNCHANGED keys

RunOnceReturns(c) ==
    /\ orphans' = [orphans EXCEPT ![c] = IF pc[c] = "executing" THEN @ \cup {Exec(c)} ELSE @]
    /\ keys' = keys \ {Key(c)}

(* ssh exits 0: Run returns nil and RunCommands goes on to the next command. *)
Succeeds(c) ==
    /\ pc[c] = "zero"
    /\ RunOnceReturns(c)
    /\ IF idx[c] = NumCommands
       THEN /\ pc' = [pc EXCEPT ![c] = "ok"]
            /\ UNCHANGED <<idx, att>>
       ELSE /\ pc' = [pc EXCEPT ![c] = "attempt"]
            /\ idx' = [idx EXCEPT ![c] = @ + 1]
            /\ att' = [att EXCEPT ![c] = 1]
    /\ UNCHANGED <<identity, ran, completed, resets>>

(* Run's loop after a transient error: the last attempt's error is         *)
(* returned, and RunCommands stops.  Mutants: the loop never gives up; the *)
(* error of the last attempt is dropped.                                   *)
AfterReset_NeverGivesUp(c) == "backoff"
AfterReset_DropsError(c) == IF att[c] = MaxAttempts THEN "zero" ELSE "backoff"
AfterReset(c) == IF att[c] = MaxAttempts THEN "failed" ELSE "backoff"

(* Run's loop after any other error.  Mutant: every error is tried again. *)
AfterFailure_TriesAgain(c) == AfterReset(c)
AfterFailure(c) == "failed"

(* transientSSH(err): the stderr of ssh names a reset connection.  It may  *)
(* be reset at any moment of the attempt, also after the command ended.    *)
Reset(c) ==
    /\ pc[c] \in SshAlive
    /\ RunOnceReturns(c)
    /\ resets' = [resets EXCEPT ![c] = @ \cup {Exec(c)}]
    /\ pc' = [pc EXCEPT ![c] = AfterReset(c)]
    /\ UNCHANGED <<identity, idx, att, ran, completed>>

(* runOnce returns an error that is not transient. *)
RunOnceFails(c) ==
    /\ RunOnceReturns(c)
    /\ pc' = [pc EXCEPT ![c] = AfterFailure(c)]
    /\ UNCHANGED <<identity, idx, att, ran, completed, resets>>

(* Any other SSHError: refused, denied, a broken pipe, the command's own status. *)
Rejected(c) == pc[c] \in SshAlive /\ RunOnceFails(c)

(* The context's deadline kills ssh; the error is not an SSHError.         *)
(* Mutant: only connecting is bounded (ConnectTimeout without a context).  *)
Deadline_ConnectOnly(c) == pc[c] = "connecting" /\ RunOnceFails(c)
Deadline(c) == pc[c] \in SshAlive /\ RunOnceFails(c)

(* time.Sleep(attempt * transientBackoff), then the next turn of the loop. *)
BackoffEnds(c) ==
    /\ pc[c] = "backoff"
    /\ pc' = [pc EXCEPT ![c] = "attempt"]
    /\ att' = [att EXCEPT ![c] = @ + 1]
    /\ UNCHANGED <<identity, idx, ran, completed, orphans, resets, keys>>

(* An orphaned execution ends, with status 0 or another one. *)
OrphanEnds(c) ==
    /\ \E e \in orphans[c] :
          /\ orphans' = [orphans EXCEPT ![c] = @ \ {e}]
          /\ completed' \in {completed, [completed EXCEPT ![c] = @ \cup {e}]}
    /\ UNCHANGED <<identity, pc, idx, att, ran, resets, keys>>

(* The provider process dies: no deferred cleanup runs, nothing is         *)
(* awaited, what the host executes goes on.                                *)
Kill ==
    /\ \E c \in Callers : pc[c] \notin Ended
    /\ pc' = [c \in Callers |-> IF pc[c] \in Ended THEN pc[c] ELSE "killed"]
    /\ orphans' = [c \in Callers |->
                     IF pc[c] = "executing" THEN orphans[c] \cup {Exec(c)} ELSE orphans[c]]
    /\ UNCHANGED <<identity, idx, att, ran, completed, resets, keys>>
-----------------------------------------------------------------------------
(* Steps of the provider itself. *)
Provider(c) == \/ NotConfigured(c) \/ IdentityFails(c) \/ StartSsh(c)
               \/ Succeeds(c) \/ Deadline(c) \/ BackoffEnds(c)

(* Steps of the host and of the network, which nothing obliges to happen. *)
Environment(c) == \/ ExecBegins(c) \/ ExecEndsZero(c) \/ ExecEndsNonzero(c)
                  \/ OrphanEnds(c) \/ Reset(c) \/ Rejected(c)

Terminating == /\ \A c \in Callers : pc[c] \in Ended /\ orphans[c] = {}
               /\ UNCHANGED vars

Next == Kill \/ Terminating \/ \E c \in Callers : Provider(c) \/ Environment(c)

(* Each operation runs in its own goroutine, sleeps are finite and every   *)
(* attempt has a deadline, so an operation that can step does.  Nothing is *)
(* assumed of the host or the network.                                     *)
Fairness == \A c \in Callers : WF_vars(Provider(c))

Spec     == Init /\ [][Next]_vars
FairSpec == Spec /\ Fairness
-----------------------------------------------------------------------------
TypeOK == /\ identity \in Identities
          /\ pc \in [Callers -> PcStates]
          /\ idx \in [Callers -> Cmds]
          /\ att \in [Callers -> Attempts]
          /\ ran \in [Callers -> SUBSET Executions]
          /\ completed \in [Callers -> SUBSET Executions]
          /\ orphans \in [Callers -> SUBSET Executions]
          /\ resets \in [Callers -> SUBSET Executions]
          /\ keys \subseteq Callers \X Executions

(* No command begins on the host, in any attempt, before every earlier     *)
(* command of its list ended there with status 0, and a list that reports  *)
(* success ran to its end (RunCommands).  The last command of a list may   *)
(* therefore rely on all the others whatever the network did.              *)
PrefixCompleted ==
    \A c \in Callers :
        /\ \A e \in ran[c] : \A j \in 1 .. e[1] - 1 : \E a \in Attempts : <<j, a>> \in completed[c]
        /\ pc[c] = "ok" => \A j \in Cmds : \E a \in Attempts : <<j, a>> \in completed[c]

(* A command is executed a second time only if every earlier attempt of it *)
(* ended in a reset connection: a command that timed out, whose orphan may *)
(* still be running, or that failed by itself, is never repeated (Run).    *)
RepeatsOnlyAfterReset ==
    \A c \in Callers : \A e \in ran[c] : \A b \in 1 .. e[2] - 1 : <<e[1], b>> \in resets[c]

(* A list that succeeded without a reset executed every command exactly    *)
(* once and left nothing running on the host.  With resets neither holds:  *)
(* the callers' commands must tolerate being repeated and overlapped.      *)
CleanSuccessIsExactlyOnce ==
    \A c \in Callers :
        pc[c] = "ok" /\ resets[c] = {} =>
            /\ ran[c] = Cmds \X {1}
            /\ completed[c] = ran[c]
            /\ orphans[c] = {}

(* The private key is on the runner's disk exactly while an ssh process of *)
(* this provider may read it, one file per process, so that no operation   *)
(* removes the file another one is using (identityFile, defer cleanup).    *)
(* Only the death of the provider leaves a file behind.                    *)
KeyFileLifetime ==
    \A c \in Callers : pc[c] # "killed" =>
        {k \in keys : k[1] = c} =
            IF identity = "pem" /\ pc[c] \in SshAlive THEN {Key(c)} ELSE {}

(* Every operation returns, whatever the host and the network do: attempts *)
(* are bounded in number and each of them has a deadline.                  *)
EveryOperationEnds == \A c \in Callers : <>(pc[c] \in Ended)
-----------------------------------------------------------------------------
(* The refinement mapping to what RunCommands promises. *)
Phase    == [c \in Callers |-> IF pc[c] = "ok" THEN "ok"
                               ELSE IF pc[c] \in Ended THEN "error" ELSE "run"]
Acked    == [c \in Callers |-> IF pc[c] = "ok" THEN NumCommands ELSE idx[c] - 1]
Begun    == [c \in Callers |-> {e[1] : e \in ran[c]}]
Finished == [c \in Callers |-> {e[1] : e \in completed[c]}]

List == INSTANCE CommandList
            WITH phase <- Phase, acked <- Acked, begun <- Begun, finished <- Finished

(* Retries, resets, deadlines and orphans implement the ordered, stop at   *)
(* the first error, at least once execution that RunCommands promises.     *)
ImplementsCommandList == List!Spec
=============================================================================
