---------------------------- MODULE PgHbaRewrite ----------------------------
(***************************************************************************)
(* The command PgHbaReassembleCommand builds (src/internal/postgres/       *)
(* pghba.go) as the shell on the host executes it: read the block from     *)
(* stdin, filter the old block out of pg_hba.conf into a temporary file    *)
(* with awk, append the new block to it, rename it over pg_hba.conf.       *)
(*                                                                         *)
(* All executions use the same temporary file.  When the connection is     *)
(* lost the shell goes on with whatever it has read of its stdin, and the  *)
(* transport's next attempt, or the next apply after a deadline, may start *)
(* while it is still running.  Each of the four steps is atomic here.      *)
(***************************************************************************)
EXTENDS Naturals, FiniteSets, SequencesExt

CONSTANTS Rules,       \* access rules
          Lists,       \* the (non-empty) rule lists an apply may write
          Missing,     \* the temporary file does not exist
          MaxShells,   \* bound: executions started on the host
          MaxEdits     \* bound: lines the operator adds

(* A line of pg_hba.conf: an operator line, a rule, or a marker. *)
Line == [kind : {"operator", "rule", "begin", "end"}, of : (0 .. MaxEdits) \cup Rules]

ASSUME PgHbaAssumption ==
    /\ Lists \subseteq Seq(Rules) \ {<<>>}
    /\ Missing \notin Seq(Line)
    /\ MaxShells \in Nat /\ MaxEdits \in Nat

VARIABLES hba,      \* pg_hba.conf: a sequence of lines
          tmp,      \* pg_hba.conf.tofu.tmp
          shells,   \* the executions started so far
          awaited,  \* the execution the provider waits for, 0 if none
          opLines,  \* how many lines the operator has added
          events    \* history: what happened that a lone execution never meets

vars == <<hba, tmp, shells, awaited, opLines, events>>

OpLine(n) == [kind |-> "operator", of |-> n]
Rule(r)   == [kind |-> "rule", of |-> r]
BeginMark == [kind |-> "begin", of |-> 0]
EndMark   == [kind |-> "end", of |-> 0]

(* RenderPgHba.  Mutant: the index of a rule is written instead of the rule. *)
RenderPgHba_Index(list) == <<BeginMark>> \o [i \in DOMAIN list |-> Rule(i)] \o <<EndMark>>
RenderPgHba(list) == <<BeginMark>> \o [i \in DOMAIN list |-> Rule(list[i])] \o <<EndMark>>

(* The awk program: drop everything from a begin marker to the next end marker. *)
AwkLine(acc, line) ==
    CASE acc.f                              -> [acc EXCEPT !.f = line.kind # "end"]
      [] ~acc.f /\ line.kind = "begin"      -> [acc EXCEPT !.f = TRUE]
      [] OTHER                              -> [acc EXCEPT !.out = Append(@, line)]

(* Mutant: the filter keeps the old block. *)
Strip_Nothing(lines) == lines
Strip(lines) ==
    LET awk[n \in 0 .. Len(lines)] ==
          IF n = 0 THEN [f |-> FALSE, out |-> <<>>] ELSE AwkLine(awk[n - 1], lines[n])
    IN  awk[Len(lines)].out

(* ParseHBABlock: the lines between the first begin marker and the first   *)
(* end marker (or the end of the file); an end marker before any begin     *)
(* marker ends the scan.  An operator line inside counts as a rule.        *)
ParseLine(acc, line) ==
    CASE acc.over \/ line.kind = "end" -> [acc EXCEPT !.over = TRUE]
      [] ~acc.over /\ line.kind = "begin" -> [acc EXCEPT !.in = TRUE]
      [] OTHER -> IF acc.in THEN [acc EXCEPT !.out = Append(@, line.of)] ELSE acc

ParseHBABlock(lines) ==
    LET scan[n \in 0 .. Len(lines)] ==
          IF n = 0 THEN [in |-> FALSE, over |-> FALSE, out |-> <<>>]
                   ELSE ParseLine(scan[n - 1], lines[n])
    IN  scan[Len(lines)].out

Blocks(lines)       == Cardinality({i \in DOMAIN lines : lines[i].kind = "begin"})
Unterminated(lines) == Blocks(lines) # Cardinality({i \in DOMAIN lines : lines[i].kind = "end"})

Ended(shell, pc) == [shell EXCEPT !.pc = pc, !.block = <<>>]
Active(s) == shells[s].pc \in {"cat", "awk", "printf", "mv"}

Init == /\ hba = <<OpLine(0)>>   \* the packaged lines
        /\ tmp = Missing
        /\ shells = <<>>
        /\ awaited = 0
        /\ opLines = 0
        /\ events = {}
-----------------------------------------------------------------------------
(* The provider starts the command: a first attempt, a retry, or a later apply. *)
Start(list) ==
    /\ awaited = 0 /\ Len(shells) < MaxShells
    /\ shells' = Append(shells, [pc |-> "cat", list |-> list, block |-> <<>>])
    /\ awaited' = Len(shells) + 1
    /\ events' = events \cup (IF \E s \in DOMAIN shells : Active(s) THEN {"overlap"} ELSE {})
    /\ UNCHANGED <<hba, tmp, opLines>>

(* BLOCK="$(cat)": all of stdin, or what had arrived when the connection was lost. *)
Cat(s) ==
    /\ shells[s].pc = "cat"
    /\ LET block == RenderPgHba(shells[s].list)
       IN \E n \in 0 .. Len(block) :
             /\ awaited = s => n = Len(block)
             /\ shells' = [shells EXCEPT ![s].pc = "awk", ![s].block = SubSeq(block, 1, n)]
    /\ UNCHANGED <<hba, tmp, awaited, opLines, events>>

(* awk ... pg_hba.conf > tmp *)
Awk(s) ==
    /\ shells[s].pc = "awk"
    /\ tmp' = Strip(hba)
    /\ shells' = [shells EXCEPT ![s].pc = "printf"]
    /\ UNCHANGED <<hba, awaited, opLines, events>>

(* printf '%s\n' "$BLOCK" >> tmp, which creates a missing file.            *)
(* Mutant: the block goes in front, not at the end.                        *)
Printf_Prepend(s) ==
    /\ shells[s].pc = "printf"
    /\ tmp' = shells[s].block \o (IF tmp = Missing THEN <<>> ELSE tmp)
    /\ shells' = [shells EXCEPT ![s].pc = "mv"]
    /\ UNCHANGED <<hba, awaited, opLines, events>>

Printf(s) ==
    /\ shells[s].pc = "printf"
    /\ tmp' = (IF tmp = Missing THEN <<>> ELSE tmp) \o shells[s].block
    /\ shells' = [shells EXCEPT ![s].pc = "mv"]
    /\ UNCHANGED <<hba, awaited, opLines, events>>

(* mv tmp pg_hba.conf *)
Mv(s) ==
    /\ shells[s].pc = "mv"
    /\ IF tmp = Missing
       THEN /\ shells' = [shells EXCEPT ![s] = Ended(@, "failed")]
            /\ UNCHANGED <<hba, tmp>>
       ELSE /\ shells' = [shells EXCEPT ![s] = Ended(@, "done")]
            /\ hba' = tmp
            /\ tmp' = Missing
    /\ UNCHANGED <<awaited, opLines, events>>

(* The provider sees the exit status of the execution it waits for. *)
Returns ==
    /\ awaited # 0 /\ ~Active(awaited)
    /\ awaited' = 0
    /\ UNCHANGED <<hba, tmp, shells, opLines, events>>

(* The connection is reset, or the deadline kills ssh: nobody waits any more. *)
ConnectionLost ==
    /\ awaited # 0
    /\ awaited' = 0
    /\ UNCHANGED <<hba, tmp, shells, opLines, events>>

(* The host goes down between two steps of the shells; the files stay. *)
HostCrash ==
    /\ \E s \in DOMAIN shells : Active(s)
    /\ shells' = [s \in DOMAIN shells |-> IF Active(s) THEN Ended(shells[s], "failed")
                                          ELSE shells[s]]
    /\ awaited' = 0
    /\ UNCHANGED <<hba, tmp, opLines, events>>

(* The operator adds a line of their own, at the top or at the end.        *)
(* Recorded: an edit while an execution holds a filtered copy, and a line  *)
(* added behind a block that has no end marker.                            *)
OperatorAdds ==
    /\ opLines < MaxEdits
    /\ opLines' = opLines + 1
    /\ hba' \in {<<OpLine(opLines')>> \o hba, hba \o <<OpLine(opLines')>>}
    /\ events' = events
         \cup (IF \E s \in DOMAIN shells : shells[s].pc \in {"printf", "mv"}
               THEN {"edited while rewriting"} ELSE {})
         \cup (IF Unterminated(hba) THEN {"edited an unterminated block"} ELSE {})
    /\ UNCHANGED <<tmp, shells, awaited>>

Next == \/ \E list \in Lists : Start(list)
        \/ \E s \in DOMAIN shells : Cat(s) \/ Awk(s) \/ Printf(s) \/ Mv(s)
        \/ Returns \/ ConnectionLost \/ HostCrash \/ OperatorAdds

Spec == Init /\ [][Next]_vars
-----------------------------------------------------------------------------
TypeOK == /\ hba \in Seq(Line)
          /\ tmp = Missing \/ tmp \in Seq(Line)
          /\ shells \in Seq([pc : {"cat", "awk", "printf", "mv", "done", "failed"},
                             list : Lists, block : Seq(Line)])
          /\ awaited \in 0 .. Len(shells)
          /\ opLines \in 0 .. MaxEdits

(* Executions that never overlap leave every packaged and operator line in *)
(* place, exactly once, through lost connections, cut input and crashes    *)
(* between any two steps; the only edits at risk are those made while a    *)
(* filtered copy exists or behind a block whose end marker never arrived.  *)
OperatorLinesKept ==
    events = {} => \A n \in 0 .. opLines : Cardinality({i \in DOMAIN hba : hba[i] = OpLine(n)}) = 1

(* Without those events the file never holds two managed blocks, so that   *)
(* ParseHBABlock, which reads the first one, reads the only one.           *)
AtMostOneBlock == events = {} => Blocks(hba) <= 1

(* When the provider sees the command succeed the block read back is the   *)
(* declared list, whatever cut or crashed executions preceded it.          *)
SuccessIsReadBack ==
    [][awaited # 0 /\ awaited' = 0 /\ shells[awaited].pc = "done" /\ events = {} =>
          ParseHBABlock(hba) = shells[awaited].list]_vars

(* pghba.go: the provider rewrites exactly its own block and leaves the    *)
(* packaged and operator lines untouched.                                  *)
OperatorLinesUntouched == OpLine(0) \in ToSet(hba)
=============================================================================
