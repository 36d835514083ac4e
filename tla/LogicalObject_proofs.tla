------------------------ MODULE LogicalObject_proofs ------------------------
(***************************************************************************)
(* Proofs about LogicalObject, for any owners and locales, any number of   *)
(* attempts and any bounds of the environment.  The inductive invariant    *)
(* ties the statement in progress to the configuration and the recorded    *)
(* state it was planned from, and the plan to the object it was read from. *)
(***************************************************************************)
EXTENDS LogicalObject, TLAPS

OpType == [pc : {"idle", "planned", "sent", "read-back"}, verb : Verbs,
           try : 1 .. MaxAttempts, replace : BOOLEAN]

KindInv == kind \in {"database", "role"}

(* The configuration; a role declares no locale. *)
DeclaredInv == declared \in {None} \cup Declarable

(* The object; a role has no locale of its own. *)
HostInv == host \in {None} \cup Objects("other") \cup Objects("provider")

(* Nor does a statement about a role that nobody waits for name one. *)
LateInv == /\ late \subseteq Statements
           /\ kind = "role" => \A s \in late : s.locale = DefaultLocale

(* What a statement was planned from: an ALTER and the DROP of a           *)
(* replacement have a recorded state, and an ALTER one that is not tainted.*)
Writing == op.pc \in {"sent", "read-back"}
OpInv == /\ op \in OpType
         /\ op.pc = "read-back" => op.verb \in {"create", "alter"}
         /\ Writing /\ (op.replace \/ op.verb \in {"create", "alter"}) => declared # None
         /\ Writing /\ op.verb = "alter" => state # None /\ ~state.tainted

(* A recorded database has a locale, unless it is tainted or was imported. *)
StateInv == /\ state \in {None} \cup States
            /\ state # None /\ state.locale = Unset =>
                 kind = "role" \/ state.tainted \/ "imported" \in events

(* What a plan cannot know of the object it was made for. *)
Unseen == {"changed while applying"}

(* The state a plan starts from is what the server has.                    *)
PlannedInv ==
    op.pc = "planned" /\ state # None /\ events \cap Unseen = {} =>
        host # None /\ state.attr = host.attr /\ state.locale \in {Unset, host.locale}

(* The DROP of a replacement is for a tainted object, or for one that is   *)
(* not what is declared.                                                   *)
Replacing == op.pc = "sent" /\ op.verb = "drop" /\ declared # None /\ host # None
DropInv == Replacing /\ Complies(host) /\ events \cap (Unseen \cup {"imported"}) = {} =>
             state # None /\ state.tainted

Inv == /\ KindInv /\ DeclaredInv /\ HostInv /\ LateInv /\ OpInv /\ StateInv
       /\ PlannedInv /\ DropInv /\ NothingForgotten

-----------------------------------------------------------------------------
(* The objects of either maker are those a role or a database can be.      *)
LEMMA ObjectTypes ==
  \A h : h \in Objects("other") \cup Objects("provider")
           <=> h \in Hosts /\ (kind = "role" => h.locale = DefaultLocale)
  BY DEF Objects, Hosts

(* The statement of an operation is one of this kind of object. *)
LEMMA StatementTypes ==
  ASSUME DeclaredInv, OpInv
  PROVE  /\ Statement \in Statements /\ Statement.verb = op.verb
         /\ kind = "role" => Statement.locale = DefaultLocale
<1>1. op.verb \in Verbs
  BY DEF OpInv, OpType
<1>2. CASE declared = None
  BY <1>1, <1>2, LogicalAssumption DEF Statement, Statements
<1>3. CASE declared # None
  <2>1. declared \in Configs /\ (kind = "role" => declared.locale = Unset)
    BY <1>3 DEF DeclaredInv, Declarable
  <2>2. /\ OrDefault(declared.attr, DefaultAttr) \in Attrs
        /\ OrDefault(declared.locale, DefaultLocale) \in Locales
        /\ kind = "role" => OrDefault(declared.locale, DefaultLocale) = DefaultLocale
    BY <2>1, LogicalAssumption DEF Configs, OrDefault
  <2> QED
    BY <1>1, <1>3, <2>2 DEF Statement, Statements
<1> QED
  BY <1>2, <1>3

(* A statement leaves no object, the object it found with its maker, or    *)
(* one of the provider's making where there was none.                      *)
LEMMA OutcomeTypes ==
  ASSUME HostInv, NEW s \in Statements, kind = "role" => s.locale = DefaultLocale
  PROVE  /\ Outcome(s) \in {None} \cup Objects("other") \cup Objects("provider")
         /\ Outcome(s) # None /\ host # None => Outcome(s).by = host.by
         /\ Outcome(s) # None /\ host = None => s.verb = "create" /\ Accepted(s)
<1>1. CASE s.verb = "drop" /\ Accepted(s)
  BY <1>1 DEF Outcome
<1>2. CASE ~Accepted(s)
  BY <1>2 DEF Outcome, HostInv
<1>3. CASE s.verb = "alter" /\ Accepted(s)
  <2>1. /\ host \in Hosts /\ host # None
        /\ kind = "role" => host.locale = DefaultLocale
    BY <1>3, ObjectTypes DEF Accepted, HostInv
  <2>2. Outcome(s) = [host EXCEPT !.attr = s.attr]
    BY <1>3 DEF Outcome
  <2>3. /\ Outcome(s) \in Hosts /\ Outcome(s).by = host.by
        /\ Outcome(s).locale = host.locale
    BY <2>1, <2>2 DEF Hosts, Statements
  <2> QED
    BY <2>1, <2>3, ObjectTypes
<1>4. CASE s.verb = "create" /\ Accepted(s)
  <2>1. /\ Outcome(s) = [attr |-> s.attr, locale |-> s.locale, by |-> "provider",
                         used |-> FALSE]
        /\ host = None
    BY <1>4 DEF Outcome, Accepted
  <2>2. Outcome(s) \in Hosts /\ Outcome(s).locale = s.locale
    BY <2>1 DEF Hosts, Statements
  <2> QED
    BY <1>4, <2>1, <2>2, ObjectTypes
<1> QED
  BY <1>1, <1>2, <1>3, <1>4 DEF Statements, Verbs

(* What the steps leave in progress is an operation. *)
LEMMA OpTypes ==
  ASSUME OpInv
  PROVE  /\ Idle \in OpType /\ [Idle EXCEPT !.pc = "planned"] \in OpType
         /\ \A verb \in Verbs : Sent(verb, TRUE) \in OpType /\ Sent(verb, FALSE) \in OpType
         /\ [op EXCEPT !.pc = "read-back"] \in OpType
         /\ MayRetry => [op EXCEPT !.try = @ + 1] \in OpType
<1>1. 1 \in 1 .. MaxAttempts /\ op \in OpType
  BY LogicalAssumption DEF OpInv
<1>2. MayRetry => op.try + 1 \in 1 .. MaxAttempts
  BY <1>1, LogicalAssumption DEF MayRetry, OpType
<1>3. Idle \in OpType /\ [Idle EXCEPT !.pc = "planned"] \in OpType
  BY <1>1 DEF Idle, OpType, Verbs
<1>4. \A verb \in Verbs : Sent(verb, TRUE) \in OpType /\ Sent(verb, FALSE) \in OpType
  BY <1>1 DEF Sent, OpType
<1>5. [op EXCEPT !.pc = "read-back"] \in OpType
  BY <1>1 DEF OpType
<1>6. MayRetry => [op EXCEPT !.try = @ + 1] \in OpType
  BY <1>1, <1>2 DEF OpType
<1> QED
  BY <1>3, <1>4, <1>5, <1>6

(* Their fields. *)
LEMMA OpFields ==
  ASSUME OpInv
  PROVE  /\ Idle.pc = "idle" /\ [Idle EXCEPT !.pc = "planned"].pc = "planned"
         /\ \A verb : /\ Sent(verb, TRUE).pc = "sent" /\ Sent(verb, FALSE).pc = "sent"
                      /\ Sent(verb, TRUE).verb = verb /\ Sent(verb, FALSE).verb = verb
                      /\ ~Sent(verb, FALSE).replace
         /\ [op EXCEPT !.pc = "read-back"].pc = "read-back"
         /\ [op EXCEPT !.pc = "read-back"].verb = op.verb
         /\ [op EXCEPT !.pc = "read-back"].replace <=> op.replace
         /\ [op EXCEPT !.try = @ + 1].pc = op.pc /\ [op EXCEPT !.try = @ + 1].verb = op.verb
         /\ [op EXCEPT !.try = @ + 1].replace <=> op.replace
  BY DEF OpInv, OpType, Idle, Sent

(* How a statement that was awaited goes on.                               *)
LEMMA ExecutedOp ==
  ASSUME Executed
  PROVE  \/ op' = Idle
         \/ op.verb = "drop" /\ op.replace /\ op' = Sent("create", FALSE)
         \/ op.verb # "drop" /\ op' = [op EXCEPT !.pc = "read-back"]
<1>1. CASE op.verb = "drop" /\ op.replace
  BY <1>1 DEF Executed
<1>2. CASE op.verb = "drop" /\ ~op.replace
  BY <1>2 DEF Executed
<1>3. CASE op.verb # "drop"
  BY <1>3 DEF Executed
<1> QED
  BY <1>1, <1>2, <1>3

(* What an operation was planned from is what it is still about.           *)
LEMMA OpKept == DeclaredInv /\ OpInv /\ [Next]_vars => OpInv'
<1> SUFFICES ASSUME DeclaredInv, OpInv, [Next]_vars PROVE OpInv'
  OBVIOUS
<1>1. ASSUME op' \in OpType, op'.pc \notin {"sent", "read-back"} PROVE OpInv'
  BY <1>1 DEF OpInv, Writing
<1>2. CASE UNCHANGED vars \/ ReadFails \/ LateStatement \/ OthersEdit
  <2>1. UNCHANGED <<op, declared, state>>
    BY <1>2 DEF vars, ReadFails, LateStatement, OthersEdit
  <2> QED
    BY <2>1 DEF OpInv, Writing
<1>3. CASE Read \/ PlanNothing
  <2>1. op' \in {Idle, [Idle EXCEPT !.pc = "planned"]}
    BY <1>3 DEF Read, PlanNothing, Plan
  <2> QED
    BY <1>1, <2>1, OpTypes, OpFields
<1>4. CASE ReadBack \/ ReadBackMissing \/ ReadBackFails
  <2>1. op' = Idle
    BY <1>4 DEF ReadBack, ReadBackMissing, ReadBackFails, Finish
  <2> QED
    BY <1>1, <2>1, OpTypes, OpFields
<1>5. CASE ImportState \/ EditConfig
  <2>1. op' = op /\ op.pc = "idle"
    BY <1>5 DEF ImportState, EditConfig
  <2> QED
    BY <1>1, <2>1 DEF OpInv
<1>6. CASE PlanCreate
  <2>1. op' = Sent("create", FALSE) /\ UNCHANGED <<declared, state>> /\ declared # None
    BY <1>6 DEF PlanCreate, Plan
  <2>2. op'.pc = "sent" /\ op'.verb = "create" /\ op' \in OpType
    BY <2>1, OpTypes, OpFields DEF Verbs
  <2> QED
    BY <2>1, <2>2 DEF OpInv, Writing
<1>7. CASE PlanDestroy \/ PlanReplace
  <2>1. \/ op' = Sent("drop", FALSE)
        \/ op' = Sent("drop", TRUE) /\ UNCHANGED declared /\ declared # None
    BY <1>7 DEF PlanDestroy, PlanReplace, Plan
  <2>2. /\ op'.pc = "sent" /\ op'.verb = "drop" /\ op' \in OpType
        /\ op'.replace => declared' # None
    <3>1. CASE op' = Sent("drop", FALSE)
      BY <3>1, OpTypes, OpFields DEF Verbs
    <3>2. CASE op' = Sent("drop", TRUE) /\ UNCHANGED declared /\ declared # None
      BY <3>2, OpTypes, OpFields DEF Verbs
    <3> QED
      BY <2>1, <3>1, <3>2
  <2> QED
    BY <2>2 DEF OpInv, Writing
<1>8. CASE PlanUpdate
  <2>1. /\ op' = Sent("alter", FALSE) /\ UNCHANGED <<declared, state>>
        /\ declared # None /\ state # None /\ ~state.tainted
    BY <1>8 DEF PlanUpdate, Plan, MustReplace
  <2>2. op'.pc = "sent" /\ op'.verb = "alter" /\ op' \in OpType
    BY <2>1, OpTypes, OpFields DEF Verbs
  <2> QED
    BY <2>1, <2>2 DEF OpInv, Writing
<1>9. CASE Executed
  <2>1. op.pc = "sent" /\ UNCHANGED declared
    BY <1>9 DEF Executed
  <2>2. CASE op' = Idle
    BY <1>1, <2>2, OpTypes, OpFields
  <2>3. CASE op.verb = "drop" /\ op.replace /\ op' = Sent("create", FALSE)
    <3>1. op'.pc = "sent" /\ op'.verb = "create" /\ op' \in OpType
      BY <2>3, OpTypes, OpFields DEF Verbs
    <3> QED
      BY <2>1, <2>3, <3>1 DEF OpInv, Writing
  <2>4. CASE op.verb # "drop" /\ op' = [op EXCEPT !.pc = "read-back"]
    <3>1. /\ op'.pc = "read-back" /\ op'.verb = op.verb /\ op' \in OpType
          /\ UNCHANGED state /\ (op'.replace <=> op.replace)
      BY <1>9, <2>4, OpTypes, OpFields, StatementTypes DEF Executed, Remains
    <3> QED
      BY <2>1, <2>4, <3>1 DEF OpInv, OpType, Writing, Verbs
  <2> QED
    BY <1>9, <2>2, <2>3, <2>4, ExecutedOp
<1>10. CASE ConnectionLost
  <2>1. /\ op.pc = "sent" /\ UNCHANGED <<declared, state>>
        /\ op' = Idle \/ (MayRetry /\ op' = [op EXCEPT !.try = @ + 1])
    BY <1>10 DEF ConnectionLost
  <2>2. CASE op' = Idle
    BY <1>1, <2>2, OpTypes, OpFields
  <2>3. CASE MayRetry /\ op' = [op EXCEPT !.try = @ + 1]
    <3>1. /\ op'.pc = op.pc /\ op'.verb = op.verb /\ op' \in OpType
          /\ op'.replace <=> op.replace
      BY <2>3, OpTypes, OpFields
    <3> QED
      BY <2>1, <3>1 DEF OpInv, Writing
  <2> QED
    BY <2>1, <2>2, <2>3
<1> QED
  BY <1>2, <1>3, <1>4, <1>5, <1>6, <1>7, <1>8, <1>9, <1>10 DEF Next, Run

(* The configuration and the kind change by themselves only.               *)
LEMMA DeclaredKept == KindInv /\ DeclaredInv /\ [Next]_vars => (KindInv /\ DeclaredInv)'
<1> SUFFICES ASSUME KindInv, DeclaredInv, [Next]_vars PROVE (KindInv /\ DeclaredInv)'
  OBVIOUS
<1>1. kind' = kind
  BY
     DEF vars, Next, Run, Read, PlanNothing, PlanCreate, PlanDestroy, PlanReplace,
         PlanUpdate,
         Plan, Executed, ReadBack, ReadBackMissing, Finish, ReadFails, ConnectionLost,
         LateStatement, ReadBackFails, ImportState, EditConfig, OthersEdit
<1>2. declared' = declared \/ declared' \in {None} \cup Declarable
  BY
     DEF vars, Next, Run, Read, PlanNothing, PlanCreate, PlanDestroy, PlanReplace,
         PlanUpdate,
         Plan, Executed, ReadBack, ReadBackMissing, Finish, ReadFails, ConnectionLost,
         LateStatement, ReadBackFails, ImportState, EditConfig, OthersEdit
<1> QED
  BY <1>1, <1>2 DEF KindInv, DeclaredInv, Declarable

(* The statement in progress is the only one left behind.                  *)
LEMMA LateKept == DeclaredInv /\ OpInv /\ LateInv /\ [Next]_vars => LateInv'
<1> SUFFICES ASSUME DeclaredInv, OpInv, LateInv, [Next]_vars PROVE LateInv'
  OBVIOUS
<1>1. kind' = kind /\ late' \subseteq late \cup {Statement}
  BY
     DEF vars, Next, Run, Read, PlanNothing, PlanCreate, PlanDestroy, PlanReplace,
         PlanUpdate,
         Plan, Executed, ReadBack, ReadBackMissing, Finish, ReadFails, ConnectionLost,
         LateStatement, ReadBackFails, ImportState, EditConfig, OthersEdit
<1> QED
  BY <1>1, StatementTypes DEF LateInv

(* Whoever changes the object, it stays one of its kind.                   *)
LEMMA HostKept == DeclaredInv /\ OpInv /\ LateInv /\ HostInv /\ [Next]_vars => HostInv'
<1> SUFFICES ASSUME DeclaredInv, OpInv, LateInv, HostInv, [Next]_vars PROVE HostInv'
  OBVIOUS
<1>1. kind' = kind
  BY
     DEF vars, Next, Run, Read, PlanNothing, PlanCreate, PlanDestroy, PlanReplace,
         PlanUpdate,
         Plan, Executed, ReadBack, ReadBackMissing, Finish, ReadFails, ConnectionLost,
         LateStatement, ReadBackFails, ImportState, EditConfig, OthersEdit
<1>2. ASSUME host' \in {None} \cup Objects("other") \cup Objects("provider") PROVE HostInv'
  BY <1>1, <1>2 DEF HostInv, Objects
<1>3. CASE Executed \/ ConnectionLost
  <2>1. host' \in {host, Outcome(Statement)}
    BY <1>3 DEF Executed, ConnectionLost
  <2> QED
    BY <1>2, <2>1, StatementTypes, OutcomeTypes DEF HostInv
<1>4. CASE LateStatement
  <2>1. PICK s \in late : host' \in {host, Outcome(s)}
    BY <1>4 DEF LateStatement
  <2> QED
    BY <1>2, <2>1, OutcomeTypes DEF HostInv, LateInv
<1>5. CASE OthersEdit
  <2>1. CASE host = None
    BY <1>2, <1>5, <2>1 DEF OthersEdit
  <2>2. CASE host # None
    <3>1. host \in Hosts /\ (kind = "role" => host.locale = DefaultLocale)
      BY <2>2, ObjectTypes DEF HostInv
    <3>2. \A a \in Attrs : /\ [host EXCEPT !.attr = a] \in Hosts
                           /\ [host EXCEPT !.attr = a].locale = host.locale
      BY <3>1 DEF Hosts
    <3>3. \/ host' = None \/ \E u \in BOOLEAN : host' = [host EXCEPT !.used = u]
          \/ \E a \in Attrs : host' = [host EXCEPT !.attr = a]
      BY <1>5, <2>2 DEF OthersEdit
    <3>4. CASE \E u \in BOOLEAN : host' = [host EXCEPT !.used = u]
      <4>1. PICK u \in BOOLEAN : host' = [host EXCEPT !.used = u]
        BY <3>4
      <4>2. host' \in Hosts /\ host'.locale = host.locale
        BY <3>1, <4>1 DEF Hosts
      <4> QED
        BY <1>2, <3>1, <4>2, ObjectTypes
    <3>5. CASE \E a \in Attrs : host' = [host EXCEPT !.attr = a]
      <4>1. host' \in Hosts /\ host'.locale = host.locale
        BY <3>2, <3>5
      <4> QED
        BY <1>2, <3>1, <4>1, ObjectTypes
    <3> QED
      BY <1>2, <3>3, <3>4, <3>5
  <2> QED
    BY <2>1, <2>2
<1>6. CASE UNCHANGED vars \/ ReadFails \/ ReadBackFails \/ ImportState \/ EditConfig
           \/ (Run /\ ~Executed)
  <2>1. host' = host
    BY <1>6
       DEF vars, Run, Read, PlanNothing, PlanCreate, PlanDestroy, PlanReplace, PlanUpdate,
           Plan, ReadBack, ReadBackMissing, Finish, ReadFails, ReadBackFails,
           ImportState, EditConfig
  <2> QED
    BY <1>2, <2>1 DEF HostInv
<1> QED
  BY <1>3, <1>4, <1>5, <1>6 DEF Next

-----------------------------------------------------------------------------
(* The history forgets only what an import ends.                           *)
LEMMA EventsGrow ==
  ASSUME [Next]_vars
  PROVE  /\ kind' = kind
         /\ events \ {"foreign object", "create unacknowledged"} \subseteq events'
         /\ events \subseteq events' \/ ImportState
  BY
     DEF vars, Next, Run, Read, PlanNothing, PlanCreate, PlanDestroy, PlanReplace,
         PlanUpdate,
         Plan, Executed, ReadBack, ReadBackMissing, Finish, ReadFails, ConnectionLost,
         LateStatement, ReadBackFails, ImportState, EditConfig, OthersEdit

(* What a finished write records.                                          *)
LEMMA PlannedTypes ==
  ASSUME DeclaredInv, OpInv, StateInv, op.pc = "read-back", NEW tainted \in BOOLEAN
  PROVE  /\ Planned(tainted) \in States
         /\ Planned(tainted).tainted <=> tainted
         /\ Planned(tainted).locale = Unset /\ ~Creating =>
              kind = "role" \/ "imported" \in events
<1>1. declared \in Configs /\ op.verb \in {"create", "alter"}
  BY DEF DeclaredInv, Declarable, OpInv, Writing
<1>2. ~Creating => state \in States /\ ~state.tainted
  BY <1>1 DEF Creating, OpInv, Writing, StateInv
<1>3. CASE Creating
  BY <1>1, <1>3 DEF Planned, Configs, States
<1>4. CASE ~Creating
  BY <1>1, <1>2, <1>4, LogicalAssumption DEF Planned, Configs, States, StateInv
<1> QED
  BY <1>3, <1>4

(* The recorded locale: every step that records a state knows it, marks    *)
(* the state as tainted, or is an import.                                  *)
LEMMA StateKept ==
  KindInv /\ DeclaredInv /\ HostInv /\ OpInv /\ StateInv /\ [Next]_vars => StateInv'
<1> SUFFICES ASSUME KindInv, DeclaredInv, HostInv, OpInv, StateInv, [Next]_vars
             PROVE  StateInv'
  OBVIOUS
<1>1. kind' = kind /\ ("imported" \in events => "imported" \in events')
  BY EventsGrow
<1>2. host # None => host \in Hosts /\ host.attr \in Attrs /\ host.locale \in Locales
  BY ObjectTypes DEF HostInv, Hosts
<1>3. CASE state' \in {None, state}
  BY <1>1, <1>3 DEF StateInv
<1>4. CASE Read
  <2>1. CASE state' = None
    BY <1>3, <2>1
  <2>2. CASE state' # None
    <3>1. state # None /\ host # None /\ state' = Reconcile(state) /\ state \in States
      BY <1>4, <2>2 DEF Read, Refreshed, StateInv
    <3>2. /\ state' \in States /\ (state'.tainted <=> state.tainted)
          /\ state'.locale = Unset => state.locale = Unset
      BY <1>2, <3>1, LogicalAssumption DEF Reconcile, States
    <3> QED
      BY <1>1, <3>1, <3>2 DEF StateInv
  <2> QED
    BY <2>1, <2>2
<1>5. CASE ReadBack
  <2>1. /\ host # None
        /\ state' = [attr |-> host.attr, locale |-> host.locale,
                      tainted |-> Creating /\ declared.attr \notin {Unset, host.attr}]
    BY <1>5 DEF ReadBack, Finish, RecordedLocale
  <2>2. state' \in States /\ state'.locale # Unset
    BY <1>2, <2>1, LogicalAssumption DEF States
  <2> QED
    BY <2>2 DEF StateInv
<1>6. CASE ReadBackMissing
  <2>1. op.pc = "read-back" /\ state' = Planned(Creating /\ kind = "database")
    BY <1>6 DEF ReadBackMissing, Finish
  <2>2. (Creating /\ kind = "database") \in BOOLEAN
    OBVIOUS
  <2> QED
    BY <1>1, <2>1, <2>2, PlannedTypes DEF StateInv, KindInv
<1>7. CASE ReadBackFails
  <2>1. op.pc = "read-back" /\ state' = Planned(Creating) /\ Creating \in BOOLEAN
    BY <1>7 DEF ReadBackFails, Unread, Creating
  <2> QED
    BY <1>1, <2>1, PlannedTypes DEF StateInv
<1>8. CASE ImportState
  <2>1. /\ host # None /\ "imported" \in events'
        /\ state' = [attr |-> host.attr, locale |-> Unset, tainted |-> FALSE]
    BY <1>8 DEF ImportState
  <2>2. state' \in States
    BY <1>2, <2>1 DEF States
  <2> QED
    BY <2>1, <2>2 DEF StateInv
<1>9. CASE \/ UNCHANGED vars \/ ReadFails \/ ConnectionLost \/ LateStatement \/ EditConfig
           \/ OthersEdit \/ Executed \/ PlanNothing \/ PlanCreate \/ PlanDestroy
           \/ PlanReplace \/ PlanUpdate
  <2>1. state' \in {None, state}
    BY <1>9
       DEF vars, ReadFails, ConnectionLost, LateStatement, EditConfig, OthersEdit, Executed,
           PlanNothing, PlanCreate, PlanDestroy, PlanReplace, PlanUpdate, Plan, Remains
  <2> QED
    BY <1>3, <2>1
<1> QED
  BY <1>4, <1>5, <1>6, <1>7, <1>8, <1>9 DEF Next, Run

(* A plan has just read the object, and who changes it now is told of.     *)
LEMMA PlannedKept ==
  OpInv /\ HostInv /\ StateInv /\ PlannedInv /\ [Next]_vars => PlannedInv'
<1> SUFFICES ASSUME OpInv, HostInv, StateInv, PlannedInv, [Next]_vars PROVE PlannedInv'
  OBVIOUS
<1>1. events' \cap Unseen = {} => events \cap Unseen = {}
  BY EventsGrow DEF Unseen
<1>2. CASE Read
  <2>1. CASE state' = None
    BY <2>1 DEF PlannedInv
  <2>2. CASE state' # None
    <3>1. /\ state \in States /\ host # None /\ state' = Reconcile(state) /\ host' = host
      BY <1>2, <2>2 DEF Read, Refreshed, StateInv
    <3>2. state'.attr = host.attr /\ state'.locale \in {Unset, host.locale}
      BY <3>1 DEF Reconcile, States
    <3> QED
      BY <3>1, <3>2 DEF PlannedInv
  <2> QED
    BY <2>1, <2>2
<1>3. CASE UNCHANGED <<op, state, host>>
  BY <1>1, <1>3 DEF PlannedInv
<1>4. CASE LateStatement
  <2>1. /\ UNCHANGED <<op, state>>
        /\ host' = host \/ op.pc = "idle" \/ "changed while applying" \in events'
    BY <1>4 DEF LateStatement
  <2> QED
    BY <1>1, <2>1 DEF PlannedInv, Unseen
<1>5. CASE OthersEdit
  <2>1. UNCHANGED <<op, state>> /\ (op.pc = "idle" \/ "changed while applying" \in events')
    BY <1>5 DEF OthersEdit
  <2> QED
    BY <2>1 DEF PlannedInv, Unseen
<1>6. CASE op'.pc # "planned"
  BY <1>6 DEF PlannedInv
<1>7. CASE PlanNothing \/ PlanCreate \/ PlanDestroy \/ PlanReplace \/ PlanUpdate
  <2>1. \/ op' = Idle \/ op' = Sent("create", FALSE) \/ op' = Sent("drop", FALSE)
        \/ op' = Sent("drop", TRUE) \/ op' = Sent("alter", FALSE)
    BY <1>7 DEF PlanNothing, PlanCreate, PlanDestroy, PlanReplace, PlanUpdate, Plan
  <2> QED
    BY <1>6, <2>1, OpFields
<1>8. CASE Executed
  <2>1. \/ op' = Idle \/ op' = Sent("create", FALSE) \/ op' = [op EXCEPT !.pc = "read-back"]
    BY <1>8, ExecutedOp
  <2> QED
    BY <1>6, <2>1, OpFields
<1>9. CASE ConnectionLost
  <2>1. op.pc = "sent" /\ (op' = Idle \/ op' = [op EXCEPT !.try = @ + 1])
    BY <1>9 DEF ConnectionLost
  <2> QED
    BY <1>6, <2>1, OpFields
<1>10. CASE ReadBack \/ ReadBackMissing \/ ReadBackFails
  <2>1. op' = Idle
    BY <1>10 DEF ReadBack, ReadBackMissing, ReadBackFails, Finish
  <2> QED
    BY <1>6, <2>1, OpFields
<1>11. CASE ImportState \/ EditConfig
  BY <1>6, <1>11 DEF ImportState, EditConfig
<1>12. CASE UNCHANGED vars \/ ReadFails
  BY <1>3, <1>12 DEF vars, ReadFails
<1> QED
  BY <1>2, <1>4, <1>5, <1>7, <1>8, <1>9, <1>10, <1>11, <1>12 DEF Next, Run

(* A replacement was planned for a tainted object or for one that is not   *)
(* what is declared; a retry of its DROP is still for that object.         *)
LEMMA DropKept ==
  /\ KindInv /\ DeclaredInv /\ OpInv /\ StateInv /\ PlannedInv /\ DropInv
  /\ [Next]_vars
  => DropInv'
<1> SUFFICES ASSUME KindInv, DeclaredInv, OpInv, StateInv, PlannedInv, DropInv, [Next]_vars
             PROVE  DropInv'
  OBVIOUS
<1> DEFINE Untold == events \cap (Unseen \cup {"imported"}) = {}
<1>1. Untold' => Untold
  BY EventsGrow DEF Unseen
<1>2. CASE op'.pc # "sent" \/ op'.verb # "drop" \/ declared' = None \/ host' = None \/ ~Untold'
  BY <1>2 DEF DropInv, Replacing
<1>3. ASSUME UNCHANGED <<declared, state, host>>, op'.pc = op.pc, op'.verb = op.verb
      PROVE  DropInv'
  BY <1>1, <1>3 DEF DropInv, Replacing, Complies
<1>4. CASE PlanReplace
  <2>1. /\ op.pc = "planned" /\ declared # None /\ state # None /\ MustReplace
        /\ UNCHANGED <<kind, declared, state, host, events>>
    BY <1>4 DEF PlanReplace, Plan
  <2>2. ASSUME Complies(host), Untold, ~state.tainted PROVE FALSE
    <3>1. state.attr = host.attr /\ state.locale \in {Unset, host.locale}
      BY <2>1, <2>2 DEF PlannedInv, Unseen
    <3>2. ~AttrDiffers
      BY <2>2, <3>1 DEF AttrDiffers, Complies
    <3>3. kind = "database" /\ LocaleDiffers
      BY <2>1, <2>2 DEF MustReplace
    <3>4. declared.locale # Unset /\ declared.locale # state.locale
      BY <3>2, <3>3 DEF LocaleDiffers
    <3>5. state.locale = Unset
      BY <2>2, <3>1, <3>4 DEF Complies
    <3> QED
      BY <2>1, <2>2, <3>3, <3>5 DEF StateInv
  <2> QED
    BY <2>1, <2>2 DEF DropInv, Replacing, Complies
<1>5. CASE PlanCreate \/ PlanDestroy \/ PlanUpdate \/ PlanNothing
  <2>1. \/ op' = Idle \/ op' = Sent("create", FALSE) \/ op' = Sent("alter", FALSE)
        \/ declared' = None
    BY <1>5 DEF PlanCreate, PlanDestroy, PlanUpdate, PlanNothing, Plan
  <2>2. op'.pc # "sent" \/ op'.verb # "drop" \/ declared' = None
    <3>1. CASE op' = Idle
      BY <3>1, OpFields
    <3>2. CASE op' = Sent("create", FALSE)
      BY <3>2, OpFields
    <3>3. CASE op' = Sent("alter", FALSE)
      BY <3>3, OpFields
    <3> QED
      BY <2>1, <3>1, <3>2, <3>3
  <2> QED
    BY <1>2, <2>2
<1>6. CASE Executed
  <2>1. op' = Idle \/ op' = Sent("create", FALSE) \/ op' = [op EXCEPT !.pc = "read-back"]
    BY <1>6, ExecutedOp
  <2>2. op'.pc # "sent" \/ op'.verb # "drop"
    <3>1. CASE op' = Idle
      BY <3>1, OpFields
    <3>2. CASE op' = Sent("create", FALSE)
      BY <3>2, OpFields
    <3>3. CASE op' = [op EXCEPT !.pc = "read-back"]
      BY <3>3, OpFields
    <3> QED
      BY <2>1, <3>1, <3>2, <3>3
  <2> QED
    BY <1>2, <2>2
<1>7. CASE ConnectionLost
  <2>1. CASE op' = Idle
    BY <1>2, <2>1, OpFields
  <2>2. CASE op' = [op EXCEPT !.try = @ + 1]
    <3>1. /\ op.pc = "sent" /\ op'.pc = op.pc /\ op'.verb = op.verb
          /\ UNCHANGED <<declared, state>>
          /\ host' \in {host, Outcome(Statement)}
      BY <1>7, <2>2, OpFields DEF ConnectionLost
    <3>2. CASE host' = host
      BY <1>3, <3>1, <3>2
    <3>3. CASE op.verb = "drop" /\ host' = Outcome(Statement)
      <4>1. host' = None \/ host' = host
        BY <3>3, StatementTypes DEF Outcome
      <4> QED
        BY <1>2, <3>2, <4>1
    <3>4. CASE op.verb # "drop"
      BY <1>2, <3>1, <3>4
    <3> QED
      BY <3>1, <3>2, <3>3, <3>4
  <2> QED
    BY <1>7, <2>1, <2>2 DEF ConnectionLost
<1>8. CASE LateStatement
  <2>1. \/ UNCHANGED <<op, declared, state, host>>
        \/ op' = op /\ op.pc = "idle"
        \/ "changed while applying" \in events'
    BY <1>8 DEF LateStatement
  <2> QED
    BY <1>2, <1>3, <2>1 DEF Unseen
<1>9. CASE OthersEdit
  <2>1. op' = op /\ (op.pc = "idle" \/ "changed while applying" \in events')
    BY <1>9 DEF OthersEdit
  <2> QED
    BY <1>2, <2>1 DEF Unseen
<1>10. CASE Read
  <2>1. op' = [Idle EXCEPT !.pc = "planned"]
    BY <1>10 DEF Read
  <2> QED
    BY <1>2, <2>1, OpFields
<1>11. CASE ReadBack \/ ReadBackMissing \/ ReadBackFails
  <2>1. op' = Idle
    BY <1>11 DEF ReadBack, ReadBackMissing, ReadBackFails, Finish
  <2> QED
    BY <1>2, <2>1, OpFields
<1>12. CASE ImportState \/ EditConfig
  BY <1>2, <1>12 DEF ImportState, EditConfig
<1>13. CASE UNCHANGED vars \/ ReadFails
  BY <1>3, <1>13 DEF vars, ReadFails
<1> QED
  BY <1>4, <1>5, <1>6, <1>7, <1>8, <1>9, <1>10, <1>11, <1>12, <1>13 DEF Next, Run

(* What the provider created stays recorded until it is dropped.           *)
LEMMA ForgottenKept ==
  /\ DeclaredInv /\ HostInv /\ LateInv /\ OpInv /\ StateInv /\ NothingForgotten
  /\ [Next]_vars
  => NothingForgotten'
<1> SUFFICES ASSUME DeclaredInv, HostInv, LateInv, OpInv, StateInv, NothingForgotten,
                    [Next]_vars
             PROVE  NothingForgotten'
  OBVIOUS
<1>1. CASE state' # None
  BY <1>1 DEF NothingForgotten
<1>2. CASE host' = None
  BY <1>2 DEF NothingForgotten
<1>3. ASSUME state' = state, events \subseteq events', op.pc # "read-back",
             host' # None => host # None /\ host'.by = host.by
      PROVE  NothingForgotten'
  BY <1>3 DEF NothingForgotten
<1>4. CASE \/ PlanNothing \/ PlanCreate \/ PlanDestroy \/ PlanReplace \/ PlanUpdate
           \/ ReadFails \/ EditConfig
  BY <1>3, <1>4 DEF PlanNothing, PlanCreate, PlanDestroy, PlanReplace, PlanUpdate, Plan,
         ReadFails, EditConfig
<1>5. CASE Read
  <2>1. /\ UNCHANGED <<host, events>> /\ op.pc = "idle"
        /\ state' = None => state = None \/ host = None
    <3>1. CASE state # None /\ host # None
      <4>1. state' = Reconcile(state) /\ state \in States
        BY <1>5, <3>1 DEF Read, Refreshed, StateInv
      <4>2. host.attr \in Attrs /\ host.locale \in Locales
        BY <3>1, ObjectTypes DEF HostInv, Hosts
      <4>3. state' \in States
        BY <4>1, <4>2 DEF Reconcile, States
      <4> QED
        BY <1>5, <4>3, LogicalAssumption DEF Read
    <3>2. CASE state = None \/ host = None
      BY <1>5, <3>2 DEF Read
    <3> QED
      BY <3>1, <3>2
  <2> QED
    BY <2>1 DEF NothingForgotten
<1>6. CASE Executed
  <2>1. /\ op.pc = "sent" /\ UNCHANGED events /\ host' = Outcome(Statement)
        /\ op.verb # "drop" \/ ~Accepted(Statement) => state' = state
    BY <1>6, StatementTypes DEF Executed, Remains
  <2>2. CASE op.verb = "drop"
    <3>1. host' = None \/ (host' = host /\ state' = state)
      BY <2>1, <2>2, StatementTypes DEF Outcome
    <3> QED
      BY <1>2, <1>3, <2>1, <3>1
  <2>3. CASE op.verb # "drop" /\ (host # None \/ host' = None)
    BY <1>3, <2>1, <2>3, StatementTypes, OutcomeTypes
  <2>4. CASE op.verb # "drop" /\ host = None /\ host' # None
    <3>1. Accepted(Statement)
      BY <2>1, <2>4, StatementTypes, OutcomeTypes
    <3>2. op' = [op EXCEPT !.pc = "read-back"]
      BY <1>6, <2>4, <3>1 DEF Executed
    <3> QED
      BY <3>2, OpFields DEF NothingForgotten
  <2> QED
    BY <2>2, <2>3, <2>4
<1>7. CASE ConnectionLost
  <2>1. op.pc = "sent" /\ state' = state
    BY <1>7 DEF ConnectionLost
  <2>2. CASE UNCHANGED <<host, events>>
    BY <1>3, <2>1, <2>2
  <2>3. CASE /\ host' = Outcome(Statement)
             /\ events' = IF op.verb = "create" /\ Accepted(Statement)
                          THEN events \cup {"create unacknowledged"} ELSE events
    <3>1. CASE host # None \/ host' = None
      BY <1>3, <2>1, <2>3, <3>1, StatementTypes, OutcomeTypes
    <3>2. CASE host = None /\ host' # None
      <4>1. op.verb = "create" /\ Accepted(Statement)
        BY <2>3, <3>2, StatementTypes, OutcomeTypes
      <4> QED
        BY <2>3, <4>1 DEF NothingForgotten
    <3> QED
      BY <3>1, <3>2
  <2> QED
    BY <1>7, <2>2, <2>3 DEF ConnectionLost
<1>8. CASE LateStatement
  <2>1. CASE UNCHANGED <<host, events>>
    BY <1>8, <2>1 DEF LateStatement, NothingForgotten
  <2>2. PICK s \in late :
           \/ UNCHANGED <<host, events>>
           \/ /\ host' = Outcome(s) /\ events \subseteq events'
              /\ s.verb = "create" => "create unacknowledged" \in events'
    BY <1>8 DEF LateStatement
  <2>3. CASE s.verb = "create" /\ ~UNCHANGED <<host, events>>
    BY <2>2, <2>3 DEF NothingForgotten
  <2>4. CASE s.verb # "create" /\ host' = Outcome(s) /\ events \subseteq events'
    <3>1. host' # None => host # None /\ host'.by = host.by
      BY <2>4, OutcomeTypes DEF LateInv
    <3> QED
      BY <1>8, <2>4, <3>1 DEF LateStatement, NothingForgotten
  <2> QED
    BY <2>1, <2>2, <2>3, <2>4
<1>9. CASE ReadBack \/ ReadBackMissing \/ ReadBackFails
  <2>1. CASE ReadBackMissing
    BY <1>2, <2>1 DEF ReadBackMissing, Finish
  <2>2. CASE ReadBackFails
    <3>1. op.pc = "read-back" /\ state' = Planned(Creating) /\ Creating \in BOOLEAN
      BY <2>2 DEF ReadBackFails, Unread, Creating
    <3>2. state' \in States
      BY <3>1, PlannedTypes
    <3> QED
      BY <1>1, <3>2, LogicalAssumption
  <2>3. CASE ReadBack
    <3>1. /\ host # None
          /\ state' = [attr |-> host.attr, locale |-> host.locale,
                        tainted |-> Creating /\ declared.attr \notin {Unset, host.attr}]
      BY <2>3 DEF ReadBack, Finish, RecordedLocale
    <3>2. host.attr \in Attrs /\ host.locale \in Locales
      BY <3>1, ObjectTypes DEF HostInv, Hosts
    <3>3. state' \in States
      BY <3>1, <3>2 DEF States
    <3> QED
      BY <1>1, <3>3, LogicalAssumption
  <2> QED
    BY <1>9, <2>1, <2>2, <2>3
<1>10. CASE ImportState
  <2>1. host # None /\ state' = [attr |-> host.attr, locale |-> Unset, tainted |-> FALSE]
    BY <1>10 DEF ImportState
  <2>2. host.attr \in Attrs
    BY <2>1, ObjectTypes DEF HostInv, Hosts
  <2>3. state' \in States
    BY <2>1, <2>2 DEF States
  <2> QED
    BY <1>1, <2>3, LogicalAssumption
<1>11. CASE OthersEdit
  <2>1. UNCHANGED <<state, op>> /\ events \subseteq events'
    BY <1>11 DEF OthersEdit
  <2>2. CASE host = None
    <3>1. host'.by = "other"
      BY <1>11, <2>2 DEF OthersEdit, Objects
    <3> QED
      BY <3>1 DEF NothingForgotten
  <2>3. CASE host # None
    <3>1. host \in Hosts
      BY <2>3, ObjectTypes DEF HostInv
    <3>2. /\ \A a : [host EXCEPT !.attr = a].by = host.by
          /\ \A u : [host EXCEPT !.used = u].by = host.by
      BY <3>1 DEF Hosts
    <3>3. \/ host' = None \/ \E u \in BOOLEAN : host' = [host EXCEPT !.used = u]
          \/ \E a \in Attrs : host' = [host EXCEPT !.attr = a]
      BY <1>11, <2>3 DEF OthersEdit
    <3> QED
      BY <2>1, <2>3, <3>2, <3>3 DEF NothingForgotten
  <2> QED
    BY <2>2, <2>3
<1>12. CASE UNCHANGED vars
  BY <1>12 DEF vars, NothingForgotten
<1> QED
  BY <1>4, <1>5, <1>6, <1>7, <1>8, <1>9, <1>10, <1>11, <1>12 DEF Next, Run

-----------------------------------------------------------------------------
(* Nothing is recorded or planned at first, and what exists is foreign.    *)
LEMMA InitInv == Init => Inv
<1> SUFFICES ASSUME Init PROVE Inv
  OBVIOUS
<1>1. OpInv
  <2>1. Idle \in OpType /\ Idle.pc = "idle"
    BY LogicalAssumption DEF OpType, Idle, Verbs
  <2> QED
    BY <2>1 DEF Init, OpInv, Writing
<1>2. KindInv /\ DeclaredInv /\ HostInv /\ LateInv /\ StateInv
  BY DEF Init, KindInv, DeclaredInv, HostInv, LateInv, StateInv
<1>3. PlannedInv /\ DropInv
  BY DEF Init, PlannedInv, DropInv, Replacing, Idle
<1>4. NothingForgotten
  BY DEF Init, NothingForgotten, Objects
<1> QED
  BY <1>1, <1>2, <1>3, <1>4 DEF Inv

(* The invariant holds in every state. *)
LEMMA Invariant == Spec => []Inv
<1>1. Init => Inv
  BY InitInv
<1>2. Inv /\ [Next]_vars => Inv'
  BY DeclaredKept, HostKept, LateKept, OpKept, StateKept, PlannedKept, DropKept, ForgottenKept
     DEF Inv
<1> QED
  BY <1>1, <1>2, PTL DEF Spec

(* The configuration, the recorded state, the object, the operation and    *)
(* the statements left behind have their types: a role never gets a locale *)
(* and a statement is never sent once more than maxSSHAttempts allows.     *)
THEOREM LogicalTypes == Spec => []TypeOK
<1>1. Inv => TypeOK
  BY DEF Inv, KindInv, DeclaredInv, StateInv, HostInv, OpInv, OpType, LateInv, TypeOK
<1> QED
  BY <1>1, Invariant, PTL

(* An object the provider created and does not know was created by a       *)
(* statement whose success it never saw: Create records what it made even  *)
(* if the read-back fails.                                                 *)
THEOREM LogicalNothingForgotten == Spec => []NothingForgotten
<1>1. Inv => NothingForgotten
  BY DEF Inv
<1> QED
  BY <1>1, Invariant, PTL

(* No DROP, planned or sent again, removes an object that is as declared,  *)
(* unless it is tainted, imported or was changed after the plan.           *)
THEOREM LogicalCompliantIsKept == Spec => CompliantIsKept
<1>1. Inv /\ [Next]_vars =>
        [Drops /\ declared # None /\ Complies(host) =>
           \/ state.tainted
           \/ events \cap {"imported", "changed while applying"} # {}]_vars
  BY DEF Inv, DropInv, Replacing, Drops, Unseen
<1> QED
  BY <1>1, Invariant, PTL DEF Spec, CompliantIsKept
=============================================================================
