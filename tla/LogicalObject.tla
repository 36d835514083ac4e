---------------------------- MODULE LogicalObject ----------------------------
(***************************************************************************)
(* The life of one logical object - a database or a role - under           *)
(* postgres_database (database_resource.go) or postgres_role               *)
(* (role_resource.go): Terraform refreshes, plans and applies; each write  *)
(* is one psql statement over the transport, followed by a read-back.      *)
(*                                                                         *)
(* A statement is atomic on the server, but the connection that carries it *)
(* may be lost before, while or after it runs: the transport then sends it *)
(* again (a reset) or gives up (anything else), and a statement left       *)
(* running takes effect late.  CREATE is not idempotent, DROP IF EXISTS is.*)
(***************************************************************************)
EXTENDS Naturals

CONSTANTS
    Attrs,         \* what is changed in place: the owner; the flags of a role
    Locales,       \* what is fixed at creation: encoding and locale of a database
    DefaultAttr, DefaultLocale,   \* the server's choice for what is not declared
    Unset, None,
    MaxAttempts,   \* maxSSHAttempts
    MaxEdits,      \* bound: edits of the configuration, or of the object by others
    MaxFailures    \* bound: lost connections and failed statements

Configs == [attr : Attrs \cup {Unset}, locale : Locales \cup {Unset}]
States  == [attr : Attrs \cup {Unset}, locale : Locales \cup {Unset}, tainted : BOOLEAN]
Hosts   == [attr : Attrs, locale : Locales, by : {"provider", "other"}, used : BOOLEAN]

ASSUME LogicalAssumption ==
    /\ DefaultAttr \in Attrs /\ DefaultLocale \in Locales
    /\ Unset \notin Attrs \cup Locales
    /\ None \notin Configs /\ None \notin States /\ None \notin Hosts
    /\ MaxAttempts \in Nat \ {0} /\ MaxEdits \in Nat /\ MaxFailures \in Nat

VARIABLES
    kind,      \* "database" or "role"
    declared,  \* the configuration: None or [attr, locale]
    state,     \* the recorded state: None or [attr, locale, tainted]
    host,      \* the object on the server: None or [attr, locale, by, used]: a database
               \* with open sessions, a role that owns something
    op,        \* the Terraform run in progress
    late,      \* statements running on the server that nobody waits for
    events,    \* history: what a later plan cannot see
    edits, failures

vars == <<kind, declared, state, host, op, late, events, edits, failures>>

Verbs == {"create", "alter", "drop"}
Statements == [verb : Verbs, attr : Attrs, locale : Locales]
Idle == [pc |-> "idle", verb |-> "drop", try |-> 1, replace |-> FALSE]
Sent(verb, replace) == [pc |-> "sent", verb |-> verb, try |-> 1, replace |-> replace]

(* A role has no locale; owner and locale of a database are optional. *)
Declarable == {c \in Configs : kind = "role" => c.attr # Unset /\ c.locale = Unset}
Objects(by) == {h \in Hosts : h.by = by /\ (kind = "role" => h.locale = DefaultLocale)}

Complies(obj) == declared.attr \in {Unset, obj.attr} /\ declared.locale \in {Unset, obj.locale}

Init == /\ kind \in {"database", "role"}
        /\ declared \in Declarable
        /\ state = None
        /\ host \in {None} \cup Objects("other")
        /\ op = Idle
        /\ late = {}
        /\ events = IF host = None THEN {} ELSE {"foreign object"}
        /\ edits = 0
        /\ failures = 0

Spend == failures < MaxFailures /\ failures' = failures + 1
-----------------------------------------------------------------------------
(* reconcile: the owner is always refreshed, the locale if it is not null. *)
Reconcile(s) == [s EXCEPT !.attr = host.attr,
                          !.locale = IF s.locale = Unset THEN Unset ELSE host.locale]

(* Read: an object that is gone leaves the state, so that it is created    *)
(* again.  Mutant: the state is kept.                                      *)
Refreshed_Kept    == IF state = None \/ host = None THEN state ELSE Reconcile(state)
Refreshed == IF state = None \/ host = None THEN None ELSE Reconcile(state)

Read == /\ op.pc = "idle"
        /\ op' = [Idle EXCEPT !.pc = "planned"]
        /\ state' = Refreshed
        /\ UNCHANGED <<kind, declared, host, late, events, edits, failures>>

ReadFails == /\ op.pc = "idle" /\ Spend
             /\ UNCHANGED <<kind, declared, state, host, op, late, events, edits>>

AttrDiffers == declared.attr # Unset /\ declared.attr # state.attr

(* The schema's plan modifiers.  RequiresReplace compares the planned      *)
(* locale with the recorded one; a computed locale that is not declared is *)
(* planned as unknown whenever anything else differs.                      *)
LocaleDiffers == IF declared.locale = Unset THEN AttrDiffers ELSE declared.locale # state.locale
MustReplace   == state.tainted \/ (kind = "database" /\ LocaleDiffers)

Plan(step) == /\ op.pc = "planned"
              /\ op' = step
              /\ UNCHANGED <<kind, declared, state, host, late, events, edits, failures>>

PlanNothing == /\ \/ declared = None /\ state = None
                  \/ declared # None /\ state # None /\ ~MustReplace /\ ~AttrDiffers
               /\ Plan(Idle)
PlanCreate  == declared # None /\ state = None /\ Plan(Sent("create", FALSE))
PlanDestroy == declared = None /\ state # None /\ Plan(Sent("drop", FALSE))
PlanReplace == declared # None /\ state # None /\ MustReplace /\ Plan(Sent("drop", TRUE))
PlanUpdate  == /\ declared # None /\ state # None /\ ~MustReplace /\ AttrDiffers
               /\ Plan(Sent("alter", FALSE))
-----------------------------------------------------------------------------
OrDefault(v, default) == IF v = Unset THEN default ELSE v

(* CreateDatabaseSQL, CreateRoleSQL, Alter..., Drop...: only declared options are written. *)
Statement ==
    [verb   |-> op.verb,
     attr   |-> IF declared = None THEN DefaultAttr ELSE OrDefault(declared.attr, DefaultAttr),
     locale |-> IF declared = None THEN DefaultLocale ELSE OrDefault(declared.locale, DefaultLocale)]

(* The server refuses to drop what is in use, for as long as it is. *)
Accepted(s) == \/ s.verb = "create" /\ host = None
               \/ s.verb = "alter" /\ host # None
               \/ s.verb = "drop" /\ (host # None => ~host.used)

Outcome(s) ==
    CASE ~Accepted(s)      -> host
      [] s.verb = "drop" /\ Accepted(s)   -> None
      [] s.verb = "alter" /\ Accepted(s)  -> [host EXCEPT !.attr = s.attr]
      [] s.verb = "create" /\ Accepted(s) ->
             [attr |-> s.attr, locale |-> s.locale, by |-> "provider", used |-> FALSE]

(* The server runs the statement and the provider learns how it ended.     *)
(* A refusal is an error, which keeps the state.  After a DROP the state   *)
(* is empty, and a replacement goes on with CREATE.                        *)
Remains(s) == IF s.verb = "drop" /\ Accepted(s) THEN None ELSE state

Executed ==
    /\ op.pc = "sent"
    /\ host' = Outcome(Statement)
    /\ op' = CASE ~Accepted(Statement) -> Idle
               [] Accepted(Statement) /\ op.verb = "drop" ->
                      IF op.replace THEN Sent("create", FALSE) ELSE Idle
               [] OTHER -> [op EXCEPT !.pc = "read-back"]
    /\ state' = Remains(Statement)
    /\ UNCHANGED <<kind, declared, late, events, edits, failures>>

(* Mutant: one attempt too many. *)
MayRetry_OneMore == op.try <= MaxAttempts
MayRetry == op.try < MaxAttempts

(* The connection is lost before, after or while the statement runs: it is *)
(* sent again, or the operation fails and the state stays what it was.     *)
ConnectionLost ==
    /\ op.pc = "sent" /\ Spend
    /\ \/ UNCHANGED <<host, late, events>>
       \/ /\ host' = Outcome(Statement)
          /\ events' = IF op.verb = "create" /\ Accepted(Statement)
                       THEN events \cup {"create unacknowledged"} ELSE events
          /\ UNCHANGED late
       \/ late' = late \cup {Statement} /\ UNCHANGED <<host, events>>
    /\ \/ MayRetry /\ op' = [op EXCEPT !.try = @ + 1]
       \/ op' = Idle
    /\ UNCHANGED <<kind, declared, state, edits>>

(* A statement nobody waits for ends, with or without its effect. *)
LateStatement ==
    /\ \E s \in late :
          /\ late' = late \ {s}
          /\ \/ UNCHANGED <<host, events>>
             \/ /\ Accepted(s) /\ host' = Outcome(s)
                /\ events' = events
                     \cup (IF s.verb = "create" THEN {"create unacknowledged"} ELSE {})
                     \cup (IF op.pc = "idle" THEN {} ELSE {"changed while applying"})
    /\ UNCHANGED <<kind, declared, state, op, edits, failures>>

Creating == op.verb = "create"

(* The planned value, as it is saved when the read-back did not complete it. *)
Planned(tainted) == [attr |-> declared.attr,
                     locale |-> IF Creating THEN declared.locale ELSE state.locale,
                     tainted |-> tainted]

Finish(s) == /\ state' = s
             /\ op' = Idle
             /\ UNCHANGED <<kind, declared, host, late, events, edits, failures>>

(* finish: what was planned as unknown takes the server's value.  An owner *)
(* other than the planned one is an error to Terraform.                    *)
(* Mutant: only a declared locale is recorded.                             *)
RecordedLocale_DeclaredOnly == declared.locale
RecordedLocale == host.locale

ReadBack ==
    /\ op.pc = "read-back" /\ host # None
    /\ Finish([attr |-> host.attr, locale |-> RecordedLocale,
               tainted |-> Creating /\ declared.attr \notin {Unset, host.attr}])

(* The object is gone already: an error for a database, nothing for a role. *)
ReadBackMissing ==
    /\ op.pc = "read-back" /\ host = None
    /\ Finish(Planned(Creating /\ kind = "database"))

(* The read-back fails.  The state is set all the same: a created object   *)
(* is recorded as tainted.  Mutant: Create returns without setting it.     *)
Unread_NotRecorded == state
Unread == Planned(Creating)

ReadBackFails ==
    /\ op.pc = "read-back" /\ Spend
    /\ state' = Unread
    /\ op' = Idle
    /\ UNCHANGED <<kind, declared, host, late, events, edits>>
-----------------------------------------------------------------------------
(* ImportState, and the Read that completes it: the id and the name, then  *)
(* what reconcile refreshes.                                               *)
ImportState ==
    /\ op.pc = "idle" /\ state = None /\ host # None
    /\ state' = [attr |-> host.attr, locale |-> Unset, tainted |-> FALSE]
    /\ events' = (events \ {"foreign object", "create unacknowledged"}) \cup {"imported"}
    /\ UNCHANGED <<kind, declared, host, op, late, edits, failures>>

EditConfig ==
    /\ op.pc = "idle" /\ edits < MaxEdits
    /\ edits' = edits + 1
    /\ declared' \in ({None} \cup Declarable) \ {declared}
    /\ UNCHANGED <<kind, state, host, op, late, events, failures>>

(* Somebody else drops, creates, alters or uses the object, or uses it no more. *)
OthersEdit ==
    /\ edits < MaxEdits
    /\ edits' = edits + 1
    /\ host' \in IF host = None THEN Objects("other")
                ELSE {h \in {None} : ~host.used}
                     \cup {[host EXCEPT !.used = u] : u \in BOOLEAN \ {host.used}}
                     \cup {[host EXCEPT !.attr = a] : a \in Attrs \ {host.attr}}
    /\ events' = events \cup (IF host = None THEN {"foreign object"} ELSE {})
                        \cup (IF op.pc = "idle" THEN {} ELSE {"changed while applying"})
    /\ UNCHANGED <<kind, declared, state, op, late, failures>>

Run == \/ Read \/ PlanNothing \/ PlanCreate \/ PlanDestroy \/ PlanReplace \/ PlanUpdate
       \/ Executed \/ ReadBack \/ ReadBackMissing

Next == \/ Run \/ ReadFails \/ ConnectionLost \/ LateStatement \/ ReadBackFails
        \/ ImportState \/ EditConfig \/ OthersEdit

(* The user runs Terraform again and again; a run comes to its end. *)
Spec     == Init /\ [][Next]_vars
FairSpec == Spec /\ WF_vars(Run)
-----------------------------------------------------------------------------
TypeOK == /\ kind \in {"database", "role"}
          /\ declared \in {None} \cup Declarable
          /\ state \in {None} \cup States
          /\ host \in {None} \cup Objects("other") \cup Objects("provider")
          /\ op \in [pc : {"idle", "planned", "sent", "read-back"}, verb : Verbs,
                     try : 1 .. MaxAttempts, replace : BOOLEAN]
          /\ late \subseteq Statements

(* Nothing the provider created is forgotten: an object of its making that *)
(* the state does not know was created by a statement whose success the    *)
(* provider never saw (Create sets the state even if its read-back fails). *)
NothingForgotten ==
    host # None /\ state = None =>
        \/ host.by = "other"
        \/ op.pc = "read-back"
        \/ "create unacknowledged" \in events

(* An awaited DROP removes the object. *)
Drops == op.pc = "sent" /\ op.verb = "drop" /\ host # None /\ host' = None

(* An object that is what the configuration declares is never dropped, its *)
(* data included, unless it is tainted: a stale plan, a retry or a Read    *)
(* that lost an attribute must not end in a replacement.  An import is the *)
(* exception: it leaves the locale null.                                   *)
CompliantIsKept ==
    [][Drops /\ declared # None /\ Complies(host) =>
          \/ state.tainted
          \/ events \cap {"imported", "changed while applying"} # {}]_vars

(* The plan needs a DROP that the server refuses. *)
Refused == /\ state # None /\ host # None /\ host.used
           /\ declared = None \/ MustReplace

(* Runs that are repeated end with the object as declared, or gone if it   *)
(* is not declared, whatever was lost, refused or dropped on the way and   *)
(* whatever an abandoned ALTER or DROP did later.  Only an object that     *)
(* exists without being recorded stops them, its CREATE fails for ever,    *)
(* and one in use that has to be dropped.                                  *)
Converges ==
    <>[](events \cap {"create unacknowledged", "foreign object"} = {} /\ ~Refused =>
            IF declared = None THEN state = None /\ host = None
            ELSE host # None /\ Complies(host) /\ state # None /\ ~state.tainted)

(* database_resource.go: the owner is mutable in place.  While no locale   *)
(* is declared nothing but the owner can differ, so only a tainted         *)
(* database is ever dropped to be created anew.                            *)
OwnerChangesInPlace ==
    [][Drops /\ declared # None /\ declared.locale = Unset => state.tainted]_vars
=============================================================================
