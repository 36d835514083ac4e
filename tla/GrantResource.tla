---------------------------- MODULE GrantResource ----------------------------
(***************************************************************************)
(* postgres_grant (src/internal/provider/grant_resource.go): the           *)
(* privileges of one role, declared by several resources that Terraform    *)
(* refreshes and applies concurrently.                                     *)
(*                                                                         *)
(* An apply is two statements, REVOKE of everything and GRANT of what is   *)
(* declared, each atomic on the server and each sent again or abandoned    *)
(* when its connection is lost.  Read does not see the objects one by one: *)
(* it sees the union of what the role holds on them.                       *)
(*                                                                         *)
(* Objects are tables.  A schema is one such object, and so is a database, *)
(* except that a grant never moves from one database to another.           *)
(***************************************************************************)
EXTENDS Naturals, SequencesExt

CONSTANTS
    Grants,       \* the resources
    Tables,       \* the tables of the schema, those created later included
    PrivOrder,    \* the privileges of the object type, in alphabetical order
    All,          \* the objects of an all_tables grant
    Lists,        \* the privilege lists a configuration may declare
    None,
    Cases,        \* the configurations to check: [resources, edits], where edits bounds
                  \* the edits of the configuration, or by others on the server
    MaxFailures   \* bound: lost connections and failed statements

Privs == ToSet(PrivOrder)
Words == Privs \cup {"ALL", "ALL PRIVILEGES"}

(* The tables named, none at all included, or all of the schema. *)
ObjSets == (SUBSET Tables) \cup {All}

ASSUME GrantAssumption ==
    /\ PrivOrder \in Seq(Privs) /\ IsInjective(PrivOrder)
    /\ "ALL" \notin Privs /\ "ALL PRIVILEGES" \notin Privs
    /\ Lists \subseteq Seq(Words)
    /\ \A objs \in SUBSET Tables : objs # All
    /\ None \notin [list : Seq(Words), objs : ObjSets]
    /\ Cases \subseteq [resources : SUBSET Grants, edits : Nat] /\ MaxFailures \in Nat

VARIABLES
    resources, \* the resources of the configuration, constant
    declared,  \* declared[g]: None or [list, objs]
    state,     \* state[g]: None or [list, objs]
    acl,       \* acl[t]: the privileges the role holds on table t
    tables,    \* the tables that exist
    op,        \* op[g]: where the operation of g is
    late,      \* statements running on the server that nobody waits for
    events,    \* history: what spoils the agreement of state and server
    edits,     \* how many edits are left
    failures

vars == <<resources, declared, state, acl, tables, op, late, events, edits, failures>>

(* The tables a statement or a Read is about; mutant: all of the schema.   *)
Covered_Schema(objs) == tables
Covered(objs) == IF objs = All THEN tables ELSE objs \cap tables

(* privilegeCSV: ALL in either spelling, and the empty list, mean everything. *)
Expand(list) == IF list = <<>> \/ {"ALL", "ALL PRIVILEGES"} \cap ToSet(list) # {}
                THEN Privs ELSE ToSet(list)

InOrder(privs) ==
    LET upTo[n \in 0 .. Len(PrivOrder)] ==
          IF n = 0 THEN <<>>
          ELSE IF PrivOrder[n] \in privs THEN Append(upTo[n - 1], PrivOrder[n]) ELSE upTo[n - 1]
    IN  upTo[Len(PrivOrder)]

(* ParseGrantPrivileges: sorted, without duplicates.  Mutant: each row     *)
(* that is read counts.                                                    *)
Sorted_Rows(privs) == InOrder(privs) \o InOrder(privs)
Sorted(privs) == InOrder(privs)

(* ReconcileGrantPrivileges: a complete set is ALL again if the recorded   *)
(* list was ALL or empty.  Mutants: never; only what was recorded is kept. *)
Reconcile_NoCollapse(prior, observed) == Sorted(observed)
Reconcile_PriorOnly(prior, observed) ==
    IF "ALL" \in ToSet(prior) THEN <<"ALL">> ELSE Sorted(observed \cap ToSet(prior))
Reconcile(prior, observed) ==
    IF (prior = <<>> \/ "ALL" \in ToSet(prior)) /\ observed = Privs
    THEN <<"ALL">> ELSE Sorted(observed)

(* ReadGrantSQL, which a list without tables does not narrow. *)
Observed(objs) == UNION {acl[t] : t \in Covered(IF objs = {} THEN All ELSE objs)}

Exact(g, newAcl) == \A t \in Covered(declared[g].objs) : newAcl[t] = Expand(declared[g].list)

Init == /\ declared = [g \in Grants |-> None]
        /\ state = [g \in Grants |-> None]
        /\ tables \in SUBSET Tables \ {{}}
        /\ acl = [t \in Tables |-> {}]
        /\ op = [g \in Grants |-> "idle"]
        /\ late = {}
        /\ events = {}
        /\ \E c \in Cases : resources = c.resources /\ edits = c.edits
        /\ failures = 0

Spend == failures < MaxFailures /\ failures' = failures + 1
Goto(g, pc) == op' = [op EXCEPT ![g] = pc]
Record(happened, what) == events' = IF happened THEN events \cup what ELSE events
-----------------------------------------------------------------------------
(* Read: no privilege at all means that the grant is gone. *)
Read(g) ==
    /\ g \in resources /\ op[g] = "idle"
    /\ Goto(g, "planned")
    /\ state' = [state EXCEPT ![g] =
                   IF state[g] = None \/ Observed(state[g].objs) = {} THEN None
                   ELSE [state[g] EXCEPT !.list = Reconcile(@, Observed(state[g].objs))]]
    /\ UNCHANGED <<resources, declared, acl, tables, late, events, edits, failures>>

ReadFails(g) ==
    /\ op[g] = "idle" /\ Spend
    /\ UNCHANGED <<resources, declared, state, acl, tables, op, late, events, edits>>

PlanNothing(g) ==
    /\ op[g] = "planned" /\ state[g] = declared[g]
    /\ Goto(g, "idle")
    /\ UNCHANGED <<resources, declared, state, acl, tables, late, events, edits, failures>>

(* The object type forces a replacement; the list of objects does not. *)
MustReplace(g) == (state[g].objs = All) # (declared[g].objs = All)

(* Create, Update, or a replacement, which begins with Delete. *)
Apply(g) ==
    /\ op[g] = "planned" /\ declared[g] # None /\ state[g] # declared[g]
    /\ Goto(g, IF state[g] # None /\ MustReplace(g) THEN "replace" ELSE "revoke")
    /\ UNCHANGED <<resources, declared, state, acl, tables, late, events, edits, failures>>

Destroy(g) ==
    /\ op[g] = "planned" /\ declared[g] = None /\ state[g] # None
    /\ Goto(g, "destroy")
    /\ UNCHANGED <<resources, declared, state, acl, tables, late, events, edits, failures>>
-----------------------------------------------------------------------------
Statements == [verb : {"revoke", "grant"}, objs : ObjSets, privs : SUBSET Privs]
Statement(verb, objs, privs) == [verb |-> verb, objs |-> objs, privs |-> privs]

(* The statement the operation of g has reached; grantCommands, Delete.    *)
Sent(g) ==
    CASE op[g] = "revoke"  -> Statement("revoke", declared[g].objs, Privs)
      [] op[g] = "grant"   -> Statement("grant", declared[g].objs, Expand(declared[g].list))
      [] op[g] \in {"destroy", "replace"} -> Statement("revoke", state[g].objs, Expand(state[g].list))

After(s) == [t \in Tables |-> CASE t \notin Covered(s.objs) -> acl[t]
                                [] t \in Covered(s.objs) /\ s.verb = "grant" -> acl[t] \cup s.privs
                                [] t \in Covered(s.objs) /\ s.verb = "revoke" -> acl[t] \ s.privs]

(* A table that does not exist fails the whole statement, and so does a    *)
(* list without tables: objectClause writes ON TABLE and nothing behind it.*)
Runs(s) == s.objs \in {All} \cup ((SUBSET tables) \ {{}})

Sending(g) == op[g] \in {"revoke", "grant", "destroy", "replace"}

(* The server runs the statement; after the last one the state is set. *)
Executed(g) ==
    /\ Sending(g)
    /\ \/ ~Runs(Sent(g)) /\ Goto(g, "idle") /\ UNCHANGED <<acl, state>>
       \/ /\ Runs(Sent(g))
          /\ acl' = After(Sent(g))
          /\ Goto(g, CASE op[g] = "revoke" -> "grant" [] op[g] = "replace" -> "revoke" [] OTHER -> "idle")
          /\ state' = CASE op[g] = "revoke" -> state
                        [] op[g] = "grant"  -> [state EXCEPT ![g] = declared[g]]
                        [] OTHER            -> [state EXCEPT ![g] = None]
    /\ UNCHANGED <<resources, declared, tables, late, events, edits, failures>>

(* The connection is lost before, after or while the statement runs: it is *)
(* sent again, or the operation fails.                                     *)
ConnectionLost(g) ==
    /\ Sending(g) /\ Spend
    /\ \/ UNCHANGED <<acl, late>>
       \/ Runs(Sent(g)) /\ acl' = After(Sent(g)) /\ UNCHANGED late
       \/ Runs(Sent(g)) /\ late' = late \cup {Sent(g)} /\ UNCHANGED acl
    /\ op' \in {op, [op EXCEPT ![g] = "idle"]}
    /\ UNCHANGED <<resources, declared, state, tables, events, edits>>

(* A statement nobody waits for ends, with or without its effect. *)
LateStatement ==
    /\ \E s \in late :
          /\ late' = late \ {s}
          /\ \/ UNCHANGED <<acl, events>>
             \/ acl' = After(s) /\ Record(acl' # acl, {"late statement"})
    /\ UNCHANGED <<resources, declared, state, tables, op, edits, failures>>
-----------------------------------------------------------------------------
(* What g has had a hand in: the objects it declares or has recorded. *)
Touched(g) == (IF declared[g] = None THEN {} ELSE IF declared[g].objs = All THEN Tables ELSE declared[g].objs)
         \cup (IF state[g] = None THEN {} ELSE IF state[g].objs = All THEN Tables ELSE state[g].objs)

(* Other objects are declared, the apply to them failed. *)
MoveFailed(g) == /\ failures > 0 /\ None \notin {declared[g], state[g]}
                 /\ declared[g].objs # state[g].objs

(* The configuration changes; two resources may come to share an object. *)
EditConfig(g) ==
    /\ op[g] = "idle" /\ edits > 0
    /\ edits' = edits - 1
    /\ UNCHANGED <<resources, state, acl, tables, op, late, failures>>
    /\ \E d \in {None} \cup [list : Lists, objs : ObjSets] :
          d # declared[g] /\ declared' = [declared EXCEPT ![g] = d]
    /\ events' = events
         \cup (IF \E h \in Grants \ {g} : Touched(g)' \cap Touched(h) # {} THEN {"shared object"} ELSE {})
         \cup (IF MoveFailed(g) THEN {"move abandoned"} ELSE {})

(* Somebody else grants or revokes on one table, or creates a table. *)
OthersEdit ==
    /\ edits > 0
    /\ edits' = edits - 1
    /\ \/ /\ \E t \in tables, ps \in SUBSET Privs : ps # acl[t] /\ acl' = [acl EXCEPT ![t] = ps]
          /\ UNCHANGED tables
       \/ /\ \E t \in Tables \ tables : tables' = tables \cup {t}
          /\ UNCHANGED acl
    /\ Record(TRUE, {"others"} \cup IF \A g \in Grants : op[g] = "idle" THEN {} ELSE {"others meanwhile"})
    /\ UNCHANGED <<resources, declared, state, op, late, failures>>

Run(g) == Read(g) \/ PlanNothing(g) \/ Apply(g) \/ Destroy(g) \/ Executed(g)

Next == \/ LateStatement \/ OthersEdit
        \/ \E g \in resources : Run(g) \/ ReadFails(g) \/ ConnectionLost(g) \/ EditConfig(g)

(* The user runs Terraform again and again; a run comes to its end. *)
Spec     == Init /\ [][Next]_vars
FairSpec == Spec /\ \A g \in Grants : WF_vars(Run(g))
-----------------------------------------------------------------------------
TypeOK == /\ resources \subseteq Grants /\ edits \in Nat
          /\ declared \in [Grants -> {None} \cup [list : Lists, objs : ObjSets]]
          /\ state \in [Grants -> {None} \cup [list : Seq(Words), objs : ObjSets]]
          /\ \A g \in Grants :
                state[g] # None => state[g].list \in Lists \/ IsInjective(state[g].list)
          /\ acl \in [Tables -> SUBSET Privs]
          /\ tables \subseteq Tables
          /\ op \in [Grants -> {"idle", "planned", "revoke", "grant", "destroy", "replace"}]
          /\ late \subseteq Statements

Disturbed == events \cap {"shared object", "others meanwhile", "late statement"} # {}

(* grant_resource.go: "converges to exactly the declared privilege set".   *)
(* A successful apply leaves on every object exactly the declared          *)
(* privileges, whatever the role held before and however often either      *)
(* statement ran, unless somebody else's statement came in between.        *)
SuccessIsExact ==
    [][\A g \in Grants :
          op[g] = "grant" /\ op'[g] = "idle" /\ state' # state =>
             Exact(g, acl') \/ Disturbed]_vars

(* A destroy leaves the role with nothing on the objects of the resource,  *)
(* privileges that others granted before the run began included: Delete    *)
(* revokes what the last Read recorded.                                    *)
DestroyLeavesNothing ==
    [][\A g \in Grants :
          op[g] \in {"destroy", "replace"} /\ state[g] # None /\ state'[g] = None =>
             (\A t \in Covered(state[g].objs) : acl'[t] = {}) \/ Disturbed]_vars

(* A list that Read returns as it was written. *)
Canonical(list) ==
    \/ list = <<"ALL">>
    \/ list # <<>> /\ list = Sorted(ToSet(list)) /\ ToSet(list) # Privs

(* Read tells the objects of g apart, or nobody made them differ. *)
Visible(g) == Cardinality(Covered(declared[g].objs)) = 1
              \/ events \cap {"others", "late statement", "move abandoned"} = {}

(* Repeated runs end with an empty plan and exactly the declared           *)
(* privileges: after an apply that stopped between REVOKE and GRANT, and   *)
(* on a single object after whatever others or late statements did to it.  *)
Converges ==
    <>[](\A g \in resources :
            /\ declared[g] # None /\ Canonical(declared[g].list)
            /\ Runs(declared[g]) /\ Covered(declared[g].objs) # {}
            /\ "shared object" \notin events /\ Visible(g)
            => /\ state[g] # None /\ state[g].list = declared[g].list
               /\ Exact(g, acl))
=============================================================================
