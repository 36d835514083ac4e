----------------------- MODULE GrantResource_proofs ------------------------
(***************************************************************************)
(* Proofs about GrantResource, for any resources, tables, privileges and   *)
(* lists and any bounds of the environment.  The inductive invariant says  *)
(* that two resources touch different objects unless the history tells,    *)
(* and that, unless something disturbed it, the role holds nothing that a  *)
(* REVOKE in progress will not take and nothing beyond what a GRANT in     *)
(* progress gives.                                                         *)
(***************************************************************************)
EXTENDS GrantResource, WellFoundedInduction, TLAPS

Configs == [list : Lists, objs : ObjSets]
States  == [list : Seq(Words), objs : ObjSets]
Pcs     == {"idle", "planned", "revoke", "grant", "destroy", "replace"}

(* TypeOK, but for the lists Read returns. *)
Types == /\ resources \subseteq Grants /\ edits \in Nat
         /\ declared \in [Grants -> {None} \cup Configs]
         /\ state \in [Grants -> {None} \cup States]
         /\ acl \in [Tables -> SUBSET Privs]
         /\ tables \subseteq Tables
         /\ op \in [Grants -> Pcs]
         /\ late \subseteq Statements

ListInv == \A g \in Grants :
             state[g] # None => state[g].list \in Lists \/ IsInjective(state[g].list)

(* A statement in progress has something to be about. *)
OpInv == \A g \in Grants :
           /\ op[g] \in {"revoke", "grant", "replace"} => declared[g] # None
           /\ op[g] \in {"destroy", "replace"} => state[g] # None

(* Two resources have their hands in different objects. *)
ApartInv == "shared object" \notin events =>
              \A g, h \in Grants : g # h => Touched(g) \cap Touched(h) = {}

(* On the objects objs the role holds nothing beyond the list. *)
Within(objs, list) == \A t \in Covered(objs) : acl[t] \subseteq Expand(list)

(* After its REVOKE a resource's objects have nothing it does not grant. *)
GrantInv == \A g \in Grants :
              op[g] = "grant" /\ ~Disturbed => Within(declared[g].objs, declared[g].list)

(* What Read recorded is all there is to revoke. *)
ReadInv == \A g \in Grants :
             op[g] \in {"planned", "destroy", "replace"} /\ state[g] # None /\ ~Disturbed =>
               Within(state[g].objs, state[g].list)

Inv == Types /\ ListInv /\ OpInv /\ ApartInv /\ GrantInv /\ ReadInv

-----------------------------------------------------------------------------
(* Every set of natural numbers has a least one. *)
LEMMA NatLess == IsWellFoundedOn({p \in Nat \X Nat : p[1] < p[2]}, Nat)
  BY NatLessThanWellFounded DEF OpToRel

(* A set with zero and the successor of each of its numbers has them all. *)
LEMMA NatSetInduction ==
  ASSUME NEW T \in SUBSET Nat, 0 \in T, \A n \in T : n + 1 \in T
  PROVE  T = Nat
<1> DEFINE R == {p \in Nat \X Nat : p[1] < p[2]}
<1> SUFFICES ASSUME Nat \ T # {} PROVE FALSE
  OBVIOUS
<1>1. PICK x \in Nat \ T : \A y \in Nat \ T : ~(<<y, x>> \in R)
  <2>1. IsWellFoundedOn(R, Nat)
    BY NatLess
  <2> HIDE DEF R
  <2> QED
    BY <2>1, WFMin
<1>2. x # 0 /\ x - 1 \in Nat /\ x - 1 < x
  OBVIOUS
<1>3. x - 1 \in T
  BY <1>1, <1>2
<1> QED
  BY <1>2, <1>3

(* f is defined by recursion from base, by step[n] after n.                *)
Recursion(f, S, base, step) ==
    f \in [Nat -> S] /\ f[0] = base /\ \A n \in Nat : f[n + 1] = step[n][f[n]]

(* A recursion over the natural numbers defines a function: there is one   *)
(* up to every number, and the longer ones continue the shorter.           *)
LEMMA RecursionExists ==
  ASSUME NEW S, NEW base \in S, NEW step \in [Nat -> [S -> S]]
  PROVE  \E f : Recursion(f, S, base, step)
<1> DEFINE Good(n, g) == /\ g \in [0 .. n -> S] /\ g[0] = base
                         /\ \A i \in Nat : i < n => g[i + 1] = step[i][g[i]]
<1>1. ASSUME NEW n \in Nat PROVE \E g : Good(n, g)
  <2> DEFINE T == {m \in Nat : \E g : Good(m, g)}
  <2>1. 0 \in T
    <3>1. Good(0, [i \in 0 .. 0 |-> base])
      OBVIOUS
    <3> QED
      BY <3>1
  <2>2. ASSUME NEW m \in T PROVE m + 1 \in T
    <3>1. PICK g : Good(m, g)
      OBVIOUS
    <3> DEFINE h == [i \in 0 .. m + 1 |-> IF i = m + 1 THEN step[m][g[m]] ELSE g[i]]
    <3>2. m \in Nat /\ g[m] \in S /\ step[m][g[m]] \in S
      BY <3>1
    <3>3. h \in [0 .. m + 1 -> S] /\ h[0] = base
      BY <3>1, <3>2
    <3>4. ASSUME NEW i \in Nat, i < m + 1 PROVE h[i + 1] = step[i][h[i]]
      <4>1. CASE i = m
        BY <3>2, <4>1
      <4>2. CASE i < m
        BY <3>1, <3>2, <4>2
      <4> QED
        BY <3>2, <3>4, <4>1, <4>2
    <3>5. Good(m + 1, h)
      BY <3>3, <3>4
    <3> HIDE DEF h
    <3> QED
      BY <3>2, <3>5
  <2> HIDE DEF T
  <2>3. T = Nat
    <3>1. T \in SUBSET Nat
      BY DEF T
    <3> QED
      BY <2>1, <2>2, <3>1, NatSetInduction
  <2> QED
    BY <2>3 DEF T
<1>2. ASSUME NEW n \in Nat, NEW g, NEW h, Good(n, g), Good(n + 1, h)
      PROVE  \A i \in 0 .. n : g[i] = h[i]
  <2> DEFINE T == {i \in Nat : i <= n => g[i] = h[i]}
  <2>1. 0 \in T
    BY <1>2
  <2>2. ASSUME NEW i \in T PROVE i + 1 \in T
    BY <1>2
  <2> HIDE DEF T
  <2>3. T = Nat
    <3>1. T \in SUBSET Nat
      BY DEF T
    <3> QED
      BY <2>1, <2>2, <3>1, NatSetInduction
  <2> QED
    BY <2>3 DEF T
<1> DEFINE c(n) == CHOOSE g : Good(n, g)
           f == [n \in Nat |-> c(n)[n]]
<1>3. \A n \in Nat : Good(n, c(n))
  BY <1>1
<1> HIDE DEF c
<1>4. ASSUME NEW n \in Nat PROVE c(n)[n] = c(n + 1)[n] /\ c(n)[n] \in S
  <2>1. Good(n, c(n)) /\ n \in 0 .. n
    BY <1>3
  <2>2. \A i \in 0 .. n : c(n)[i] = c(n + 1)[i]
    <3> HIDE DEF Good
    <3>1. n + 1 \in Nat
      OBVIOUS
    <3>2. Good(n, c(n)) /\ Good(n + 1, c(n + 1))
      BY <1>3, <3>1
    <3> QED
      BY <1>2, <3>2, Zenon
  <2> QED
    BY <2>1, <2>2
<1>5. ASSUME NEW n \in Nat PROVE f[n + 1] = step[n][f[n]]
  <2>1. c(n + 1)[n + 1] = step[n][c(n + 1)[n]]
    <3>1. Good(n + 1, c(n + 1)) /\ n < n + 1
      BY <1>3
    <3> QED
      BY <3>1
  <2>2. f[n] = c(n)[n] /\ f[n + 1] = c(n + 1)[n + 1] /\ c(n)[n] = c(n + 1)[n]
    BY <1>4
  <2> QED
    BY <2>1, <2>2
<1>6. f \in [Nat -> S] /\ f[0] = base
  BY <1>3, <1>4
<1> HIDE DEF f
<1>7. Recursion(f, S, base, step)
  BY <1>5, <1>6 DEF Recursion
<1> QED
  BY <1>7

-----------------------------------------------------------------------------
(* InOrder: every privilege of the set, once.                              *)
LEMMA InOrderLists ==
  ASSUME NEW privs \in SUBSET Privs
  PROVE  /\ InOrder(privs) \in Seq(Privs)
         /\ ToSet(InOrder(privs)) = privs
         /\ IsInjective(InOrder(privs))
<1> DEFINE L == Len(PrivOrder)
           Next1(n, q) == IF PrivOrder[n] \in privs THEN Append(q, PrivOrder[n]) ELSE q
           u == CHOOSE v : v = [n \in 0 .. L |-> IF n = 0 THEN <<>> ELSE
                                 IF PrivOrder[n] \in privs THEN Append(v[n - 1], PrivOrder[n])
                                                           ELSE v[n - 1]]
<1>1. InOrder(privs) = u[L]
  BY DEF InOrder
<1>2. /\ L \in Nat /\ \A n \in 1 .. L : PrivOrder[n] \in Privs
      /\ \A i, j \in 1 .. L : PrivOrder[i] = PrivOrder[j] => i = j
      /\ Privs = {PrivOrder[n] : n \in 1 .. L}
  <2>1. PrivOrder \in Seq(Privs) /\ IsInjective(PrivOrder)
    BY GrantAssumption
  <2>2. L \in Nat /\ DOMAIN PrivOrder = 1 .. L /\ \A n \in 1 .. L : PrivOrder[n] \in Privs
    BY <2>1
  <2>3. \A i, j \in 1 .. L : PrivOrder[i] = PrivOrder[j] => i = j
    BY <2>1, <2>2 DEF IsInjective
  <2>4. Privs = {PrivOrder[n] : n \in 1 .. L}
    BY <2>2 DEF Privs, ToSet
  <2> QED
    BY <2>2, <2>3, <2>4
<1>3. \E v : v = [n \in 0 .. L |-> IF n = 0 THEN <<>> ELSE
                     IF PrivOrder[n] \in privs THEN Append(v[n - 1], PrivOrder[n])
                                               ELSE v[n - 1]]
  <2> DEFINE step == [n \in Nat |-> [q \in Seq(Privs) |->
                        IF n < L /\ PrivOrder[n + 1] \in privs
                        THEN Append(q, PrivOrder[n + 1]) ELSE q]]
  <2>1. step \in [Nat -> [Seq(Privs) -> Seq(Privs)]]
    BY <1>2
  <2>2. PICK f \in [Nat -> Seq(Privs)] : f[0] = <<>> /\ \A n \in Nat : f[n + 1] = step[n][f[n]]
    <3>1. <<>> \in Seq(Privs)
      OBVIOUS
    <3> HIDE DEF step
    <3>2. PICK f : Recursion(f, Seq(Privs), <<>>, step)
      BY <2>1, <3>1, RecursionExists
    <3> QED
      BY <3>2 DEF Recursion
  <2>3. ASSUME NEW n \in 1 .. L
        PROVE  f[n] = IF PrivOrder[n] \in privs THEN Append(f[n - 1], PrivOrder[n])
                                                ELSE f[n - 1]
    <3>1. n - 1 \in Nat /\ n - 1 < L /\ (n - 1) + 1 = n
      BY <1>2
    <3>2. f[n] = step[n - 1][f[n - 1]] /\ f[n - 1] \in Seq(Privs)
      BY <2>2, <3>1
    <3> QED
      BY <3>1, <3>2
  <2> DEFINE g == [n \in 0 .. L |-> f[n]]
  <2>4. g = [n \in 0 .. L |-> IF n = 0 THEN <<>> ELSE
                IF PrivOrder[n] \in privs THEN Append(g[n - 1], PrivOrder[n]) ELSE g[n - 1]]
    <3>1. ASSUME NEW n \in 1 .. L
          PROVE  f[n] = IF PrivOrder[n] \in privs THEN Append(g[n - 1], PrivOrder[n])
                                                  ELSE g[n - 1]
      <4>1. n - 1 \in 0 .. L
        BY <1>2
      <4> QED
        BY <2>3, <4>1
    <3>2. \A n \in 0 .. L : n = 0 \/ n \in 1 .. L
      BY <1>2
    <3> QED
      BY <2>2, <3>1, <3>2
  <2> QED
    BY <2>4
<1>4. u = [n \in 0 .. L |-> IF n = 0 THEN <<>> ELSE
               IF PrivOrder[n] \in privs THEN Append(u[n - 1], PrivOrder[n]) ELSE u[n - 1]]
  BY <1>3
<1> HIDE DEF u
<1> DEFINE P(n) == /\ u[n] \in Seq(Privs)
                   /\ ToSet(u[n]) = privs \cap {PrivOrder[i] : i \in 1 .. n}
                   /\ IsInjective(u[n])
           T == {n \in Nat : n <= L => P(n)}
<1>5. 0 \in T
  <2>1. u[0] = <<>>
    BY <1>2, <1>4
  <2>2. <<>> \in Seq(Privs) /\ ToSet(<<>>) = {} /\ IsInjective(<<>>)
    BY DEF ToSet, IsInjective
  <2>3. {PrivOrder[i] : i \in 1 .. 0} = {}
    OBVIOUS
  <2>4. P(0)
    BY <2>1, <2>2, <2>3
  <2> QED
    BY <2>4
<1>6. ASSUME NEW n \in T PROVE n + 1 \in T
  <2> SUFFICES ASSUME n + 1 <= L PROVE P(n + 1)
    OBVIOUS
  <2>1. n \in Nat /\ n <= L /\ n + 1 \in 1 .. L /\ P(n)
    BY <1>2
  <2>2. u[n + 1] = IF PrivOrder[n + 1] \in privs THEN Append(u[n], PrivOrder[n + 1]) ELSE u[n]
    <3>1. n + 1 \in 0 .. L /\ n + 1 # 0 /\ (n + 1) - 1 = n
      BY <1>2, <2>1
    <3> HIDE DEF L
    <3> QED
      BY <1>4, <3>1
  <2>3. {PrivOrder[i] : i \in 1 .. n + 1}
          = {PrivOrder[i] : i \in 1 .. n} \cup {PrivOrder[n + 1]}
    BY <2>1
  <2>4. PrivOrder[n + 1] \notin {PrivOrder[i] : i \in 1 .. n}
    BY <1>2, <2>1
  <2>5. CASE PrivOrder[n + 1] \notin privs
    BY <2>1, <2>2, <2>3, <2>5
  <2>6. CASE PrivOrder[n + 1] \in privs
    <3> DEFINE x == PrivOrder[n + 1]
               q == u[n]
    <3>1. q \in Seq(Privs) /\ x \in Privs /\ u[n + 1] = Append(q, x) /\ x \notin ToSet(q)
      BY <1>2, <2>1, <2>2, <2>4, <2>6
    <3> HIDE DEF x, q
    <3>2. /\ Append(q, x) \in Seq(Privs) /\ Len(q) \in Nat
          /\ DOMAIN q = 1 .. Len(q) /\ DOMAIN Append(q, x) = 1 .. Len(q) + 1
          /\ \A i \in 1 .. Len(q) : Append(q, x)[i] = q[i]
          /\ Append(q, x)[Len(q) + 1] = x
      BY <3>1
    <3>3. ToSet(Append(q, x)) = ToSet(q) \cup {x}
      BY <3>2 DEF ToSet
    <3>4. IsInjective(q) => IsInjective(Append(q, x))
      BY <3>1, <3>2 DEF ToSet, IsInjective
    <3> QED
      BY <2>1, <2>3, <2>6, <3>1, <3>2, <3>4, <3>3 DEF x, q
  <2> QED
    BY <2>5, <2>6
<1>7. T = Nat
  <2> HIDE DEF T
  <2>1. T \in SUBSET Nat
    BY DEF T
  <2> QED
    BY <1>5, <1>6, <2>1, NatSetInduction
<1>8. P(L)
  <2> HIDE DEF P
  <2> QED
    BY <1>2, <1>7
<1> QED
  BY <1>1, <1>2, <1>8

-----------------------------------------------------------------------------
(* A list means privileges, and what Read returns means what it observed.  *)
LEMMA ExpandTypes ==
  ASSUME NEW list \in Seq(Words)
  PROVE  Expand(list) \in SUBSET Privs
<1>1. ToSet(list) \subseteq Words
  BY DEF ToSet
<1>2. CASE {"ALL", "ALL PRIVILEGES"} \cap ToSet(list) # {}
  BY <1>2 DEF Expand
<1>3. CASE {"ALL", "ALL PRIVILEGES"} \cap ToSet(list) = {}
  <2>1. ToSet(list) \subseteq Privs
    BY <1>1, <1>3 DEF Words
  <2> QED
    BY <2>1 DEF Expand
<1> QED
  BY <1>2, <1>3

(* Read returns a list that names all it observed, each once. *)
LEMMA ReconcileLists ==
  ASSUME NEW prior, NEW observed \in SUBSET Privs, observed # {}
  PROVE  /\ Reconcile(prior, observed) \in Seq(Words)
         /\ IsInjective(Reconcile(prior, observed))
         /\ observed \subseteq Expand(Reconcile(prior, observed))
<1>1. CASE Reconcile(prior, observed) = <<"ALL">>
  <2> DEFINE a == "ALL"
  <2>1. a \in Words
    BY DEF Words
  <2>2. ASSUME NEW x \in Words
        PROVE  <<x>> \in Seq(Words) /\ IsInjective(<<x>>) /\ x \in ToSet(<<x>>)
    BY DEF IsInjective, ToSet
  <2>3. Expand(<<a>>) = Privs
    BY <2>1, <2>2 DEF Expand
  <2> QED
    BY <1>1, <2>1, <2>2, <2>3
<1>2. CASE Reconcile(prior, observed) = Sorted(observed)
  <2> DEFINE l == Sorted(observed)
  <2>1. l \in Seq(Privs) /\ ToSet(l) = observed /\ IsInjective(l)
    BY InOrderLists DEF Sorted
  <2> HIDE DEF l
  <2>2. l \in Seq(Words)
    <3>1. Privs \subseteq Words
      BY DEF Words
    <3> QED
      BY <2>1, <3>1
  <2>3. l # <<>> /\ {"ALL", "ALL PRIVILEGES"} \cap ToSet(l) = {}
    <3>1. ToSet(<<>>) = {}
      BY DEF ToSet
    <3> QED
      BY <2>1, <3>1, GrantAssumption
  <2>4. Expand(l) = observed
    BY <2>1, <2>3 DEF Expand
  <2> QED
    BY <1>2, <2>1, <2>2, <2>4 DEF l
<1> QED
  BY <1>1, <1>2 DEF Reconcile

-----------------------------------------------------------------------------
(* What a resource declares or has recorded is what it touches. *)
LEMMA Covers ==
  ASSUME Types, NEW g \in Grants
  PROVE  /\ declared[g] # None => /\ declared[g] \in Configs
                                  /\ Covered(declared[g].objs) \subseteq Touched(g)
         /\ state[g] # None => /\ state[g] \in States
                               /\ Covered(state[g].objs) \subseteq Touched(g)
         /\ Touched(g) \subseteq Tables
         /\ \A objs \in ObjSets : Covered(objs) \subseteq Tables
<1>1. /\ declared[g] \in {None} \cup Configs /\ state[g] \in {None} \cup States
      /\ tables \subseteq Tables
  BY DEF Types
<1>2. \A objs : Covered(objs) \subseteq IF objs = All THEN Tables ELSE objs
  BY <1>1 DEF Covered
<1>3. \A objs \in ObjSets : objs = All \/ objs \subseteq Tables
  BY DEF ObjSets
<1>4. /\ declared[g] # None => declared[g].objs \in ObjSets
      /\ state[g] # None => state[g].objs \in ObjSets
  BY <1>1 DEF Configs, States
<1>5. \A objs : Covered(objs) \subseteq Tables
  BY <1>1 DEF Covered
<1>6. Touched(g) \subseteq Tables
  BY <1>3, <1>4 DEF Touched
<1>7. declared[g] # None => Covered(declared[g].objs) \subseteq Touched(g)
  BY <1>2 DEF Touched
<1>8. state[g] # None => Covered(state[g].objs) \subseteq Touched(g)
  BY <1>2 DEF Touched
<1> QED
  BY <1>1, <1>5, <1>6, <1>7, <1>8

(* The statement a resource has reached is about objects it touches. *)
LEMMA SentTypes ==
  ASSUME Types, OpInv, NEW g \in Grants, Sending(g)
  PROVE  /\ Sent(g) \in Statements /\ Covered(Sent(g).objs) \subseteq Touched(g)
         /\ op[g] = "grant" => /\ Sent(g).verb = "grant" /\ Sent(g).objs = declared[g].objs
                               /\ Sent(g).privs = Expand(declared[g].list)
         /\ op[g] = "revoke" => /\ Sent(g).verb = "revoke" /\ Sent(g).objs = declared[g].objs
                                /\ Sent(g).privs = Privs
         /\ op[g] \in {"destroy", "replace"} =>
              /\ Sent(g).verb = "revoke" /\ Sent(g).objs = state[g].objs
              /\ Sent(g).privs = Expand(state[g].list)
<1>1. ASSUME NEW verb \in {"revoke", "grant"}, NEW objs \in ObjSets, NEW privs \in SUBSET Privs
      PROVE  /\ Statement(verb, objs, privs) \in Statements
             /\ Statement(verb, objs, privs).verb = verb
             /\ Statement(verb, objs, privs).objs = objs
             /\ Statement(verb, objs, privs).privs = privs
  BY DEF Statement, Statements
<1>2. CASE op[g] \in {"revoke", "grant"}
  <2>1. declared[g] \in Configs /\ Covered(declared[g].objs) \subseteq Touched(g)
    BY <1>2, Covers DEF OpInv
  <2>2. declared[g].objs \in ObjSets /\ Expand(declared[g].list) \in SUBSET Privs
    BY <2>1, ExpandTypes, GrantAssumption DEF Configs
  <2>3. CASE op[g] = "revoke"
    <3>1. Sent(g) = Statement("revoke", declared[g].objs, Privs)
      BY <2>3 DEF Sent
    <3> QED
      BY <1>1, <2>1, <2>2, <2>3, <3>1
  <2>4. CASE op[g] = "grant"
    <3>1. Sent(g) = Statement("grant", declared[g].objs, Expand(declared[g].list))
      BY <2>4 DEF Sent
    <3> QED
      BY <1>1, <2>1, <2>2, <2>4, <3>1
  <2> QED
    BY <1>2, <2>3, <2>4
<1>3. CASE op[g] \in {"destroy", "replace"}
  <2>1. state[g] \in States /\ Covered(state[g].objs) \subseteq Touched(g)
    BY <1>3, Covers DEF OpInv
  <2>2. state[g].objs \in ObjSets /\ Expand(state[g].list) \in SUBSET Privs
    BY <2>1, ExpandTypes DEF States
  <2>3. Sent(g) = Statement("revoke", state[g].objs, Expand(state[g].list))
    BY <1>3 DEF Sent
  <2> QED
    BY <1>1, <1>3, <2>1, <2>2, <2>3
<1> QED
  BY <1>2, <1>3 DEF Sending

(* A statement changes the tables it covers. *)
LEMMA AfterTypes ==
  ASSUME Types, NEW s \in Statements
  PROVE  /\ After(s) \in [Tables -> SUBSET Privs]
         /\ \A t \in Tables : t \notin Covered(s.objs) => After(s)[t] = acl[t]
         /\ s.verb = "grant" => \A t \in Tables \cap Covered(s.objs) :
                                  After(s)[t] = acl[t] \cup s.privs
         /\ s.verb = "revoke" => \A t \in Tables \cap Covered(s.objs) :
                                  After(s)[t] = acl[t] \ s.privs
<1>1. /\ s.verb \in {"revoke", "grant"} /\ s.privs \subseteq Privs
      /\ \A t \in Tables : acl[t] \subseteq Privs
  BY DEF Types, Statements
<1>2. ASSUME NEW t \in Tables
      PROVE  /\ After(s)[t] \subseteq Privs
             /\ t \notin Covered(s.objs) => After(s)[t] = acl[t]
             /\ t \in Covered(s.objs) /\ s.verb = "grant" => After(s)[t] = acl[t] \cup s.privs
             /\ t \in Covered(s.objs) /\ s.verb = "revoke" => After(s)[t] = acl[t] \ s.privs
  <2>1. CASE t \notin Covered(s.objs)
    BY <1>1, <2>1 DEF After
  <2>2. CASE t \in Covered(s.objs) /\ s.verb = "grant"
    BY <1>1, <2>2 DEF After
  <2>3. CASE t \in Covered(s.objs) /\ s.verb = "revoke"
    BY <1>1, <2>3 DEF After
  <2> QED
    BY <1>1, <2>1, <2>2, <2>3
<1>3. After(s) \in [Tables -> SUBSET Privs]
  <2> DEFINE e(t) == CASE t \notin Covered(s.objs) -> acl[t]
                       [] t \in Covered(s.objs) /\ s.verb = "grant" -> acl[t] \cup s.privs
                       [] t \in Covered(s.objs) /\ s.verb = "revoke" -> acl[t] \ s.privs
  <2>1. After(s) = [t \in Tables |-> e(t)]
    BY DEF After
  <2>2. ASSUME NEW t \in Tables PROVE e(t) \in SUBSET Privs
    <3> HIDE DEF e
    <3>1. After(s)[t] = e(t)
      BY <2>1
    <3> QED
      BY <1>2, <3>1
  <2> HIDE DEF e
  <2> QED
    BY <2>1, <2>2
<1> QED
  BY <1>2, <1>3

-----------------------------------------------------------------------------
(* What one declaration or recorded state is about. *)
Hand(d) == IF d = None THEN {} ELSE IF d.objs = All THEN Tables ELSE d.objs

(* The resource's declaration and state, and nothing else, say what it touches. *)
LEMMA TouchedHands ==
  ASSUME NEW g \in Grants
  PROVE  /\ Touched(g) = Hand(declared[g]) \cup Hand(state[g])
         /\ Touched(g)' = Hand(declared'[g]) \cup Hand(state'[g])
BY DEF Touched, Hand

(* The history only grows. *)
LEMMA EventsGrow ==
  ASSUME [Next]_vars
  PROVE  events \subseteq events'
<1>1. CASE LateStatement
  BY <1>1 DEF LateStatement, Record
<1>2. CASE OthersEdit
  BY <1>2 DEF OthersEdit, Record
<1>3. ASSUME NEW g \in resources, Run(g) \/ ReadFails(g) \/ ConnectionLost(g)
      PROVE  events' = events
  BY <1>3 DEF Run, Read, PlanNothing, Apply, Destroy, Executed, ReadFails, ConnectionLost
<1>4. ASSUME NEW g \in resources, EditConfig(g) PROVE events \subseteq events'
  BY <1>4 DEF EditConfig
<1>5. CASE UNCHANGED vars
  BY <1>5 DEF vars
<1> QED
  BY <1>1, <1>2, <1>3, <1>4, <1>5 DEF Next

(* A step that a history of nothing disturbing leaves undisturbed. *)
LEMMA Undisturbed ==
  ASSUME [Next]_vars, ~Disturbed'
  PROVE  ~Disturbed
BY EventsGrow DEF Disturbed

(* A resource's steps leave the others their places and their states, and  *)
(* change the privileges only by the statement it sends.                   *)
LEMMA RunSteps ==
  ASSUME Types, OpInv, NEW g \in Grants, Run(g) \/ ReadFails(g) \/ ConnectionLost(g)
  PROVE  /\ UNCHANGED <<resources, declared, tables, events, edits>>
         /\ \A h \in Grants \ {g} : op'[h] = op[h] /\ state'[h] = state[h]
         /\ Hand(state'[g]) \subseteq Touched(g)
         /\ acl' = acl \/ (Sending(g) /\ acl' = After(Sent(g)))
<1> USE DEF Goto
<1>1. /\ op \in [Grants -> Pcs] /\ state \in [Grants -> {None} \cup States]
      /\ Hand(state[g]) \subseteq Touched(g) /\ Hand(declared[g]) \subseteq Touched(g)
      /\ Hand(None) = {}
  BY TouchedHands DEF Types, Hand
<1>2. CASE Read(g)
  <2>1. state'[g] = None \/ (state[g] # None /\ state'[g].objs = state[g].objs)
    <3>1. state[g] # None => \A l : [state[g] EXCEPT !.list = l].objs = state[g].objs
      BY <1>1 DEF States
    <3> QED
      BY <1>1, <1>2, <3>1 DEF Read
  <2>2. Hand(state'[g]) \subseteq Hand(state[g])
    BY <2>1 DEF Hand
  <2>3. /\ UNCHANGED <<resources, declared, tables, events, edits>> /\ acl' = acl
        /\ op' = [op EXCEPT ![g] = "planned"]
    BY <1>2 DEF Read
  <2>4. \A h \in Grants \ {g} : op'[h] = op[h] /\ state'[h] = state[h]
    BY <1>1, <1>2, <2>3 DEF Read
  <2> QED
    BY <1>1, <2>2, <2>3, <2>4
<1>3. CASE PlanNothing(g) \/ Apply(g) \/ Destroy(g) \/ ReadFails(g)
  <2>1. /\ UNCHANGED <<resources, declared, tables, events, edits>>
        /\ state' = state /\ acl' = acl
        /\ op' = op \/ \E pc : op' = [op EXCEPT ![g] = pc]
    <3>1. CASE PlanNothing(g)
      BY <3>1 DEF PlanNothing
    <3>2. CASE Apply(g)
      BY <3>2 DEF Apply
    <3>3. CASE Destroy(g)
      BY <3>3 DEF Destroy
    <3>4. CASE ReadFails(g)
      BY <3>4 DEF ReadFails
    <3> QED
      BY <1>3, <3>1, <3>2, <3>3, <3>4
  <2> QED
    BY <1>1, <2>1
<1>4. CASE Executed(g)
  <2>1. \/ state' = state \/ state' = [state EXCEPT ![g] = declared[g]]
        \/ state' = [state EXCEPT ![g] = None]
    BY <1>4 DEF Executed
  <2>2. UNCHANGED <<resources, declared, tables, events, edits>>
    BY <1>4 DEF Executed
  <2>3. \E pc : op' = [op EXCEPT ![g] = pc]
    <3>1. \E pc : Goto(g, pc)
      <4> HIDE DEF Goto
      <4> QED
        BY <1>4, Zenon DEF Executed
    <3> QED
      BY <3>1
  <2>4. acl' = acl \/ (Sending(g) /\ acl' = After(Sent(g)))
    BY <1>4 DEF Executed, Sending
  <2>5. Hand(state'[g]) \subseteq Touched(g)
    BY <1>1, <2>1
  <2> QED
    BY <1>1, <2>1, <2>2, <2>3, <2>4, <2>5
<1>5. CASE ConnectionLost(g)
  <2>1. state' = state /\ (op' = op \/ op' = [op EXCEPT ![g] = "idle"])
    BY <1>5 DEF ConnectionLost
  <2>2. UNCHANGED <<resources, declared, tables, events, edits>>
    BY <1>5 DEF ConnectionLost
  <2>3. acl' = acl \/ (Sending(g) /\ acl' = After(Sent(g)))
    BY <1>5 DEF ConnectionLost, Sending
  <2> QED
    BY <1>1, <2>1, <2>2, <2>3
<1> QED
  BY <1>2, <1>3, <1>4, <1>5 DEF Run

(* The operation of another resource is not disturbed unless the history   *)
(* tells: the two touch different tables.                                  *)
LEMMA OthersStep ==
  ASSUME Types, OpInv, ApartInv, [Next]_vars, ~Disturbed', NEW h \in Grants,
         ~(Run(h) \/ ConnectionLost(h))
  PROVE  /\ op'[h] = op[h]
         /\ op[h] # "idle" => /\ declared'[h] = declared[h] /\ state'[h] = state[h]
                              /\ tables' = tables
                              /\ \A t \in Touched(h) : acl'[t] = acl[t]
<1> DEFINE Kept == /\ declared'[h] = declared[h] /\ state'[h] = state[h]
                   /\ tables' = tables
                   /\ \A t \in Touched(h) : acl'[t] = acl[t]
<1>1. CASE LateStatement
  <2>1. acl' = acl
    BY <1>1 DEF LateStatement, Record, Disturbed
  <2> QED
    BY <1>1, <2>1 DEF LateStatement
<1>2. CASE OthersEdit
  BY <1>2 DEF OthersEdit, Record, Disturbed
<1>3. ASSUME NEW g \in Grants, g # h, Run(g) \/ ReadFails(g) \/ ConnectionLost(g)
      PROVE  op'[h] = op[h] /\ Kept
  <2>1. /\ UNCHANGED <<declared, tables>> /\ op'[h] = op[h] /\ state'[h] = state[h]
        /\ acl' = acl \/ (Sending(g) /\ acl' = After(Sent(g)))
    BY <1>3, RunSteps
  <2>2. CASE Sending(g) /\ acl' = After(Sent(g))
    <3>1. Touched(g) \cap Touched(h) = {}
      BY <1>3, Undisturbed DEF ApartInv, Disturbed
    <3>2. /\ Sent(g) \in Statements /\ Covered(Sent(g).objs) \subseteq Touched(g)
          /\ Touched(h) \subseteq Tables
      BY <2>2, SentTypes, Covers
    <3>3. \A t \in Tables : t \notin Covered(Sent(g).objs) => acl'[t] = acl[t]
      BY <2>2, <3>2, AfterTypes
    <3> QED
      BY <2>1, <3>1, <3>2, <3>3
  <2> QED
    BY <2>1, <2>2
<1>4. CASE ReadFails(h)
  BY <1>4 DEF ReadFails
<1>5. ASSUME NEW g \in Grants, EditConfig(g)
      PROVE  op'[h] = op[h] /\ (op[h] # "idle" => Kept)
  <2>1. op[h] # "idle" => declared'[h] = declared[h]
    BY <1>5 DEF EditConfig, Types
  <2> QED
    BY <1>5, <2>1 DEF EditConfig
<1>6. CASE UNCHANGED vars
  BY <1>6 DEF vars
<1>7. resources \subseteq Grants
  BY DEF Types
<1> QED
  BY <1>1, <1>2, <1>3, <1>4, <1>5, <1>6, <1>7 DEF Next

(* The places an operation moves to, with what it then has to work on. *)
LEMMA Moves ==
  ASSUME Types, OpInv, NEW g \in Grants, Run(g) \/ ReadFails(g) \/ ConnectionLost(g)
  PROVE  \/ /\ op' = op \/ op' = [op EXCEPT ![g] = "idle"]
            /\ state' = state
         \/ /\ op' = [op EXCEPT ![g] = "planned"]
            /\ acl' = acl /\ late' = late
            /\ Read(g)
         \/ /\ op[g] = "planned" /\ state' = state /\ acl' = acl /\ late' = late
            /\ \/ op' = [op EXCEPT ![g] = "revoke"] /\ declared[g] # None
               \/ /\ op' = [op EXCEPT ![g] = "replace"]
                  /\ declared[g] # None /\ state[g] # None
               \/ op' = [op EXCEPT ![g] = "destroy"] /\ state[g] # None
         \/ /\ Sending(g) /\ acl' = After(Sent(g)) /\ late' = late
            /\ \/ /\ op[g] = "revoke" /\ op' = [op EXCEPT ![g] = "grant"]
                  /\ state' = state
               \/ /\ op[g] = "grant" /\ op' = [op EXCEPT ![g] = "idle"]
                  /\ state' = [state EXCEPT ![g] = declared[g]]
               \/ /\ op[g] = "destroy" /\ op' = [op EXCEPT ![g] = "idle"]
                  /\ state' = [state EXCEPT ![g] = None]
               \/ /\ op[g] = "replace" /\ op' = [op EXCEPT ![g] = "revoke"]
                  /\ state' = [state EXCEPT ![g] = None]
<1> USE DEF Goto
<1>1. CASE Read(g)
  BY <1>1 DEF Read
<1>2. CASE PlanNothing(g) \/ ReadFails(g) \/ ConnectionLost(g)
  BY <1>2 DEF PlanNothing, ReadFails, ConnectionLost
<1>3. CASE Destroy(g)
  BY <1>3 DEF Destroy
<1>4. CASE Apply(g)
  BY <1>4 DEF Apply
<1>5. CASE Executed(g)
  <2>1. CASE ~Runs(Sent(g))
    BY <1>5, <2>1 DEF Executed
  <2>2. CASE Runs(Sent(g))
    <3>1. /\ op[g] = "revoke" \/ op[g] = "grant" \/ op[g] = "destroy" \/ op[g] = "replace"
          /\ Sending(g) /\ acl' = After(Sent(g)) /\ late' = late
      BY <1>5, <2>2 DEF Executed, Sending
    <3>2. CASE op[g] = "revoke"
      <4>1. op' = [op EXCEPT ![g] = "grant"] /\ state' = state
        BY <1>5, <2>2, <3>2 DEF Executed
      <4> QED
        BY <3>1, <3>2, <4>1
    <3>3. CASE op[g] = "grant"
      <4>1. op' = [op EXCEPT ![g] = "idle"] /\ state' = [state EXCEPT ![g] = declared[g]]
        BY <1>5, <2>2, <3>3 DEF Executed
      <4> QED
        BY <3>1, <3>3, <4>1
    <3>4. CASE op[g] = "destroy"
      <4>1. op' = [op EXCEPT ![g] = "idle"] /\ state' = [state EXCEPT ![g] = None]
        BY <1>5, <2>2, <3>4 DEF Executed
      <4> QED
        BY <3>1, <3>4, <4>1
    <3>5. CASE op[g] = "replace"
      <4>1. op' = [op EXCEPT ![g] = "revoke"] /\ state' = [state EXCEPT ![g] = None]
        BY <1>5, <2>2, <3>5 DEF Executed
      <4> QED
        BY <3>1, <3>5, <4>1
    <3> QED
      BY <3>1, <3>2, <3>3, <3>4, <3>5
  <2> QED
    BY <2>1, <2>2
<1> QED
  BY <1>1, <1>2, <1>3, <1>4, <1>5 DEF Run

(* Read records what it observed, or nothing where it saw nothing. *)
LEMMA ReadStates ==
  ASSUME Types, NEW g \in Grants, Read(g)
  PROVE  \/ state' = [state EXCEPT ![g] = None]
         \/ \E l \in Seq(Words) :
              /\ state[g] \in States /\ IsInjective(l)
              /\ state' = [state EXCEPT ![g] = [state[g] EXCEPT !.list = l]]
              /\ Observed(state[g].objs) \subseteq Expand(l)
<1>1. CASE state[g] = None \/ Observed(state[g].objs) = {}
  BY <1>1 DEF Read
<1>2. CASE ~(state[g] = None \/ Observed(state[g].objs) = {})
  <2> DEFINE l == Reconcile(state[g].list, Observed(state[g].objs))
  <2>1. state[g] \in States
    BY <1>2 DEF Types
  <2>2. Observed(state[g].objs) \in SUBSET Privs
    <3>1. \A t \in Tables : acl[t] \subseteq Privs
      BY DEF Types
    <3>2. \A objs \in ObjSets : Covered(objs) \subseteq Tables
      BY Covers
    <3>3. state[g].objs \in ObjSets /\ All \in ObjSets
      BY <2>1 DEF States, ObjSets
    <3>4. CASE state[g].objs = {}
      <4>1. Observed(state[g].objs) = UNION {acl[t] : t \in Covered(All)}
        BY <3>4 DEF Observed
      <4> QED
        BY <3>1, <3>2, <3>3, <4>1
    <3>5. CASE state[g].objs # {}
      <4>1. Observed(state[g].objs) = UNION {acl[t] : t \in Covered(state[g].objs)}
        BY <3>5 DEF Observed
      <4> QED
        BY <3>1, <3>2, <3>3, <4>1
    <3> QED
      BY <3>4, <3>5
  <2>3. l \in Seq(Words) /\ IsInjective(l) /\ Observed(state[g].objs) \subseteq Expand(l)
    BY <1>2, <2>2, ReconcileLists
  <2>4. state' = [state EXCEPT ![g] = [state[g] EXCEPT !.list = l]]
    BY <1>2 DEF Read
  <2> HIDE DEF l
  <2> QED
    BY <2>1, <2>3, <2>4
<1> QED
  BY <1>1, <1>2

-----------------------------------------------------------------------------
(* Every step keeps the types. *)
LEMMA TypesKept ==
  ASSUME Types, OpInv, [Next]_vars
  PROVE  Types'
<1>1. /\ resources \subseteq Grants /\ edits \in Nat
      /\ declared \in [Grants -> {None} \cup Configs]
      /\ state \in [Grants -> {None} \cup States]
      /\ acl \in [Tables -> SUBSET Privs]
      /\ tables \subseteq Tables
      /\ op \in [Grants -> Pcs] /\ late \subseteq Statements
      /\ Configs \subseteq States
  BY GrantAssumption DEF Types, Configs, States
<1>2. CASE LateStatement
  <2>1. PICK s \in late : late' = late \ {s} /\ (acl' = acl \/ acl' = After(s))
    BY <1>2 DEF LateStatement
  <2>2. After(s) \in [Tables -> SUBSET Privs]
    BY <1>1, AfterTypes
  <2> QED
    BY <1>1, <1>2, <2>1, <2>2 DEF LateStatement, Types
<1>3. CASE OthersEdit
  <2>1. edits' \in Nat
    <3>1. edits > 0 /\ edits' = edits - 1
      BY <1>3 DEF OthersEdit
    <3> QED
      BY <1>1, <3>1
  <2>2. acl' \in [Tables -> SUBSET Privs] /\ tables' \subseteq Tables
    BY <1>1, <1>3 DEF OthersEdit
  <2> QED
    BY <1>1, <1>3, <2>1, <2>2 DEF OthersEdit, Types
<1>4. ASSUME NEW g \in Grants, Run(g) \/ ReadFails(g) \/ ConnectionLost(g)
      PROVE  Types'
  <2>1. /\ UNCHANGED <<resources, declared, tables, events, edits>>
        /\ acl' = acl \/ (Sending(g) /\ acl' = After(Sent(g)))
    BY <1>4, RunSteps
  <2>2. Sending(g) => /\ Sent(g) \in Statements /\ After(Sent(g)) \in [Tables -> SUBSET Privs]
    BY SentTypes, AfterTypes
  <2>3. acl' \in [Tables -> SUBSET Privs]
    BY <1>1, <2>1, <2>2
  <2>4. late' \subseteq Statements
    <3>1. CASE ConnectionLost(g)
      <4>1. late' = late \/ late' = late \cup {Sent(g)}
        BY <3>1 DEF ConnectionLost
      <4>2. Sending(g)
        BY <3>1 DEF ConnectionLost
      <4> QED
        BY <1>1, <2>2, <4>1, <4>2
    <3>2. CASE Run(g) \/ ReadFails(g)
      BY <1>1, <3>2 DEF Run, Read, PlanNothing, Apply, Destroy, Executed, ReadFails
    <3> QED
      BY <1>4, <3>1, <3>2
  <2>5. op' \in [Grants -> Pcs]
    BY <1>1, <1>4, Moves DEF Pcs
  <2>6. state' \in [Grants -> {None} \cup States]
    <3>1. CASE Read(g)
      <4>1. ASSUME NEW l \in Seq(Words), state[g] \in States
            PROVE  [state[g] EXCEPT !.list = l] \in States
        BY <4>1 DEF States
      <4> QED
        BY <1>1, <3>1, <4>1, ReadStates
    <3>2. CASE ~Read(g)
      <4>1. \/ state' = state \/ state' = [state EXCEPT ![g] = declared[g]]
            \/ state' = [state EXCEPT ![g] = None]
        BY <1>4, <3>2, Moves
      <4> QED
        BY <1>1, <4>1
    <3> QED
      BY <3>1, <3>2
  <2> QED
    BY <1>1, <2>1, <2>3, <2>4, <2>5, <2>6 DEF Types
<1>5. ASSUME NEW g \in Grants, EditConfig(g) PROVE Types'
  <2>1. PICK d \in {None} \cup Configs : declared' = [declared EXCEPT ![g] = d]
    BY <1>5 DEF EditConfig, Configs
  <2>2. edits' \in Nat
    <3>1. edits > 0 /\ edits' = edits - 1
      BY <1>5 DEF EditConfig
    <3> QED
      BY <1>1, <3>1
  <2> QED
    BY <1>1, <1>5, <2>1, <2>2 DEF EditConfig, Types
<1>6. CASE UNCHANGED vars
  BY <1>1, <1>6 DEF vars, Types
<1> QED
  BY <1>1, <1>2, <1>3, <1>4, <1>5, <1>6 DEF Next

(* Every step keeps the lists that Read returns without duplicates. *)
LEMMA ListKept ==
  ASSUME Types, OpInv, ListInv, [Next]_vars
  PROVE  ListInv'
<1>1. /\ declared \in [Grants -> {None} \cup Configs]
      /\ state \in [Grants -> {None} \cup States]
      /\ resources \subseteq Grants
  BY DEF Types
<1>2. ASSUME state' = state PROVE ListInv'
  BY <1>2 DEF ListInv
<1>3. ASSUME NEW g \in Grants, Run(g) \/ ReadFails(g) \/ ConnectionLost(g)
      PROVE  ListInv'
  <2> SUFFICES ASSUME NEW h \in Grants, state'[h] # None
               PROVE  state'[h].list \in Lists \/ IsInjective(state'[h].list)
    BY DEF ListInv
  <2>1. CASE g # h
    <3>1. state'[h] = state[h]
      BY <1>3, <2>1, RunSteps
    <3> QED
      BY <3>1 DEF ListInv
  <2>2. CASE g = h /\ Read(g)
    <3>1. PICK l \in Seq(Words) :
             /\ state[g] \in States /\ IsInjective(l)
             /\ state' = [state EXCEPT ![g] = [state[g] EXCEPT !.list = l]]
      BY <1>1, <2>2, ReadStates
    <3>2. [state[g] EXCEPT !.list = l].list = l
      BY <3>1 DEF States
    <3> QED
      BY <1>1, <2>2, <3>1, <3>2
  <2>3. CASE g = h /\ ~Read(g)
    <3>1. \/ state' = state
          \/ op[g] = "grant" /\ state' = [state EXCEPT ![g] = declared[g]]
          \/ state' = [state EXCEPT ![g] = None]
      BY <1>3, <2>3, Moves
    <3>2. CASE state' = state
      BY <3>2 DEF ListInv
    <3>3. CASE op[g] = "grant" /\ state' = [state EXCEPT ![g] = declared[g]]
      <4>1. declared[g] \in Configs /\ state'[h] = declared[g]
        BY <1>1, <2>3, <3>3 DEF OpInv
      <4> QED
        BY <4>1 DEF Configs
    <3>4. CASE state' = [state EXCEPT ![g] = None]
      BY <1>1, <2>3, <3>4
    <3> QED
      BY <3>1, <3>2, <3>3, <3>4
  <2> QED
    BY <2>1, <2>2, <2>3
<1>4. CASE LateStatement \/ OthersEdit \/ UNCHANGED vars
  BY <1>2, <1>4 DEF LateStatement, OthersEdit, vars
<1>5. ASSUME NEW g \in Grants, EditConfig(g) PROVE ListInv'
  BY <1>2, <1>5 DEF EditConfig
<1> QED
  BY <1>1, <1>3, <1>4, <1>5 DEF Next

(* Every step keeps what an operation works on. *)
LEMMA OpKept ==
  ASSUME Types, OpInv, [Next]_vars
  PROVE  OpInv'
<1>1. /\ declared \in [Grants -> {None} \cup Configs]
      /\ state \in [Grants -> {None} \cup States] /\ op \in [Grants -> Pcs]
      /\ resources \subseteq Grants
  BY DEF Types
<1>2. ASSUME NEW g \in Grants, Run(g) \/ ReadFails(g) \/ ConnectionLost(g)
      PROVE  OpInv'
  <2> SUFFICES ASSUME NEW h \in Grants
               PROVE  /\ op'[h] \in {"revoke", "grant", "replace"} => declared'[h] # None
                      /\ op'[h] \in {"destroy", "replace"} => state'[h] # None
    BY DEF OpInv
  <2>1. declared' = declared
    BY <1>2, RunSteps
  <2>2. CASE g # h
    <3>1. op'[h] = op[h] /\ state'[h] = state[h]
      BY <1>2, <2>2, RunSteps
    <3> QED
      BY <2>1, <3>1 DEF OpInv
  <2>3. CASE g = h
    <3>1. declared[g] # None \/ ~(op[g] \in {"revoke", "grant", "replace"})
      BY DEF OpInv
    <3>2. state[g] # None \/ ~(op[g] \in {"destroy", "replace"})
      BY DEF OpInv
    <3> QED
      BY <1>1, <1>2, <2>1, <2>3, <3>1, <3>2, Moves
  <2> QED
    BY <2>2, <2>3
<1>3. CASE LateStatement \/ OthersEdit \/ UNCHANGED vars
  BY <1>3 DEF LateStatement, OthersEdit, vars, OpInv
<1>4. ASSUME NEW g \in Grants, EditConfig(g) PROVE OpInv'
  <2>1. /\ UNCHANGED <<state, op>> /\ op[g] = "idle"
        /\ \E d : declared' = [declared EXCEPT ![g] = d]
    BY <1>4 DEF EditConfig
  <2> QED
    BY <1>1, <2>1 DEF OpInv
<1> QED
  BY <1>1, <1>2, <1>3, <1>4 DEF Next

(* Every step keeps the resources apart, or records that it does not. *)
LEMMA ApartKept ==
  ASSUME Types, OpInv, ApartInv, [Next]_vars
  PROVE  ApartInv'
<1>1. declared \in [Grants -> {None} \cup Configs] /\ resources \subseteq Grants
  BY DEF Types
<1>2. events \subseteq events'
  BY EventsGrow
<1>3. ASSUME \A h \in Grants : Touched(h)' \subseteq Touched(h)
      PROVE  ApartInv'
  BY <1>2, <1>3 DEF ApartInv
<1>4. ASSUME NEW g \in Grants, Run(g) \/ ReadFails(g) \/ ConnectionLost(g)
      PROVE  ApartInv'
  <2>1. ASSUME NEW h \in Grants PROVE Touched(h)' \subseteq Touched(h)
    <3>1. declared' = declared /\ Hand(state'[g]) \subseteq Touched(g)
      BY <1>4, RunSteps
    <3>2. CASE h = g
      BY <3>1, <3>2, TouchedHands
    <3>3. CASE h # g
      <4>1. state'[h] = state[h]
        BY <1>4, <3>3, RunSteps
      <4> QED
        BY <3>1, <4>1, TouchedHands
    <3> QED
      BY <3>2, <3>3
  <2> QED
    BY <1>3, <2>1
<1>5. CASE LateStatement \/ OthersEdit \/ UNCHANGED vars
  <2>1. UNCHANGED <<declared, state>>
    BY <1>5 DEF LateStatement, OthersEdit, vars
  <2>2. \A h \in Grants : Touched(h)' = Touched(h)
    BY <2>1, TouchedHands
  <2> QED
    BY <1>3, <2>2
<1>6. ASSUME NEW g \in Grants, EditConfig(g) PROVE ApartInv'
  <2> SUFFICES ASSUME "shared object" \notin events', NEW h \in Grants, NEW k \in Grants, h # k
               PROVE  Touched(h)' \cap Touched(k)' = {}
    BY DEF ApartInv
  <2>1. state' = state /\ \E d : declared' = [declared EXCEPT ![g] = d]
    BY <1>6 DEF EditConfig
  <2>2. \A i \in Grants \ {g} : Touched(i)' = Touched(i)
    BY <1>1, <2>1, TouchedHands
  <2>3. \A i \in Grants \ {g} : Touched(g)' \cap Touched(i) = {}
    BY <1>6 DEF EditConfig
  <2>4. \A i, j \in Grants : i # j => Touched(i) \cap Touched(j) = {}
    BY <1>2 DEF ApartInv
  <2>5. CASE h = g
    BY <2>2, <2>3, <2>5
  <2>6. CASE k = g
    <3>1. Touched(h)' = Touched(h) /\ Touched(k)' \cap Touched(h) = {}
      BY <2>2, <2>3, <2>6
    <3> QED
      BY <3>1
  <2>7. CASE h # g /\ k # g
    BY <2>2, <2>4, <2>7
  <2> QED
    BY <2>5, <2>6, <2>7
<1> QED
  BY <1>1, <1>4, <1>5, <1>6 DEF Next

-----------------------------------------------------------------------------
(* A statement that grants nothing beyond a list keeps tables within it.   *)
LEMMA WithinKept ==
  ASSUME Types, NEW s \in Statements, NEW objs \in ObjSets, NEW list, Within(objs, list),
         acl' = acl \/ acl' = After(s),
         s.verb = "revoke" \/ s.privs \subseteq Expand(list)
  PROVE  \A t \in Covered(objs) : acl'[t] \subseteq Expand(list)
<1> SUFFICES ASSUME NEW t \in Covered(objs) PROVE acl'[t] \subseteq Expand(list)
  OBVIOUS
<1>1. acl[t] \subseteq Expand(list) /\ t \in Tables
  BY Covers DEF Within, Covered, Types
<1>2. CASE acl' = After(s)
  <2>1. s.verb \in {"grant", "revoke"}
    BY DEF Statements
  <2> QED
    BY <1>1, <1>2, <2>1, AfterTypes
<1> QED
  BY <1>1, <1>2

(* Every step keeps what a GRANT in progress is about to give the most     *)
(* that its tables hold.                                                   *)
LEMMA GrantKept ==
  ASSUME Types, OpInv, ApartInv, GrantInv, [Next]_vars
  PROVE  GrantInv'
<1> SUFFICES ASSUME NEW h \in Grants, op'[h] = "grant", ~Disturbed'
             PROVE  Within(declared[h].objs, declared[h].list)'
  BY DEF GrantInv
<1>1. op \in [Grants -> Pcs] /\ ~Disturbed
  BY Undisturbed DEF Types
<1> SUFFICES /\ declared'[h] = declared[h] /\ tables' = tables
             /\ \A t \in Covered(declared[h].objs) : acl'[t] \subseteq Expand(declared[h].list)
  BY DEF Within, Covered
<1>2. CASE Run(h) \/ ConnectionLost(h)
  <2>1. /\ tables' = tables /\ declared' = declared
        /\ acl' = acl \/ (Sending(h) /\ acl' = After(Sent(h)))
    BY <1>2, RunSteps
  <2>2. op[h] = "grant" \/ (op[h] = "revoke" /\ acl' = After(Sent(h)))
    BY <1>1, <1>2, Moves
  <2>3. /\ declared[h].objs \in ObjSets /\ Sending(h) /\ Sent(h) \in Statements
        /\ Covered(declared[h].objs) \subseteq Tables
    <3>1. declared[h] \in Configs
      BY <2>2, Covers DEF OpInv
    <3> QED
      BY <2>2, <3>1, Covers, SentTypes DEF Configs, Sending
  <2>4. CASE op[h] = "grant"
    <3>1. Sent(h).privs = Expand(declared[h].list)
      BY <2>3, <2>4, SentTypes
    <3>2. Within(declared[h].objs, declared[h].list)
      BY <1>1, <2>4 DEF GrantInv
    <3> QED
      BY <2>1, <2>3, <3>1, <3>2, WithinKept
  <2>5. CASE op[h] = "revoke" /\ acl' = After(Sent(h))
    <3>1. /\ Sent(h).privs = Privs /\ Sent(h).verb = "revoke"
          /\ Sent(h).objs = declared[h].objs
      BY <2>3, <2>5, SentTypes
    <3>2. \A t \in Covered(declared[h].objs) :
             acl'[t] = acl[t] \ Privs /\ acl[t] \subseteq Privs
      BY <2>3, <2>5, <3>1, AfterTypes DEF Types
    <3> QED
      BY <2>1, <3>2
  <2> QED
    BY <2>2, <2>4, <2>5
<1>3. CASE ~(Run(h) \/ ConnectionLost(h))
  <2>1. op[h] = "grant"
    BY <1>3, OthersStep
  <2>2. /\ declared'[h] = declared[h] /\ tables' = tables
        /\ \A t \in Touched(h) : acl'[t] = acl[t]
    BY <1>3, <2>1, OthersStep
  <2>3. Covered(declared[h].objs) \subseteq Touched(h)
    BY <2>1, Covers DEF OpInv
  <2>4. Within(declared[h].objs, declared[h].list)
    BY <1>1, <2>1 DEF GrantInv
  <2> QED
    BY <2>2, <2>3, <2>4 DEF Within
<1> QED
  BY <1>2, <1>3

(* Every step keeps what Read recorded all there is to revoke. *)
LEMMA ReadKept ==
  ASSUME Types, OpInv, ApartInv, ReadInv, [Next]_vars
  PROVE  ReadInv'
<1> DEFINE Before(pc) == pc = "planned" \/ pc = "destroy" \/ pc = "replace"
<1> SUFFICES ASSUME NEW h \in Grants, Before(op'[h]), state'[h] # None, ~Disturbed'
             PROVE  Within(state[h].objs, state[h].list)'
  BY DEF ReadInv
<1>1. /\ op \in [Grants -> Pcs] /\ state \in [Grants -> {None} \cup States] /\ ~Disturbed
  BY Undisturbed DEF Types
<1>2. Before(op[h]) /\ state[h] # None => Within(state[h].objs, state[h].list)
  BY <1>1 DEF ReadInv
<1> SUFFICES /\ tables' = tables
             /\ \A t \in Covered(state'[h].objs) : acl'[t] \subseteq Expand(state'[h].list)
  BY DEF Within, Covered
<1>3. CASE Read(h)
  <2>1. tables' = tables /\ acl' = acl
    BY <1>3 DEF Read
  <2>2. PICK l \in Seq(Words) :
           /\ state[h] \in States
           /\ state' = [state EXCEPT ![h] = [state[h] EXCEPT !.list = l]]
           /\ Observed(state[h].objs) \subseteq Expand(l)
    BY <1>1, <1>3, ReadStates
  <2>3. state'[h].list = l /\ state'[h].objs = state[h].objs
    BY <1>1, <2>2 DEF States
  <2>4. \A t \in Covered(state[h].objs) : acl[t] \subseteq Observed(state[h].objs)
    <3>1. CASE state[h].objs = {}
      <4>1. Covered(state[h].objs) = {} \/ Covered(state[h].objs) = Covered(All)
        BY <3>1 DEF Covered
      <4>2. Observed(state[h].objs) = UNION {acl[t] : t \in Covered(All)}
        BY <3>1 DEF Observed
      <4> QED
        BY <4>1, <4>2
    <3>2. CASE state[h].objs # {}
      <4>1. Observed(state[h].objs) = UNION {acl[t] : t \in Covered(state[h].objs)}
        BY <3>2 DEF Observed
      <4> QED
        BY <4>1
    <3> QED
      BY <3>1, <3>2
  <2> QED
    BY <2>1, <2>2, <2>3, <2>4
<1>4. CASE ~Read(h) /\ (Run(h) \/ ConnectionLost(h))
  <2>1. /\ tables' = tables
        /\ acl' = acl \/ (Sending(h) /\ acl' = After(Sent(h)))
    BY <1>4, RunSteps
  <2>2. Before(op[h]) /\ state'[h] = state[h]
    BY <1>1, <1>4, Moves
  <2>3. /\ state[h].objs \in ObjSets /\ Within(state[h].objs, state[h].list)
    BY <1>1, <1>2, <2>2 DEF States
  <2>4. CASE acl' = acl
    BY <2>1, <2>2, <2>3, <2>4 DEF Within
  <2>5. CASE Sending(h) /\ acl' = After(Sent(h))
    <3>1. Sent(h) \in Statements /\ Sent(h).verb = "revoke"
      BY <2>2, <2>5, SentTypes DEF Sending
    <3> QED
      BY <2>1, <2>2, <2>3, <2>5, <3>1, WithinKept
  <2> QED
    BY <2>1, <2>4, <2>5
<1>5. CASE ~(Run(h) \/ ConnectionLost(h))
  <2>1. Before(op[h]) /\ op[h] # "idle"
    BY <1>5, OthersStep
  <2>2. /\ state'[h] = state[h] /\ tables' = tables
        /\ \A t \in Touched(h) : acl'[t] = acl[t]
    BY <1>5, <2>1, OthersStep
  <2>3. Covered(state[h].objs) \subseteq Touched(h)
    BY <2>2, Covers
  <2> QED
    BY <1>2, <2>1, <2>2, <2>3 DEF Within
<1> QED
  BY <1>3, <1>4, <1>5

-----------------------------------------------------------------------------
(* The initial states. *)
LEMMA InitInv == Init => Inv
<1> SUFFICES ASSUME Init PROVE Inv
  OBVIOUS
<1>1. Types
  <2>1. resources \subseteq Grants /\ edits \in Nat
    BY GrantAssumption DEF Init
  <2> QED
    BY <2>1 DEF Init, Types, Pcs
<1>2. ListInv /\ OpInv /\ GrantInv /\ ReadInv
  BY DEF Init, ListInv, OpInv, GrantInv, ReadInv
<1>3. ApartInv
  BY DEF Init, ApartInv, Touched
<1> QED
  BY <1>1, <1>2, <1>3 DEF Inv

(* The invariant holds in every reachable state. *)
LEMMA Invariant == Spec => []Inv
<1>1. Inv /\ [Next]_vars => Inv'
  BY TypesKept, ListKept, OpKept, ApartKept, GrantKept, ReadKept DEF Inv
<1> QED
  BY <1>1, InitInv, PTL DEF Spec

(* The types of GrantResource, with no list recorded twice in one. *)
THEOREM GrantTypes == Spec => []TypeOK
<1>1. Inv => TypeOK
  BY DEF Inv, Types, ListInv, TypeOK, Configs, States, Pcs
<1> QED
  BY <1>1, Invariant, PTL

(* A successful apply leaves exactly the declared privileges on every      *)
(* object, unless somebody else's statement came in between (Create and    *)
(* Update of grant_resource.go).                                           *)
THEOREM GrantSuccessIsExact == Spec => SuccessIsExact
<1> DEFINE A == \A g \in Grants :
                  op[g] = "grant" /\ op'[g] = "idle" /\ state' # state =>
                    Exact(g, acl') \/ Disturbed
<1>1. Inv /\ [Next]_vars => [A]_vars
  <2> SUFFICES ASSUME Inv, Next, NEW g \in Grants, op[g] = "grant", op'[g] = "idle",
                      state' # state, ~Disturbed
               PROVE  Exact(g, acl')
    OBVIOUS
  <2>1. /\ op \in [Grants -> Pcs] /\ Types /\ OpInv /\ GrantInv /\ resources \subseteq Grants
    BY DEF Inv, Types
  <2>2. Sending(g) /\ acl' = After(Sent(g))
    <3>1. ASSUME NEW h \in Grants, Run(h) \/ ReadFails(h) \/ ConnectionLost(h) PROVE h = g
      BY <2>1, <3>1, RunSteps
    <3>2. ~(LateStatement \/ OthersEdit \/ \E h \in Grants : EditConfig(h))
      BY DEF LateStatement, OthersEdit, EditConfig
    <3>3. Run(g) \/ ReadFails(g) \/ ConnectionLost(g)
      BY <2>1, <3>1, <3>2 DEF Next
    <3> QED
      BY <2>1, <3>3, Moves
  <2>3. /\ Sent(g) \in Statements /\ Sent(g).verb = "grant"
        /\ Sent(g).objs = declared[g].objs /\ Sent(g).privs = Expand(declared[g].list)
    BY <2>1, <2>2, SentTypes
  <2>4. \A t \in Covered(declared[g].objs) :
           t \in Tables /\ acl[t] \subseteq Expand(declared[g].list)
    BY <2>1 DEF GrantInv, Within, Covered, Types
  <2>5. \A t \in Covered(declared[g].objs) : acl'[t] = acl[t] \cup Expand(declared[g].list)
    BY <2>1, <2>2, <2>3, <2>4, AfterTypes
  <2> QED
    BY <2>4, <2>5 DEF Exact
<1> QED
  BY <1>1, Invariant, PTL DEF Spec, SuccessIsExact

(* A destroy, and the first half of a replacement, leaves the role nothing *)
(* on the objects of the resource (Delete of grant_resource.go).           *)
THEOREM GrantDestroyLeavesNothing == Spec => DestroyLeavesNothing
<1> DEFINE A == \A g \in Grants :
                  op[g] \in {"destroy", "replace"} /\ state[g] # None /\ state'[g] = None =>
                    (\A t \in Covered(state[g].objs) : acl'[t] = {}) \/ Disturbed
<1>1. Inv /\ [Next]_vars => [A]_vars
  <2> SUFFICES ASSUME Inv, Next, NEW g \in Grants, op[g] \in {"destroy", "replace"},
                      state[g] # None, state'[g] = None, ~Disturbed
               PROVE  \A t \in Covered(state[g].objs) : acl'[t] = {}
    OBVIOUS
  <2>1. /\ op \in [Grants -> Pcs] /\ Types /\ OpInv /\ ReadInv /\ resources \subseteq Grants
    BY DEF Inv, Types
  <2>2. Sending(g) /\ acl' = After(Sent(g))
    <3>1. ASSUME NEW h \in Grants, Run(h) \/ ReadFails(h) \/ ConnectionLost(h) PROVE h = g
      BY <2>1, <3>1, RunSteps
    <3>2. ~(LateStatement \/ OthersEdit \/ \E h \in Grants : EditConfig(h))
      BY DEF LateStatement, OthersEdit, EditConfig
    <3>3. Run(g) \/ ReadFails(g) \/ ConnectionLost(g)
      BY <2>1, <3>1, <3>2 DEF Next
    <3>4. ~Read(g)
      BY DEF Read
    <3> QED
      BY <2>1, <3>3, <3>4, Moves
  <2>3. /\ Sent(g) \in Statements /\ Sent(g).verb = "revoke"
        /\ Sent(g).objs = state[g].objs /\ Sent(g).privs = Expand(state[g].list)
    BY <2>1, <2>2, SentTypes
  <2>4. \A t \in Covered(state[g].objs) :
           t \in Tables /\ acl[t] \subseteq Expand(state[g].list)
    BY <2>1 DEF ReadInv, Within, Covered, Types
  <2>5. \A t \in Covered(state[g].objs) : acl'[t] = acl[t] \ Expand(state[g].list)
    BY <2>1, <2>2, <2>3, <2>4, AfterTypes
  <2> QED
    BY <2>4, <2>5
<1> QED
  BY <1>1, Invariant, PTL DEF Spec, DestroyLeavesNothing
=============================================================================
