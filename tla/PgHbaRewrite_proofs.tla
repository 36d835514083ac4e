------------------------ MODULE PgHbaRewrite_proofs ------------------------
(***************************************************************************)
(* Proofs about PgHbaRewrite, for any rules and lists and any number of    *)
(* executions and operator lines.  While executions do not overlap the     *)
(* file is the operator's lines with one managed block, whole or cut       *)
(* short, spliced in; the awk program takes out exactly the block and the  *)
(* scan that reads it back sees exactly its rules.                         *)
(***************************************************************************)
EXTENDS PgHbaRewrite, FiniteSetTheorems, SequenceTheorems, WellFoundedInduction, TLAPS

-----------------------------------------------------------------------------
(* Every set of natural numbers has a least one. *)
LEMMA NatLess == IsWellFoundedOn({p \in Nat \X Nat : p[1] < p[2]}, Nat)
  BY NatLessThanWellFounded DEF OpToRel

(* A set with zero and the successor of each of its numbers has them all. *)
LEMMA NatSetInduction ==
  ASSUME NEW T \in SUBSET Nat, 0 \in T, \A n \in T : n + 1 \in T
  PROVE  T = Nat
<1> DEFINE R == {p \in Nat \X Nat : p[1] < p[2]}
<1> SUFFICES ASSUME Nat \ T # {} PROVE FALSE
  OBVIOUS
<1>1. PICK x \in Nat \ T : \A y \in Nat \ T : ~(<<y, x>> \in R)
  <2>1. IsWellFoundedOn(R, Nat)
    BY NatLess
  <2> HIDE DEF R
  <2> QED
    BY <2>1, WFMin
<1>2. x # 0 /\ x - 1 \in Nat /\ x - 1 < x
  OBVIOUS
<1>3. x - 1 \in T
  BY <1>1, <1>2
<1> QED
  BY <1>2, <1>3

(* f is defined up to N by recursion from base, by step[n] at n. *)
Recursion(f, N, S, base, step) ==
    f \in [0 .. N -> S] /\ f[0] = base /\ \A n \in 1 .. N : f[n] = step[n][f[n - 1]]

(* A recursion up to a number defines a function. *)
LEMMA RecursionExists ==
  ASSUME NEW S, NEW base \in S, NEW step \in [Nat -> [S -> S]], NEW N \in Nat
  PROVE  \E f : Recursion(f, N, S, base, step)
<1> DEFINE T == {m \in Nat : \E f : Recursion(f, m, S, base, step)}
<1>1. 0 \in T
  <2>1. Recursion([i \in 0 .. 0 |-> base], 0, S, base, step)
    BY DEF Recursion
  <2> QED
    BY <2>1
<1>2. ASSUME NEW m \in T PROVE m + 1 \in T
  <2>1. PICK f : Recursion(f, m, S, base, step)
    OBVIOUS
  <2>2. /\ m \in Nat /\ f \in [0 .. m -> S] /\ f[0] = base
        /\ \A n \in 1 .. m : f[n] = step[n][f[n - 1]]
    BY <2>1 DEF Recursion
  <2> DEFINE x == step[m + 1][f[m]]
             h == [i \in 0 .. m + 1 |-> IF i = m + 1 THEN x ELSE f[i]]
  <2>3. x \in S
    BY <2>2
  <2>4. h \in [0 .. m + 1 -> S] /\ h[0] = base
    BY <2>2, <2>3
  <2>5. ASSUME NEW n \in 1 .. m + 1 PROVE h[n] = step[n][h[n - 1]]
    <3>1. CASE n = m + 1
      BY <2>2, <3>1
    <3>2. CASE n # m + 1
      <4>1. n \in 1 .. m /\ n - 1 \in 0 .. m
        BY <2>2, <3>2
      <4> QED
        BY <2>2, <3>2, <4>1
    <3> QED
      BY <3>1, <3>2
  <2> HIDE DEF h
  <2>6. Recursion(h, m + 1, S, base, step)
    BY <2>4, <2>5 DEF Recursion
  <2> QED
    BY <2>2, <2>6
<1> HIDE DEF T
<1>3. T = Nat
  <2>1. T \in SUBSET Nat
    BY DEF T
  <2> QED
    BY <1>1, <1>2, <2>1, NatSetInduction
<1> QED
  BY <1>3 DEF T

-----------------------------------------------------------------------------
(* The awk program as it goes through the lines. *)
AwkStates == [f : BOOLEAN, out : Seq(Line)]

AwkRun(u, lines) ==
    /\ u \in [0 .. Len(lines) -> AwkStates] /\ u[0] = [f |-> FALSE, out |-> <<>>]
    /\ \A n \in 1 .. Len(lines) : u[n] = AwkLine(u[n - 1], lines[n])
    /\ Strip(lines) = u[Len(lines)].out

(* The program goes through any file, from its first line to its last. *)
LEMMA AwkRuns ==
  ASSUME NEW lines \in Seq(Line)
  PROVE  \E u : AwkRun(u, lines)
<1> DEFINE L == Len(lines)
           base == [f |-> FALSE, out |-> <<>>]
           step == [n \in Nat |-> [a \in AwkStates |->
                      IF n \in 1 .. L THEN AwkLine(a, lines[n]) ELSE a]]
           u == CHOOSE v : v = [n \in 0 .. L |-> IF n = 0 THEN base
                                                 ELSE AwkLine(v[n - 1], lines[n])]
<1>1. Strip(lines) = u[L].out
  BY DEF Strip
<1>2. L \in Nat /\ \A n \in 1 .. L : lines[n] \in Line
  OBVIOUS
<1>3. base \in AwkStates
  BY DEF AwkStates
<1>4. ASSUME NEW a \in AwkStates, NEW l \in Line PROVE AwkLine(a, l) \in AwkStates
  <2>1. Append(a.out, l) \in Seq(Line)
    BY DEF AwkStates
  <2> QED
    BY <2>1 DEF AwkLine, AwkStates
<1>5. step \in [Nat -> [AwkStates -> AwkStates]]
  <2> HIDE DEF L
  <2> QED
    BY <1>2, <1>4
<1>6. PICK g : Recursion(g, L, AwkStates, base, step)
  <2> HIDE DEF step, base, L
  <2> QED
    BY <1>2, <1>3, <1>5, RecursionExists
<1>7. /\ g \in [0 .. L -> AwkStates] /\ g[0] = base
      /\ \A n \in 1 .. L : g[n] = AwkLine(g[n - 1], lines[n])
  <2>1. /\ g \in [0 .. L -> AwkStates] /\ g[0] = base
        /\ \A n \in 1 .. L : g[n] = step[n][g[n - 1]]
    BY <1>6 DEF Recursion
  <2>2. ASSUME NEW n \in 1 .. L PROVE step[n][g[n - 1]] = AwkLine(g[n - 1], lines[n])
    <3>1. n \in Nat /\ n - 1 \in 0 .. L
      BY <1>2
    <3>2. g[n - 1] \in AwkStates
      BY <2>1, <3>1
    <3> QED
      BY <3>1, <3>2
  <2> QED
    BY <2>1, <2>2
<1>8. g = [n \in 0 .. L |-> IF n = 0 THEN base ELSE AwkLine(g[n - 1], lines[n])]
  <2>1. \A n \in 0 .. L : n = 0 \/ n \in 1 .. L
    BY <1>2
  <2> HIDE DEF base, L
  <2> QED
    BY <1>7, <2>1
<1>9. u = [n \in 0 .. L |-> IF n = 0 THEN base ELSE AwkLine(u[n - 1], lines[n])]
  BY <1>8
<1> HIDE DEF u
<1> DEFINE T == {n \in Nat : n <= L => u[n] = g[n]}
<1>10. 0 \in T
  <2>1. u[0] = base
    <3> HIDE DEF base, L
    <3>1. 0 \in 0 .. L
      BY <1>2
    <3> QED
      BY <1>9, <3>1
  <2> HIDE DEF base
  <2> QED
    BY <1>7, <2>1
<1>11. ASSUME NEW n \in T PROVE n + 1 \in T
  <2> SUFFICES ASSUME n + 1 <= L PROVE u[n + 1] = g[n + 1]
    OBVIOUS
  <2>1. n \in Nat /\ n + 1 \in 1 .. L /\ n + 1 \in 0 .. L /\ (n + 1) - 1 = n /\ n + 1 # 0
    BY <1>2
  <2>2. u[n] = g[n]
    BY <1>2, <2>1
  <2> HIDE DEF base, L, T
  <2>3. u[n + 1] = AwkLine(u[(n + 1) - 1], lines[n + 1])
    BY <1>9, <2>1
  <2>4. g[n + 1] = AwkLine(g[(n + 1) - 1], lines[n + 1])
    BY <1>7, <2>1
  <2> QED
    BY <2>1, <2>2, <2>3, <2>4, Zenon
<1>12. u[L] = g[L]
  <2> HIDE DEF T, L
  <2>1. T \in SUBSET Nat
    BY DEF T
  <2>2. T = Nat
    BY <1>10, <1>11, <2>1, NatSetInduction
  <2> QED
    BY <1>2, <2>2 DEF T
<1>13. AwkRun(g, lines)
  BY <1>1, <1>7, <1>12 DEF AwkRun
<1> QED
  BY <1>13

(* One line of the program: in the block, at its beginning, outside. *)
LEMMA AwkSteps ==
  ASSUME NEW a \in AwkStates, NEW l \in Line
  PROVE  /\ a.f => /\ AwkLine(a, l).out = a.out
                   /\ AwkLine(a, l).f <=> l.kind # "end"
         /\ ~a.f /\ l.kind = "begin" => AwkLine(a, l).out = a.out /\ AwkLine(a, l).f
         /\ ~a.f /\ l.kind = "operator" => /\ AwkLine(a, l).out = Append(a.out, l)
                                           /\ ~AwkLine(a, l).f
BY DEF AwkLine, AwkStates

-----------------------------------------------------------------------------
(* The operator's lines; a managed block, or the beginning of one.         *)
Own(q) == q \in Seq(Line) /\ \A i \in 1 .. Len(q) : q[i].kind = "operator"

Managed(b) == /\ b \in Seq(Line)
              /\ \A i \in 1 .. Len(b) : /\ b[i].kind # "operator"
                                        /\ b[i].kind = "begin" <=> i = 1
                                        /\ b[i].kind = "end" => i = Len(b)

Whole(b) == b # <<>> /\ b[Len(b)].kind = "end"

(* The block b after the first p lines of q; only a whole block has lines  *)
(* of the operator behind it.                                              *)
Splice(q, p, b) == [i \in 1 .. Len(q) + Len(b) |->
                      IF i <= p THEN q[i]
                      ELSE IF i <= p + Len(b) THEN b[i - p] ELSE q[i - Len(b)]]

Fits(q, p, b) == /\ Own(q) /\ Managed(b) /\ p \in 0 .. Len(q)
                 /\ Whole(b) \/ b = <<>> \/ p = Len(q)

(* The file made of them has their lines. *)
LEMMA SpliceLines ==
  ASSUME NEW q \in Seq(Line), NEW b \in Seq(Line), NEW p \in 0 .. Len(q)
  PROVE  /\ Splice(q, p, b) \in Seq(Line) /\ Len(Splice(q, p, b)) = Len(q) + Len(b)
         /\ \A i \in 1 .. p : Splice(q, p, b)[i] = q[i]
         /\ \A i \in p + 1 .. p + Len(b) : Splice(q, p, b)[i] = b[i - p]
         /\ \A i \in p + Len(b) + 1 .. Len(q) + Len(b) : Splice(q, p, b)[i] = q[i - Len(b)]
<1> DEFINE k == Len(q)
           m == Len(b)
           h == Splice(q, p, b)
<1>1. /\ k \in Nat /\ m \in Nat /\ p \in 0 .. k
      /\ \A i \in 1 .. k : q[i] \in Line
      /\ \A i \in 1 .. m : b[i] \in Line
  OBVIOUS
<1>2. h = [i \in 1 .. k + m |->
             IF i <= p THEN q[i] ELSE IF i <= p + m THEN b[i - p] ELSE q[i - m]]
  BY DEF Splice
<1> HIDE DEF k, m, h
<1>3. ASSUME NEW i \in 1 .. k + m PROVE h[i] \in Line
  <2>1. CASE i <= p
    BY <1>1, <1>2, <2>1
  <2>2. CASE p < i /\ i <= p + m
    <3>1. i - p \in 1 .. m
      BY <1>1, <2>2
    <3> QED
      BY <1>1, <1>2, <2>2, <3>1
  <2>3. CASE p + m < i
    <3>1. i - m \in 1 .. k /\ ~(i <= p) /\ ~(i <= p + m)
      BY <1>1, <2>3
    <3> QED
      BY <1>1, <1>2, <3>1
  <2> QED
    BY <1>1, <2>1, <2>2, <2>3
<1>4. h \in Seq(Line) /\ Len(h) = k + m
  <2>1. k + m \in Nat /\ h \in [1 .. k + m -> Line]
    BY <1>1, <1>2, <1>3
  <2> QED
    BY <2>1
<1>5. \A i \in 1 .. p : h[i] = q[i]
  BY <1>1, <1>2
<1>6. \A i \in p + 1 .. p + m : h[i] = b[i - p]
  BY <1>1, <1>2
<1>7. \A i \in p + m + 1 .. k + m : h[i] = q[i - m]
  BY <1>1, <1>2
<1> QED
  BY <1>4, <1>5, <1>6, <1>7 DEF h, k, m

(* The awk program takes out the block and keeps every other line. *)
LEMMA StripSplice ==
  ASSUME NEW q, NEW p, NEW b, Fits(q, p, b)
  PROVE  Strip(Splice(q, p, b)) = q
<1> DEFINE k == Len(q)
           m == Len(b)
           h == Splice(q, p, b)
           G(n) == IF n <= p THEN n ELSE IF n <= p + m THEN p ELSE n - m
           Inside(n) == p < n /\ (n < p + m \/ (n = p + m /\ ~Whole(b)))
<1>1. /\ k \in Nat /\ m \in Nat /\ p \in 0 .. k /\ q \in Seq(Line) /\ b \in Seq(Line)
      /\ \A i \in 1 .. k : q[i] \in Line /\ q[i].kind = "operator"
      /\ \A i \in 1 .. m : /\ b[i] \in Line
                           /\ b[i].kind = "begin" <=> i = 1
                           /\ b[i].kind = "end" => i = m
      /\ Whole(b) => m > 0 /\ b[m].kind = "end"
      /\ Whole(b) \/ m = 0 \/ p = k
  <2>1. /\ q \in Seq(Line) /\ b \in Seq(Line) /\ p \in 0 .. k
        /\ Whole(b) \/ b = <<>> \/ p = k
    BY DEF Fits, Own, Managed
  <2>2. k \in Nat /\ m \in Nat /\ (m = 0 <=> b = <<>>)
    BY <2>1
  <2>3. \A i \in 1 .. k : q[i] \in Line /\ q[i].kind = "operator"
    BY <2>1 DEF Fits, Own
  <2>4. \A i \in 1 .. m : /\ b[i] \in Line
                          /\ b[i].kind = "begin" <=> i = 1
                          /\ b[i].kind = "end" => i = m
    <3>1. Managed(b)
      BY DEF Fits
    <3>2. \A i \in 1 .. m : b[i] \in Line
      BY <2>1
    <3>3. \A i \in 1 .. m : /\ b[i].kind = "begin" <=> i = 1
                            /\ b[i].kind = "end" => i = m
      BY <3>1 DEF Managed
    <3> QED
      BY <3>2, <3>3
  <2>5. Whole(b) => m > 0 /\ b[m].kind = "end"
    <3>1. Whole(b) => b # <<>> /\ b[m].kind = "end"
      BY DEF Whole
    <3> HIDE DEF m
    <3> QED
      BY <2>2, <3>1
  <2>6. Whole(b) \/ m = 0 \/ p = k
    BY <2>1, <2>2, Zenon
  <2> HIDE DEF k, m
  <2> QED
    BY <2>1, <2>2, <2>3, <2>4, <2>5, <2>6
<1>2. /\ h \in Seq(Line) /\ Len(h) = k + m
      /\ \A i \in 1 .. p : h[i] = q[i]
      /\ \A i \in p + 1 .. p + m : h[i] = b[i - p]
      /\ \A i \in p + m + 1 .. k + m : h[i] = q[i - m]
  BY <1>1, SpliceLines
<1>3. PICK u : AwkRun(u, h)
  BY <1>2, AwkRuns
<1> HIDE DEF k, m, h
<1>4. /\ u \in [0 .. k + m -> AwkStates] /\ u[0] = [f |-> FALSE, out |-> <<>>]
      /\ \A n \in 1 .. k + m : u[n] = AwkLine(u[n - 1], h[n])
      /\ Strip(h) = u[k + m].out
  BY <1>2, <1>3 DEF AwkRun
<1>5. \A n \in 0 .. k + m : u[n].f \in BOOLEAN /\ u[n].out \in Seq(Line)
  BY <1>4 DEF AwkStates
<1> DEFINE P(n) == /\ u[n].f <=> Inside(n)
                   /\ Len(u[n].out) = G(n) /\ \A i \in 1 .. G(n) : u[n].out[i] = q[i]
           T == {n \in Nat : n <= k + m => P(n)}
<1>6. 0 \in T
  BY <1>1, <1>4
<1>7. ASSUME NEW n \in T PROVE n + 1 \in T
  <2> SUFFICES ASSUME n + 1 <= k + m PROVE P(n + 1)
    OBVIOUS
  <2>1. /\ n \in Nat /\ n + 1 \in 1 .. k + m /\ P(n)
        /\ n \in 0 .. k + m /\ n + 1 \in 0 .. k + m
    <3> HIDE DEF P
    <3> QED
      BY <1>1
  <2> DEFINE a == u[n]
             l == h[n + 1]
  <2>2. a \in AwkStates /\ l \in Line /\ u[n + 1] = AwkLine(a, l)
    BY <1>2, <1>4, <2>1
  <2>3. /\ a.f <=> Inside(n)
        /\ a.out \in Seq(Line) /\ Len(a.out) = G(n) /\ \A i \in 1 .. G(n) : a.out[i] = q[i]
    BY <1>5, <2>1
  <2> HIDE DEF T, P, a, l
  <2>4. CASE /\ ~Inside(n) /\ ~Inside(n + 1) /\ G(n + 1) = G(n) + 1 /\ l = q[G(n) + 1]
             /\ l.kind = "operator" /\ G(n) \in Nat
    <3>1. u[n + 1].out = Append(a.out, l) /\ ~u[n + 1].f
      BY <2>2, <2>3, <2>4, AwkSteps
    <3> DEFINE g == G(n)
    <3>2. /\ a.out \in Seq(Line) /\ Len(a.out) = g /\ \A i \in 1 .. g : a.out[i] = q[i]
          /\ l = q[g + 1] /\ l \in Line /\ g \in Nat
      BY <2>2, <2>3, <2>4
    <3> HIDE DEF g
    <3>3. /\ Len(Append(a.out, l)) = g + 1
          /\ \A i \in 1 .. g + 1 : Append(a.out, l)[i] = q[i]
      BY <3>2
    <3>4. /\ Len(Append(a.out, l)) = G(n + 1)
          /\ \A i \in 1 .. G(n + 1) : Append(a.out, l)[i] = q[i]
      BY <2>4, <3>3 DEF g
    <3> QED
      BY <2>4, <3>1, <3>4 DEF P
  <2>5. CASE /\ Inside(n + 1) /\ G(n + 1) = G(n)
             /\ IF Inside(n) THEN l.kind # "end" ELSE l.kind = "begin"
    BY <2>2, <2>3, <2>5, AwkSteps DEF P
  <2>6. CASE Inside(n) /\ ~Inside(n + 1) /\ G(n + 1) = G(n) /\ l.kind = "end"
    BY <2>2, <2>3, <2>6, AwkSteps DEF P
  <2>7. CASE n + 1 <= p
    <3>1. l = q[n + 1] /\ q[n + 1].kind = "operator"
      BY <1>1, <1>2, <2>1, <2>7 DEF l
    <3>2. G(n) = n /\ G(n + 1) = n + 1 /\ ~Inside(n) /\ ~Inside(n + 1)
      BY <1>1, <2>1, <2>7
    <3> QED
      BY <2>1, <2>4, <3>1, <3>2
  <2>8. CASE p < n + 1 /\ n + 1 <= p + m
    <3>1. l = b[n + 1 - p] /\ n + 1 - p \in 1 .. m
      <4>1. n + 1 \in p + 1 .. p + m /\ n + 1 - p \in 1 .. m
        BY <1>1, <2>1, <2>8
      <4>2. h[n + 1] = b[(n + 1) - p]
        BY <1>2, <4>1
      <4> QED
        BY <1>1, <2>1, <4>1, <4>2 DEF l
    <3>2. /\ l.kind = "begin" <=> n = p
          /\ l.kind = "end" => n + 1 = p + m
          /\ Whole(b) /\ n + 1 = p + m => l.kind = "end"
      BY <1>1, <2>1, <3>1
    <3>3. G(n) = p /\ G(n + 1) = p /\ (Inside(n) <=> n # p)
      BY <1>1, <2>1, <2>8
    <3>4. l.kind = "end" => Whole(b)
      BY <1>1, <3>1, <3>2 DEF Whole, m
    <3>5. Inside(n + 1) <=> l.kind # "end"
      BY <1>1, <2>1, <2>8, <3>2, <3>4
    <3> QED
      BY <2>5, <2>6, <3>2, <3>3, <3>5
  <2>9. CASE p + m < n + 1
    <3>1. l = q[n + 1 - m] /\ n + 1 - m \in 1 .. k
      <4>1. n + 1 \in p + m + 1 .. k + m /\ n + 1 - m \in 1 .. k
        BY <1>1, <2>1, <2>9
      <4>2. h[n + 1] = q[(n + 1) - m]
        BY <1>2, <4>1
      <4> QED
        BY <1>1, <2>1, <4>1, <4>2 DEF l
    <3>2. Whole(b) \/ m = 0
      BY <1>1, <2>1, <2>9
    <3>3. G(n) = n - m /\ G(n + 1) = n + 1 - m /\ ~Inside(n) /\ ~Inside(n + 1)
      BY <1>1, <2>1, <2>9, <3>2
    <3>4. G(n) \in Nat /\ G(n + 1) = G(n) + 1 /\ l = q[G(n) + 1] /\ l.kind = "operator"
      BY <1>1, <2>1, <2>9, <3>1, <3>3
    <3> QED
      BY <2>4, <3>3, <3>4
  <2> QED
    BY <1>1, <2>1, <2>7, <2>8, <2>9
<1>8. P(k + m)
  <2> HIDE DEF T, P
  <2>1. T \in SUBSET Nat
    BY DEF T
  <2>2. T = Nat
    BY <1>6, <1>7, <2>1, NatSetInduction
  <2>3. k + m \in Nat /\ k + m <= k + m
    BY <1>1
  <2> QED
    BY <2>2, <2>3 DEF T
<1>9. G(k + m) = k
  BY <1>1
<1>10. /\ Strip(h) \in Seq(Line) /\ Len(Strip(h)) = k
       /\ \A i \in 1 .. k : Strip(h)[i] = q[i]
  <2>1. k + m \in 0 .. k + m
    BY <1>1
  <2> QED
    BY <1>4, <1>5, <1>8, <1>9, <2>1
<1> QED
  BY <1>1, <1>10, SeqEqual DEF h, k

-----------------------------------------------------------------------------
(* The scan that reads the block back, as it goes through the lines. *)
Columns    == (0 .. MaxEdits) \cup Rules
ScanStates == [in : BOOLEAN, over : BOOLEAN, out : Seq(Columns)]

ScanRun(u, lines) ==
    /\ u \in [0 .. Len(lines) -> ScanStates]
    /\ u[0] = [in |-> FALSE, over |-> FALSE, out |-> <<>>]
    /\ \A n \in 1 .. Len(lines) : u[n] = ParseLine(u[n - 1], lines[n])
    /\ ParseHBABlock(lines) = u[Len(lines)].out

(* The scan goes through any file. *)
LEMMA ScanRuns ==
  ASSUME NEW lines \in Seq(Line)
  PROVE  \E u : ScanRun(u, lines)
<1> DEFINE L == Len(lines)
           base == [in |-> FALSE, over |-> FALSE, out |-> <<>>]
           step == [n \in Nat |-> [a \in ScanStates |->
                      IF n \in 1 .. L THEN ParseLine(a, lines[n]) ELSE a]]
           u == CHOOSE v : v = [n \in 0 .. L |-> IF n = 0 THEN base
                                                 ELSE ParseLine(v[n - 1], lines[n])]
<1>1. ParseHBABlock(lines) = u[L].out
  BY DEF ParseHBABlock
<1>2. L \in Nat /\ \A n \in 1 .. L : lines[n] \in Line
  OBVIOUS
<1>3. base \in ScanStates
  BY DEF ScanStates
<1>4. ASSUME NEW a \in ScanStates, NEW l \in Line PROVE ParseLine(a, l) \in ScanStates
  <2>1. l.of \in Columns /\ Append(a.out, l.of) \in Seq(Columns)
    BY DEF ScanStates, Line, Columns
  <2> QED
    BY <2>1 DEF ParseLine, ScanStates
<1>5. step \in [Nat -> [ScanStates -> ScanStates]]
  <2> HIDE DEF L
  <2> QED
    BY <1>2, <1>4
<1>6. PICK g : Recursion(g, L, ScanStates, base, step)
  <2> HIDE DEF step, base, L
  <2> QED
    BY <1>2, <1>3, <1>5, RecursionExists
<1>7. /\ g \in [0 .. L -> ScanStates] /\ g[0] = base
      /\ \A n \in 1 .. L : g[n] = ParseLine(g[n - 1], lines[n])
  <2>1. /\ g \in [0 .. L -> ScanStates] /\ g[0] = base
        /\ \A n \in 1 .. L : g[n] = step[n][g[n - 1]]
    BY <1>6 DEF Recursion
  <2>2. ASSUME NEW n \in 1 .. L PROVE step[n][g[n - 1]] = ParseLine(g[n - 1], lines[n])
    <3>1. n \in Nat /\ n - 1 \in 0 .. L
      BY <1>2
    <3>2. g[n - 1] \in ScanStates
      BY <2>1, <3>1
    <3> QED
      BY <3>1, <3>2
  <2> QED
    BY <2>1, <2>2
<1>8. g = [n \in 0 .. L |-> IF n = 0 THEN base ELSE ParseLine(g[n - 1], lines[n])]
  <2>1. \A n \in 0 .. L : n = 0 \/ n \in 1 .. L
    BY <1>2
  <2> HIDE DEF base, L
  <2> QED
    BY <1>7, <2>1
<1>9. u = [n \in 0 .. L |-> IF n = 0 THEN base ELSE ParseLine(u[n - 1], lines[n])]
  BY <1>8
<1> HIDE DEF u
<1> DEFINE T == {n \in Nat : n <= L => u[n] = g[n]}
<1>10. 0 \in T
  <2>1. u[0] = base
    <3> HIDE DEF base, L
    <3>1. 0 \in 0 .. L
      BY <1>2
    <3> QED
      BY <1>9, <3>1
  <2> HIDE DEF base
  <2> QED
    BY <1>7, <2>1
<1>11. ASSUME NEW n \in T PROVE n + 1 \in T
  <2> SUFFICES ASSUME n + 1 <= L PROVE u[n + 1] = g[n + 1]
    OBVIOUS
  <2>1. n \in Nat /\ n + 1 \in 1 .. L /\ n + 1 \in 0 .. L /\ (n + 1) - 1 = n /\ n + 1 # 0
    BY <1>2
  <2>2. u[n] = g[n]
    BY <1>2, <2>1
  <2> HIDE DEF base, L, T
  <2>3. u[n + 1] = ParseLine(u[(n + 1) - 1], lines[n + 1])
    BY <1>9, <2>1
  <2>4. g[n + 1] = ParseLine(g[(n + 1) - 1], lines[n + 1])
    BY <1>7, <2>1
  <2> QED
    BY <2>1, <2>2, <2>3, <2>4, Zenon
<1>12. u[L] = g[L]
  <2> HIDE DEF T, L
  <2>1. T \in SUBSET Nat
    BY DEF T
  <2>2. T = Nat
    BY <1>10, <1>11, <2>1, NatSetInduction
  <2> QED
    BY <1>2, <2>2 DEF T
<1>13. ScanRun(g, lines)
  BY <1>1, <1>7, <1>12 DEF ScanRun
<1> QED
  BY <1>13

(* One line of the scan: behind the block, before it, and in it. *)
LEMMA ScanSteps ==
  ASSUME NEW a \in ScanStates, NEW l \in Line
  PROVE  /\ a.over \/ l.kind = "end" => /\ ParseLine(a, l).out = a.out
                                        /\ ParseLine(a, l).over
         /\ ~a.over /\ l.kind = "begin" => /\ ParseLine(a, l).out = a.out
                                           /\ ParseLine(a, l).in /\ ~ParseLine(a, l).over
         /\ ~a.over /\ ~a.in /\ l.kind = "operator" => ParseLine(a, l) = a
         /\ ~a.over /\ a.in /\ l.kind = "rule" =>
              /\ ParseLine(a, l).out = Append(a.out, l.of)
              /\ ParseLine(a, l).in /\ ~ParseLine(a, l).over
BY DEF ParseLine, ScanStates

-----------------------------------------------------------------------------
(* The managed block of a list. *)
LEMMA RenderLines ==
  ASSUME NEW list \in Lists
  PROVE  /\ list \in Seq(Rules) /\ Len(list) \in Nat
         /\ \A i \in 1 .. Len(list) : list[i] \in Rules
         /\ RenderPgHba(list) \in Seq(Line) /\ Len(RenderPgHba(list)) = Len(list) + 2
         /\ RenderPgHba(list)[1] = BeginMark /\ RenderPgHba(list)[Len(list) + 2] = EndMark
         /\ \A i \in 2 .. Len(list) + 1 : RenderPgHba(list)[i] = Rule(list[i - 1])
<1> DEFINE k == Len(list)
           m == [i \in DOMAIN list |-> Rule(list[i])]
           x == BeginMark
           y == EndMark
<1>1. /\ list \in Seq(Rules) /\ k \in Nat /\ DOMAIN list = 1 .. k
      /\ \A i \in 1 .. k : list[i] \in Rules
  BY PgHbaAssumption
<1>2. x \in Line /\ y \in Line /\ \A r \in Rules : Rule(r) \in Line
  BY PgHbaAssumption DEF Line, BeginMark, EndMark, Rule
<1>3. m \in Seq(Line) /\ Len(m) = k /\ \A i \in 1 .. k : m[i] = Rule(list[i])
  <2>1. m \in [1 .. k -> Line] /\ \A i \in 1 .. k : m[i] = Rule(list[i])
    BY <1>1, <1>2
  <2> HIDE DEF m
  <2> QED
    BY <1>1, <2>1
<1>4. RenderPgHba(list) = <<x>> \o m \o <<y>>
  BY DEF RenderPgHba
<1> HIDE DEF k, m, x, y
<1>5. /\ <<x>> \o m \o <<y>> \in Seq(Line) /\ Len(<<x>> \o m \o <<y>>) = k + 2
      /\ (<<x>> \o m \o <<y>>)[1] = x /\ (<<x>> \o m \o <<y>>)[k + 2] = y
      /\ \A i \in 2 .. k + 1 : (<<x>> \o m \o <<y>>)[i] = m[i - 1]
  BY <1>1, <1>2, <1>3
<1>6. \A i \in 2 .. k + 1 : m[i - 1] = Rule(list[i - 1])
  <2>1. \A i \in 2 .. k + 1 : i - 1 \in 1 .. k
    BY <1>1
  <2> QED
    BY <1>3, <2>1
<1>7. /\ RenderPgHba(list) \in Seq(Line) /\ Len(RenderPgHba(list)) = k + 2
      /\ RenderPgHba(list)[1] = x /\ RenderPgHba(list)[k + 2] = y
      /\ \A i \in 2 .. k + 1 : RenderPgHba(list)[i] = Rule(list[i - 1])
  <2>1. \A i \in 2 .. k + 1 : (<<x>> \o m \o <<y>>)[i] = Rule(list[i - 1])
    BY <1>5, <1>6, Zenon
  <2> QED
    BY <1>4, <1>5, <2>1, Zenon
<1> QED
  BY <1>1, <1>7 DEF k, x, y

(* And what its lines are. *)
LEMMA RenderKinds ==
  ASSUME NEW list \in Lists
  PROVE  /\ RenderPgHba(list)[1].kind = "begin"
         /\ RenderPgHba(list)[Len(list) + 2].kind = "end"
         /\ \A i \in 2 .. Len(list) + 1 : /\ RenderPgHba(list)[i].kind = "rule"
                                          /\ RenderPgHba(list)[i].of = list[i - 1]
<1>1. BeginMark.kind = "begin" /\ EndMark.kind = "end"
  BY DEF BeginMark, EndMark
<1>2. \A x : Rule(x).kind = "rule" /\ Rule(x).of = x
  BY DEF Rule
<1>3. RenderPgHba(list)[1].kind = "begin"
  BY <1>1, RenderLines, Zenon
<1>4. RenderPgHba(list)[Len(list) + 2].kind = "end"
  BY <1>1, RenderLines, Zenon
<1>5. ASSUME NEW i \in 2 .. Len(list) + 1
      PROVE  RenderPgHba(list)[i].kind = "rule" /\ RenderPgHba(list)[i].of = list[i - 1]
  <2>1. RenderPgHba(list)[i] = Rule(list[i - 1])
    BY RenderLines, Zenon
  <2> QED
    BY <1>2, <2>1, Zenon
<1> QED
  BY <1>3, <1>4, <1>5

(* What a shell has read of it is the beginning of a block, and the whole  *)
(* block if nothing is missing.                                            *)
LEMMA CutManaged ==
  ASSUME NEW list \in Lists, NEW n \in 0 .. Len(RenderPgHba(list))
  PROVE  /\ Managed(SubSeq(RenderPgHba(list), 1, n))
         /\ n = Len(RenderPgHba(list)) => SubSeq(RenderPgHba(list), 1, n) = RenderPgHba(list)
         /\ Managed(RenderPgHba(list)) /\ Whole(RenderPgHba(list))
<1> DEFINE k == Len(list)
           r == RenderPgHba(list)
           c == SubSeq(r, 1, n)
<1>1. /\ k \in Nat /\ r \in Seq(Line) /\ Len(r) = k + 2 /\ n \in 0 .. k + 2
      /\ r[1].kind = "begin" /\ r[k + 2].kind = "end"
      /\ \A i \in 2 .. k + 1 : r[i].kind = "rule"
  BY RenderLines, RenderKinds
<1> HIDE DEF k, r
<1>2. ASSUME NEW i \in 1 .. k + 2
      PROVE  /\ r[i].kind # "operator"
             /\ r[i].kind = "begin" <=> i = 1
             /\ r[i].kind = "end" <=> i = k + 2
  <2>1. i = 1 \/ i = k + 2 \/ i \in 2 .. k + 1
    BY <1>1
  <2> QED
    BY <1>1, <2>1
<1>3. Managed(r) /\ Whole(r)
  BY <1>1, <1>2 DEF Managed, Whole
<1>4. c \in Seq(Line) /\ Len(c) = n /\ \A i \in 1 .. n : c[i] = r[i]
  BY <1>1
<1> HIDE DEF c
<1>5. Managed(c)
  BY <1>1, <1>2, <1>4 DEF Managed
<1>6. n = Len(r) => c = r
  BY <1>1, <1>4, SeqEqual
<1> QED
  BY <1>3, <1>5, <1>6 DEF c, r

(* The scan finds the list in the block, wherever the block is. *)
LEMMA ParseSplice ==
  ASSUME NEW q, Own(q), NEW p \in 0 .. Len(q), NEW list \in Lists
  PROVE  ParseHBABlock(Splice(q, p, RenderPgHba(list))) = list
<1> DEFINE k == Len(q)
           m == Len(list)
           b == RenderPgHba(list)
           h == Splice(q, p, b)
           G(n) == IF n <= p + 1 THEN 0 ELSE IF n <= p + 1 + m THEN n - (p + 1) ELSE m
<1>1. /\ q \in Seq(Line) /\ k \in Nat /\ p \in 0 .. k /\ m \in Nat
      /\ \A i \in 1 .. k : q[i].kind = "operator"
      /\ list \in Seq(Rules) /\ \A i \in 1 .. m : list[i] \in Rules
  BY RenderLines DEF Own
<1>2. /\ b \in Seq(Line) /\ Len(b) = m + 2
      /\ b[1].kind = "begin" /\ b[m + 2].kind = "end"
      /\ \A i \in 2 .. m + 1 : b[i].kind = "rule" /\ b[i].of = list[i - 1]
  BY RenderLines, RenderKinds
<1>3. /\ h \in Seq(Line) /\ Len(h) = k + (m + 2)
      /\ \A i \in 1 .. p : h[i] = q[i]
      /\ \A i \in p + 1 .. p + (m + 2) : h[i] = b[i - p]
  <2> DEFINE n == Len(b)
  <2>1. /\ h \in Seq(Line) /\ Len(h) = k + n
        /\ \A i \in 1 .. p : h[i] = q[i]
        /\ \A i \in p + 1 .. p + n : h[i] = b[i - p]
    <3>1. q \in Seq(Line) /\ b \in Seq(Line) /\ p \in 0 .. Len(q)
      BY <1>1, <1>2
    <3> HIDE DEF b
    <3>2. /\ Splice(q, p, b) \in Seq(Line) /\ Len(Splice(q, p, b)) = Len(q) + Len(b)
          /\ \A i \in 1 .. p : Splice(q, p, b)[i] = q[i]
          /\ \A i \in p + 1 .. p + Len(b) : Splice(q, p, b)[i] = b[i - p]
      BY <3>1, SpliceLines, Zenon
    <3> QED
      BY <3>2
  <2>2. n = m + 2
    BY <1>2
  <2> HIDE DEF n, k, m, b, h
  <2> QED
    BY <2>1, <2>2
<1>4. PICK u : ScanRun(u, h)
  BY <1>3, ScanRuns
<1> HIDE DEF k, m, b, h
<1>5. /\ u \in [0 .. k + (m + 2) -> ScanStates]
      /\ u[0] = [in |-> FALSE, over |-> FALSE, out |-> <<>>]
      /\ \A n \in 1 .. k + (m + 2) : u[n] = ParseLine(u[n - 1], h[n])
      /\ ParseHBABlock(h) = u[k + (m + 2)].out
  BY <1>3, <1>4 DEF ScanRun
<1>6. \A n \in 0 .. k + (m + 2) : /\ u[n].in \in BOOLEAN /\ u[n].over \in BOOLEAN
                                  /\ u[n].out \in Seq(Columns)
  BY <1>5 DEF ScanStates
<1> DEFINE P(n) == /\ n < p + (m + 2) => ((u[n].in <=> p < n) /\ ~u[n].over)
                   /\ n >= p + (m + 2) => u[n].over
                   /\ Len(u[n].out) = G(n) /\ \A i \in 1 .. G(n) : u[n].out[i] = list[i]
           T == {n \in Nat : n <= k + (m + 2) => P(n)}
<1>7. 0 \in T
  BY <1>1, <1>5
<1>8. ASSUME NEW n \in T PROVE n + 1 \in T
  <2> SUFFICES ASSUME n + 1 <= k + (m + 2) PROVE P(n + 1)
    OBVIOUS
  <2>1. /\ n \in Nat /\ n + 1 \in 1 .. k + (m + 2) /\ P(n)
        /\ n \in 0 .. k + (m + 2) /\ n + 1 \in 0 .. k + (m + 2)
    <3> HIDE DEF P
    <3> QED
      BY <1>1
  <2> DEFINE a == u[n]
             l == h[n + 1]
  <2>2. a \in ScanStates /\ l \in Line /\ u[n + 1] = ParseLine(a, l)
    BY <1>3, <1>5, <2>1
  <2>3. /\ n < p + (m + 2) => ((a.in <=> p < n) /\ ~a.over)
        /\ n >= p + (m + 2) => a.over
        /\ a.out \in Seq(Columns) /\ Len(a.out) = G(n) /\ \A i \in 1 .. G(n) : a.out[i] = list[i]
    BY <1>6, <2>1
  <2> HIDE DEF T, P, a, l
  <2>4. CASE n + 1 <= p
    <3>1. l.kind = "operator"
      <4>1. n + 1 \in 1 .. p /\ n + 1 \in 1 .. k
        BY <1>1, <2>1, <2>4
      <4> QED
        BY <1>1, <1>3, <4>1 DEF l
    <3>2. /\ n < p + (m + 2) /\ ~(p < n) /\ G(n + 1) = G(n)
          /\ n + 1 < p + (m + 2) /\ ~(p < n + 1) /\ ~(n + 1 >= p + (m + 2))
      BY <1>1, <2>1, <2>4
    <3>3. u[n + 1] = a
      BY <2>2, <2>3, <3>1, <3>2, ScanSteps
    <3> QED
      BY <2>3, <3>2, <3>3 DEF P
  <2>5. CASE n = p
    <3>1. l.kind = "begin"
      <4>1. n + 1 \in p + 1 .. p + (m + 2) /\ (n + 1) - p = 1
        BY <1>1, <2>1, <2>5
      <4> QED
        BY <1>2, <1>3, <4>1 DEF l
    <3>2. /\ n < p + (m + 2) /\ G(n) = 0 /\ G(n + 1) = 0
          /\ n + 1 < p + (m + 2) /\ p < n + 1 /\ ~(n + 1 >= p + (m + 2))
      BY <1>1, <2>1, <2>5
    <3>3. u[n + 1].out = a.out /\ u[n + 1].in /\ ~u[n + 1].over
      BY <2>2, <2>3, <3>1, <3>2, ScanSteps
    <3> QED
      BY <2>3, <3>2, <3>3 DEF P
  <2>6. CASE p < n /\ n <= p + m
    <3>1. l.kind = "rule" /\ l.of = list[n - p]
      <4>1. /\ n + 1 \in p + 1 .. p + (m + 2) /\ (n + 1) - p \in 2 .. m + 1
            /\ ((n + 1) - p) - 1 = n - p
        BY <1>1, <2>1, <2>6
      <4>2. l = b[(n + 1) - p]
        BY <1>3, <4>1 DEF l
      <4> QED
        BY <1>2, <4>1, <4>2
    <3>2. /\ n < p + (m + 2) /\ p < n /\ n + 1 < p + (m + 2) /\ p < n + 1
          /\ ~(n + 1 >= p + (m + 2)) /\ G(n + 1) = G(n) + 1 /\ G(n) \in Nat
          /\ G(n) + 1 = n - p
      BY <1>1, <2>1, <2>6
    <3>3. u[n + 1].out = Append(a.out, l.of) /\ u[n + 1].in /\ ~u[n + 1].over
      BY <2>2, <2>3, <3>1, <3>2, ScanSteps
    <3> DEFINE g == G(n)
               o == l.of
    <3>4. /\ a.out \in Seq(Columns) /\ Len(a.out) = g /\ g \in Nat /\ o \in Columns
          /\ \A i \in 1 .. g : a.out[i] = list[i]
          /\ o = list[g + 1]
      BY <2>2, <2>3, <3>1, <3>2 DEF Line, Columns
    <3> HIDE DEF g, o
    <3>5. Len(Append(a.out, o)) = g + 1 /\ \A i \in 1 .. g + 1 : Append(a.out, o)[i] = list[i]
      BY <3>4
    <3>6. /\ Len(u[n + 1].out) = G(n + 1)
          /\ \A i \in 1 .. G(n + 1) : u[n + 1].out[i] = list[i]
      BY <3>2, <3>3, <3>5 DEF g, o
    <3> QED
      BY <3>2, <3>3, <3>6 DEF P
  <2>7. CASE n = p + m + 1
    <3>1. l.kind = "end"
      <4>1. n + 1 \in p + 1 .. p + (m + 2) /\ (n + 1) - p = m + 2
        BY <1>1, <2>1, <2>7
      <4> QED
        BY <1>2, <1>3, <4>1 DEF l
    <3>2. /\ ~(n + 1 < p + (m + 2)) /\ G(n + 1) = G(n)
      BY <1>1, <2>1, <2>7
    <3>3. u[n + 1].out = a.out /\ u[n + 1].over
      BY <2>2, <3>1, ScanSteps
    <3> QED
      BY <2>3, <3>2, <3>3 DEF P
  <2>8. CASE p + m + 1 < n
    <3>1. n >= p + (m + 2) /\ ~(n + 1 < p + (m + 2)) /\ G(n + 1) = G(n)
      BY <1>1, <2>1, <2>8
    <3>2. u[n + 1].out = a.out /\ u[n + 1].over
      BY <2>2, <2>3, <3>1, ScanSteps
    <3> QED
      BY <2>3, <3>1, <3>2 DEF P
  <2> QED
    BY <1>1, <2>1, <2>4, <2>5, <2>6, <2>7, <2>8
<1>9. P(k + (m + 2))
  <2> HIDE DEF T, P
  <2>1. T \in SUBSET Nat
    BY DEF T
  <2>2. T = Nat
    BY <1>7, <1>8, <2>1, NatSetInduction
  <2>3. k + (m + 2) \in Nat /\ k + (m + 2) <= k + (m + 2)
    BY <1>1
  <2> QED
    BY <2>2, <2>3 DEF T
<1>10. G(k + (m + 2)) = m
  BY <1>1
<1>11. /\ ParseHBABlock(h) \in Seq(Columns) /\ Len(ParseHBABlock(h)) = m
       /\ \A i \in 1 .. m : ParseHBABlock(h)[i] = list[i]
  <2>1. k + (m + 2) \in 0 .. k + (m + 2)
    BY <1>1
  <2> QED
    BY <1>5, <1>6, <1>9, <1>10, <2>1
<1>12. list \in Seq(Columns)
  BY <1>1 DEF Columns
<1> QED
  BY <1>11, <1>12, SeqEqual DEF h, b, m

(* The filter makes a file of lines. *)
LEMMA StripLines ==
  ASSUME NEW lines \in Seq(Line)
  PROVE  Strip(lines) \in Seq(Line)
<1>1. PICK u : AwkRun(u, lines)
  BY AwkRuns
<1>2. /\ u \in [0 .. Len(lines) -> AwkStates] /\ Strip(lines) = u[Len(lines)].out
  BY <1>1 DEF AwkRun
<1>3. Len(lines) \in 0 .. Len(lines)
  OBVIOUS
<1>4. u[Len(lines)] \in AwkStates
  BY <1>2, <1>3
<1> QED
  BY <1>2, <1>4 DEF AwkStates

-----------------------------------------------------------------------------
(* The type invariant, without the definition of an execution's record. *)
Shells == [pc : {"cat", "awk", "printf", "mv", "done", "failed"},
           list : Lists, block : Seq(Line)]

(* The parts of the type invariant. *)
LEMMA TypeParts == TypeOK <=> /\ hba \in Seq(Line)
                              /\ tmp = Missing \/ tmp \in Seq(Line)
                              /\ shells \in Seq(Shells)
                              /\ awaited \in 0 .. Len(shells)
                              /\ opLines \in 0 .. MaxEdits
BY DEF TypeOK, Shells

(* The operator's lines are lines of the file. *)
LEMMA OpLines ==
  ASSUME NEW n \in 0 .. MaxEdits
  PROVE  OpLine(n) \in Line /\ OpLine(n).kind = "operator" /\ OpLine(n).of = n
BY DEF OpLine, Line

(* The initial state has the right types. *)
LEMMA InitTypes == Init => TypeOK
<1> SUFFICES ASSUME Init PROVE TypeOK
  OBVIOUS
<1>1. 0 \in 0 .. MaxEdits
  BY PgHbaAssumption
<1>2. OpLine(0) \in Line
  BY <1>1, OpLines
<1>3. <<OpLine(0)>> \in Seq(Line) /\ <<>> \in Seq(Shells) /\ Len(<<>>) = 0
  BY <1>2
<1> QED
  BY <1>1, <1>3, TypeParts DEF Init

(* A change of one execution keeps the types. *)
LEMMA ShellsTypes ==
  ASSUME NEW z \in Seq(Shells), NEW s \in 1 .. Len(z), NEW e \in Shells
  PROVE  [z EXCEPT ![s] = e] \in Seq(Shells) /\ Len([z EXCEPT ![s] = e]) = Len(z)
OBVIOUS

(* What a step makes of an execution. *)
LEMMA ShellTypes ==
  ASSUME NEW e \in Shells
  PROVE  /\ e.list \in Lists /\ e.block \in Seq(Line)
         /\ [e EXCEPT !.pc = "printf"] \in Shells /\ [e EXCEPT !.pc = "mv"] \in Shells
         /\ Ended(e, "done") \in Shells /\ Ended(e, "failed") \in Shells
         /\ \A c \in Seq(Line) : [e EXCEPT !.pc = "awk", !.block = c] \in Shells
<1> DEFINE B == Seq(Line)
<1>1. Shells = [pc : {"cat", "awk", "printf", "mv", "done", "failed"}, list : Lists, block : B]
  BY DEF Shells
<1>2. <<>> \in B
  OBVIOUS
<1> HIDE DEF B
<1>3. e.list \in Lists /\ e.block \in B
  BY <1>1
<1>4. [e EXCEPT !.pc = "printf"] \in Shells /\ [e EXCEPT !.pc = "mv"] \in Shells
  BY <1>1
<1>5. ASSUME NEW pc \in {"done", "failed"} PROVE Ended(e, pc) \in Shells
  BY <1>1, <1>2 DEF Ended
<1>6. \A c \in B : [e EXCEPT !.pc = "awk", !.block = c] \in Shells
  BY <1>1
<1> QED
  BY <1>3, <1>4, <1>5, <1>6 DEF B

(* Every step keeps the types. *)
LEMMA NextTypes == TypeOK /\ [Next]_vars => TypeOK'
<1> SUFFICES ASSUME TypeOK, [Next]_vars PROVE TypeOK'
  OBVIOUS
<1> DEFINE T(h, t, z, a, o) == /\ h \in Seq(Line) /\ (t = Missing \/ t \in Seq(Line))
                               /\ z \in Seq(Shells) /\ a \in 0 .. Len(z)
                               /\ o \in 0 .. MaxEdits
<1>1. T(hba, tmp, shells, awaited, opLines)
  BY TypeParts
<1>2. SUFFICES T(hba', tmp', shells', awaited', opLines')
  BY DEF TypeOK, Shells
<1>3. Len(shells) \in Nat /\ DOMAIN shells = 1 .. Len(shells) /\ MaxEdits \in Nat
  BY <1>1, PgHbaAssumption
<1>4. \A s \in DOMAIN shells : shells[s] \in Shells
  BY <1>1, <1>3
<1>5. ASSUME NEW list \in Lists, Start(list) PROVE T(hba', tmp', shells', awaited', opLines')
  <2> DEFINE e == [pc |-> "cat", list |-> list, block |-> <<>>]
  <2>1. e \in Shells
    BY DEF Shells
  <2>2. /\ shells' = Append(shells, e) /\ awaited' = Len(shells) + 1
        /\ UNCHANGED <<hba, tmp, opLines>>
    BY <1>5 DEF Start
  <2> HIDE DEF e
  <2>3. shells' \in Seq(Shells) /\ Len(shells') = Len(shells) + 1
    BY <1>1, <2>1, <2>2
  <2> QED
    BY <1>1, <1>3, <2>2, <2>3
<1>6. ASSUME NEW s \in DOMAIN shells, Cat(s)
      PROVE  T(hba', tmp', shells', awaited', opLines')
  <2>1. PICK n \in 0 .. Len(RenderPgHba(shells[s].list)) :
          shells' = [shells EXCEPT ![s].pc = "awk",
                                   ![s].block = SubSeq(RenderPgHba(shells[s].list), 1, n)]
    BY <1>6 DEF Cat
  <2> DEFINE c == SubSeq(RenderPgHba(shells[s].list), 1, n)
             e == [shells[s] EXCEPT !.pc = "awk", !.block = c]
  <2>2. c \in Seq(Line)
    <3>1. shells[s].list \in Lists
      BY <1>4, ShellTypes
    <3> QED
      BY <2>1, <3>1, CutManaged DEF Managed
  <2> HIDE DEF c
  <2>3. e \in Shells
    BY <1>4, <2>2, ShellTypes
  <2>4. shells' = [shells EXCEPT ![s] = e]
    BY <1>1, <1>3, <2>1 DEF c
  <2> HIDE DEF e
  <2>5. shells' \in Seq(Shells) /\ Len(shells') = Len(shells)
    BY <1>1, <1>3, <2>3, <2>4, ShellsTypes
  <2> QED
    BY <1>1, <1>6, <2>5 DEF Cat
<1>7. ASSUME NEW s \in DOMAIN shells, Awk(s)
      PROVE  T(hba', tmp', shells', awaited', opLines')
  <2> DEFINE e == [shells[s] EXCEPT !.pc = "printf"]
  <2>1. e \in Shells /\ shells' = [shells EXCEPT ![s] = e]
    BY <1>7, <1>4, ShellTypes DEF Awk
  <2> HIDE DEF e
  <2>2. shells' \in Seq(Shells) /\ Len(shells') = Len(shells)
    BY <1>1, <1>3, <2>1, ShellsTypes
  <2>3. tmp' \in Seq(Line)
    BY <1>1, <1>7, StripLines DEF Awk
  <2> QED
    BY <1>1, <1>7, <2>2, <2>3 DEF Awk
<1>8. ASSUME NEW s \in DOMAIN shells, Printf(s)
      PROVE  T(hba', tmp', shells', awaited', opLines')
  <2> DEFINE e == [shells[s] EXCEPT !.pc = "mv"]
             t == IF tmp = Missing THEN <<>> ELSE tmp
             c == shells[s].block
  <2>1. e \in Shells /\ shells' = [shells EXCEPT ![s] = e]
    BY <1>8, <1>4, ShellTypes DEF Printf
  <2> HIDE DEF e
  <2>2. shells' \in Seq(Shells) /\ Len(shells') = Len(shells)
    BY <1>1, <1>3, <2>1, ShellsTypes
  <2>3. t \in Seq(Line) /\ c \in Seq(Line)
    <3>1. c \in Seq(Line)
      BY <1>4, ShellTypes
    <3>2. t \in Seq(Line)
      BY <1>1
    <3> QED
      BY <3>1, <3>2
  <2>4. tmp' = t \o c
    BY <1>8 DEF Printf
  <2> HIDE DEF t, c
  <2>5. tmp' \in Seq(Line)
    BY <2>3, <2>4
  <2> QED
    BY <1>1, <1>8, <2>2, <2>5 DEF Printf
<1>9. ASSUME NEW s \in DOMAIN shells, Mv(s)
      PROVE  T(hba', tmp', shells', awaited', opLines')
  <2>1. PICK pc \in {"done", "failed"} : shells' = [shells EXCEPT ![s] = Ended(@, pc)]
    BY <1>9 DEF Mv
  <2> DEFINE e == Ended(shells[s], pc)
  <2>2. e \in Shells /\ shells' = [shells EXCEPT ![s] = e]
    BY <1>4, <2>1, ShellTypes
  <2> HIDE DEF e
  <2>3. shells' \in Seq(Shells) /\ Len(shells') = Len(shells)
    BY <1>1, <1>3, <2>2, ShellsTypes
  <2>4. hba' \in Seq(Line) /\ (tmp' = Missing \/ tmp' \in Seq(Line))
    BY <1>1, <1>9 DEF Mv
  <2> QED
    BY <1>1, <1>9, <2>3, <2>4 DEF Mv
<1>10. CASE Returns \/ ConnectionLost
  BY <1>1, <1>3, <1>10 DEF Returns, ConnectionLost
<1>11. CASE HostCrash
  <2> DEFINE e(s) == IF Active(s) THEN Ended(shells[s], "failed") ELSE shells[s]
  <2>1. shells' = [s \in DOMAIN shells |-> e(s)]
    BY <1>11 DEF HostCrash
  <2>2. ASSUME NEW s \in DOMAIN shells PROVE e(s) \in Shells
    BY <1>4, ShellTypes
  <2> HIDE DEF e
  <2>3. shells' \in [1 .. Len(shells) -> Shells]
    BY <1>3, <2>1, <2>2
  <2>4. shells' \in Seq(Shells) /\ Len(shells') = Len(shells)
    BY <1>3, <2>3
  <2> QED
    BY <1>1, <1>3, <1>11, <2>4 DEF HostCrash
<1>12. CASE OperatorAdds
  <2>1. opLines' = opLines + 1 /\ opLines' \in 0 .. MaxEdits
    <3>1. opLines < MaxEdits /\ opLines' = opLines + 1
      BY <1>12 DEF OperatorAdds
    <3> QED
      BY <1>1, <1>3, <3>1
  <2> DEFINE x == OpLine(opLines')
  <2>2. x \in Line /\ hba' \in {<<x>> \o hba, hba \o <<x>>}
    BY <1>12, <2>1, OpLines DEF OperatorAdds
  <2> HIDE DEF x
  <2>3. hba' \in Seq(Line)
    <3>1. <<x>> \o hba \in Seq(Line) /\ hba \o <<x>> \in Seq(Line)
      BY <1>1, <2>2
    <3> QED
      BY <2>2, <3>1
  <2> QED
    BY <1>1, <1>12, <2>1, <2>3 DEF OperatorAdds
<1>13. CASE UNCHANGED vars
  BY <1>1, <1>13 DEF vars
<1> QED
  BY <1>5, <1>6, <1>7, <1>8, <1>9, <1>10, <1>11, <1>12, <1>13 DEF Next

(* The types are right in every reachable state. *)
THEOREM PgHbaTypes == Spec => []TypeOK
<1> QED
  BY InitTypes, NextTypes, PTL DEF Spec

-----------------------------------------------------------------------------
(* A block put at the end of the file. *)
LEMMA SpliceAtEnd ==
  ASSUME NEW q \in Seq(Line), NEW b \in Seq(Line)
  PROVE  q \o b = Splice(q, Len(q), b)
<1> DEFINE k == Len(q)
           m == Len(b)
           h == Splice(q, k, b)
           c == q \o b
<1>1. k \in Nat /\ m \in Nat /\ k \in 0 .. k
  OBVIOUS
<1>2. /\ h \in Seq(Line) /\ Len(h) = k + m
      /\ \A i \in 1 .. k : h[i] = q[i]
      /\ \A i \in k + 1 .. k + m : h[i] = b[i - k]
  BY <1>1, SpliceLines
<1>3. /\ c \in Seq(Line) /\ Len(c) = k + m
      /\ \A i \in 1 .. k : c[i] = q[i]
      /\ \A i \in k + 1 .. k + m : c[i] = b[i - k]
  OBVIOUS
<1> HIDE DEF k, m, h, c
<1>4. \A i \in 1 .. k + m : c[i] = h[i]
  <2>1. \A i \in 1 .. k + m : i \in 1 .. k \/ i \in k + 1 .. k + m
    BY <1>1
  <2> QED
    BY <1>2, <1>3, <2>1
<1> QED
  BY <1>2, <1>3, <1>4, SeqEqual DEF c, h, k

(* A line put in front of the file. *)
LEMMA SpliceInFront ==
  ASSUME NEW q \in Seq(Line), NEW b \in Seq(Line), NEW p \in 0 .. Len(q), NEW x \in Line
  PROVE  <<x>> \o Splice(q, p, b) = Splice(<<x>> \o q, p + 1, b)
<1> DEFINE k == Len(q)
           m == Len(b)
           h == Splice(q, p, b)
           z == <<x>> \o q
           g == Splice(z, p + 1, b)
           c == <<x>> \o h
<1>1. k \in Nat /\ m \in Nat /\ p \in 0 .. k
  OBVIOUS
<1>2. /\ h \in Seq(Line) /\ Len(h) = k + m
      /\ \A i \in 1 .. p : h[i] = q[i]
      /\ \A i \in p + 1 .. p + m : h[i] = b[i - p]
      /\ \A i \in p + m + 1 .. k + m : h[i] = q[i - m]
  BY <1>1, SpliceLines
<1>3. z \in Seq(Line) /\ Len(z) = k + 1 /\ z[1] = x /\ \A i \in 2 .. k + 1 : z[i] = q[i - 1]
  BY <1>1
<1>4. /\ g \in Seq(Line) /\ Len(g) = (k + 1) + m
      /\ \A i \in 1 .. p + 1 : g[i] = z[i]
      /\ \A i \in p + 2 .. p + 1 + m : g[i] = b[i - (p + 1)]
      /\ \A i \in p + m + 2 .. k + m + 1 : g[i] = z[i - m]
  <2>1. p + 1 \in 0 .. Len(z)
    BY <1>1, <1>3
  <2> HIDE DEF z
  <2>2. /\ g \in Seq(Line) /\ Len(g) = Len(z) + m
        /\ \A i \in 1 .. p + 1 : g[i] = z[i]
        /\ \A i \in (p + 1) + 1 .. (p + 1) + m : g[i] = b[i - (p + 1)]
        /\ \A i \in (p + 1) + m + 1 .. Len(z) + m : g[i] = z[i - m]
    BY <1>3, <2>1, SpliceLines
  <2> HIDE DEF g, k, m
  <2> QED
    BY <1>1, <1>3, <2>2
<1> HIDE DEF h
<1>5. /\ c \in Seq(Line) /\ Len(c) = k + m + 1
      /\ c[1] = x /\ \A i \in 2 .. k + m + 1 : c[i] = h[i - 1]
  <2> HIDE DEF k, m
  <2> QED
    BY <1>1, <1>2
<1> HIDE DEF k, m, z, g, c
<1>6. ASSUME NEW i \in 1 .. k + m + 1 PROVE c[i] = g[i]
  <2>1. CASE i = 1
    BY <1>1, <1>3, <1>4, <1>5, <2>1
  <2>2. CASE i \in 2 .. p + 1
    <3>1. c[i] = h[i - 1] /\ g[i] = z[i] /\ z[i] = q[i - 1]
      BY <1>1, <1>3, <1>4, <1>5, <2>2
    <3>2. i - 1 \in 1 .. p
      BY <1>1, <2>2
    <3> QED
      BY <1>2, <3>1, <3>2
  <2>3. CASE i \in p + 2 .. p + 1 + m
    <3>1. c[i] = h[i - 1] /\ g[i] = b[i - (p + 1)]
      BY <1>1, <1>4, <1>5, <2>3
    <3>2. i - 1 \in p + 1 .. p + m /\ (i - 1) - p = i - (p + 1)
      BY <1>1, <2>3
    <3> QED
      BY <1>2, <3>1, <3>2
  <2>4. CASE i \in p + m + 2 .. k + m + 1
    <3>1. c[i] = h[i - 1] /\ g[i] = z[i - m]
      BY <1>1, <1>4, <1>5, <2>4
    <3>2. i - 1 \in p + m + 1 .. k + m /\ i - m \in 2 .. k + 1 /\ (i - 1) - m = (i - m) - 1
      BY <1>1, <2>4
    <3>3. h[i - 1] = q[(i - 1) - m] /\ z[i - m] = q[(i - m) - 1]
      BY <1>2, <1>3, <3>2
    <3> QED
      BY <3>1, <3>2, <3>3
  <2> QED
    BY <1>1, <2>1, <2>2, <2>3, <2>4
<1>7. Len(c) = k + m + 1 /\ Len(g) = k + m + 1
  BY <1>1, <1>4, <1>5
<1> QED
  BY <1>4, <1>5, <1>6, <1>7, SeqEqual DEF c, g, h, z

(* A line put at the end of the file. *)
LEMMA SpliceBehind ==
  ASSUME NEW q \in Seq(Line), NEW b \in Seq(Line), NEW p \in 0 .. Len(q), NEW x \in Line
  PROVE  Splice(q, p, b) \o <<x>> = Splice(q \o <<x>>, p, b)
<1> DEFINE k == Len(q)
           m == Len(b)
           h == Splice(q, p, b)
           z == q \o <<x>>
           g == Splice(z, p, b)
           c == h \o <<x>>
<1>1. k \in Nat /\ m \in Nat /\ p \in 0 .. k
  OBVIOUS
<1>2. /\ h \in Seq(Line) /\ Len(h) = k + m
      /\ \A i \in 1 .. p : h[i] = q[i]
      /\ \A i \in p + 1 .. p + m : h[i] = b[i - p]
      /\ \A i \in p + m + 1 .. k + m : h[i] = q[i - m]
  BY <1>1, SpliceLines
<1>3. z \in Seq(Line) /\ Len(z) = k + 1 /\ z[k + 1] = x /\ \A i \in 1 .. k : z[i] = q[i]
  BY <1>1
<1>4. /\ g \in Seq(Line) /\ Len(g) = (k + 1) + m
      /\ \A i \in 1 .. p : g[i] = z[i]
      /\ \A i \in p + 1 .. p + m : g[i] = b[i - p]
      /\ \A i \in p + m + 1 .. k + m + 1 : g[i] = z[i - m]
  <2>1. p \in 0 .. Len(z)
    BY <1>1, <1>3
  <2> HIDE DEF z
  <2>2. /\ g \in Seq(Line) /\ Len(g) = Len(z) + m
        /\ \A i \in 1 .. p : g[i] = z[i]
        /\ \A i \in p + 1 .. p + m : g[i] = b[i - p]
        /\ \A i \in p + m + 1 .. Len(z) + m : g[i] = z[i - m]
    BY <1>3, <2>1, SpliceLines
  <2> HIDE DEF g, k, m
  <2> QED
    BY <1>1, <1>3, <2>2
<1> HIDE DEF h
<1>5. /\ c \in Seq(Line) /\ Len(c) = k + m + 1
      /\ c[k + m + 1] = x /\ \A i \in 1 .. k + m : c[i] = h[i]
  BY <1>1, <1>2
<1> HIDE DEF k, m, z, g, c
<1>6. ASSUME NEW i \in 1 .. k + m + 1 PROVE c[i] = g[i]
  <2>1. CASE i \in 1 .. p
    BY <1>1, <1>2, <1>3, <1>4, <1>5, <2>1
  <2>2. CASE i \in p + 1 .. p + m
    <3>1. i \in 1 .. k + m
      BY <1>1, <2>2
    <3>2. c[i] = h[i] /\ h[i] = b[i - p] /\ g[i] = b[i - p]
      BY <1>2, <1>4, <1>5, <2>2, <3>1
    <3> QED
      BY <3>2
  <2>3. CASE i \in p + m + 1 .. k + m
    <3>1. c[i] = h[i] /\ g[i] = z[i - m] /\ h[i] = q[i - m]
      BY <1>1, <1>2, <1>4, <1>5, <2>3
    <3>2. i - m \in 1 .. k
      BY <1>1, <2>3
    <3> QED
      BY <1>3, <3>1, <3>2
  <2>4. CASE i = k + m + 1
    <3>1. i \in p + m + 1 .. k + m + 1 /\ i - m = k + 1
      BY <1>1, <2>4
    <3>2. g[i] = z[i - m] /\ c[i] = x
      BY <1>4, <1>5, <2>4, <3>1
    <3> QED
      BY <1>3, <3>1, <3>2
  <2> QED
    BY <1>1, <2>1, <2>2, <2>3, <2>4
<1>7. Len(c) = k + m + 1 /\ Len(g) = k + m + 1
  BY <1>1, <1>4, <1>5
<1> QED
  BY <1>4, <1>5, <1>6, <1>7, SeqEqual DEF c, g, h, z

-----------------------------------------------------------------------------
(* The begin and end markers of a file with one block. *)
LEMMA SpliceKinds ==
  ASSUME NEW q, NEW p, NEW b, Fits(q, p, b)
  PROVE  LET h == Splice(q, p, b)
             begins == {i \in DOMAIN h : h[i].kind = "begin"}
             ends   == {i \in DOMAIN h : h[i].kind = "end"}
         IN  /\ begins \subseteq {p + 1}
             /\ b # <<>> => begins = {p + 1}
             /\ ~Whole(b) => ends = {}
<1> DEFINE k == Len(q)
           m == Len(b)
           h == Splice(q, p, b)
<1>1. /\ q \in Seq(Line) /\ b \in Seq(Line) /\ p \in 0 .. k /\ k \in Nat /\ m \in Nat
      /\ \A i \in 1 .. k : q[i].kind = "operator"
      /\ b # <<>> => m > 0
  BY DEF Fits, Own, Managed
<1>2. \A i \in 1 .. m : /\ b[i].kind = "begin" <=> i = 1
                        /\ b[i].kind = "end" => i = m
  BY DEF Fits, Managed
<1>3. ~Whole(b) => \A i \in 1 .. m : b[i].kind # "end"
  <2>1. ~Whole(b) => b = <<>> \/ b[m].kind # "end"
    BY DEF Whole
  <2>2. b = <<>> => m = 0
    OBVIOUS
  <2> HIDE DEF m
  <2> QED
    BY <1>1, <1>2, <2>1, <2>2
<1>4. /\ DOMAIN h = 1 .. k + m
      /\ \A i \in 1 .. p : h[i] = q[i]
      /\ \A i \in p + 1 .. p + m : h[i] = b[i - p]
      /\ \A i \in p + m + 1 .. k + m : h[i] = q[i - m]
  BY <1>1, SpliceLines DEF Splice
<1> HIDE DEF k, m, h
<1>5. ASSUME NEW i \in 1 .. k + m
      PROVE  \/ h[i].kind = "operator" /\ ~(i \in p + 1 .. p + m)
             \/ i \in p + 1 .. p + m /\ i - p \in 1 .. m /\ h[i] = b[i - p]
  <2>1. CASE i \in 1 .. p
    BY <1>1, <1>4, <2>1
  <2>2. CASE i \in p + 1 .. p + m
    BY <1>1, <1>4, <2>2
  <2>3. CASE i \in p + m + 1 .. k + m
    <3>1. i - m \in 1 .. k /\ ~(i \in p + 1 .. p + m)
      BY <1>1, <2>3
    <3> QED
      BY <1>1, <1>4, <2>3, <3>1
  <2> QED
    BY <1>1, <2>1, <2>2, <2>3
<1>6. ASSUME NEW i \in 1 .. k + m, h[i].kind = "begin" PROVE i = p + 1
  BY <1>1, <1>2, <1>5, <1>6
<1>7. ASSUME b # <<>> PROVE p + 1 \in 1 .. k + m /\ h[p + 1].kind = "begin"
  <2>1. p + 1 \in 1 .. k + m /\ p + 1 \in p + 1 .. p + m /\ (p + 1) - p = 1 /\ 1 \in 1 .. m
    BY <1>1, <1>7
  <2> QED
    BY <1>2, <1>4, <2>1
<1>8. ASSUME ~Whole(b), NEW i \in 1 .. k + m PROVE h[i].kind # "end"
  BY <1>3, <1>5, <1>8
<1>9. /\ {i \in DOMAIN h : h[i].kind = "begin"} \subseteq {p + 1}
      /\ b # <<>> => {i \in DOMAIN h : h[i].kind = "begin"} = {p + 1}
      /\ ~Whole(b) => {i \in DOMAIN h : h[i].kind = "end"} = {}
  BY <1>4, <1>6, <1>7, <1>8
<1> QED
  BY <1>9 DEF h

(* Such a file has at most one block, and a block cut short shows. *)
LEMMA SpliceBlocks ==
  ASSUME NEW q, NEW p, NEW b, Fits(q, p, b)
  PROVE  /\ Blocks(Splice(q, p, b)) <= 1
         /\ ~Unterminated(Splice(q, p, b)) => Whole(b) \/ b = <<>>
<1> DEFINE h == Splice(q, p, b)
           begins == {i \in DOMAIN h : h[i].kind = "begin"}
           ends == {i \in DOMAIN h : h[i].kind = "end"}
<1>1. /\ begins \subseteq {p + 1}
      /\ b # <<>> => begins = {p + 1}
      /\ ~Whole(b) => ends = {}
  BY SpliceKinds
<1>2. /\ Blocks(h) = Cardinality(begins)
      /\ Unterminated(h) <=> Cardinality(begins) # Cardinality(ends)
  BY DEF Blocks, Unterminated
<1> HIDE DEF h, begins, ends
<1>3. IsFiniteSet({p + 1}) /\ Cardinality({p + 1}) = 1 /\ Cardinality({}) = 0
  BY FS_Singleton, FS_EmptySet
<1>4. Cardinality(begins) <= 1
  BY <1>1, <1>3, FS_Subset
<1>5. ~Whole(b) /\ b # <<>> => Cardinality(begins) = 1 /\ Cardinality(ends) = 0
  BY <1>1, <1>3
<1> QED
  BY <1>2, <1>4, <1>5 DEF h

-----------------------------------------------------------------------------
(* The operator's lines are the first n of them, each once. *)
Mine(q, n) ==
    /\ \A i \in 1 .. Len(q) : \E o \in 0 .. n : q[i] = OpLine(o)
    /\ \A o \in 0 .. n : \E i \in 1 .. Len(q) : q[i] = OpLine(o)
    /\ \A i, j \in 1 .. Len(q) : q[i] = q[j] => i = j

(* A new line of the operator, in front or behind. *)
LEMMA MineAdds ==
  ASSUME NEW q, Own(q), NEW n \in Nat, n + 1 \in 0 .. MaxEdits, Mine(q, n)
  PROVE  LET x == OpLine(n + 1)
         IN  /\ Own(<<x>> \o q) /\ Mine(<<x>> \o q, n + 1) /\ Len(<<x>> \o q) = Len(q) + 1
             /\ Own(q \o <<x>>) /\ Mine(q \o <<x>>, n + 1) /\ Len(q \o <<x>>) = Len(q) + 1
<1> DEFINE k == Len(q)
           x == OpLine(n + 1)
           front == <<x>> \o q
           back == q \o <<x>>
<1>1. /\ q \in Seq(Line) /\ k \in Nat /\ \A i \in 1 .. k : q[i].kind = "operator"
      /\ x \in Line /\ x.kind = "operator" /\ x.of = n + 1
  BY OpLines DEF Own
<1>2. /\ \A i \in 1 .. k : \E o \in 0 .. n : q[i] = OpLine(o)
      /\ \A o \in 0 .. n : \E i \in 1 .. k : q[i] = OpLine(o)
      /\ \A i, j \in 1 .. k : q[i] = q[j] => i = j
  BY DEF Mine
<1>3. \A i \in 1 .. k : q[i] # x
  <2>1. \A o \in 0 .. n : OpLine(o).of = o /\ o # n + 1
    BY DEF OpLine
  <2> HIDE DEF x, k
  <2> QED
    BY <1>1, <1>2, <2>1
<1>4. \A o \in 0 .. n + 1 : o \in 0 .. n \/ OpLine(o) = x
  OBVIOUS
<1>5. 0 .. n \subseteq 0 .. n + 1 /\ n + 1 \in 0 .. n + 1 /\ x = OpLine(n + 1)
  OBVIOUS
<1> HIDE DEF x
<1>6. /\ front \in Seq(Line) /\ Len(front) = k + 1
      /\ front[1] = x /\ \A i \in 2 .. k + 1 : front[i] = q[i - 1]
  BY <1>1
<1>7. /\ back \in Seq(Line) /\ Len(back) = k + 1
      /\ back[k + 1] = x /\ \A i \in 1 .. k : back[i] = q[i]
  BY <1>1
<1> HIDE DEF k, front, back
<1>8. \A i \in 2 .. k + 1 : i - 1 \in 1 .. k
  BY <1>1
<1>9. Own(front) /\ Own(back)
  <2>1. ASSUME NEW i \in 1 .. k + 1 PROVE front[i].kind = "operator" /\ back[i].kind = "operator"
    <3>1. (i = 1 \/ i \in 2 .. k + 1) /\ (i \in 1 .. k \/ i = k + 1)
      BY <1>1
    <3> QED
      BY <1>1, <1>6, <1>7, <1>8, <3>1
  <2> QED
    BY <1>6, <1>7, <2>1 DEF Own
<1>10. Mine(front, n + 1)
  <2>1. ASSUME NEW i \in 1 .. k + 1 PROVE \E o \in 0 .. n + 1 : front[i] = OpLine(o)
    <3>1. i = 1 \/ i \in 2 .. k + 1
      BY <1>1
    <3>2. CASE i \in 2 .. k + 1
      <4>1. i - 1 \in 1 .. k /\ front[i] = q[i - 1]
        BY <1>6, <1>8, <3>2
      <4>2. PICK o \in 0 .. n : q[i - 1] = OpLine(o)
        BY <1>2, <4>1
      <4> QED
        BY <1>5, <4>1, <4>2
    <3> QED
      BY <1>6, <1>5, <3>1, <3>2
  <2>2. ASSUME NEW o \in 0 .. n + 1 PROVE \E i \in 1 .. k + 1 : front[i] = OpLine(o)
    <3>1. CASE OpLine(o) = x
      <4>1. 1 \in 1 .. k + 1
        BY <1>1
      <4> QED
        BY <1>6, <3>1, <4>1
    <3>2. CASE o \in 0 .. n
      <4>1. PICK i \in 1 .. k : q[i] = OpLine(o)
        BY <1>2, <3>2
      <4>2. i + 1 \in 2 .. k + 1 /\ i + 1 \in 1 .. k + 1 /\ (i + 1) - 1 = i
        BY <1>1
      <4>3. front[i + 1] = q[(i + 1) - 1]
        BY <1>6, <4>2
      <4> QED
        BY <4>1, <4>2, <4>3
    <3> QED
      BY <1>4, <3>1, <3>2
  <2>3. ASSUME NEW i \in 1 .. k + 1, NEW j \in 1 .. k + 1, front[i] = front[j] PROVE i = j
    <3>1. (i = 1 \/ i \in 2 .. k + 1) /\ (j = 1 \/ j \in 2 .. k + 1)
      BY <1>1
    <3>2. i \in 2 .. k + 1 => i - 1 \in 1 .. k /\ front[i] = q[i - 1]
      BY <1>6, <1>8
    <3>3. j \in 2 .. k + 1 => j - 1 \in 1 .. k /\ front[j] = q[j - 1]
      BY <1>6, <1>8
    <3>4. CASE i \in 2 .. k + 1 /\ j \in 2 .. k + 1
      <4>1. i - 1 = j - 1
        BY <1>2, <2>3, <3>2, <3>3, <3>4
      <4> QED
        BY <1>1, <3>4, <4>1
    <3> QED
      BY <1>3, <1>6, <2>3, <3>1, <3>2, <3>3, <3>4
  <2> QED
    BY <1>6, <2>1, <2>2, <2>3 DEF Mine
<1>11. Mine(back, n + 1)
  <2>1. ASSUME NEW i \in 1 .. k + 1 PROVE \E o \in 0 .. n + 1 : back[i] = OpLine(o)
    <3>1. i = k + 1 \/ i \in 1 .. k
      BY <1>1
    <3> QED
      BY <1>2, <1>7, <1>5, <3>1
  <2>2. ASSUME NEW o \in 0 .. n + 1 PROVE \E i \in 1 .. k + 1 : back[i] = OpLine(o)
    <3>1. CASE OpLine(o) = x
      <4>1. k + 1 \in 1 .. k + 1
        BY <1>1
      <4> QED
        BY <1>7, <3>1, <4>1
    <3>2. CASE o \in 0 .. n
      <4>1. PICK i \in 1 .. k : q[i] = OpLine(o)
        BY <1>2, <3>2
      <4>2. i \in 1 .. k + 1
        BY <1>1
      <4> QED
        BY <1>7, <4>1, <4>2
    <3> QED
      BY <1>4, <3>1, <3>2
  <2>3. ASSUME NEW i \in 1 .. k + 1, NEW j \in 1 .. k + 1, back[i] = back[j] PROVE i = j
    <3>1. (i = k + 1 \/ i \in 1 .. k) /\ (j = k + 1 \/ j \in 1 .. k)
      BY <1>1
    <3> QED
      BY <1>2, <1>3, <1>7, <2>3, <3>1
  <2> QED
    BY <1>7, <2>1, <2>2, <2>3 DEF Mine
<1> QED
  BY <1>6, <1>7, <1>9, <1>10, <1>11 DEF front, back, x, k

(* The operator's lines are in the file exactly once. *)
LEMMA SpliceKeeps ==
  ASSUME NEW q, NEW p, NEW b, Fits(q, p, b),
         NEW n \in 0 .. MaxEdits, Mine(q, n), NEW o \in 0 .. n
  PROVE  Cardinality({i \in DOMAIN Splice(q, p, b) : Splice(q, p, b)[i] = OpLine(o)}) = 1
<1> DEFINE k == Len(q)
           m == Len(b)
           h == Splice(q, p, b)
           x == OpLine(o)
<1>1. /\ q \in Seq(Line) /\ b \in Seq(Line) /\ p \in 0 .. k /\ k \in Nat /\ m \in Nat
      /\ \A i \in 1 .. m : b[i].kind # "operator"
  BY DEF Fits, Own, Managed
<1>2. /\ \E i \in 1 .. k : q[i] = x
      /\ \A i, j \in 1 .. k : q[i] = q[j] => i = j
  BY DEF Mine
<1>3. x.kind = "operator"
  BY DEF OpLine
<1>4. /\ DOMAIN h = 1 .. k + m
      /\ \A i \in 1 .. p : h[i] = q[i]
      /\ \A i \in p + 1 .. p + m : h[i] = b[i - p]
      /\ \A i \in p + m + 1 .. k + m : h[i] = q[i - m]
  BY <1>1, SpliceLines DEF Splice
<1> HIDE DEF k, m, h, x
<1>5. PICK j \in 1 .. k : q[j] = x /\ \A i \in 1 .. k : q[i] = x => i = j
  BY <1>2
<1> DEFINE at == IF j <= p THEN j ELSE j + m
<1>6. at \in 1 .. k + m /\ h[at] = x
  <2>1. CASE j <= p
    BY <1>1, <1>4, <1>5, <2>1
  <2>2. CASE p < j
    <3>1. at = j + m /\ j + m \in p + m + 1 .. k + m /\ j + m \in 1 .. k + m /\ (j + m) - m = j
      BY <1>1, <2>2
    <3>2. h[j + m] = q[(j + m) - m]
      BY <1>4, <3>1
    <3> QED
      BY <1>5, <3>1, <3>2
  <2> QED
    BY <1>1, <2>1, <2>2
<1>7. ASSUME NEW i \in 1 .. k + m, h[i] = x PROVE i = at
  <2>1. CASE i \in 1 .. p
    <3>1. i \in 1 .. k /\ q[i] = x
      BY <1>1, <1>4, <1>7, <2>1
    <3> QED
      BY <1>1, <1>5, <2>1, <3>1
  <2>2. CASE i \in p + 1 .. p + m
    <3>1. i - p \in 1 .. m /\ h[i] = b[i - p]
      BY <1>1, <1>4, <2>2
    <3> QED
      BY <1>1, <1>3, <1>7, <3>1
  <2>3. CASE i \in p + m + 1 .. k + m
    <3>1. i - m \in 1 .. k /\ q[i - m] = x
      BY <1>1, <1>4, <1>7, <2>3
    <3>2. i - m = j
      BY <1>5, <3>1
    <3> QED
      BY <1>1, <2>3, <3>2
  <2> QED
    BY <1>1, <2>1, <2>2, <2>3
<1> HIDE DEF at
<1>8. {i \in DOMAIN h : h[i] = x} = {at}
  BY <1>4, <1>6, <1>7
<1> QED
  BY <1>8, FS_Singleton DEF h, x

-----------------------------------------------------------------------------
(* The provider waits for the last execution, and while none has           *)
(* overlapped with another only the last one can be running.               *)
Latest == /\ awaited # 0 => awaited = Len(shells)
          /\ events = {} => \A s \in 1 .. Len(shells) : Active(s) => s = Len(shells)

(* A running execution holds its block, whole if it is waited for. *)
Holding == \A s \in 1 .. Len(shells) :
             shells[s].pc \in {"awk", "printf", "mv"} =>
               /\ Managed(shells[s].block)
               /\ awaited = s => shells[s].block = RenderPgHba(shells[s].list)

(* The file is the operator's lines q with one block b; a temporary file   *)
(* in use is q, or q and the new block; after a success b is the block of  *)
(* the declared list.                                                      *)
File(q, p, b) ==
    /\ Fits(q, p, b) /\ Mine(q, opLines) /\ hba = Splice(q, p, b)
    /\ \A s \in 1 .. Len(shells) : /\ shells[s].pc = "printf" => tmp = q
                                   /\ shells[s].pc = "mv" => tmp = q \o shells[s].block
    /\ awaited # 0 /\ shells[awaited].pc = "done" => b = RenderPgHba(shells[awaited].list)

HbaInv == /\ TypeOK /\ Latest /\ Holding
          /\ events = {} => \E q, p, b : File(q, p, b)

(* The packaged file is the operator's first line. *)
LEMMA InitHba == Init => HbaInv
<1> SUFFICES ASSUME Init PROVE HbaInv
  OBVIOUS
<1> DEFINE x == OpLine(0)
           q == <<x>>
<1>1. x \in Line /\ x.kind = "operator" /\ 0 \in 0 .. MaxEdits
  BY PgHbaAssumption, OpLines
<1>2. hba = q /\ opLines = 0 /\ shells = <<>> /\ awaited = 0
  BY DEF Init
<1>3. Mine(q, 0)
  BY DEF Mine
<1> HIDE DEF x
<1>4. Own(q) /\ Len(q) = 1 /\ q \in Seq(Line)
  BY <1>1 DEF Own
<1>5. Managed(<<>>) /\ <<>> \in Seq(Line) /\ Len(<<>>) = 0
  BY DEF Managed
<1>6. q = Splice(q, 1, <<>>)
  <2>1. q \o <<>> = Splice(q, Len(q), <<>>)
    BY <1>4, <1>5, SpliceAtEnd
  <2>2. q \o <<>> = q
    BY <1>4
  <2> QED
    BY <1>4, <2>1, <2>2
<1>7. Fits(q, 1, <<>>)
  <2>1. 1 \in 0 .. Len(q)
    BY <1>4
  <2> QED
    BY <1>4, <1>5, <2>1 DEF Fits
<1>8. 1 .. Len(shells) = {}
  BY <1>2
<1> HIDE DEF q
<1>9. File(q, 1, <<>>)
  BY <1>2, <1>3, <1>6, <1>7, <1>8 DEF File
<1>10. Latest /\ Holding
  BY <1>2, <1>8 DEF Latest, Holding
<1> QED
  BY <1>9, <1>10, InitTypes DEF HbaInv

-----------------------------------------------------------------------------
(* What a step of execution s changes: only s. *)
Changes(s, pc, block) ==
    /\ Len(shells') = Len(shells) /\ shells'[s].pc = pc
    /\ shells'[s].list = shells[s].list /\ shells'[s].block = block
    /\ \A t \in 1 .. Len(shells) : t # s => shells'[t] = shells[t]

(* The steps of an execution as changes of it. *)
LEMMA StepChanges ==
  ASSUME TypeOK, NEW s \in 1 .. Len(shells)
  PROVE  /\ Cat(s) => \E n \in 0 .. Len(RenderPgHba(shells[s].list)) :
              /\ awaited = s => n = Len(RenderPgHba(shells[s].list))
              /\ Changes(s, "awk", SubSeq(RenderPgHba(shells[s].list), 1, n))
         /\ Awk(s) => Changes(s, "printf", shells[s].block)
         /\ Printf(s) => Changes(s, "mv", shells[s].block)
         /\ Mv(s) => Changes(s, IF tmp = Missing THEN "failed" ELSE "done", <<>>)
<1>1. shells \in Seq(Shells) /\ DOMAIN shells = 1 .. Len(shells)
  BY TypeParts
<1>2. shells[s] \in Shells
  BY <1>1
<1> DEFINE B == Seq(Line)
           e == shells[s]
<1>3. e \in [pc : {"cat", "awk", "printf", "mv", "done", "failed"}, list : Lists, block : B]
  BY <1>2 DEF Shells
<1> HIDE DEF B
<1>4. ASSUME NEW d, NEW pc, NEW c, d.pc = pc, d.list = e.list, d.block = c,
             shells' = [shells EXCEPT ![s] = d]
      PROVE  Changes(s, pc, c)
  BY <1>1, <1>4 DEF Changes
<1>5. ASSUME NEW c
      PROVE  /\ [e EXCEPT !.pc = "awk", !.block = c].pc = "awk"
             /\ [e EXCEPT !.pc = "awk", !.block = c].list = e.list
             /\ [e EXCEPT !.pc = "awk", !.block = c].block = c
  BY <1>3
<1>6. ASSUME NEW pc
      PROVE  /\ [e EXCEPT !.pc = pc].pc = pc
             /\ [e EXCEPT !.pc = pc].list = e.list
             /\ [e EXCEPT !.pc = pc].block = e.block
  BY <1>3
<1>7. ASSUME NEW pc
      PROVE  /\ Ended(e, pc).pc = pc
             /\ Ended(e, pc).list = e.list
             /\ Ended(e, pc).block = <<>>
  BY <1>3 DEF Ended
<1> DEFINE r == RenderPgHba(e.list)
<1>8. ASSUME Cat(s)
      PROVE  \E n \in 0 .. Len(r) : /\ awaited = s => n = Len(r)
                                    /\ Changes(s, "awk", SubSeq(r, 1, n))
  <2>1. PICK n \in 0 .. Len(r) :
          /\ awaited = s => n = Len(r)
          /\ shells' = [shells EXCEPT ![s].pc = "awk", ![s].block = SubSeq(r, 1, n)]
    BY <1>8 DEF Cat
  <2> DEFINE c == SubSeq(r, 1, n)
  <2> HIDE DEF c, r
  <2>2. shells' = [shells EXCEPT ![s] = [e EXCEPT !.pc = "awk", !.block = c]]
    BY <1>1, <2>1 DEF c
  <2> HIDE DEF e
  <2>3. Changes(s, "awk", c)
    BY <1>4, <1>5, <2>2
  <2> QED
    BY <2>1, <2>3 DEF c
<1>9. ASSUME Awk(s) PROVE Changes(s, "printf", e.block)
  <2>1. shells' = [shells EXCEPT ![s] = [e EXCEPT !.pc = "printf"]]
    BY <1>1, <1>9 DEF Awk
  <2> HIDE DEF e
  <2> QED
    BY <1>4, <1>6, <2>1
<1>10. ASSUME Printf(s) PROVE Changes(s, "mv", e.block)
  <2>1. shells' = [shells EXCEPT ![s] = [e EXCEPT !.pc = "mv"]]
    BY <1>1, <1>10 DEF Printf
  <2> HIDE DEF e
  <2> QED
    BY <1>4, <1>6, <2>1
<1>11. ASSUME Mv(s) PROVE Changes(s, IF tmp = Missing THEN "failed" ELSE "done", <<>>)
  <2> DEFINE pc == IF tmp = Missing THEN "failed" ELSE "done"
  <2>1. shells' = [shells EXCEPT ![s] = Ended(e, pc)]
    BY <1>1, <1>11 DEF Mv
  <2> HIDE DEF e, pc
  <2>2. Changes(s, pc, <<>>)
    BY <1>4, <1>7, <2>1
  <2> QED
    BY <2>2 DEF pc
<1> QED
  BY <1>8, <1>9, <1>10, <1>11

(* A new execution is the last one, at its first step. *)
LEMMA StartChanges ==
  ASSUME TypeOK, NEW list \in Lists, Start(list)
  PROVE  /\ Len(shells') = Len(shells) + 1 /\ awaited' = Len(shells')
         /\ shells'[Len(shells')].pc = "cat"
         /\ \A t \in 1 .. Len(shells) : shells'[t] = shells[t]
         /\ events' = {} => events = {} /\ \A t \in 1 .. Len(shells) : ~Active(t)
<1>1. shells \in Seq(Shells) /\ DOMAIN shells = 1 .. Len(shells)
  BY TypeParts
<1> DEFINE e == [pc |-> "cat", list |-> list, block |-> <<>>]
<1>2. shells' = Append(shells, e) /\ awaited' = Len(shells) + 1
  BY DEF Start
<1>3. e.pc = "cat"
  OBVIOUS
<1> HIDE DEF e
<1>4. /\ Len(shells') = Len(shells) + 1 /\ shells'[Len(shells) + 1] = e
      /\ \A t \in 1 .. Len(shells) : shells'[t] = shells[t]
  BY <1>1, <1>2
<1>5. events' = events \cup (IF \E s \in 1 .. Len(shells) : Active(s) THEN {"overlap"} ELSE {})
  BY <1>1 DEF Start
<1>6. events' = {} => events = {} /\ \A t \in 1 .. Len(shells) : ~Active(t)
  BY <1>5
<1> QED
  BY <1>2, <1>3, <1>4, <1>6

(* A crash ends what was running and leaves everything else. *)
LEMMA CrashChanges ==
  ASSUME TypeOK, HostCrash
  PROVE  /\ Len(shells') = Len(shells) /\ awaited' = 0
         /\ \A t \in 1 .. Len(shells) : shells'[t].pc \notin {"cat", "awk", "printf", "mv"}
<1>1. shells \in Seq(Shells) /\ DOMAIN shells = 1 .. Len(shells) /\ Len(shells) \in Nat
  BY TypeParts
<1>2. \A t \in 1 .. Len(shells) : shells[t] \in Shells
  BY <1>1
<1>3. /\ shells' = [s \in 1 .. Len(shells) |-> IF Active(s) THEN Ended(shells[s], "failed")
                                               ELSE shells[s]]
      /\ awaited' = 0
  BY <1>1 DEF HostCrash
<1>4. \A t \in 1 .. Len(shells) : Ended(shells[t], "failed").pc = "failed"
  <2> DEFINE B == Seq(Line)
  <2>1. \A t \in 1 .. Len(shells) : shells[t] \in
          [pc : {"cat", "awk", "printf", "mv", "done", "failed"}, list : Lists, block : B]
    BY <1>2 DEF Shells
  <2> HIDE DEF B
  <2> QED
    BY <2>1 DEF Ended
<1>5. \A t \in 1 .. Len(shells) : shells'[t].pc \notin {"cat", "awk", "printf", "mv"}
  <2> TAKE t \in 1 .. Len(shells)
  <2>1. CASE Active(t)
    <3>1. shells'[t] = Ended(shells[t], "failed")
      BY <1>3, <2>1
    <3> QED
      BY <1>4, <3>1
  <2>2. CASE ~Active(t)
    <3>1. shells'[t] = shells[t]
      BY <1>3, <2>2
    <3> QED
      BY <2>2, <3>1 DEF Active
  <2> QED
    BY <2>1, <2>2
<1>6. Len(shells') = Len(shells)
  <2>1. DOMAIN shells' = 1 .. Len(shells) /\ Len(shells) \in Nat
    BY <1>1, <1>3
  <2>2. TypeOK'
    BY NextTypes DEF Next
  <2>3. shells' \in Seq(Shells)
    BY <2>2 DEF TypeOK, Shells
  <2> QED
    BY <2>1, <2>3
<1> QED
  BY <1>3, <1>5, <1>6

-----------------------------------------------------------------------------
(* The executions that are running stay the last one's affair. *)
LEMMA LatestKept == HbaInv /\ [Next]_vars => Latest'
<1> SUFFICES ASSUME HbaInv, [Next]_vars PROVE Latest'
  OBVIOUS
<1> DEFINE L(z, a, ev) == /\ a # 0 => a = Len(z)
                          /\ ev = {} => \A s \in 1 .. Len(z) :
                               z[s].pc \in {"cat", "awk", "printf", "mv"} => s = Len(z)
<1>1. TypeOK /\ L(shells, awaited, events)
  BY DEF HbaInv, Latest, Active
<1>2. SUFFICES L(shells', awaited', events')
  BY DEF Latest, Active
<1>3. Len(shells) \in Nat /\ DOMAIN shells = 1 .. Len(shells) /\ shells \in Seq(Shells)
  BY <1>1, TypeParts
<1>4. ASSUME NEW list \in Lists, Start(list) PROVE L(shells', awaited', events')
  <2>1. /\ Len(shells') = Len(shells) + 1 /\ awaited' = Len(shells')
        /\ \A t \in 1 .. Len(shells) : shells'[t] = shells[t]
        /\ events' = {} => events = {} /\ \A t \in 1 .. Len(shells) : ~Active(t)
    BY <1>1, <1>4, StartChanges
  <2>2. ASSUME events' = {}, NEW s \in 1 .. Len(shells'),
               shells'[s].pc \in {"cat", "awk", "printf", "mv"}
        PROVE  s = Len(shells')
    <3>1. s \in 1 .. Len(shells) \/ s = Len(shells')
      BY <1>3, <2>1
    <3>2. CASE s \in 1 .. Len(shells)
      BY <2>1, <2>2, <3>2 DEF Active
    <3> QED
      BY <3>1, <3>2
  <2> QED
    BY <2>1, <2>2
<1>5. ASSUME NEW s \in 1 .. Len(shells), NEW pc, NEW c, Changes(s, pc, c),
             shells[s].pc \in {"cat", "awk", "printf", "mv"}, awaited' = awaited, events' = events
      PROVE  L(shells', awaited', events')
  <2>1. /\ Len(shells') = Len(shells)
        /\ \A t \in 1 .. Len(shells) : t # s => shells'[t] = shells[t]
    BY <1>5 DEF Changes
  <2> QED
    BY <1>1, <1>5, <2>1
<1>6. ASSUME NEW s \in DOMAIN shells, Cat(s) \/ Awk(s) \/ Printf(s) \/ Mv(s)
      PROVE  L(shells', awaited', events')
  <2>1. /\ s \in 1 .. Len(shells) /\ shells[s].pc \in {"cat", "awk", "printf", "mv"}
        /\ awaited' = awaited /\ events' = events
    BY <1>3, <1>6 DEF Cat, Awk, Printf, Mv
  <2>2. \E pc, c : Changes(s, pc, c)
    <3>1. CASE Cat(s)
      <4>1. PICK n : Changes(s, "awk", SubSeq(RenderPgHba(shells[s].list), 1, n))
        BY <1>1, <2>1, <3>1, StepChanges
      <4> QED
        BY <4>1
    <3>2. CASE Awk(s)
      BY <1>1, <2>1, <3>2, StepChanges
    <3>3. CASE Printf(s)
      BY <1>1, <2>1, <3>3, StepChanges
    <3>4. CASE Mv(s)
      BY <1>1, <2>1, <3>4, StepChanges
    <3> QED
      BY <1>6, <3>1, <3>2, <3>3, <3>4
  <2>3. PICK pc, c : Changes(s, pc, c)
    BY <2>2
  <2> HIDE DEF L
  <2> QED
    BY <1>5, <2>1, <2>3
<1>7. CASE Returns \/ ConnectionLost
  BY <1>1, <1>7 DEF Returns, ConnectionLost
<1>8. CASE HostCrash
  <2>1. /\ Len(shells') = Len(shells) /\ awaited' = 0
        /\ \A t \in 1 .. Len(shells) : shells'[t].pc \notin {"cat", "awk", "printf", "mv"}
    BY <1>1, <1>8, CrashChanges
  <2> QED
    BY <2>1
<1>9. CASE OperatorAdds
  <2>1. shells' = shells /\ awaited' = awaited /\ (events' = {} => events = {})
    BY <1>9 DEF OperatorAdds
  <2> QED
    BY <1>1, <2>1
<1>10. CASE UNCHANGED vars
  BY <1>1, <1>10 DEF vars
<1> QED
  BY <1>4, <1>6, <1>7, <1>8, <1>9, <1>10 DEF Next

(* A running execution keeps hold of its block. *)
LEMMA HoldingKept == HbaInv /\ [Next]_vars => Holding'
<1> SUFFICES ASSUME HbaInv, [Next]_vars PROVE Holding'
  OBVIOUS
<1> DEFINE W(e, me) == e.pc \in {"awk", "printf", "mv"} =>
                         /\ Managed(e.block)
                         /\ me => e.block = RenderPgHba(e.list)
<1>1. TypeOK /\ Latest /\ \A s \in 1 .. Len(shells) : W(shells[s], awaited = s)
  BY DEF HbaInv, Holding
<1>2. SUFFICES \A s \in 1 .. Len(shells') : W(shells'[s], awaited' = s)
  BY DEF Holding
<1>3. Len(shells) \in Nat /\ DOMAIN shells = 1 .. Len(shells) /\ shells \in Seq(Shells)
  BY <1>1, TypeParts
<1>4. ASSUME NEW list \in Lists, Start(list), NEW s \in 1 .. Len(shells')
      PROVE  W(shells'[s], awaited' = s)
  <2>1. /\ Len(shells') = Len(shells) + 1 /\ awaited' = Len(shells')
        /\ shells'[Len(shells')].pc = "cat"
        /\ \A t \in 1 .. Len(shells) : shells'[t] = shells[t]
    BY <1>1, <1>4, StartChanges
  <2>2. CASE s \in 1 .. Len(shells)
    BY <1>1, <1>3, <2>1, <2>2
  <2>3. CASE s = Len(shells')
    BY <2>1, <2>3
  <2> QED
    BY <1>3, <2>1, <2>2, <2>3
<1>5. ASSUME NEW s \in 1 .. Len(shells), NEW pc, NEW c, Changes(s, pc, c), awaited' = awaited,
             W([pc |-> pc, list |-> shells[s].list, block |-> c], awaited = s)
      PROVE  \A t \in 1 .. Len(shells') : W(shells'[t], awaited' = t)
  <2>1. /\ Len(shells') = Len(shells)
        /\ shells'[s].pc = pc /\ shells'[s].list = shells[s].list /\ shells'[s].block = c
        /\ \A t \in 1 .. Len(shells) : t # s => shells'[t] = shells[t]
    BY <1>5 DEF Changes
  <2>2. W(shells'[s], awaited' = s)
    BY <1>5, <2>1
  <2>3. \A t \in 1 .. Len(shells) : t # s => W(shells'[t], awaited' = t)
    BY <1>1, <1>5, <2>1
  <2> QED
    BY <2>1, <2>2, <2>3
<1>6. ASSUME NEW s \in DOMAIN shells, Cat(s)
      PROVE  \A t \in 1 .. Len(shells') : W(shells'[t], awaited' = t)
  <2> DEFINE r == RenderPgHba(shells[s].list)
  <2>1. PICK n \in 0 .. Len(r) : /\ awaited = s => n = Len(r)
                                 /\ Changes(s, "awk", SubSeq(r, 1, n))
    BY <1>1, <1>3, <1>6, StepChanges
  <2>2. shells[s].list \in Lists
    <3>1. shells[s] \in Shells
      BY <1>3
    <3> QED
      BY <3>1, ShellTypes
  <2>3. Managed(SubSeq(r, 1, n)) /\ (n = Len(r) => SubSeq(r, 1, n) = r)
    BY <2>2, CutManaged
  <2>4. awaited' = awaited
    BY <1>6 DEF Cat
  <2> DEFINE c == SubSeq(r, 1, n)
  <2>5. W([pc |-> "awk", list |-> shells[s].list, block |-> c], awaited = s)
    BY <2>1, <2>3
  <2> HIDE DEF W, c
  <2> QED
    BY <1>3, <1>5, <2>1, <2>4, <2>5 DEF c
<1>7. ASSUME NEW s \in DOMAIN shells, Awk(s) \/ Printf(s)
      PROVE  \A t \in 1 .. Len(shells') : W(shells'[t], awaited' = t)
  <2>1. s \in 1 .. Len(shells) /\ shells[s].pc \in {"awk", "printf"} /\ awaited' = awaited
    BY <1>3, <1>7 DEF Awk, Printf
  <2>2. PICK pc \in {"printf", "mv"} : Changes(s, pc, shells[s].block)
    BY <1>1, <1>7, <2>1, StepChanges
  <2>3. W([pc |-> pc, list |-> shells[s].list, block |-> shells[s].block], awaited = s)
    BY <1>1, <2>1
  <2> HIDE DEF W
  <2> QED
    BY <1>5, <2>1, <2>2, <2>3
<1>8. ASSUME NEW s \in DOMAIN shells, Mv(s)
      PROVE  \A t \in 1 .. Len(shells') : W(shells'[t], awaited' = t)
  <2>1. s \in 1 .. Len(shells) /\ awaited' = awaited
    BY <1>3, <1>8 DEF Mv
  <2>2. PICK pc \in {"done", "failed"} : Changes(s, pc, <<>>)
    BY <1>1, <1>8, <2>1, StepChanges
  <2>3. W([pc |-> pc, list |-> shells[s].list, block |-> <<>>], awaited = s)
    BY <2>2
  <2> HIDE DEF W
  <2> QED
    BY <1>5, <2>1, <2>2, <2>3
<1>9. CASE Returns \/ ConnectionLost
  <2>1. shells' = shells /\ awaited' = 0 /\ \A t \in 1 .. Len(shells) : t # 0
    BY <1>9 DEF Returns, ConnectionLost
  <2> QED
    BY <1>1, <2>1
<1>10. CASE HostCrash
  <2>1. /\ Len(shells') = Len(shells)
        /\ \A t \in 1 .. Len(shells) : shells'[t].pc \notin {"cat", "awk", "printf", "mv"}
    BY <1>1, <1>10, CrashChanges
  <2> QED
    BY <2>1
<1>11. CASE OperatorAdds \/ UNCHANGED vars
  <2>1. shells' = shells /\ awaited' = awaited
    BY <1>11 DEF OperatorAdds, vars
  <2> QED
    BY <1>1, <2>1
<1> QED
  BY <1>4, <1>6, <1>7, <1>8, <1>9, <1>10, <1>11 DEF Next

(* The file stays the operator's lines with one block, as long as nothing  *)
(* is recorded that puts a line of the operator at risk.                   *)
LEMMA FileKept == HbaInv /\ [Next]_vars /\ events' = {} => \E q, p, b : File(q, p, b)'
<1> SUFFICES ASSUME HbaInv, [Next]_vars, events' = {} PROVE \E q, p, b : File(q, p, b)'
  OBVIOUS
<1> DEFINE M(h, o, q, p, b) == Fits(q, p, b) /\ Mine(q, o) /\ h = Splice(q, p, b)
           R(t, z, q) == \A s \in 1 .. Len(z) : /\ z[s].pc = "printf" => t = q
                                                /\ z[s].pc = "mv" => t = q \o z[s].block
           D(z, a, b) == a # 0 /\ z[a].pc = "done" => b = RenderPgHba(z[a].list)
<1>1. TypeOK /\ Latest /\ Holding
  BY DEF HbaInv
<1>2. /\ Len(shells) \in Nat /\ DOMAIN shells = 1 .. Len(shells)
      /\ shells \in Seq(Shells) /\ awaited \in 0 .. Len(shells)
  BY <1>1, TypeParts
<1>3. events = {}
  BY
     DEF Next, Start, Cat, Awk, Printf, Mv, Returns, ConnectionLost, HostCrash,
         OperatorAdds, vars
<1>4. PICK q, p, b : File(q, p, b)
  BY <1>3 DEF HbaInv
<1>5. M(hba, opLines, q, p, b) /\ R(tmp, shells, q) /\ D(shells, awaited, b)
  BY <1>4 DEF File
<1>6. ASSUME NEW qq, NEW pp, NEW bb, M(hba', opLines', qq, pp, bb), R(tmp', shells', qq),
             D(shells', awaited', bb)
      PROVE  \E q_1, p_1, b_1 : File(q_1, p_1, b_1)'
  <2>1. File(qq, pp, bb)'
    BY <1>6 DEF File
  <2> QED
    BY <2>1
<1>7. /\ q \in Seq(Line) /\ Own(q) /\ Managed(b) /\ b \in Seq(Line)
      /\ p \in 0 .. Len(q) /\ Len(q) \in 0 .. Len(q)
  BY <1>5 DEF Fits, Own, Managed
<1>8. ASSUME NEW s \in 1 .. Len(shells), Active(s)
      PROVE  /\ \A t \in 1 .. Len(shells) : t # s => ~Active(t)
             /\ awaited # 0 => awaited = s
  BY <1>1, <1>3, <1>8 DEF Latest
<1>9. ASSUME NEW list \in Lists, Start(list) PROVE \E q_1, p_1, b_1 : File(q_1, p_1, b_1)'
  <2>1. /\ Len(shells') = Len(shells) + 1 /\ awaited' = Len(shells')
        /\ shells'[Len(shells')].pc = "cat"
        /\ \A t \in 1 .. Len(shells) : shells'[t] = shells[t]
    BY <1>1, <1>9, StartChanges
  <2>2. hba' = hba /\ opLines' = opLines /\ tmp' = tmp
    BY <1>9 DEF Start
  <2>3. R(tmp', shells', q)
    <3>1. ASSUME NEW s \in 1 .. Len(shells')
          PROVE  (s \in 1 .. Len(shells) /\ shells'[s] = shells[s]) \/ shells'[s].pc = "cat"
      BY <1>2, <2>1
    <3> QED
      BY <1>5, <2>2, <3>1
  <2>4. D(shells', awaited', b)
    BY <2>1
  <2> HIDE DEF R, D
  <2> QED
    BY <1>5, <1>6, <2>2, <2>3, <2>4
<1>10. ASSUME NEW s \in 1 .. Len(shells), NEW pc, NEW c, Changes(s, pc, c), Active(s),
              NEW bb,
              pc = "printf" => tmp' = q, pc = "mv" => tmp' = q \o c,
              awaited = s /\ pc = "done" => bb = RenderPgHba(shells[s].list),
              awaited' = awaited
       PROVE  R(tmp', shells', q) /\ D(shells', awaited', bb)
  <2>1. /\ Len(shells') = Len(shells)
        /\ shells'[s].pc = pc /\ shells'[s].list = shells[s].list /\ shells'[s].block = c
        /\ \A t \in 1 .. Len(shells) : t # s => shells'[t] = shells[t]
    BY <1>10 DEF Changes
  <2>2. /\ \A t \in 1 .. Len(shells) : t # s => ~Active(t)
        /\ awaited # 0 => awaited = s
    BY <1>8, <1>10
  <2>3. \A t \in 1 .. Len(shells) : t # s => shells'[t].pc # "printf" /\ shells'[t].pc # "mv"
    BY <2>1, <2>2 DEF Active
  <2>4. R(tmp', shells', q)
    <3> SUFFICES ASSUME NEW t \in 1 .. Len(shells)
                 PROVE  /\ shells'[t].pc = "printf" => tmp' = q
                        /\ shells'[t].pc = "mv" => tmp' = q \o shells'[t].block
      BY <2>1
    <3>1. CASE t = s
      BY <1>10, <2>1, <3>1
    <3>2. CASE t # s
      BY <2>3, <3>2
    <3> QED
      BY <3>1, <3>2
  <2>5. D(shells', awaited', bb)
    BY <1>10, <2>1, <2>2
  <2> QED
    BY <2>4, <2>5
<1>11. ASSUME NEW s \in 1 .. Len(shells), Cat(s)
       PROVE  \E q_1, p_1, b_1 : File(q_1, p_1, b_1)'
  <2>1. PICK n : Changes(s, "awk", SubSeq(RenderPgHba(shells[s].list), 1, n))
    BY <1>1, <1>11, StepChanges
  <2>2. UNCHANGED <<hba, tmp, awaited, opLines>> /\ Active(s)
    BY <1>11 DEF Cat, Active
  <2> DEFINE c == SubSeq(RenderPgHba(shells[s].list), 1, n)
  <2> HIDE DEF c, R, D, M
  <2>3. R(tmp', shells', q) /\ D(shells', awaited', b)
    <3>1. Changes(s, "awk", c) /\ awaited' = awaited
      BY <2>1, <2>2 DEF c
    <3> QED
      BY <1>10, <2>2, <3>1
  <2>4. M(hba', opLines', q, p, b)
    BY <1>5, <2>2 DEF M
  <2> QED
    BY <1>6, <2>3, <2>4
<1>12. ASSUME NEW s \in 1 .. Len(shells), Awk(s)
       PROVE  \E q_1, p_1, b_1 : File(q_1, p_1, b_1)'
  <2>1. Changes(s, "printf", shells[s].block)
    BY <1>1, <1>12, StepChanges
  <2>2. UNCHANGED <<hba, awaited, opLines>> /\ tmp' = Strip(hba) /\ Active(s)
    BY <1>12 DEF Awk, Active
  <2>3. tmp' = q
    BY <1>5, <2>2, StripSplice
  <2>4. M(hba', opLines', q, p, b)
    BY <1>5, <2>2
  <2> HIDE DEF R, D, M
  <2>5. R(tmp', shells', q) /\ D(shells', awaited', b)
    BY <1>10, <2>1, <2>2, <2>3
  <2> QED
    BY <1>6, <2>4, <2>5
<1>13. ASSUME NEW s \in 1 .. Len(shells), Printf(s)
       PROVE  \E q_1, p_1, b_1 : File(q_1, p_1, b_1)'
  <2>1. Changes(s, "mv", shells[s].block)
    BY <1>1, <1>13, StepChanges
  <2>2. /\ UNCHANGED <<hba, awaited, opLines>> /\ Active(s) /\ shells[s].pc = "printf"
        /\ tmp' = (IF tmp = Missing THEN <<>> ELSE tmp) \o shells[s].block
    BY <1>13 DEF Printf, Active
  <2>3. tmp = q /\ tmp # Missing
    BY <1>5, <1>7, <2>2, PgHbaAssumption
  <2>4. tmp' = q \o shells[s].block
    BY <2>2, <2>3
  <2>5. M(hba', opLines', q, p, b)
    BY <1>5, <2>2
  <2> DEFINE c == shells[s].block
  <2> HIDE DEF R, D, M, c
  <2>6. R(tmp', shells', q) /\ D(shells', awaited', b)
    <3>1. Changes(s, "mv", c) /\ Active(s) /\ tmp' = q \o c /\ awaited' = awaited
      BY <2>1, <2>2, <2>4 DEF c
    <3> QED
      BY <1>10, <3>1
  <2> QED
    BY <1>6, <2>5, <2>6
<1>14. ASSUME NEW s \in 1 .. Len(shells), Mv(s)
       PROVE  \E q_1, p_1, b_1 : File(q_1, p_1, b_1)'
  <2> DEFINE c == shells[s].block
  <2>1. shells[s].pc = "mv" /\ Active(s) /\ UNCHANGED <<awaited, opLines>>
    BY <1>14 DEF Mv, Active
  <2>2. tmp = q \o c /\ Managed(c) /\ c \in Seq(Line)
    BY <1>1, <1>5, <2>1 DEF Holding, Managed
  <2>3. awaited = s => c = RenderPgHba(shells[s].list)
    BY <1>1, <2>1 DEF Holding
  <2> HIDE DEF c
  <2>4. tmp # Missing
    <3>1. q \o c \in Seq(Line)
      BY <1>7, <2>2
    <3> QED
      BY <2>2, <3>1, PgHbaAssumption
  <2>5. Changes(s, "done", <<>>) /\ hba' = q \o c
    <3>1. Changes(s, IF tmp = Missing THEN "failed" ELSE "done", <<>>)
      BY <1>1, <1>14, StepChanges
    <3>2. hba' = tmp
      BY <1>14, <2>4 DEF Mv
    <3> QED
      BY <2>2, <2>4, <3>1, <3>2
  <2>6. hba' = Splice(q, Len(q), c)
    BY <1>7, <2>2, <2>5, SpliceAtEnd
  <2>7. Fits(q, Len(q), c)
    BY <1>7, <2>2 DEF Fits
  <2>8. M(hba', opLines', q, Len(q), c)
    BY <1>5, <2>1, <2>6, <2>7
  <2> HIDE DEF R, D, M
  <2>9. R(tmp', shells', q) /\ D(shells', awaited', c)
    <3>1. awaited' = awaited
      BY <2>1
    <3> QED
      BY <1>10, <2>1, <2>3, <2>5, <3>1
  <2> QED
    BY <1>6, <2>8, <2>9
<1>15. CASE Returns \/ ConnectionLost
  <2>1. UNCHANGED <<hba, tmp, shells, opLines>> /\ awaited' = 0
    BY <1>15 DEF Returns, ConnectionLost
  <2>2. M(hba', opLines', q, p, b) /\ R(tmp', shells', q) /\ D(shells', awaited', b)
    BY <1>5, <2>1
  <2> HIDE DEF R, D, M
  <2> QED
    BY <1>6, <2>2
<1>16. CASE HostCrash
  <2>1. UNCHANGED <<hba, tmp, opLines>>
    BY <1>16 DEF HostCrash
  <2>2. /\ Len(shells') = Len(shells) /\ awaited' = 0
        /\ \A t \in 1 .. Len(shells) : shells'[t].pc \notin {"cat", "awk", "printf", "mv"}
    BY <1>1, <1>16, CrashChanges
  <2>3. R(tmp', shells', q) /\ D(shells', awaited', b)
    BY <2>2
  <2>4. M(hba', opLines', q, p, b)
    BY <1>5, <2>1
  <2> HIDE DEF R, D, M
  <2> QED
    BY <1>6, <2>3, <2>4
<1>17. CASE OperatorAdds
  <2> DEFINE x == OpLine(opLines + 1)
  <2>1. /\ UNCHANGED <<tmp, shells, awaited>> /\ opLines' = opLines + 1
        /\ hba' \in {<<x>> \o hba, hba \o <<x>>}
    BY <1>17 DEF OperatorAdds
  <2>2. ~Unterminated(hba) /\ \A s \in 1 .. Len(shells) : shells[s].pc \notin {"printf", "mv"}
    BY <1>2, <1>17 DEF OperatorAdds
  <2>3. opLines \in Nat /\ opLines + 1 \in 0 .. MaxEdits
    <3>1. opLines \in 0 .. MaxEdits /\ opLines < MaxEdits /\ MaxEdits \in Nat
      BY <1>1, <1>17, PgHbaAssumption DEF OperatorAdds, TypeOK
    <3> QED
      BY <3>1
  <2>4. /\ Own(<<x>> \o q) /\ Mine(<<x>> \o q, opLines + 1) /\ Len(<<x>> \o q) = Len(q) + 1
        /\ Own(q \o <<x>>) /\ Mine(q \o <<x>>, opLines + 1) /\ Len(q \o <<x>>) = Len(q) + 1
    BY <1>5, <1>7, <2>3, MineAdds
  <2>5. x \in Line
    BY <2>3, OpLines
  <2> HIDE DEF x
  <2>6. Len(q) \in Nat /\ p \in Nat /\ p <= Len(q)
    BY <1>7
  <2>7. ASSUME NEW qq PROVE R(tmp', shells', qq)
    BY <2>1, <2>2
  <2>8. D(shells', awaited', b)
    BY <1>5, <2>1
  <2>9. Whole(b) \/ b = <<>>
    BY <1>5, <2>2, SpliceBlocks
  <2>10. CASE hba' = <<x>> \o hba
    <3>1. hba' = Splice(<<x>> \o q, p + 1, b)
      BY <1>5, <1>7, <2>5, <2>10, SpliceInFront
    <3>2. p + 1 \in 0 .. Len(q) + 1
      BY <2>6
    <3>3. Fits(<<x>> \o q, p + 1, b)
      BY <1>7, <2>4, <2>9, <3>2 DEF Fits
    <3>4. M(hba', opLines', <<x>> \o q, p + 1, b)
      BY <2>1, <2>4, <3>1, <3>3
    <3> HIDE DEF R, D, M
    <3> QED
      BY <1>6, <2>7, <2>8, <3>4
  <2>11. CASE hba' = hba \o <<x>>
    <3>1. hba' = Splice(q \o <<x>>, p, b)
      BY <1>5, <1>7, <2>5, <2>11, SpliceBehind
    <3>2. p \in 0 .. Len(q) + 1
      BY <2>6
    <3>3. Fits(q \o <<x>>, p, b)
      BY <1>7, <2>4, <2>9, <3>2 DEF Fits
    <3>4. M(hba', opLines', q \o <<x>>, p, b)
      BY <2>1, <2>4, <3>1, <3>3
    <3> HIDE DEF R, D, M
    <3> QED
      BY <1>6, <2>7, <2>8, <3>4
  <2> QED
    BY <2>1, <2>10, <2>11
<1>18. CASE UNCHANGED vars
  <2>1. M(hba', opLines', q, p, b) /\ R(tmp', shells', q) /\ D(shells', awaited', b)
    BY <1>5, <1>18 DEF vars
  <2> HIDE DEF R, D, M
  <2> QED
    BY <1>6, <2>1
<1> QED
  BY <1>2, <1>9, <1>11, <1>12, <1>13, <1>14, <1>15, <1>16, <1>17, <1>18 DEF Next

(* The invariant holds in every reachable state. *)
LEMMA HbaInvariant == Spec => []HbaInv
<1>1. HbaInv /\ [Next]_vars => HbaInv'
  <2> SUFFICES ASSUME HbaInv, [Next]_vars PROVE HbaInv'
    OBVIOUS
  <2>1. TypeOK' /\ Latest' /\ Holding'
    BY NextTypes, LatestKept, HoldingKept DEF HbaInv
  <2>2. events' = {} => \E q, p, b : File(q, p, b)'
    BY FileKept
  <2> QED
    BY <2>1, <2>2 DEF HbaInv
<1> QED
  BY <1>1, InitHba, PTL DEF Spec

(* Executions that never overlap leave every line of the operator in       *)
(* pg_hba.conf exactly once (the awk, printf and mv of the command).       *)
THEOREM PgHbaOperatorLinesKept == Spec => []OperatorLinesKept
<1>1. HbaInv => OperatorLinesKept
  <2> SUFFICES ASSUME HbaInv, events = {}, NEW n \in 0 .. opLines
               PROVE  Cardinality({i \in DOMAIN hba : hba[i] = OpLine(n)}) = 1
    BY DEF OperatorLinesKept
  <2>1. PICK q, p, b : Fits(q, p, b) /\ Mine(q, opLines) /\ hba = Splice(q, p, b)
    BY DEF HbaInv, File
  <2>2. opLines \in 0 .. MaxEdits
    BY DEF HbaInv, TypeOK
  <2> QED
    BY <2>1, <2>2, SpliceKeeps
<1> QED
  BY <1>1, HbaInvariant, PTL

(* Nor does the file ever hold two managed blocks. *)
THEOREM PgHbaAtMostOneBlock == Spec => []AtMostOneBlock
<1>1. HbaInv => AtMostOneBlock
  <2> SUFFICES ASSUME HbaInv, events = {} PROVE Blocks(hba) <= 1
    BY DEF AtMostOneBlock
  <2>1. PICK q, p, b : Fits(q, p, b) /\ hba = Splice(q, p, b)
    BY DEF HbaInv, File
  <2> QED
    BY <2>1, SpliceBlocks
<1> QED
  BY <1>1, HbaInvariant, PTL

(* A command the provider sees succeed has put the declared list where     *)
(* ParseHBABlock reads it back, whatever was cut short before it.          *)
THEOREM PgHbaSuccessIsReadBack == Spec => SuccessIsReadBack
<1> DEFINE A == awaited # 0 /\ awaited' = 0 /\ shells[awaited].pc = "done" /\ events = {} =>
                  ParseHBABlock(hba) = shells[awaited].list
<1>1. HbaInv => A
  <2> SUFFICES ASSUME HbaInv, awaited # 0, shells[awaited].pc = "done", events = {}
               PROVE  ParseHBABlock(hba) = shells[awaited].list
    OBVIOUS
  <2>1. PICK q, p, b : File(q, p, b)
    BY DEF HbaInv
  <2>2. /\ Own(q) /\ p \in 0 .. Len(q)
        /\ hba = Splice(q, p, RenderPgHba(shells[awaited].list))
    BY <2>1 DEF File, Fits
  <2>3. shells[awaited].list \in Lists
    <3>1. shells \in Seq(Shells) /\ awaited \in 1 .. Len(shells)
      BY TypeParts DEF HbaInv
    <3>2. shells[awaited] \in Shells
      BY <3>1
    <3> QED
      BY <3>2, ShellTypes
  <2> QED
    BY <2>2, <2>3, ParseSplice
<1>2. HbaInv /\ [Next]_vars => [A]_vars
  BY <1>1
<1> QED
  BY <1>2, HbaInvariant, PTL DEF Spec, SuccessIsReadBack
=============================================================================
