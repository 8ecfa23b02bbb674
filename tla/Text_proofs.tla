---------------------------- MODULE Text_proofs ----------------------------
(***************************************************************************)
(* Theorems about NoteText and Linking: what their recursive functions     *)
(* compute for every text and sentence.  The library states induction and  *)
(* recursion for operators, which the provers cannot instantiate; here     *)
(* they are stated for sets and functions, and every recursive function    *)
(* is first shown to satisfy its equation.                                 *)
(***************************************************************************)
EXTENDS NoteText, Linking, Integers, SequenceTheorems, FiniteSetTheorems,
        WellFoundedInduction, TLAPS

----------------------------------------------------------------------------
(* Induction and recursion *)

\* A nonempty set of natural numbers has a least element.
LEMMA LeastNat ==
    ASSUME NEW T, T \subseteq Nat, T # {}
    PROVE  \E x \in T : \A y \in T : x <= y
<1>. DEFINE R == OpToRel(<, Nat)
<1>1. \A x, y \in Nat : y < x => <<y, x>> \in R
  BY DEF OpToRel
<1>2. IsWellFoundedOn(R, Nat)
  BY NatLessThanWellFounded
<1>. HIDE DEF R
<1>3. PICK x \in T : \A y \in T : ~ (<<y, x>> \in R)
  BY <1>2, WFMin
<1>4. ASSUME NEW y \in T, ~(x <= y) PROVE FALSE
  <2>1. y < x
    BY <1>4
  <2>. QED  BY <1>1, <1>3, <2>1
<1>. QED  BY <1>4

\* One of natural numbers that are bounded has a greatest one.
LEMMA GreatestNat ==
    ASSUME NEW T, NEW n \in Nat, T \subseteq 0..n, T # {}
    PROVE  \E x \in T : \A y \in T : y <= x
<1>. DEFINE U == {n - y : y \in T}
<1>1. U \subseteq Nat /\ U # {}
  <2>1. \A y \in T : n - y \in Nat
    OBVIOUS
  <2>2. PICK y \in T : TRUE
    OBVIOUS
  <2>3. n - y \in U
    OBVIOUS
  <2>. QED  BY <2>1, <2>3
<1>2. PICK u \in U : \A v \in U : u <= v
  <2>. HIDE DEF U
  <2>1. \E u \in U : \A v \in U : u <= v
    BY <1>1, LeastNat
  <2>. QED  BY <2>1
<1>3. PICK x \in T : u = n - x
  OBVIOUS
<1>4. ASSUME NEW y \in T PROVE y <= x
  <2>1. n - x <= n - y
    BY <1>2, <1>3
  <2>2. x \in Nat /\ y \in Nat
    OBVIOUS
  <2>. HIDE DEF U
  <2>. QED  BY <2>1, <2>2
<1>. QED  BY <1>4

\* Induction from 0 up to n.
LEMMA Upward ==
    ASSUME NEW S, NEW n \in Nat, 0 \in S, \A i \in 0..(n - 1) : i \in S => i + 1 \in S
    PROVE  \A i \in 0..n : i \in S
<1>. DEFINE T == {i \in 0..n : i \notin S}
<1>. SUFFICES ASSUME T # {} PROVE FALSE
  OBVIOUS
<1>1. PICK x \in T : \A y \in T : x <= y
  <2>1. T \subseteq Nat
    OBVIOUS
  <2>. HIDE DEF T
  <2>. QED  BY <2>1, LeastNat
<1>2. x # 0 /\ x \in 0..n /\ x \notin S
  OBVIOUS
<1>3. x - 1 \in 0..(n - 1) /\ x - 1 \notin T
  BY <1>1, <1>2
<1>4. x - 1 \in S
  BY <1>3
<1>5. (x - 1) + 1 = x
  BY <1>2
<1>. QED  BY <1>2, <1>3, <1>4, <1>5

\* Induction from n down to m, each number from all the greater ones.
LEMMA Downward ==
    ASSUME NEW S, NEW m \in Nat, NEW n \in Nat,
           \A i \in m..n : (\A j \in (i + 1)..n : j \in S) => i \in S
    PROVE  \A i \in m..n : i \in S
<1>. DEFINE T == {i \in m..n : i \notin S}
<1>. SUFFICES ASSUME T # {} PROVE FALSE
  OBVIOUS
<1>1. PICK x \in T : \A y \in T : y <= x
  <2>1. T \subseteq 0..n
    OBVIOUS
  <2>. HIDE DEF T
  <2>. QED  BY <2>1, GreatestNat
<1>2. ASSUME NEW j \in (x + 1)..n PROVE j \in S
  <2>1. j \notin T /\ j \in m..n
    BY <1>1
  <2>. QED  BY <2>1
<1>. QED  BY <1>2

\* Functions each value of which gives the next one, by g, from a on.
Steps(A, n) == [1..n -> [A -> A]]
Iterations(A, a, n, g) ==
    {f \in [0..n -> A] : f[0] = a /\ \A i \in 1..n : f[i] = g[i][f[i - 1]]}

\* There is such a function.
LEMMA UpRecursion ==
    ASSUME NEW A, NEW a \in A, NEW n \in Nat, NEW g \in Steps(A, n)
    PROVE  \E f : f \in Iterations(A, a, n, g)
<1>. USE DEF Steps, Iterations
<1>. DEFINE Ok(f, m) == f[0] = a /\ \A i \in 1..m : f[i] = g[i][f[i - 1]]
            S == {m \in 0..n : \E f \in [0..m -> A] : Ok(f, m)}
<1>1. 0 \in S
  <2>. DEFINE f == [i \in 0..0 |-> a]
  <2>1. f \in [0..0 -> A] /\ Ok(f, 0)
    OBVIOUS
  <2>. HIDE DEF f, Ok
  <2>. QED  BY <2>1
<1>2. ASSUME NEW m \in 0..(n - 1), m \in S PROVE m + 1 \in S
  <2>1. PICK f \in [0..m -> A] : Ok(f, m)
    BY <1>2
  <2>. DEFINE h == [i \in 0..(m + 1) |-> IF i = m + 1 THEN g[m + 1][f[m]] ELSE f[i]]
  <2>2. m + 1 \in 1..n /\ f[m] \in A
    OBVIOUS
  <2>3. g[m + 1] \in [A -> A]
    BY <2>2
  <2>4. h \in [0..(m + 1) -> A]
    BY <2>2, <2>3
  <2>5. \A i \in 0..m : h[i] = f[i]
    OBVIOUS
  <2>6. ASSUME NEW i \in 1..(m + 1) PROVE h[i] = g[i][h[i - 1]]
    <3>1. CASE i = m + 1
      <4>1. h[i - 1] = f[m] /\ i - 1 = m
        BY <3>1
      <4>. QED  BY <3>1, <4>1
    <3>2. CASE i # m + 1
      <4>1. i \in 1..m /\ i \in 0..m /\ i - 1 \in 0..m
        BY <3>2
      <4>2. f[i] = g[i][f[i - 1]]
        BY <2>1, <4>1
      <4>. HIDE DEF h
      <4>. QED  BY <4>1, <4>2, <2>5
    <3>. QED  BY <3>1, <3>2
  <2>7. h[0] = a
    BY <2>1
  <2>8. Ok(h, m + 1)
    BY <2>6, <2>7
  <2>. HIDE DEF h, Ok
  <2>. QED  BY <2>2, <2>4, <2>8
<1>3. n \in S
  <2>1. \A m \in 0..(n - 1) : m \in S => m + 1 \in S
    BY <1>2
  <2>. HIDE DEF S
  <2>2. \A m \in 0..n : m \in S
    BY <1>1, <2>1, Upward
  <2>. QED  BY <2>2
<1>. QED  BY <1>3

\* Equations that give each value of a function, and the functions that solve them.
Equations(A, m, n) == [m..n -> [[m..n -> A] -> A]]
Solutions(A, m, n) == [m..n -> A]
Solves(f, g, m, n) == \A i \in m..n : f[i] = g[i][f]

\* What g says of a function at i depends on its values at greater arguments.
DependsAbove(g, A, m, n) ==
    \A i \in m..n : \A f, h \in [m..n -> A] :
        (\A j \in (i + 1)..n : f[j] = h[j]) => g[i][f] = g[i][h]

\* A function each of whose values depends on those at greater arguments.
LEMMA DownRecursion ==
    ASSUME NEW A, NEW a \in A, NEW m \in Nat, NEW n \in Nat,
           NEW g \in Equations(A, m, n), DependsAbove(g, A, m, n)
    PROVE  \E f \in Solutions(A, m, n) : Solves(f, g, m, n)
<1>. USE DEF Equations, Solutions
<1>. DEFINE Ok(f, i) == \A j \in m..n : j >= i => f[j] = g[j][f]
            S == {i \in m..(n + 1) : \E f \in [m..n -> A] : Ok(f, i)}
<1>1. m <= n + 1 => n + 1 \in S
  <2>. DEFINE f == [i \in m..n |-> a]
  <2>1. f \in [m..n -> A] /\ Ok(f, n + 1)
    OBVIOUS
  <2>. HIDE DEF f, Ok
  <2>. QED  BY <2>1
<1>2. ASSUME NEW i \in m..n, i + 1 \in S PROVE i \in S
  <2>1. PICK f \in [m..n -> A] : Ok(f, i + 1)
    BY <1>2
  <2>. DEFINE h == [f EXCEPT ![i] = g[i][f]]
  <2>2. g[i] \in [[m..n -> A] -> A]
    OBVIOUS
  <2>3. h \in [m..n -> A] /\ h[i] = g[i][f] /\ \A j \in m..n : j # i => h[j] = f[j]
    BY <2>2
  <2>. HIDE DEF h
  <2>4. ASSUME NEW j \in m..n, j >= i PROVE h[j] = g[j][h]
    <3>1. \A k \in (j + 1)..n : f[k] = h[k]
      BY <2>3, <2>4
    <3>2. g[j][f] = g[j][h]
      BY <2>3, <3>1 DEF DependsAbove
    <3>3. CASE j = i
      BY <2>3, <3>2, <3>3
    <3>4. CASE j # i
      <4>1. f[j] = g[j][f]
        BY <2>1, <2>4, <3>4
      <4>. QED  BY <2>3, <3>2, <3>4, <4>1
    <3>. QED  BY <3>3, <3>4
  <2>5. Ok(h, i)
    BY <2>4
  <2>. HIDE DEF Ok
  <2>. QED  BY <2>3, <2>5
<1>3. CASE m <= n
  <2>. DEFINE U == {i \in m..(n + 1) : i \in S}
  <2>1. \A i \in m..(n + 1) : (\A j \in (i + 1)..(n + 1) : j \in S) => i \in S
    <3>. SUFFICES ASSUME NEW i \in m..(n + 1), \A j \in (i + 1)..(n + 1) : j \in S
                  PROVE  i \in S
      OBVIOUS
    <3>. HIDE DEF S
    <3>1. CASE i = n + 1
      BY <1>1, <3>1
    <3>2. CASE i # n + 1
      <4>1. i \in m..n /\ i + 1 \in S
        BY <3>2
      <4>. QED  BY <1>2, <4>1
    <3>. QED  BY <3>1, <3>2
  <2>2. m \in m..(n + 1) /\ n + 1 \in Nat
    BY <1>3
  <2>3. m \in S
    <3>. HIDE DEF S
    <3>. QED  BY <2>1, <2>2, Downward
  <2>4. PICK f \in [m..n -> A] : Ok(f, m)
    BY <2>3
  <2>5. Solves(f, g, m, n)
    BY <2>4 DEF Solves
  <2>. QED  BY <2>5
<1>4. CASE ~(m <= n)
  <2>1. m..n = {}
    BY <1>4
  <2>. DEFINE f == [i \in m..n |-> a]
  <2>2. f \in [m..n -> A]
    OBVIOUS
  <2>3. Solves(f, g, m, n)
    BY <2>1 DEF Solves
  <2>. QED  BY <2>2, <2>3
<1>. QED  BY <1>3, <1>4

\* What holds of the first value and is handed on holds of every value.
LEMMA UpType ==
    ASSUME NEW A, NEW n \in Nat, NEW F, F[0] \in A,
           \A i \in 1..n : F[i - 1] \in A => F[i] \in A
    PROVE  \A i \in 0..n : F[i] \in A
<1>. DEFINE S == {i \in 0..n : F[i] \in A}
<1>1. 0 \in S
  OBVIOUS
<1>2. ASSUME NEW i \in 0..(n - 1), i \in S PROVE i + 1 \in S
  <2>1. i + 1 \in 1..n /\ (i + 1) - 1 = i
    OBVIOUS
  <2>. QED  BY <1>2, <2>1
<1>3. \A i \in 0..n : i \in S
  <2>. HIDE DEF S
  <2>. QED  BY <1>1, <1>2, Upward
<1>. QED  BY <1>3

----------------------------------------------------------------------------
(* Picked *)

PickedNext(s, I, f, i) == IF i \in I THEN Append(f[i - 1], s[i]) ELSE f[i - 1]

LEMMA PickedDef ==
    ASSUME NEW X, NEW s \in Seq(X), NEW I
    PROVE  /\ PickedUpTo(s, I)[0] = <<>>
           /\ \A i \in 1..Len(s) : PickedUpTo(s, I)[i] = PickedNext(s, I, PickedUpTo(s, I), i)
<1>. DEFINE A == Seq(X)
            Eq(f) == f = [i \in 0..Len(s) |-> IF i = 0 THEN <<>> ELSE IF i \in I THEN Append(f[i - 1], s[i]) ELSE f[i - 1]]
<1>1. <<>> \in A /\ Len(s) \in Nat
  OBVIOUS
<1>2. PICK n \in Nat, a \in A : n = Len(s) /\ a = <<>>
  BY <1>1
<1>. DEFINE g == [i \in 1..n |-> [acc \in A |-> IF i \in I THEN Append(acc, s[i]) ELSE acc]]
<1>3. g \in Steps(A, n)
  BY <1>2 DEF Steps
<1>4. PICK f : f \in Iterations(A, a, n, g)
  <2>. HIDE DEF g, A
  <2>. QED  BY <1>3, UpRecursion
<1>b. f \in [0..n -> A] /\ f[0] = a /\ \A i \in 1..n : f[i] = g[i][f[i - 1]]
  BY <1>4 DEF Iterations
<1>5. Eq(f)
  <2>. SUFFICES ASSUME NEW i \in 0..n PROVE f[i] = IF i = 0 THEN a ELSE IF i \in I THEN Append(f[i - 1], s[i]) ELSE f[i - 1]
    BY <1>2, <1>b
  <2>1. i # 0 => i \in 1..n /\ f[i - 1] \in A
    BY <1>b
  <2>2. i # 0 => f[i] = g[i][f[i - 1]]
    BY <1>b, <2>1
  <2>. QED  BY <1>b, <2>1, <2>2
<1>. DEFINE F == CHOOSE h : Eq(h)
<1>6. Eq(F)
  <2>. HIDE DEF Eq
  <2>. QED  BY <1>5
<1>7. PickedUpTo(s, I) = F
  BY DEF PickedUpTo
<1>8. Eq(PickedUpTo(s, I))
  <2>. HIDE DEF F, Eq
  <2>. QED  BY <1>6, <1>7
<1>9. 0 \in 0..Len(s) /\ \A i \in 1..Len(s) : i \in 0..Len(s) /\ i # 0
  OBVIOUS
<1>. QED  BY <1>8, <1>9 DEF PickedNext

\* The elements of v are those of s at the positions in I.
IsPick(v, s, I) ==
    /\ \A k \in 1..Len(v) : \E i \in 1..Len(s) : i \in I /\ v[k] = s[i]
    /\ \A i \in 1..Len(s) : i \in I => \E k \in 1..Len(v) : v[k] = s[i]

\* What is picked are the elements at these positions, each of them, and nothing else.
LEMMA PickedElements ==
    ASSUME NEW X, NEW s \in Seq(X), NEW I
    PROVE  Picked(s, I) \in Seq(X) /\ IsPick(Picked(s, I), s, I)
<1>. DEFINE F == PickedUpTo(s, I)
            From(p, m) == \A k \in 1..Len(p) : \E i \in 1..m : i \in I /\ p[k] = s[i]
            All(p, m) == \A i \in 1..m : i \in I => \E k \in 1..Len(p) : p[k] = s[i]
            S == {m \in 0..Len(s) : F[m] \in Seq(X) /\ From(F[m], m) /\ All(F[m], m)}
<1>0. Len(s) \in Nat
  OBVIOUS
<1>1. 0 \in S
  <2>1. F[0] = <<>> /\ Len(<<>>) = 0 /\ <<>> \in Seq(X)
    BY PickedDef
  <2>. HIDE DEF F
  <2>2. From(F[0], 0) /\ All(F[0], 0)
    BY <2>1
  <2>3. 0 \in 0..Len(s) /\ F[0] \in Seq(X)
    BY <1>0, <2>1
  <2>. HIDE DEF From, All
  <2>. QED  BY <2>2, <2>3
<1>2. ASSUME NEW m \in 0..(Len(s) - 1), m \in S PROVE m + 1 \in S
  <2>. DEFINE p == F[m]
              q == F[m + 1]
              j == m + 1
  <2>0. j \in 1..Len(s) /\ j - 1 = m /\ s[j] \in X
    BY <1>0
  <2>1. q = IF j \in I THEN Append(p, s[j]) ELSE p
    BY <2>0, PickedDef DEF PickedNext
  <2>2. p \in Seq(X) /\ From(p, m) /\ All(p, m) /\ Len(p) \in Nat
    BY <1>2
  <2>. HIDE DEF p, q, F
  <2>3. ASSUME j \notin I PROVE q \in Seq(X) /\ From(q, j) /\ All(q, j)
    <3>1. q = p
      BY <2>1, <2>3
    <3>2. From(q, j)
      BY <2>0, <2>2, <3>1
    <3>3. All(q, j)
      <4>. SUFFICES ASSUME NEW i \in 1..j, i \in I PROVE \E k \in 1..Len(q) : q[k] = s[i]
        OBVIOUS
      <4>1. i \in 1..m
        BY <2>0, <2>3
      <4>. QED  BY <2>2, <3>1, <4>1
    <3>. QED  BY <2>2, <3>1, <3>2, <3>3
  <2>4. ASSUME j \in I PROVE q \in Seq(X) /\ From(q, j) /\ All(q, j)
    <3>1. /\ q \in Seq(X) /\ Len(q) = Len(p) + 1 /\ q[Len(p) + 1] = s[j]
          /\ \A k \in 1..Len(p) : q[k] = p[k]
      BY <2>0, <2>1, <2>2, <2>4, AppendProperties
    <3>2. From(q, j)
      <4>. SUFFICES ASSUME NEW k \in 1..Len(q) PROVE \E i \in 1..j : i \in I /\ q[k] = s[i]
        OBVIOUS
      <4>1. CASE k = Len(p) + 1
        BY <2>0, <2>4, <3>1, <4>1
      <4>2. CASE k # Len(p) + 1
        <5>1. k \in 1..Len(p)
          BY <2>2, <3>1, <4>2
        <5>2. PICK i \in 1..m : i \in I /\ p[k] = s[i]
          BY <2>2, <5>1
        <5>. QED  BY <2>0, <3>1, <5>1, <5>2
      <4>. QED  BY <4>1, <4>2
    <3>3. All(q, j)
      <4>. SUFFICES ASSUME NEW i \in 1..j, i \in I PROVE \E k \in 1..Len(q) : q[k] = s[i]
        OBVIOUS
      <4>0. Len(p) + 1 \in 1..Len(q)
        BY <2>2, <3>1
      <4>1. CASE i = j
        BY <3>1, <4>0, <4>1
      <4>2. CASE i # j
        <5>1. i \in 1..m
          BY <2>0, <4>2
        <5>2. PICK k \in 1..Len(p) : p[k] = s[i]
          BY <2>2, <5>1
        <5>3. k \in 1..Len(q)
          BY <2>2, <3>1
        <5>. QED  BY <3>1, <5>2, <5>3
      <4>. QED  BY <4>1, <4>2
    <3>. QED  BY <3>1, <3>2, <3>3
  <2>5. q \in Seq(X) /\ From(q, j) /\ All(q, j)
    BY <2>3, <2>4
  <2>. HIDE DEF From, All
  <2>. QED  BY <1>0, <2>0, <2>5 DEF q
<1>3. Len(s) \in S
  <2>. PICK n \in Nat : n = Len(s)
    BY <1>0
  <2>. HIDE DEF S
  <2>1. \A m \in 0..n : m \in S
    BY <1>1, <1>2, Upward
  <2>. QED  BY <2>1
<1>. QED  BY <1>3 DEF Picked, IsPick

----------------------------------------------------------------------------
(* Blocks *)

LEMMA MinLeast ==
    ASSUME NEW S, S \subseteq Nat, S # {}
    PROVE  Min(S) \in S /\ \A x \in S : Min(S) <= x
<1>1. \E x \in S : \A y \in S : x <= y
  BY LeastNat
<1>. QED  BY <1>1 DEF Min

LEMMA MinIs ==
    ASSUME NEW S, S \subseteq Nat, NEW m \in S, \A x \in S : m <= x
    PROVE  Min(S) = m
<1>1. PICK n : n = Min(S)
  OBVIOUS
<1>2. n \in Nat /\ n <= m /\ m <= n
  BY <1>1, MinLeast
<1>. QED  BY <1>1, <1>2

LEMMA MaxGreatest ==
    ASSUME NEW S, NEW n \in Nat, S \subseteq 0..n, S # {}
    PROVE  Max(S) \in S /\ \A x \in S : x <= Max(S)
<1>1. \E x \in S : \A y \in S : y <= x
  BY GreatestNat
<1>2. \E x \in S : \A y \in S : x >= y
  <2>1. PICK x \in S : \A y \in S : y <= x
    BY <1>1
  <2>2. \A y \in S : x >= y
    BY <2>1
  <2>. QED  BY <2>2
<1>3. Max(S) \in S /\ \A x \in S : Max(S) >= x
  BY <1>2 DEF Max
<1>. QED  BY <1>3

\* A function on 1..n is a sequence.
LEMMA FunctionSeq ==
    ASSUME NEW S, NEW n \in Nat, NEW f \in [1..n -> S]
    PROVE  f \in Seq(S) /\ Len(f) = n
  OBVIOUS

Block == [kind : {"text", "table"}, from : Nat, to : Nat]
Window == [from : Nat, to : Nat]

\* A line a table may have.
Loose(text, k) == text[k].kind \in TabKinds \cup {"blank"}

\* A run of such lines ends before one that is none, or with the text.
LEMMA RunEndFacts ==
    ASSUME NEW X, NEW text \in Seq(X), NEW i \in 1..Len(text)
    PROVE  /\ RunEnd(text, i) \in i..(Len(text) + 1)
           /\ \A k \in i..(RunEnd(text, i) - 1) : Loose(text, k)
           /\ RunEnd(text, i) <= Len(text) => ~Loose(text, RunEnd(text, i))
<1>. DEFINE stops == {j \in i..Len(text) : text[j].kind \notin TabKinds \cup {"blank"}}
<1>0. Len(text) \in Nat
  OBVIOUS
<1>1. RunEnd(text, i) = IF stops = {} THEN Len(text) + 1 ELSE Min(stops)
  BY DEF RunEnd
<1>2. \A k \in i..Len(text) : k \notin stops => Loose(text, k)
  BY DEF Loose
<1>3. \A k \in stops : k \in i..Len(text) /\ ~Loose(text, k)
  BY DEF Loose
<1>4. CASE stops = {}
  BY <1>0, <1>1, <1>2, <1>4
<1>5. CASE stops # {}
  <2>1. Min(stops) \in stops /\ \A x \in stops : Min(stops) <= x
    <3>1. stops \subseteq Nat
      BY <1>0
    <3>. HIDE DEF stops
    <3>. QED  BY <1>5, <3>1, MinLeast
  <2>. HIDE DEF stops
  <2>2. ASSUME NEW k \in i..(Min(stops) - 1) PROVE Loose(text, k)
    <3>1. k \in i..Len(text) /\ k \notin stops
      BY <1>0, <1>3, <2>1
    <3>. QED  BY <1>2, <3>1
  <2>. QED  BY <1>0, <1>1, <1>3, <1>5, <2>1, <2>2
<1>. QED  BY <1>4, <1>5

BlocksNext(text, f, i) ==
    IF i > Len(text) THEN <<>>
    ELSE IF IsTableRun(text, i)
    THEN <<[kind |-> "table", from |-> i, to |-> RunEnd(text, i) - 1]>> \o f[RunEnd(text, i)]
    ELSE AddLine(i, f[i + 1])

LEMMA AddLineType ==
    ASSUME NEW i \in Nat, NEW B \in Seq(Block)
    PROVE  AddLine(i, B) \in Seq(Block)
<1>1. CASE B # <<>> /\ Head(B).kind = "text"
  <2>1. Head(B) \in Block /\ Tail(B) \in Seq(Block)
    BY <1>1
  <2>2. [Head(B) EXCEPT !.from = i] \in Block
    BY <2>1 DEF Block
  <2>3. <<[Head(B) EXCEPT !.from = i]>> \in Seq(Block)
    BY <2>2
  <2>. QED  BY <1>1, <2>1, <2>3, ConcatProperties DEF AddLine
<1>2. CASE ~(B # <<>> /\ Head(B).kind = "text")
  <2>1. [kind |-> "text", from |-> i, to |-> i] \in Block
    BY DEF Block
  <2>. QED  BY <1>2, <2>1, ConcatProperties DEF AddLine
<1>. QED  BY <1>1, <1>2

\* A table has three lines at least.
LEMMA TableRunLong ==
    ASSUME NEW X, NEW text \in Seq(X), NEW i \in 1..Len(text), IsTableRun(text, i)
    PROVE  RunEnd(text, i) \in (i + 3)..(Len(text) + 1)
  BY RunEndFacts DEF IsTableRun

LEMMA BlocksNextType ==
    ASSUME NEW X, NEW text \in Seq(X), NEW i \in 1..(Len(text) + 1),
           NEW f \in [1..(Len(text) + 1) -> Seq(Block)]
    PROVE  BlocksNext(text, f, i) \in Seq(Block)
<1>0. Len(text) \in Nat
  OBVIOUS
<1>1. CASE i > Len(text)
  BY <1>1 DEF BlocksNext
<1>2. CASE ~(i > Len(text)) /\ IsTableRun(text, i)
  <2>1. i \in 1..Len(text) /\ RunEnd(text, i) \in (i + 3)..(Len(text) + 1)
    BY <1>0, <1>2, TableRunLong
  <2>2. [kind |-> "table", from |-> i, to |-> RunEnd(text, i) - 1] \in Block
    BY <1>0, <2>1 DEF Block
  <2>3. f[RunEnd(text, i)] \in Seq(Block)
    BY <1>0, <2>1
  <2>. QED  BY <1>2, <2>2, <2>3, ConcatProperties DEF BlocksNext
<1>3. CASE ~(i > Len(text)) /\ ~IsTableRun(text, i)
  <2>1. i \in Nat /\ i + 1 \in 1..(Len(text) + 1)
    BY <1>0, <1>3
  <2>2. f[i + 1] \in Seq(Block)
    BY <2>1
  <2>. QED  BY <1>3, <2>1, <2>2, AddLineType DEF BlocksNext
<1>. QED  BY <1>1, <1>2, <1>3

LEMMA BlocksDef ==
    ASSUME NEW X, NEW text \in Seq(X)
    PROVE  \A i \in 1..(Len(text) + 1) :
               BlocksFrom(text)[i] = BlocksNext(text, BlocksFrom(text), i)
<1>. DEFINE A == Seq(Block)
            Eq(f) == f = [i \in 1..(Len(text) + 1) |->
                            IF i > Len(text) THEN <<>>
                            ELSE IF IsTableRun(text, i)
                            THEN <<[kind |-> "table", from |-> i, to |-> RunEnd(text, i) - 1]>>
                                 \o f[RunEnd(text, i)]
                            ELSE AddLine(i, f[i + 1])]
<1>1. <<>> \in A /\ Len(text) \in Nat
  OBVIOUS
<1>2. PICK n \in Nat : n = Len(text) + 1
  BY <1>1
<1>. DEFINE g == [i \in 1..n |-> [f \in [1..n -> A] |-> BlocksNext(text, f, i)]]
<1>3. g \in Equations(A, 1, n)
  BY <1>2, BlocksNextType DEF Equations
<1>4. ASSUME NEW i \in 1..n, NEW f \in [1..n -> A], NEW h \in [1..n -> A],
             \A j \in (i + 1)..n : f[j] = h[j]
      PROVE  g[i][f] = g[i][h]
  <2>1. ~(i > Len(text)) => i \in 1..Len(text) /\ i + 1 \in (i + 1)..n
    BY <1>1, <1>2
  <2>2. ~(i > Len(text)) /\ IsTableRun(text, i) => RunEnd(text, i) \in (i + 1)..n
    BY <1>1, <1>2, <2>1, TableRunLong
  <2>3. ~(i > Len(text)) => f[i + 1] = h[i + 1]
    BY <1>4, <2>1
  <2>4. ~(i > Len(text)) /\ IsTableRun(text, i) => f[RunEnd(text, i)] = h[RunEnd(text, i)]
    BY <1>4, <2>2
  <2>5. BlocksNext(text, f, i) = BlocksNext(text, h, i)
    BY <2>3, <2>4 DEF BlocksNext
  <2>. QED  BY <2>5
<1>5. PICK f \in Solutions(A, 1, n) : Solves(f, g, 1, n)
  <2>1. DependsAbove(g, A, 1, n)
    BY <1>4 DEF DependsAbove
  <2>2. PICK a \in A : TRUE
    BY <1>1
  <2>. HIDE DEF g, A
  <2>. QED  BY <1>3, <2>1, DownRecursion
<1>6. Eq(f)
  <2>1. f \in [1..n -> A] /\ \A i \in 1..n : f[i] = BlocksNext(text, f, i)
    BY <1>5 DEF Solutions, Solves
  <2>2. f = [i \in 1..(Len(text) + 1) |-> BlocksNext(text, f, i)]
    BY <1>2, <2>1
  <2>. QED  BY <2>2 DEF BlocksNext
<1>. DEFINE F == CHOOSE h : Eq(h)
<1>7. Eq(F)
  <2>. HIDE DEF Eq
  <2>. QED  BY <1>6
<1>8. BlocksFrom(text) = F
  BY DEF BlocksFrom
<1>9. Eq(BlocksFrom(text))
  <2>. HIDE DEF F, Eq
  <2>. QED  BY <1>7, <1>8
<1>. QED  BY <1>9 DEF BlocksNext

\* Blocks in order, of the lines i..n.
Ordered(B, i, n) ==
    /\ B \in Seq(Block)
    /\ \A k \in 1..Len(B) : i <= B[k].from /\ B[k].from <= B[k].to /\ B[k].to <= n
    /\ \A k, l \in 1..Len(B) : k < l => B[k].to < B[l].from

\* Some block of this kind has the lines p..q.
Holds(B, kind, p, q) ==
    \E k \in 1..Len(B) : B[k].kind = kind /\ B[k].from <= p /\ q <= B[k].to

\* C is B with line i, in front of the first block or in it.
Extended(C, B, i, n) ==
    /\ Ordered(C, i, n)
    /\ \A k \in 1..Len(B) : \E l \in 1..Len(C) :
           C[l].kind = B[k].kind /\ C[l].from <= B[k].from /\ C[l].to = B[k].to
    /\ 1 \in 1..Len(C) /\ C[1].kind = "text" /\ C[1].from = i /\ i <= C[1].to
    /\ B # <<>> /\ Head(B).kind = "text" => C[1].to = B[1].to

\* A line of prose goes to the block that follows it or makes one of its own.
LEMMA AddLineFacts ==
    ASSUME NEW n \in Nat, NEW i \in 1..n, NEW B, Ordered(B, i + 1, n)
    PROVE  /\ Ordered(AddLine(i, B), i, n)
           /\ \A kind : \A p, q \in Nat : Holds(B, kind, p, q) => Holds(AddLine(i, B), kind, p, q)
           /\ Holds(AddLine(i, B), "text", i, i)
           /\ \A q \in Nat : i + 1 <= q /\ Holds(B, "text", i + 1, q) => Holds(AddLine(i, B), "text", i, q)
<1>. DEFINE C == AddLine(i, B)
<1>0. B \in Seq(Block) /\ Len(B) \in Nat /\ \A k \in 1..Len(B) : B[k] \in Block
  BY DEF Ordered
<1>1. C \in Seq(Block)
  BY <1>0, AddLineType
<1>2. ASSUME B # <<>> /\ Head(B).kind = "text" PROVE Extended(C, B, i, n)
  <2>1. Head(B) = B[1] /\ 1 \in 1..Len(B)
    BY <1>0, <1>2
  <2>. DEFINE b == [B[1] EXCEPT !.from = i]
  <2>2. b \in Block /\ b.from = i /\ b.to = B[1].to /\ b.kind = "text" /\ B[1].kind = "text"
    <3>1. B[1] \in Block /\ B[1].kind = "text" /\ i \in Nat
      BY <1>0, <1>2, <2>1
    <3>. QED  BY <3>1 DEF Block
  <2>3. C = <<b>> \o Tail(B)
    BY <1>2, <2>1 DEF AddLine
  <2>. HIDE DEF b, C
  <2>4. /\ Len(C) = Len(B) /\ C[1] = b
        /\ \A k \in 1..Len(B) : k # 1 => C[k] = B[k]
    <3>1. /\ Tail(B) \in Seq(Block) /\ Len(Tail(B)) = Len(B) - 1
          /\ \A k \in 1..Len(Tail(B)) : Tail(B)[k] = B[k + 1]
      BY <1>0, <1>2, HeadTailProperties
    <3>2. <<b>> \in Seq(Block) /\ Len(<<b>>) = 1 /\ <<b>>[1] = b
      BY <2>2
    <3>3. /\ Len(C) = 1 + Len(Tail(B))
          /\ \A k \in 1..(1 + Len(Tail(B))) : C[k] = IF k <= 1 THEN <<b>>[k] ELSE Tail(B)[k - 1]
      BY <2>3, <3>1, <3>2, ConcatProperties
    <3>4. Len(C) = Len(B)
      BY <1>0, <3>1, <3>3
    <3>5. C[1] = b
      BY <1>0, <3>1, <3>2, <3>3
    <3>6. ASSUME NEW k \in 1..Len(B), k # 1 PROVE C[k] = B[k]
      <4>1. k \in 1..(1 + Len(Tail(B))) /\ ~(k <= 1) /\ k - 1 \in 1..Len(Tail(B)) /\ (k - 1) + 1 = k
        BY <1>0, <3>1, <3>6
      <4>. QED  BY <3>1, <3>3, <4>1
    <3>. QED  BY <3>4, <3>5, <3>6
  <2>5. i <= B[1].from /\ i + 1 <= B[1].from /\ B[1].from <= B[1].to /\ B[1].to <= n
    BY <2>1, <1>0 DEF Ordered, Block
  <2>6. Ordered(C, i, n)
    <3>1. ASSUME NEW k \in 1..Len(C)
          PROVE  i <= C[k].from /\ C[k].from <= C[k].to /\ C[k].to <= n
      BY <1>0, <2>2, <2>4, <2>5 DEF Ordered, Block
    <3>2. ASSUME NEW k \in 1..Len(C), NEW l \in 1..Len(C), k < l PROVE C[k].to < C[l].from
      BY <1>0, <2>2, <2>4, <3>2 DEF Ordered
    <3>. QED  BY <1>1, <3>1, <3>2 DEF Ordered, C
  <2>7. ASSUME NEW k \in 1..Len(B)
        PROVE  C[k].kind = B[k].kind /\ C[k].from <= B[k].from /\ C[k].to = B[k].to
    <3>1. B[k].from \in Nat /\ i \in Nat
      BY <1>0 DEF Block
    <3>2. CASE k = 1
      BY <2>2, <2>4, <2>5, <3>1, <3>2
    <3>3. CASE k # 1
      BY <2>4, <3>1, <3>3
    <3>. QED  BY <3>2, <3>3
  <2>8. /\ 1 \in 1..Len(C) /\ C[1].kind = "text" /\ C[1].from = i /\ i <= C[1].to
        /\ C[1].to = B[1].to
    <3>1. B[1].to \in Nat /\ B[1].from \in Nat /\ i \in Nat
      BY <1>0, <2>1 DEF Block
    <3>. QED  BY <2>1, <2>2, <2>4, <2>5, <3>1
  <2>. QED  BY <2>4, <2>6, <2>7, <2>8 DEF Extended
<1>3. ASSUME ~(B # <<>> /\ Head(B).kind = "text") PROVE Extended(C, B, i, n)
  <2>. DEFINE b == [kind |-> "text", from |-> i, to |-> i]
  <2>1. b \in Block /\ b.from = i /\ b.to = i /\ b.kind = "text"
    BY DEF Block
  <2>2. C = <<b>> \o B
    BY <1>3 DEF AddLine
  <2>. HIDE DEF b, C
  <2>3. Len(C) = Len(B) + 1 /\ C[1] = b /\ \A k \in 1..Len(B) : C[k + 1] = B[k]
    <3>1. <<b>> \in Seq(Block) /\ Len(<<b>>) = 1 /\ <<b>>[1] = b
      BY <2>1
    <3>2. /\ Len(C) = 1 + Len(B)
          /\ \A k \in 1..(1 + Len(B)) : C[k] = IF k <= 1 THEN <<b>>[k] ELSE B[k - 1]
      BY <2>2, <3>1, <1>0, ConcatProperties
    <3>3. ASSUME NEW k \in 1..Len(B) PROVE C[k + 1] = B[k]
      <4>1. k + 1 \in 1..(1 + Len(B)) /\ ~(k + 1 <= 1) /\ (k + 1) - 1 = k
        BY <1>0
      <4>. QED  BY <3>2, <4>1
    <3>. QED  BY <1>0, <3>1, <3>2, <3>3
  <2>4. ASSUME NEW k \in 1..Len(C) PROVE k = 1 \/ (k - 1 \in 1..Len(B) /\ C[k] = B[k - 1])
    BY <1>0, <2>3
  <2>5. Ordered(C, i, n)
    <3>1. ASSUME NEW k \in 1..Len(C)
          PROVE  i <= C[k].from /\ C[k].from <= C[k].to /\ C[k].to <= n
      <4>1. CASE k = 1
        BY <2>1, <2>3, <4>1
      <4>2. CASE k # 1
        <5>1. k - 1 \in 1..Len(B) /\ C[k] = B[k - 1]
          BY <2>4, <4>2
        <5>2. i + 1 <= B[k - 1].from /\ B[k - 1].from <= B[k - 1].to /\ B[k - 1].to <= n
          BY <5>1 DEF Ordered
        <5>3. B[k - 1].from \in Nat /\ i \in Nat
          <6>1. B[k - 1] \in Block /\ i \in Nat
            BY <1>0, <5>1
          <6>. QED  BY <6>1 DEF Block
        <5>4. i <= B[k - 1].from
          BY <5>2, <5>3
        <5>. QED  BY <5>1, <5>2, <5>4
      <4>. QED  BY <4>1, <4>2
    <3>2. ASSUME NEW k \in 1..Len(C), NEW l \in 1..Len(C), k < l PROVE C[k].to < C[l].from
      <4>1. l - 1 \in 1..Len(B) /\ C[l] = B[l - 1]
        BY <2>4, <3>2
      <4>2. i + 1 <= B[l - 1].from /\ B[l - 1].from \in Nat
        BY <1>0, <4>1 DEF Ordered, Block
      <4>3. CASE k = 1
        <5>1. C[k].to = i /\ i \in Nat
          BY <2>1, <2>3, <4>3
        <5>. QED  BY <4>1, <4>2, <5>1
      <4>4. CASE k # 1
        <5>1. k - 1 \in 1..Len(B) /\ C[k] = B[k - 1] /\ k - 1 < l - 1
          BY <2>4, <3>2, <4>4
        <5>. QED  BY <4>1, <5>1 DEF Ordered
      <4>. QED  BY <4>3, <4>4
    <3>. QED  BY <1>1, <3>1, <3>2 DEF Ordered, C
  <2>6. ASSUME NEW k \in 1..Len(B)
        PROVE  /\ k + 1 \in 1..Len(C) /\ C[k + 1].kind = B[k].kind
               /\ C[k + 1].from <= B[k].from /\ C[k + 1].to = B[k].to
    BY <1>0, <2>3 DEF Block
  <2>7. 1 \in 1..Len(C) /\ C[1].kind = "text" /\ C[1].from = i /\ i <= C[1].to
    BY <1>0, <2>1, <2>3
  <2>. QED  BY <1>3, <2>5, <2>6, <2>7 DEF Extended
<1>b. Extended(C, B, i, n)
  BY <1>2, <1>3
<1>4. Ordered(C, i, n)
  BY <1>b DEF Extended
<1>5. ASSUME NEW k \in 1..Len(B)
      PROVE  \E l \in 1..Len(C) : C[l].kind = B[k].kind /\ C[l].from <= B[k].from /\ C[l].to = B[k].to
  BY <1>b DEF Extended
<1>6. 1 \in 1..Len(C) /\ C[1].kind = "text" /\ C[1].from = i /\ i <= C[1].to
  BY <1>b DEF Extended
<1>7. B # <<>> /\ Head(B).kind = "text" => C[1].to = B[1].to
  BY <1>b DEF Extended
<1>. HIDE DEF C
<1>a. \A k \in 1..Len(C) : C[k].from \in Nat /\ C[k].to \in Nat
  <2>1. \A k \in 1..Len(C) : C[k] \in Block
    BY <1>1
  <2>. QED  BY <2>1 DEF Block
<1>8. ASSUME NEW kind, NEW p \in Nat, NEW q \in Nat, Holds(B, kind, p, q)
      PROVE  Holds(C, kind, p, q)
  <2>1. PICK k \in 1..Len(B) : B[k].kind = kind /\ B[k].from <= p /\ q <= B[k].to
    BY <1>8 DEF Holds
  <2>2. PICK l \in 1..Len(C) : C[l].kind = B[k].kind /\ C[l].from <= B[k].from /\ C[l].to = B[k].to
    BY <1>5
  <2>3. B[k].from \in Nat /\ C[l].from \in Nat
    BY <1>0, <1>a DEF Block
  <2>4. C[l].from <= p
    BY <2>1, <2>2, <2>3
  <2>. QED  BY <2>1, <2>2, <2>4 DEF Holds
<1>9. Holds(C, "text", i, i)
  BY <1>6 DEF Holds
<1>10. ASSUME NEW q \in Nat, i + 1 <= q, Holds(B, "text", i + 1, q) PROVE Holds(C, "text", i, q)
  <2>1. PICK k \in 1..Len(B) : B[k].kind = "text" /\ B[k].from <= i + 1 /\ q <= B[k].to
    BY <1>10 DEF Holds
  <2>2. i + 1 <= B[k].from /\ B[k].from \in Nat /\ 1 \in 1..Len(B)
    BY <1>0 DEF Ordered, Block
  <2>3. k = 1
    <3>. SUFFICES ASSUME k # 1 PROVE FALSE
      OBVIOUS
    <3>1. B[1].to < B[k].from /\ i + 1 <= B[1].from /\ B[1].from <= B[1].to
      BY <1>0, <2>2 DEF Ordered
    <3>2. B[1].to \in Nat /\ B[1].from \in Nat
      BY <1>0, <2>2 DEF Block
    <3>. QED  BY <2>1, <2>2, <3>1, <3>2
  <2>4. B # <<>> /\ Head(B).kind = "text"
    BY <1>0, <2>1, <2>2, <2>3
  <2>. QED  BY <1>6, <1>7, <2>1, <2>3, <2>4 DEF Holds
<1>. QED  BY <1>4, <1>8, <1>9, <1>10 DEF C

----------------------------------------------------------------------------
(* Chunks *)

ProperBlock(b) == b \in Block /\ b.from <= b.to

\* A window ends in its block, and the next one begins after it began and in the block.
LEMMA WindowFacts ==
    ASSUME NEW b, ProperBlock(b), NEW s \in b.from .. b.to
    PROVE  /\ s \in Nat /\ b.from \in Nat /\ b.to \in Nat
           /\ WindowEnd(b, s) \in s .. b.to
           /\ WindowEnd(b, s) < b.to =>
                 /\ WindowEnd(b, s) = s + ChunkSize - 1
                 /\ WindowEnd(b, s) - Overlap + 1 \in (s + 1) .. b.to
<1>0. ChunkSize \in Nat /\ Overlap \in Nat /\ Overlap < ChunkSize
  BY ChunkType
<1>1. b.from \in Nat /\ b.to \in Nat /\ s \in Nat
  BY DEF ProperBlock, Block
<1>2. {s + ChunkSize - 1, b.to} \subseteq Nat /\ {s + ChunkSize - 1, b.to} # {}
  BY <1>0, <1>1
<1>3. PICK e : e = WindowEnd(b, s)
  OBVIOUS
<1>4. /\ e \in {s + ChunkSize - 1, b.to} /\ e <= s + ChunkSize - 1 /\ e <= b.to
  BY <1>2, <1>3, MinLeast DEF WindowEnd
<1>5. e \in s .. b.to
  BY <1>0, <1>1, <1>4
<1>6. e < b.to => e = s + ChunkSize - 1 /\ e - Overlap + 1 \in (s + 1) .. b.to
  BY <1>0, <1>1, <1>4
<1>. QED  BY <1>1, <1>3, <1>5, <1>6

ChunksNext(b, f, s) ==
    <<[from |-> s, to |-> WindowEnd(b, s)]>>
        \o (IF WindowEnd(b, s) >= b.to THEN <<>> ELSE f[WindowEnd(b, s) - Overlap + 1])

LEMMA ChunksNextType ==
    ASSUME NEW b, ProperBlock(b), NEW s \in b.from .. b.to,
           NEW f \in [b.from .. b.to -> Seq(Window)]
    PROVE  ChunksNext(b, f, s) \in Seq(Window)
<1>1. /\ s \in Nat /\ b.from \in Nat /\ b.to \in Nat
      /\ WindowEnd(b, s) \in s .. b.to
      /\ WindowEnd(b, s) < b.to => WindowEnd(b, s) - Overlap + 1 \in (s + 1) .. b.to
  BY WindowFacts
<1>2. [from |-> s, to |-> WindowEnd(b, s)] \in Window
  BY <1>1 DEF Window
<1>3. ~(WindowEnd(b, s) >= b.to) => f[WindowEnd(b, s) - Overlap + 1] \in Seq(Window)
  BY <1>1
<1>. QED  BY <1>2, <1>3, ConcatProperties DEF ChunksNext

LEMMA ChunksDef ==
    ASSUME NEW b, ProperBlock(b)
    PROVE  /\ ChunksFrom(b) \in [b.from .. b.to -> Seq(Window)]
           /\ \A s \in b.from .. b.to : ChunksFrom(b)[s] = ChunksNext(b, ChunksFrom(b), s)
<1>. DEFINE A == Seq(Window)
            Eq(f) == f = [s \in b.from .. b.to |->
                            <<[from |-> s, to |-> WindowEnd(b, s)]>>
                                \o (IF WindowEnd(b, s) >= b.to THEN <<>>
                                    ELSE f[WindowEnd(b, s) - Overlap + 1])]
<1>1. <<>> \in A /\ b.from \in Nat /\ b.to \in Nat
  BY DEF ProperBlock, Block
<1>2. PICK m \in Nat, n \in Nat : m = b.from /\ n = b.to
  BY <1>1
<1>. DEFINE g == [s \in m..n |-> [f \in [m..n -> A] |-> ChunksNext(b, f, s)]]
<1>3. g \in Equations(A, m, n)
  BY <1>2, ChunksNextType DEF Equations
<1>4. ASSUME NEW s \in m..n, NEW f \in [m..n -> A], NEW h \in [m..n -> A],
             \A j \in (s + 1)..n : f[j] = h[j]
      PROVE  g[s][f] = g[s][h]
  <2>1. ~(WindowEnd(b, s) >= b.to) => WindowEnd(b, s) - Overlap + 1 \in (s + 1)..n
    BY <1>2, WindowFacts
  <2>2. ~(WindowEnd(b, s) >= b.to) =>
            f[WindowEnd(b, s) - Overlap + 1] = h[WindowEnd(b, s) - Overlap + 1]
    BY <1>4, <2>1
  <2>3. ChunksNext(b, f, s) = ChunksNext(b, h, s)
    BY <2>2 DEF ChunksNext
  <2>. QED  BY <2>3
<1>5. PICK f \in Solutions(A, m, n) : Solves(f, g, m, n)
  <2>1. DependsAbove(g, A, m, n)
    BY <1>4 DEF DependsAbove
  <2>2. PICK a \in A : TRUE
    BY <1>1
  <2>. HIDE DEF g, A
  <2>. QED  BY <1>3, <2>1, DownRecursion
<1>6. Eq(f) /\ f \in [m..n -> A]
  <2>1. f \in [m..n -> A] /\ \A s \in m..n : f[s] = ChunksNext(b, f, s)
    BY <1>5 DEF Solutions, Solves
  <2>2. f = [s \in b.from .. b.to |-> ChunksNext(b, f, s)]
    BY <1>2, <2>1
  <2>. QED  BY <2>1, <2>2 DEF ChunksNext
<1>. DEFINE F == CHOOSE h : Eq(h)
<1>7. Eq(F)
  <2>. HIDE DEF Eq
  <2>. QED  BY <1>6
<1>8. ChunksFrom(b) = F
  BY DEF ChunksFrom
<1>9. Eq(ChunksFrom(b))
  <2>. HIDE DEF F, Eq
  <2>. QED  BY <1>7, <1>8
<1>10. \A s \in b.from .. b.to : ChunksFrom(b)[s] = ChunksNext(b, ChunksFrom(b), s)
  BY <1>9 DEF ChunksNext
<1>11. ChunksFrom(b) = [s \in b.from .. b.to |-> ChunksFrom(b)[s]]
  BY <1>9
<1>12. \A s \in m..n : ChunksFrom(b)[s] \in A
  <2>. DEFINE S == {s \in m..n : ChunksFrom(b)[s] \in Seq(Window)}
  <2>1. ASSUME NEW s \in m..n, \A j \in (s + 1)..n : j \in S PROVE s \in S
    <3>1. /\ s \in Nat /\ b.from \in Nat /\ b.to \in Nat
          /\ WindowEnd(b, s) \in s .. b.to
          /\ WindowEnd(b, s) < b.to => WindowEnd(b, s) - Overlap + 1 \in (s + 1) .. b.to
      BY <1>2, WindowFacts
    <3>2. [from |-> s, to |-> WindowEnd(b, s)] \in Window
      BY <3>1 DEF Window
    <3>3. ~(WindowEnd(b, s) >= b.to) => ChunksFrom(b)[WindowEnd(b, s) - Overlap + 1] \in Seq(Window)
      BY <1>2, <2>1, <3>1
    <3>4. ChunksNext(b, ChunksFrom(b), s) \in Seq(Window)
      BY <3>2, <3>3, ConcatProperties DEF ChunksNext
    <3>. QED  BY <1>2, <1>10, <3>4
  <2>2. \A s \in m..n : s \in S
    <3>. HIDE DEF S
    <3>. QED  BY <2>1, Downward
  <2>. QED  BY <2>2
<1>. QED  BY <1>2, <1>10, <1>11, <1>12

\* Some window has the characters p..q.
Within(W, p, q) == \E k \in 1..Len(W) : W[k].from <= p /\ q <= W[k].to

LEMMA WithinEither ==
    ASSUME NEW V \in Seq(Window), NEW W \in Seq(Window), NEW p, NEW q,
           Within(V, p, q) \/ Within(W, p, q)
    PROVE  Within(V \o W, p, q)
<1>0. Len(V) \in Nat /\ Len(W) \in Nat
  OBVIOUS
<1>1. /\ Len(V \o W) = Len(V) + Len(W)
      /\ \A k \in 1..(Len(V) + Len(W)) : (V \o W)[k] = IF k <= Len(V) THEN V[k] ELSE W[k - Len(V)]
  BY ConcatProperties
<1>2. ASSUME Within(V, p, q) PROVE Within(V \o W, p, q)
  <2>1. PICK k \in 1..Len(V) : V[k].from <= p /\ q <= V[k].to
    BY <1>2 DEF Within
  <2>2. k \in 1..Len(V \o W) /\ (V \o W)[k] = V[k]
    BY <1>0, <1>1
  <2>. QED  BY <2>1, <2>2 DEF Within
<1>3. ASSUME Within(W, p, q) PROVE Within(V \o W, p, q)
  <2>1. PICK k \in 1..Len(W) : W[k].from <= p /\ q <= W[k].to
    BY <1>3 DEF Within
  <2>2. k + Len(V) \in 1..Len(V \o W) /\ ~(k + Len(V) <= Len(V)) /\ (k + Len(V)) - Len(V) = k
    BY <1>0, <1>1
  <2>3. (V \o W)[k + Len(V)] = W[k]
    BY <1>0, <1>1, <2>2
  <2>. QED  BY <2>1, <2>2, <2>3 DEF Within
<1>. QED  BY <1>2, <1>3

\* No passage up to one character longer than the overlap is cut in two.
LEMMA ChunksCover ==
    ASSUME NEW b, ProperBlock(b), NEW p \in Nat, NEW q \in Nat,
           b.from <= p, p <= q, q <= b.to, q - p <= Overlap
    PROVE  Chunks(b) \in Seq(Window) /\ Within(Chunks(b), p, q)
<1>0. b.from \in Nat /\ b.to \in Nat
  BY DEF ProperBlock, Block
<1>1. PICK m \in Nat, n \in Nat : m = b.from /\ n = b.to
  BY <1>0
<1>. DEFINE F == ChunksFrom(b)
            S == {s \in m..n : s <= p => Within(F[s], p, q)}
<1>2. ASSUME NEW s \in m..n, \A j \in (s + 1)..n : j \in S PROVE s \in S
  <2>. SUFFICES ASSUME s <= p PROVE Within(F[s], p, q)
    OBVIOUS
  <2>1. PICK e : e = WindowEnd(b, s)
    OBVIOUS
  <2>2. /\ s \in Nat /\ e \in s .. n
        /\ e < n => /\ e = s + ChunkSize - 1
                    /\ e - Overlap + 1 \in (s + 1) .. n
    BY <1>1, <2>1, WindowFacts
  <2>3. PICK w : w = [from |-> s, to |-> e]
    OBVIOUS
  <2>4. w \in Window /\ w.from = s /\ w.to = e
    BY <1>1, <2>2, <2>3 DEF Window
  <2>5. F[s] = <<w>> \o (IF e >= n THEN <<>> ELSE F[e - Overlap + 1])
    BY <1>1, <2>1, <2>3, ChunksDef DEF ChunksNext
  <2>6. <<w>> \in Seq(Window) /\ (e < n => F[e - Overlap + 1] \in Seq(Window))
    BY <1>1, <2>2, <2>4, ChunksDef
  <2>7. ASSUME q <= e PROVE Within(F[s], p, q)
    <3>1. Within(<<w>>, p, q)
      BY <2>4, <2>7 DEF Within
    <3>2. (IF e >= n THEN <<>> ELSE F[e - Overlap + 1]) \in Seq(Window)
      BY <1>1, <2>2, <2>6
    <3>. HIDE DEF F
    <3>. QED  BY <2>5, <2>6, <3>1, <3>2, WithinEither
  <2>8. ASSUME ~(q <= e) PROVE Within(F[s], p, q)
    <3>1. e < n /\ ~(e >= n)
      BY <1>1, <2>2, <2>8
    <3>2. PICK r : r = e - Overlap + 1
      OBVIOUS
    <3>3. r \in (s + 1)..n /\ r \in m..n /\ r <= p
      BY <1>1, <2>2, <2>8, <3>1, <3>2, ChunkType
    <3>4. Within(F[r], p, q)
      BY <1>2, <3>3
    <3>5. F[s] = <<w>> \o F[r] /\ F[r] \in Seq(Window)
      BY <2>5, <2>6, <3>1, <3>2
    <3>. HIDE DEF F
    <3>. QED  BY <2>6, <3>4, <3>5, WithinEither
  <2>. QED  BY <2>7, <2>8
<1>3. m \in S
  <2>1. m \in m..n
    BY <1>1 DEF ProperBlock
  <2>. HIDE DEF S
  <2>. QED  BY <1>2, <2>1, Downward
<1>. QED  BY <1>1, <1>3, ChunksDef DEF Chunks

----------------------------------------------------------------------------
(* Units *)

ProperBlocks(B) == B \in Seq(Block) /\ \A k \in 1..Len(B) : ProperBlock(B[k])

LEMMA UnitsOfType ==
    ASSUME NEW text, NEW b, ProperBlock(b)
    PROVE  UnitsOf(text, b) \in Seq(Window)
<1>1. b.from \in Nat /\ b.to \in Nat /\ b.from \in b.from .. b.to
  BY DEF ProperBlock, Block
<1>2. Chunks(b) \in Seq(Window)
  BY <1>1, ChunksDef DEF Chunks
<1>3. [from |-> b.from, to |-> b.to] \in Window
  BY <1>1 DEF Window
<1>. QED  BY <1>2, <1>3 DEF UnitsOf

\* The units of the first blocks are those of all blocks but the last, and its own.
LEMMA UnitsDef ==
    ASSUME NEW text, NEW B, ProperBlocks(B)
    PROVE  /\ UnitsUpTo(text, B)[0] = <<>>
           /\ \A i \in 1..Len(B) :
                 UnitsUpTo(text, B)[i] = UnitsUpTo(text, B)[i - 1] \o UnitsOf(text, B[i])
           /\ \A i \in 0..Len(B) : UnitsUpTo(text, B)[i] \in Seq(Window)
<1>. DEFINE A == Seq(Window)
            Eq(f) == f = [i \in 0..Len(B) |->
                             IF i = 0 THEN <<>> ELSE f[i - 1] \o UnitsOf(text, B[i])]
<1>1. <<>> \in A /\ Len(B) \in Nat
  BY DEF ProperBlocks
<1>2. PICK n \in Nat, a \in A : n = Len(B) /\ a = <<>>
  BY <1>1
<1>. DEFINE g == [i \in 1..n |-> [acc \in A |-> acc \o UnitsOf(text, B[i])]]
<1>3. g \in Steps(A, n)
  <2>1. \A i \in 1..n : UnitsOf(text, B[i]) \in Seq(Window)
    BY <1>2, UnitsOfType DEF ProperBlocks
  <2>2. \A i \in 1..n : \A acc \in A : acc \o UnitsOf(text, B[i]) \in A
    BY <2>1, ConcatProperties
  <2>. QED  BY <2>2 DEF Steps
<1>4. PICK f : f \in Iterations(A, a, n, g)
  <2>. HIDE DEF g, A
  <2>. QED  BY <1>3, UpRecursion
<1>b. f \in [0..n -> A] /\ f[0] = a /\ \A i \in 1..n : f[i] = g[i][f[i - 1]]
  BY <1>4 DEF Iterations
<1>5. Eq(f)
  <2>. SUFFICES ASSUME NEW i \in 0..n
                PROVE  f[i] = IF i = 0 THEN a ELSE f[i - 1] \o UnitsOf(text, B[i])
    BY <1>2, <1>b
  <2>1. i # 0 => i \in 1..n /\ f[i - 1] \in A
    BY <1>b
  <2>2. i # 0 => f[i] = g[i][f[i - 1]]
    BY <1>b, <2>1
  <2>. QED  BY <1>b, <2>1, <2>2
<1>. DEFINE F == CHOOSE h : Eq(h)
<1>6. Eq(F)
  <2>. HIDE DEF Eq
  <2>. QED  BY <1>5
<1>7. UnitsUpTo(text, B) = F
  BY DEF UnitsUpTo
<1>8. Eq(UnitsUpTo(text, B))
  <2>. HIDE DEF F, Eq
  <2>. QED  BY <1>6, <1>7
<1>9. PICK U : U = UnitsUpTo(text, B)
  OBVIOUS
<1>10. U[0] = <<>> /\ \A i \in 1..n : U[i] = U[i - 1] \o UnitsOf(text, B[i])
  <2>1. 0 \in 0..n /\ \A i \in 1..n : i \in 0..n /\ i # 0
    OBVIOUS
  <2>. QED  BY <1>2, <1>8, <1>9, <2>1
<1>11. \A i \in 0..n : U[i] \in A
  <2>1. U[0] \in A
    BY <1>2, <1>10
  <2>2. ASSUME NEW i \in 1..n, U[i - 1] \in A PROVE U[i] \in A
    <3>1. UnitsOf(text, B[i]) \in Seq(Window)
      BY <1>2, UnitsOfType DEF ProperBlocks
    <3>. QED  BY <1>10, <2>2, <3>1, ConcatProperties
  <2>. HIDE DEF A
  <2>. QED  BY <2>1, <2>2, UpType
<1>. QED  BY <1>2, <1>9, <1>10, <1>11

\* W goes on where V ends.
Continues(W, V) == Len(V) <= Len(W) /\ \A j \in 1..Len(V) : W[j] = V[j]

\* The list of the units begins with those of the first blocks.
LEMMA UnitsPrefix ==
    ASSUME NEW text, NEW B, ProperBlocks(B), NEW i \in 0..Len(B)
    PROVE  Continues(UnitsUpTo(text, B)[Len(B)], UnitsUpTo(text, B)[i])
<1>0. Len(B) \in Nat
  BY DEF ProperBlocks
<1>1. PICK n \in Nat : n = Len(B)
  BY <1>0
<1>2. PICK U : U = UnitsUpTo(text, B)
  OBVIOUS
<1>a. /\ \A k \in 1..Len(B) : U[k] = U[k - 1] \o UnitsOf(text, B[k])
      /\ \A k \in 0..Len(B) : U[k] \in Seq(Window)
  BY <1>2, UnitsDef
<1>3. \A k \in 0..n : U[k] \in Seq(Window) /\ Len(U[k]) \in Nat
  BY <1>1, <1>a
<1>. DEFINE S == {k \in 0..n : /\ Len(U[k]) <= Len(U[n])
                              /\ \A j \in 1..Len(U[k]) : U[n][j] = U[k][j]}
<1>4. ASSUME NEW k \in 0..n, \A j \in (k + 1)..n : j \in S PROVE k \in S
  <2>1. ASSUME k = n PROVE k \in S
    BY <1>3, <2>1
  <2>2. ASSUME k # n PROVE k \in S
    <3>1. k + 1 \in 1..n /\ k + 1 \in 0..n /\ k + 1 \in (k + 1)..n /\ (k + 1) - 1 = k
      BY <2>2
    <3>2. PICK V : V = UnitsOf(text, B[k + 1])
      OBVIOUS
    <3>3. V \in Seq(Window) /\ Len(V) \in Nat /\ U[k + 1] = U[k] \o V
      <4>1. ProperBlock(B[k + 1])
        BY <1>1, <3>1 DEF ProperBlocks
      <4>2. V \in Seq(Window)
        BY <3>2, <4>1, UnitsOfType
      <4>3. U[k + 1] = U[k] \o V
        BY <1>1, <1>a, <3>1, <3>2
      <4>4. Len(V) \in Nat
        BY <4>2
      <4>. QED  BY <4>2, <4>3, <4>4
    <3>4. /\ Len(U[k + 1]) = Len(U[k]) + Len(V)
          /\ \A j \in 1..Len(U[k]) : U[k + 1][j] = U[k][j]
      BY <1>3, <3>3, ConcatProperties
    <3>5. /\ Len(U[k + 1]) <= Len(U[n])
          /\ \A j \in 1..Len(U[k + 1]) : U[n][j] = U[k + 1][j]
      BY <1>4, <3>1
    <3>6. Len(U[k]) \in Nat /\ Len(U[k + 1]) \in Nat /\ Len(U[n]) \in Nat
      BY <1>3, <3>1
    <3>7. Len(U[k]) <= Len(U[n])
      BY <3>3, <3>4, <3>5, <3>6
    <3>8. ASSUME NEW j \in 1..Len(U[k]) PROVE U[n][j] = U[k][j]
      <4>1. j \in 1..Len(U[k + 1])
        BY <3>3, <3>4, <3>6
      <4>. QED  BY <3>4, <3>5, <4>1
    <3>. QED  BY <3>7, <3>8
  <2>. QED  BY <2>1, <2>2
<1>5. i \in S
  <2>. HIDE DEF S
  <2>. QED  BY <1>1, <1>4, Downward
<1>6. Continues(U[n], U[i])
  BY <1>5 DEF Continues
<1>. QED  BY <1>1, <1>2, <1>6

\* What the units of a block have, the list has.
LEMMA UnitsWithin ==
    ASSUME NEW text, NEW B, ProperBlocks(B), NEW k \in 1..Len(B), NEW p, NEW q,
           Within(UnitsOf(text, B[k]), p, q)
    PROVE  Within(UnitsUpTo(text, B)[Len(B)], p, q)
<1>0. Len(B) \in Nat
  BY DEF ProperBlocks
<1>1. PICK U : U = UnitsUpTo(text, B)
  OBVIOUS
<1>2. k \in 0..Len(B) /\ k - 1 \in 0..Len(B)
  BY <1>0
<1>a. /\ \A i \in 1..Len(B) : U[i] = U[i - 1] \o UnitsOf(text, B[i])
      /\ \A i \in 0..Len(B) : U[i] \in Seq(Window)
  BY <1>1, UnitsDef
<1>b. UnitsOf(text, B[k]) \in Seq(Window)
  BY UnitsOfType DEF ProperBlocks
<1>c. Len(B) \in 0..Len(B)
  BY <1>0
<1>3. /\ U[k] = U[k - 1] \o UnitsOf(text, B[k])
      /\ U[k - 1] \in Seq(Window) /\ UnitsOf(text, B[k]) \in Seq(Window)
      /\ U[k] \in Seq(Window) /\ U[Len(B)] \in Seq(Window)
  BY <1>2, <1>a, <1>b, <1>c
<1>4. Within(U[k], p, q)
  BY <1>3, WithinEither
<1>5. /\ Len(U[k]) <= Len(U[Len(B)])
      /\ \A j \in 1..Len(U[k]) : U[Len(B)][j] = U[k][j]
  <2>1. Continues(UnitsUpTo(text, B)[Len(B)], UnitsUpTo(text, B)[k])
    BY <1>2, UnitsPrefix
  <2>. QED  BY <1>1, <2>1 DEF Continues
<1>6. PICK j \in 1..Len(U[k]) : U[k][j].from <= p /\ q <= U[k][j].to
  BY <1>4 DEF Within
<1>7. j \in 1..Len(U[Len(B)])
  <2>1. U[k] \in Seq(Window) /\ U[Len(B)] \in Seq(Window)
    BY <1>3
  <2>2. PICK V \in Seq(Window), W \in Seq(Window) : V = U[k] /\ W = U[Len(B)]
    BY <2>1
  <2>3. Len(V) \in Nat /\ Len(W) \in Nat
    OBVIOUS
  <2>. QED  BY <1>5, <2>2, <2>3
<1>. QED  BY <1>1, <1>5, <1>6, <1>7 DEF Within

\* A block in front of others.
LEMMA PutFirst ==
    ASSUME NEW n \in Nat, NEW i \in Nat, NEW e \in Nat, NEW B, Ordered(B, e, n),
           NEW b \in Block, i <= b.from, b.from <= b.to, b.to < e, b.to <= n
    PROVE  /\ Ordered(<<b>> \o B, i, n)
           /\ \A kind : \A p, q \in Nat : Holds(B, kind, p, q) => Holds(<<b>> \o B, kind, p, q)
           /\ \A p, q \in Nat : b.from <= p /\ q <= b.to => Holds(<<b>> \o B, b.kind, p, q)
<1>. DEFINE C == <<b>> \o B
<1>0. B \in Seq(Block) /\ Len(B) \in Nat /\ \A k \in 1..Len(B) : B[k] \in Block
  BY DEF Ordered
<1>1. <<b>> \in Seq(Block) /\ Len(<<b>>) = 1 /\ <<b>>[1] = b
  OBVIOUS
<1>2. /\ C \in Seq(Block)
      /\ Len(C) = 1 + Len(B)
      /\ \A k \in 1..(1 + Len(B)) : C[k] = IF k <= 1 THEN <<b>>[k] ELSE B[k - 1]
  BY <1>0, <1>1, ConcatProperties
<1>. HIDE DEF C
<1>3. 1 \in 1..Len(C) /\ C[1] = b
  BY <1>0, <1>1, <1>2
<1>4. ASSUME NEW k \in 1..Len(B) PROVE k + 1 \in 1..Len(C) /\ C[k + 1] = B[k]
  <2>1. k + 1 \in 1..(1 + Len(B)) /\ ~(k + 1 <= 1) /\ (k + 1) - 1 = k
    BY <1>0
  <2>. QED  BY <1>0, <1>2, <2>1
<1>5. ASSUME NEW k \in 1..Len(C) PROVE k = 1 \/ (k - 1 \in 1..Len(B) /\ C[k] = B[k - 1])
  BY <1>0, <1>2
<1>6. b.from \in Nat /\ b.to \in Nat
  BY DEF Block
<1>7. Ordered(C, i, n)
  <2>1. ASSUME NEW k \in 1..Len(C)
        PROVE  i <= C[k].from /\ C[k].from <= C[k].to /\ C[k].to <= n
    <3>1. CASE k = 1
      BY <1>3, <3>1
    <3>2. CASE k # 1
      <4>1. k - 1 \in 1..Len(B) /\ C[k] = B[k - 1]
        BY <1>5, <3>2
      <4>2. e <= B[k - 1].from /\ B[k - 1].from <= B[k - 1].to /\ B[k - 1].to <= n
        BY <4>1 DEF Ordered
      <4>3. B[k - 1].from \in Nat
        BY <1>0, <4>1 DEF Block
      <4>4. i <= B[k - 1].from
        BY <1>6, <4>2, <4>3
      <4>. QED  BY <4>1, <4>2, <4>4
    <3>. QED  BY <3>1, <3>2
  <2>2. ASSUME NEW k \in 1..Len(C), NEW l \in 1..Len(C), k < l PROVE C[k].to < C[l].from
    <3>1. l - 1 \in 1..Len(B) /\ C[l] = B[l - 1]
      BY <1>5, <2>2
    <3>2. e <= B[l - 1].from /\ B[l - 1].from \in Nat
      BY <1>0, <3>1 DEF Ordered, Block
    <3>3. CASE k = 1
      BY <1>3, <1>6, <3>1, <3>2, <3>3
    <3>4. CASE k # 1
      <4>1. k - 1 \in 1..Len(B) /\ C[k] = B[k - 1] /\ k - 1 < l - 1
        BY <1>5, <2>2, <3>4
      <4>. QED  BY <3>1, <4>1 DEF Ordered
    <3>. QED  BY <3>3, <3>4
  <2>. QED  BY <1>2, <2>1, <2>2 DEF Ordered
<1>8. ASSUME NEW kind, NEW p \in Nat, NEW q \in Nat, Holds(B, kind, p, q)
      PROVE  Holds(C, kind, p, q)
  <2>1. PICK k \in 1..Len(B) : B[k].kind = kind /\ B[k].from <= p /\ q <= B[k].to
    BY <1>8 DEF Holds
  <2>2. k + 1 \in 1..Len(C) /\ C[k + 1] = B[k]
    BY <1>4
  <2>. QED  BY <2>1, <2>2 DEF Holds
<1>9. ASSUME NEW p \in Nat, NEW q \in Nat, b.from <= p, q <= b.to PROVE Holds(C, b.kind, p, q)
  BY <1>3, <1>9 DEF Holds
<1>. QED  BY <1>7, <1>8, <1>9 DEF C

\* The lines a..z are three at least, of a kind a table may have, and not all blank.
TableLines(text, a, z) ==
    /\ z - a >= 2
    /\ \A k \in a..z : Loose(text, k)
    /\ \E k \in a..z : text[k].kind # "blank"
Tabled(text, i) == \E a \in 1..i, z \in i..Len(text) : TableLines(text, a, z)

\* What the blocks from line i on hold of the text: prose between tables is in one
\* block of prose, and every line of a table in a block that is one.
Divided(text, i) ==
    /\ Ordered(BlocksFrom(text)[i], i, Len(text))
    /\ \A p, q \in i..Len(text) :
          p <= q /\ (\A k \in p..q : ~Tabled(text, k)) => Holds(BlocksFrom(text)[i], "text", p, q)
    /\ \A p \in i..Len(text) :
          (\E a \in i..p, z \in p..Len(text) : TableLines(text, a, z))
              => Holds(BlocksFrom(text)[i], "table", p, p)

LEMMA DividedEnd ==
    ASSUME NEW X, NEW text \in Seq(X)
    PROVE  Divided(text, Len(text) + 1)
<1>0. Len(text) \in Nat
  OBVIOUS
<1>1. PICK n \in Nat : n = Len(text)
  BY <1>0
<1>2. BlocksFrom(text)[n + 1] = <<>>
  <2>1. n + 1 \in 1..(Len(text) + 1) /\ n + 1 > Len(text)
    BY <1>1
  <2>. QED  BY <2>1, BlocksDef DEF BlocksNext
<1>3. (n + 1)..n = {}
  OBVIOUS
<1>4. Ordered(<<>>, n + 1, n)
  BY DEF Ordered
<1>. QED  BY <1>1, <1>2, <1>3, <1>4 DEF Divided

LEMMA DividedTable ==
    ASSUME NEW X, NEW text \in Seq(X), NEW i \in 1..Len(text), IsTableRun(text, i),
           \A j \in (i + 1)..(Len(text) + 1) : Divided(text, j)
    PROVE  Divided(text, i)
<1>0. Len(text) \in Nat
  OBVIOUS
<1>1. PICK n \in Nat : n = Len(text)
  BY <1>0
<1>2. PICK e : e = RunEnd(text, i)
  OBVIOUS
<1>3. /\ e \in (i + 3)..(n + 1) /\ e \in Nat /\ i \in 1..n
      /\ \A k \in i..(e - 1) : Loose(text, k)
      /\ e <= n => ~Loose(text, e)
      /\ \E k \in i..(e - 1) : text[k].kind # "blank"
  BY <1>1, <1>2, TableRunLong, RunEndFacts DEF IsTableRun
<1>4. PICK b : b = [kind |-> "table", from |-> i, to |-> e - 1]
  OBVIOUS
<1>5. b \in Block /\ b.kind = "table" /\ b.from = i /\ b.to = e - 1
  BY <1>3, <1>4 DEF Block
<1>6. PICK B, C : B = BlocksFrom(text)[e] /\ C = BlocksFrom(text)[i]
  OBVIOUS
<1>7. C = <<b>> \o B
  <2>1. i \in 1..(Len(text) + 1) /\ ~(i > Len(text))
    BY <1>1, <1>3
  <2>. QED  BY <1>2, <1>4, <1>6, <2>1, BlocksDef DEF BlocksNext
<1>8. Divided(text, e)
  BY <1>1, <1>3
<1>9. Ordered(B, e, n)
  BY <1>1, <1>6, <1>8 DEF Divided
<1>10. /\ Ordered(C, i, n)
       /\ \A kind : \A p, q \in Nat : Holds(B, kind, p, q) => Holds(C, kind, p, q)
       /\ \A p, q \in Nat : i <= p /\ q <= e - 1 => Holds(C, "table", p, q)
  <2>1. i \in Nat /\ i <= b.from /\ b.from <= b.to /\ b.to < e /\ b.to <= n
    BY <1>3, <1>5
  <2>2. /\ Ordered(<<b>> \o B, i, n)
        /\ \A kind : \A p, q \in Nat : Holds(B, kind, p, q) => Holds(<<b>> \o B, kind, p, q)
        /\ \A p, q \in Nat : b.from <= p /\ q <= b.to => Holds(<<b>> \o B, b.kind, p, q)
    <3>1. n \in Nat /\ e \in Nat /\ b \in Block
      BY <1>3, <1>5
    <3>. QED  BY <1>9, <2>1, <3>1, PutFirst
  <2>. QED  BY <1>5, <1>7, <2>2
<1>11. ASSUME NEW k \in i..(e - 1) PROVE Tabled(text, k)
  <2>1. TableLines(text, i, e - 1)
    BY <1>3 DEF TableLines
  <2>2. i \in 1..k /\ e - 1 \in k..Len(text)
    BY <1>1, <1>3
  <2>. QED  BY <2>1, <2>2 DEF Tabled
<1>12. ASSUME NEW p \in i..n, NEW q \in i..n, p <= q, \A k \in p..q : ~Tabled(text, k)
       PROVE  Holds(C, "text", p, q)
  <2>1. ~Tabled(text, p)
    BY <1>12
  <2>2. p \in e..n /\ q \in e..n /\ p \in Nat /\ q \in Nat
    BY <1>3, <1>11, <1>12, <2>1
  <2>3. Holds(B, "text", p, q)
    BY <1>1, <1>6, <1>8, <1>12, <2>2 DEF Divided
  <2>. QED  BY <1>10, <2>2, <2>3
<1>13. ASSUME NEW p \in i..n, NEW a \in i..p, NEW z \in p..n, TableLines(text, a, z)
       PROVE  Holds(C, "table", p, p)
  <2>1. CASE p < e
    BY <1>3, <1>10, <2>1
  <2>2. CASE ~(p < e)
    <3>1. p \in e..n /\ p \in Nat /\ e <= n
      BY <1>3, <2>2
    <3>2. ~Loose(text, e)
      BY <1>3, <3>1
    <3>3. e \notin a..z
      BY <1>13, <3>2 DEF TableLines
    <3>4. a \in e..p
      BY <1>3, <3>1, <3>3
    <3>5. Holds(B, "table", p, p)
      BY <1>1, <1>6, <1>8, <1>13, <3>1, <3>4 DEF Divided
    <3>. QED  BY <1>10, <3>1, <3>5
  <2>. QED  BY <2>1, <2>2
<1>14. \A p \in i..n : (\E a \in i..p, z \in p..n : TableLines(text, a, z)) => Holds(C, "table", p, p)
  BY <1>13
<1>. QED  BY <1>1, <1>6, <1>10, <1>12, <1>14 DEF Divided

LEMMA DividedProse ==
    ASSUME NEW X, NEW text \in Seq(X), NEW i \in 1..Len(text), ~IsTableRun(text, i),
           Divided(text, i + 1)
    PROVE  Divided(text, i)
<1>0. Len(text) \in Nat
  OBVIOUS
<1>1. PICK n \in Nat : n = Len(text)
  BY <1>0
<1>2. i \in 1..n /\ i + 1 \in 1..(n + 1)
  BY <1>1
<1>3. PICK B, C : B = BlocksFrom(text)[i + 1] /\ C = BlocksFrom(text)[i]
  OBVIOUS
<1>4. C = AddLine(i, B)
  <2>1. i \in 1..(Len(text) + 1) /\ ~(i > Len(text))
    BY <1>1, <1>2
  <2>. QED  BY <1>3, <2>1, BlocksDef DEF BlocksNext
<1>5. Ordered(B, i + 1, n)
  BY <1>1, <1>3 DEF Divided
<1>6. /\ Ordered(C, i, n)
      /\ \A kind : \A p, q \in Nat : Holds(B, kind, p, q) => Holds(C, kind, p, q)
      /\ Holds(C, "text", i, i)
      /\ \A q \in Nat : i + 1 <= q /\ Holds(B, "text", i + 1, q) => Holds(C, "text", i, q)
  BY <1>2, <1>4, <1>5, AddLineFacts
<1>7. ASSUME NEW p \in i..n, NEW q \in i..n, p <= q, \A k \in p..q : ~Tabled(text, k)
      PROVE  Holds(C, "text", p, q)
  <2>0. p \in Nat /\ q \in Nat /\ i \in Nat
    BY <1>2
  <2>1. CASE p # i
    <3>1. p \in (i + 1)..n /\ q \in (i + 1)..n
      BY <1>2, <1>7, <2>1
    <3>2. Holds(B, "text", p, q)
      BY <1>1, <1>3, <1>7, <3>1 DEF Divided
    <3>. QED  BY <1>6, <2>0, <3>2
  <2>2. CASE p = i /\ q = i
    BY <1>6, <2>2
  <2>3. CASE p = i /\ q # i
    <3>1. i + 1 \in (i + 1)..n /\ q \in (i + 1)..n /\ i + 1 <= q
      BY <1>2, <1>7, <2>3
    <3>2. \A k \in (i + 1)..q : ~Tabled(text, k)
      <4>1. \A k \in (i + 1)..q : k \in p..q
        BY <2>0, <2>3
      <4>. QED  BY <1>7, <4>1
    <3>3. Holds(B, "text", i + 1, q)
      BY <1>1, <1>3, <3>1, <3>2 DEF Divided
    <3>. QED  BY <1>6, <2>0, <2>3, <3>1, <3>3
  <2>. QED  BY <2>1, <2>2, <2>3
<1>8. ASSUME NEW p \in i..n, NEW a \in i..p, NEW z \in p..n, TableLines(text, a, z)
      PROVE  Holds(C, "table", p, p)
  <2>1. CASE a = i
    <3>1. RunEnd(text, i) \in i..(n + 1) /\ (RunEnd(text, i) <= n => ~Loose(text, RunEnd(text, i)))
      BY <1>1, RunEndFacts
    <3>2. RunEnd(text, i) > z
      BY <1>2, <1>8, <2>1, <3>1 DEF TableLines
    <3>3. RunEnd(text, i) - i >= 3
      BY <1>2, <1>8, <2>1, <3>1, <3>2 DEF TableLines
    <3>4. PICK k \in a..z : text[k].kind # "blank"
      BY <1>8 DEF TableLines
    <3>5. k \in i..(RunEnd(text, i) - 1)
      BY <1>2, <2>1, <3>1, <3>2
    <3>. QED  BY <3>3, <3>4, <3>5 DEF IsTableRun
  <2>2. CASE a # i
    <3>1. a \in (i + 1)..p /\ p \in (i + 1)..n /\ p \in Nat
      BY <1>2, <2>2
    <3>2. Holds(B, "table", p, p)
      BY <1>1, <1>3, <1>8, <3>1 DEF Divided
    <3>. QED  BY <1>6, <3>1, <3>2
  <2>. QED  BY <2>1, <2>2
<1>9. \A p \in i..n : (\E a \in i..p, z \in p..n : TableLines(text, a, z)) => Holds(C, "table", p, p)
  BY <1>8
<1>. QED  BY <1>1, <1>3, <1>6, <1>7, <1>9 DEF Divided

LEMMA TextDivided ==
    ASSUME NEW X, NEW text \in Seq(X)
    PROVE  Divided(text, 1)
<1>0. Len(text) \in Nat
  OBVIOUS
<1>1. PICK n \in Nat : n = Len(text) + 1
  BY <1>0
<1>. DEFINE S == {i \in 1..n : Divided(text, i)}
<1>2. ASSUME NEW i \in 1..n, \A j \in (i + 1)..n : j \in S PROVE i \in S
  <2>1. \A j \in (i + 1)..(Len(text) + 1) : Divided(text, j)
    BY <1>1, <1>2
  <2>2. CASE i = n
    BY <1>1, <2>2, DividedEnd
  <2>3. CASE i # n
    <3>1. i \in 1..Len(text) /\ i + 1 \in (i + 1)..(Len(text) + 1)
      BY <1>0, <1>1, <2>3
    <3>2. Divided(text, i)
      BY <2>1, <3>1, DividedTable, DividedProse
    <3>. QED  BY <3>2
  <2>. QED  BY <2>2, <2>3
<1>3. 1 \in S
  <2>1. 1 \in 1..n
    BY <1>0, <1>1
  <2>. HIDE DEF S
  <2>. QED  BY <1>2, <2>1, Downward
<1>. QED  BY <1>3

\* Without the blank lines at their ends the blocks are in the text, and have the
\* passages that they had and that begin and end with lines that are not blank.
LEMMA BlocksFacts ==
    ASSUME NEW X, NEW text \in Seq(X)
    PROVE  /\ ProperBlocks(Blocks(text))
           /\ \A k \in 1..Len(Blocks(text)) :
                 1 <= Blocks(text)[k].from /\ Blocks(text)[k].to <= Len(text)
           /\ \A kind : \A p, q \in 1..Len(text) :
                 /\ text[p].kind # "blank" /\ text[q].kind # "blank" /\ p <= q
                 /\ Holds(BlocksFrom(text)[1], kind, p, q)
                 => Holds(Blocks(text), kind, p, q)
<1>0. Len(text) \in Nat
  OBVIOUS
<1>1. PICK n \in Nat : n = Len(text)
  BY <1>0
<1>2. PICK all : all = BlocksFrom(text)[1]
  OBVIOUS
<1>3. Ordered(all, 1, n)
  BY <1>1, <1>2, TextDivided DEF Divided
<1>4. /\ all \in Seq(Block)
      /\ \A k \in 1..Len(all) : /\ all[k] \in Block
                                /\ 1 <= all[k].from /\ all[k].from <= all[k].to /\ all[k].to <= n
  BY <1>3 DEF Ordered
<1>5. PICK I : I = {i \in DOMAIN all : FullLines(text, all[i]) # {}}
  OBVIOUS
<1>6. PICK full : full = Picked(all, I)
  OBVIOUS
<1>7. /\ full \in Seq(Block)
      /\ \A k \in 1..Len(full) : \E i \in 1..Len(all) : i \in I /\ full[k] = all[i]
      /\ \A i \in 1..Len(all) : i \in I => \E k \in 1..Len(full) : full[k] = all[i]
  <2>1. all \in Seq(Block)
    BY <1>4
  <2>2. full \in Seq(Block) /\ IsPick(full, all, I)
    BY <1>6, <2>1, PickedElements
  <2>. QED  BY <2>2 DEF IsPick
<1>8. PICK m \in Nat : m = Len(full) /\ DOMAIN full = 1..m
  BY <1>7
<1>9. Blocks(text) = [k \in 1..m |-> Trimmed(text, full[k])]
  BY <1>2, <1>5, <1>6, <1>8 DEF Blocks
<1>10. ASSUME NEW b \in Block, 1 <= b.from, b.to <= n, FullLines(text, b) # {}
       PROVE  /\ Trimmed(text, b) \in Block /\ Trimmed(text, b).kind = b.kind
              /\ 1 <= Trimmed(text, b).from /\ Trimmed(text, b).to <= n
              /\ Trimmed(text, b).from <= Trimmed(text, b).to
              /\ \A k \in b.from .. b.to : text[k].kind # "blank" =>
                    Trimmed(text, b).from <= k /\ k <= Trimmed(text, b).to
  <2>1. PICK L : L = FullLines(text, b)
    OBVIOUS
  <2>2. b.from \in Nat /\ b.to \in Nat
    BY DEF Block
  <2>3. L \subseteq 0..n /\ L \subseteq 1..n /\ L \subseteq Nat /\ L # {}
    BY <1>10, <2>1, <2>2 DEF FullLines
  <2>4. PICK lo, hi : lo = Min(L) /\ hi = Max(L)
    OBVIOUS
  <2>5. lo \in L /\ hi \in L /\ \A k \in L : lo <= k /\ k <= hi
    BY <2>3, <2>4, MinLeast, MaxGreatest
  <2>6. Trimmed(text, b) = [b EXCEPT !.from = lo, !.to = hi]
    BY <2>1, <2>4 DEF Trimmed
  <2>7. PICK t : t = Trimmed(text, b)
    OBVIOUS
  <2>8. t \in Block /\ t.kind = b.kind /\ t.from = lo /\ t.to = hi
    BY <2>3, <2>5, <2>6, <2>7 DEF Block
  <2>9. \A k \in b.from .. b.to : text[k].kind # "blank" => k \in L
    BY <2>1 DEF FullLines
  <2>. QED  BY <2>3, <2>5, <2>7, <2>8, <2>9
<1>11. ASSUME NEW k \in 1..m
       PROVE  /\ full[k] \in Block /\ 1 <= full[k].from /\ full[k].to <= n
              /\ FullLines(text, full[k]) # {}
  BY <1>4, <1>5, <1>7, <1>8
<1>12. PICK T : T = Blocks(text)
  OBVIOUS
<1>13. /\ T \in Seq(Block) /\ Len(T) = m
       /\ \A k \in 1..m : T[k] = Trimmed(text, full[k])
  <2>1. T = [k \in 1..m |-> Trimmed(text, full[k])]
    BY <1>9, <1>12
  <2>2. T \in [1..m -> Block]
    BY <1>10, <1>11, <2>1
  <2>3. T \in Seq(Block) /\ Len(T) = m
    BY <2>2, FunctionSeq
  <2>. QED  BY <2>1, <2>3
<1>14. ProperBlocks(T)
  BY <1>10, <1>11, <1>13 DEF ProperBlocks, ProperBlock
<1>15. \A k \in 1..Len(T) : 1 <= T[k].from /\ T[k].to <= n
  BY <1>10, <1>11, <1>13
<1>16. ASSUME NEW kind, NEW p \in 1..n, NEW q \in 1..n, text[p].kind # "blank",
              text[q].kind # "blank", p <= q, Holds(all, kind, p, q)
       PROVE  Holds(T, kind, p, q)
  <2>1. PICK i \in 1..Len(all) : all[i].kind = kind /\ all[i].from <= p /\ q <= all[i].to
    BY <1>16 DEF Holds
  <2>2. all[i].from \in Nat /\ all[i].to \in Nat
    BY <1>4 DEF Block
  <2>3. p \in all[i].from .. all[i].to /\ q \in all[i].from .. all[i].to
    BY <1>16, <2>1, <2>2
  <2>4. i \in I
    <3>1. p \in FullLines(text, all[i])
      BY <1>16, <2>3 DEF FullLines
    <3>2. i \in DOMAIN all
      BY <1>4
    <3>. QED  BY <1>5, <3>1, <3>2
  <2>5. PICK k \in 1..Len(full) : full[k] = all[i]
    BY <1>7, <2>4
  <2>6. k \in 1..Len(T) /\ T[k] = Trimmed(text, all[i])
    BY <1>8, <1>13, <2>5
  <2>7. T[k].kind = kind /\ T[k].from <= p /\ q <= T[k].to
    <3>1. FullLines(text, all[i]) # {}
      BY <1>8, <1>11, <2>5
    <3>. QED  BY <1>4, <1>10, <1>16, <2>1, <2>3, <2>6, <3>1
  <2>. QED  BY <2>6, <2>7 DEF Holds
<1>. QED  BY <1>1, <1>2, <1>12, <1>14, <1>15, <1>16

\* What a part of the text yields: the items of its lines of these kinds, each of
\* them, and nothing else.
LEMMA ItemsOfFacts ==
    ASSUME NEW X, NEW text \in Seq(X), NEW Y, \A x \in X : Item(x) \in Y,
           NEW from \in 1..Len(text), NEW to \in 1..Len(text), NEW kinds
    PROVE  /\ ItemsOf(text, from, to, kinds) \in Seq(Y)
           /\ \A k \in from..to : text[k].kind \in kinds =>
                 Contains(ItemsOf(text, from, to, kinds), Item(text[k]))
<1>0. Len(text) \in Nat
  OBVIOUS
<1>1. PICK all : all = SubSeq(text, from, to)
  OBVIOUS
<1>2. /\ all \in Seq(X)
      /\ Len(all) = IF from <= to THEN to - from + 1 ELSE 0
      /\ \A k \in 1..(to - from + 1) : all[k] = text[from + k - 1]
  BY <1>0, <1>1, SubSeqProperties
<1>3. PICK I : I = {i \in DOMAIN all : all[i].kind \in kinds}
  OBVIOUS
<1>4. PICK lines : lines = Picked(all, I)
  OBVIOUS
<1>5. /\ lines \in Seq(X)
      /\ \A i \in 1..Len(all) : i \in I => \E k \in 1..Len(lines) : lines[k] = all[i]
  <2>1. all \in Seq(X)
    BY <1>2
  <2>2. lines \in Seq(X) /\ IsPick(lines, all, I)
    BY <1>4, <2>1, PickedElements
  <2>. QED  BY <2>2 DEF IsPick
<1>6. PICK m \in Nat : m = Len(lines) /\ DOMAIN lines = 1..m
  BY <1>5
<1>7. PICK V : V = ItemsOf(text, from, to, kinds)
  OBVIOUS
<1>8. V = [k \in 1..m |-> Item(lines[k])]
  BY <1>1, <1>3, <1>4, <1>6, <1>7 DEF ItemsOf
<1>9. V \in Seq(Y) /\ Len(V) = m
  <2>1. \A k \in 1..m : lines[k] \in X
    BY <1>5, <1>6
  <2>2. V \in [1..m -> Y]
    BY <1>8, <2>1
  <2>. QED  BY <2>2, FunctionSeq
<1>10. ASSUME NEW k \in from..to, text[k].kind \in kinds PROVE Contains(V, Item(text[k]))
  <2>1. k - from + 1 \in 1..Len(all) /\ all[k - from + 1] = text[k]
    <3>1. k - from + 1 \in 1..(to - from + 1) /\ from + (k - from + 1) - 1 = k /\ from <= to
      BY <1>0
    <3>. QED  BY <1>2, <3>1
  <2>2. k - from + 1 \in I
    <3>1. k - from + 1 \in DOMAIN all
      BY <1>2, <2>1
    <3>. QED  BY <1>3, <1>10, <2>1, <3>1
  <2>3. PICK l \in 1..m : lines[l] = text[k]
    BY <1>5, <1>6, <2>1, <2>2
  <2>4. V[l] = Item(text[k]) /\ l \in 1..Len(V)
    BY <1>8, <1>9, <2>3
  <2>. QED  BY <2>4 DEF Contains
<1>. QED  BY <1>7, <1>9, <1>10

----------------------------------------------------------------------------
(* Dialogues *)

\* The sentences of what is said are made of its characters.
LEMMA SentencesType ==
    ASSUME NEW content, content \in Seq(Nat)
    PROVE  Sentences(content) \in Seq(Seq(Nat))
<1>. DEFINE Acc == [out : Seq(Seq(Nat)), buf : Seq(Nat)]
            Eq(f) == f = [i \in 0..Len(content) |->
                             IF i = 0 THEN [out |-> <<>>, buf |-> <<>>]
                             ELSE Split(f[i - 1], content[i])]
<1>1. [out |-> <<>>, buf |-> <<>>] \in Acc /\ Len(content) \in Nat
  OBVIOUS
<1>a. PICK A : A = Acc
  OBVIOUS
<1>. HIDE DEF Acc
<1>2. PICK n \in Nat, a \in A : n = Len(content) /\ a = [out |-> <<>>, buf |-> <<>>]
  BY <1>a, <1>1
<1>. DEFINE g == [i \in 1..n |-> [acc \in A |-> Split(acc, content[i])]]
<1>3. g \in Steps(A, n)
  <2>1. \A i \in 1..n : content[i] \in Nat
    BY <1>2
  <2>2. ASSUME NEW acc \in A, NEW ch \in Nat PROVE Split(acc, ch) \in A
    <3>0. acc \in [out : Seq(Seq(Nat)), buf : Seq(Nat)]
      BY <1>a DEF Acc
    <3>1. Append(acc.buf, ch) \in Seq(Nat)
      BY <3>0
    <3>2. Append(acc.out, Append(acc.buf, ch)) \in Seq(Seq(Nat))
      BY <3>0, <3>1
    <3>3. Split(acc, ch) \in [out : Seq(Seq(Nat)), buf : Seq(Nat)]
      BY <3>0, <3>1, <3>2 DEF Split
    <3>. QED  BY <1>a, <3>3 DEF Acc
  <2>. QED  BY <2>1, <2>2 DEF Steps
<1>4. PICK f : f \in Iterations(A, a, n, g)
  <2>. HIDE DEF g
  <2>. QED  BY <1>3, UpRecursion
<1>b. f \in [0..n -> A] /\ f[0] = a /\ \A i \in 1..n : f[i] = g[i][f[i - 1]]
  BY <1>4 DEF Iterations
<1>5. Eq(f)
  <2>. SUFFICES ASSUME NEW i \in 0..n
                PROVE  f[i] = IF i = 0 THEN a ELSE Split(f[i - 1], content[i])
    BY <1>2, <1>b
  <2>1. i # 0 => i \in 1..n /\ f[i - 1] \in A
    BY <1>b
  <2>2. i # 0 => f[i] = g[i][f[i - 1]]
    BY <1>b, <2>1
  <2>. QED  BY <1>b, <2>1, <2>2
<1>. DEFINE F == CHOOSE h : Eq(h)
<1>6. Eq(F)
  <2>. HIDE DEF Eq
  <2>. QED  BY <1>5
<1>7. SplitUpTo(content) = F
  BY DEF SplitUpTo
<1>8. Eq(SplitUpTo(content))
  <2>. HIDE DEF F, Eq
  <2>. QED  BY <1>6, <1>7
<1>9. PICK G : G = SplitUpTo(content)
  OBVIOUS
<1>10. \A i \in 0..n : G[i] \in A
  <2>1. G = [i \in 0..n |-> IF i = 0 THEN a ELSE Split(G[i - 1], content[i])]
    BY <1>2, <1>8, <1>9
  <2>2. G[0] = a /\ \A i \in 1..n : G[i] = Split(G[i - 1], content[i])
    <3>1. 0 \in 0..n /\ \A i \in 1..n : i \in 0..n /\ i # 0
      OBVIOUS
    <3>. QED  BY <2>1, <3>1
  <2>3. ASSUME NEW i \in 1..n, G[i - 1] \in A PROVE G[i] \in A
    <3>1. g[i] \in [A -> A] /\ g[i][G[i - 1]] = Split(G[i - 1], content[i])
      BY <1>3, <2>3 DEF Steps
    <3>2. G[i] = g[i][G[i - 1]]
      BY <2>2, <3>1
    <3>. HIDE DEF g
    <3>. QED  BY <2>3, <3>1, <3>2
  <2>. QED  BY <2>2, <2>3, UpType
<1>11. G[n] \in [out : Seq(Seq(Nat)), buf : Seq(Nat)]
  BY <1>a, <1>10 DEF Acc
<1>12. Sentences(content) = IF G[n].buf = <<>> THEN G[n].out ELSE Append(G[n].out, G[n].buf)
  BY <1>2, <1>9 DEF Sentences
<1>. QED  BY <1>11, <1>12

----------------------------------------------------------------------------
(* Matches *)

\* A set of terms, none of them empty.
ProperTerms(terms) == terms \subseteq Seq(Nat) \ {<<>>}

LEMMA MatchFacts ==
    ASSUME NEW sentence, sentence \in Seq(Nat), NEW terms, ProperTerms(terms),
           NEW m \in AllMatches(sentence, terms)
    PROVE  /\ Len(sentence) \in Nat /\ m.term \in terms
           /\ m.start \in 1..Len(sentence) /\ m.end \in (m.start + 1) .. (Len(sentence) + 1)
           /\ m.term = SubSeq(sentence, m.start, m.end - 1)
           /\ m = [term |-> m.term, start |-> m.start, end |-> m.end]
<1>1. Len(sentence) \in Nat /\ DOMAIN sentence = 1..Len(sentence)
  OBVIOUS
<1>2. /\ m \in [term : terms, start : DOMAIN sentence, end : 2..(Len(sentence) + 1)]
      /\ m.end = m.start + Len(m.term)
      /\ SubSeq(sentence, m.start, m.end - 1) = m.term
  BY DEF AllMatches
<1>3. m.term \in Seq(Nat) /\ m.term # <<>>
  BY <1>2 DEF ProperTerms
<1>4. Len(m.term) \in Nat /\ Len(m.term) # 0
  BY <1>3, EmptySeq
<1>. QED  BY <1>1, <1>2, <1>4

Starting(sentence, terms, i) == {m \in AllMatches(sentence, terms) : m.start = i}

\* Matches that begin at one place differ in their ends, and one is the longest.
LEMMA LongestFacts ==
    ASSUME NEW sentence, sentence \in Seq(Nat), NEW terms, ProperTerms(terms),
           NEW i, Starting(sentence, terms, i) # {}
    PROVE  /\ Longest(Starting(sentence, terms, i)) \in Starting(sentence, terms, i)
           /\ \A m \in Starting(sentence, terms, i) :
                 m # Longest(Starting(sentence, terms, i))
                     => m.end < Longest(Starting(sentence, terms, i)).end
<1>. DEFINE here == Starting(sentence, terms, i)
<1>1. ASSUME NEW m \in here
      PROVE  /\ m \in AllMatches(sentence, terms) /\ m.start = i /\ i \in 1..Len(sentence)
             /\ Len(sentence) \in Nat /\ m.end \in (i + 1)..(Len(sentence) + 1)
             /\ m.term = SubSeq(sentence, i, m.end - 1)
             /\ m = [term |-> m.term, start |-> m.start, end |-> m.end]
  BY MatchFacts DEF Starting
<1>. HIDE DEF here
<1>2. PICK E : E = {m.end : m \in here}
  OBVIOUS
<1>3. PICK n \in Nat : n = Len(sentence) + 1
  <2>1. Len(sentence) \in Nat
    OBVIOUS
  <2>. QED  BY <2>1
<1>4. E \subseteq 0..n /\ E # {}
  <2>1. \A m \in here : m.end \in 0..n
    BY <1>1, <1>3
  <2>2. here # {}
    BY DEF here
  <2>. QED  BY <1>2, <2>1, <2>2
<1>5. PICK x \in E : \A y \in E : y <= x
  BY <1>4, GreatestNat
<1>6. \E m \in here : \A k \in here : k.end <= m.end
  BY <1>2, <1>5
<1>7. PICK l : l = Longest(here)
  OBVIOUS
<1>8. l \in here /\ \A k \in here : k.end <= l.end
  BY <1>6, <1>7 DEF Longest
<1>9. ASSUME NEW m \in here, m # l PROVE m.end < l.end
  <2>1. m.end <= l.end /\ m.end \in Nat /\ l.end \in Nat
    BY <1>1, <1>8
  <2>2. ASSUME m.end = l.end PROVE FALSE
    <3>1. m.start = l.start /\ m.term = l.term
      BY <1>1, <1>8, <2>2
    <3>. QED  BY <1>1, <1>8, <1>9, <2>2, <3>1
  <2>. QED  BY <2>1, <2>2
<1>. QED  BY <1>7, <1>8, <1>9 DEF here

DominantNext(sentence, terms, f, i) ==
    LET here == Starting(sentence, terms, i)
    IN  IF i > Len(sentence) THEN {}
        ELSE IF here = {} THEN f[i + 1]
        ELSE {Longest(here)} \cup f[Longest(here).end]

\* The scan goes on after the match it keeps.
LEMMA LongestEnd ==
    ASSUME NEW sentence, sentence \in Seq(Nat), NEW terms, ProperTerms(terms),
           NEW i, Starting(sentence, terms, i) # {}
    PROVE  /\ i \in 1..Len(sentence) /\ Len(sentence) \in Nat
           /\ Longest(Starting(sentence, terms, i)) \in AllMatches(sentence, terms)
           /\ Longest(Starting(sentence, terms, i)).start = i
           /\ Longest(Starting(sentence, terms, i)).end \in (i + 1)..(Len(sentence) + 1)
<1>1. PICK l : l = Longest(Starting(sentence, terms, i))
  OBVIOUS
<1>2. l \in Starting(sentence, terms, i)
  BY <1>1, LongestFacts
<1>3. l \in AllMatches(sentence, terms) /\ l.start = i
  BY <1>2 DEF Starting
<1>4. l.start \in 1..Len(sentence) /\ l.end \in (l.start + 1)..(Len(sentence) + 1)
  BY <1>3, MatchFacts
<1>. QED  BY <1>1, <1>3, <1>4

LEMMA DominantDef ==
    ASSUME NEW sentence, sentence \in Seq(Nat), NEW terms, ProperTerms(terms)
    PROVE  \A i \in 1..(Len(sentence) + 1) :
               DominantFrom(sentence, terms)[i]
                   = DominantNext(sentence, terms, DominantFrom(sentence, terms), i)
<1>. DEFINE Here(i) == Starting(sentence, terms, i)
            Eq(f) == f = [i \in 1..(Len(sentence) + 1) |->
                            IF i > Len(sentence) THEN {}
                            ELSE IF Here(i) = {} THEN f[i + 1]
                            ELSE {Longest(Here(i))} \cup f[Longest(Here(i)).end]]
<1>1. Len(sentence) \in Nat
  OBVIOUS
<1>a. PICK A : A = SUBSET AllMatches(sentence, terms)
  OBVIOUS
<1>b. PICK n \in Nat : n = Len(sentence) + 1
  BY <1>1
<1>2. n = Len(sentence) + 1 /\ A = SUBSET AllMatches(sentence, terms)
  BY <1>a, <1>b
<1>. DEFINE g == [i \in 1..n |-> [f \in [1..n -> A] |-> DominantNext(sentence, terms, f, i)]]
<1>3. ASSUME NEW i \in 1..n, NEW f \in [1..n -> A] PROVE DominantNext(sentence, terms, f, i) \in A
  <2>1. ASSUME ~(i > Len(sentence)), Here(i) = {} PROVE f[i + 1] \in A
    BY <1>1, <1>2, <2>1
  <2>2. ASSUME Here(i) # {} PROVE {Longest(Here(i))} \cup f[Longest(Here(i)).end] \in A
    <3>1. /\ i \in 1..Len(sentence)
          /\ Longest(Here(i)) \in AllMatches(sentence, terms)
          /\ Longest(Here(i)).end \in (i + 1)..n
      BY <1>2, <2>2, LongestEnd
    <3>2. f[Longest(Here(i)).end] \in A
      BY <3>1
    <3>. QED  BY <1>2, <3>1, <3>2
  <2>3. {} \in A
    BY <1>2
  <2>. QED  BY <2>1, <2>2, <2>3 DEF DominantNext
<1>4. g \in Equations(A, 1, n)
  BY <1>3 DEF Equations
<1>5. ASSUME NEW i \in 1..n, NEW f \in [1..n -> A], NEW h \in [1..n -> A],
             \A j \in (i + 1)..n : f[j] = h[j]
      PROVE  g[i][f] = g[i][h]
  <2>1. ~(i > Len(sentence)) => f[i + 1] = h[i + 1]
    BY <1>1, <1>2, <1>5
  <2>2. Here(i) # {} => f[Longest(Here(i)).end] = h[Longest(Here(i)).end]
    <3>1. Here(i) # {} => Longest(Here(i)).end \in (i + 1)..n
      BY <1>2, LongestEnd
    <3>. QED  BY <1>5, <3>1
  <2>3. DominantNext(sentence, terms, f, i) = DominantNext(sentence, terms, h, i)
    BY <2>1, <2>2 DEF DominantNext
  <2>. QED  BY <2>3
<1>6. PICK f \in Solutions(A, 1, n) : Solves(f, g, 1, n)
  <2>1. DependsAbove(g, A, 1, n)
    BY <1>5 DEF DependsAbove
  <2>2. PICK a \in A : TRUE
    BY <1>2
  <2>. HIDE DEF g
  <2>. QED  BY <1>4, <2>1, DownRecursion
<1>7. Eq(f)
  <2>1. f \in [1..n -> A] /\ \A i \in 1..n : f[i] = DominantNext(sentence, terms, f, i)
    BY <1>6 DEF Solutions, Solves
  <2>2. f = [i \in 1..(Len(sentence) + 1) |-> DominantNext(sentence, terms, f, i)]
    BY <1>2, <2>1
  <2>. QED  BY <2>2 DEF DominantNext
<1>. DEFINE F == CHOOSE h : Eq(h)
<1>8. Eq(F)
  <2>. HIDE DEF Eq
  <2>. QED  BY <1>7
<1>9. DominantFrom(sentence, terms) = F
  BY DEF DominantFrom, Starting
<1>10. Eq(DominantFrom(sentence, terms))
  <2>. HIDE DEF F, Eq
  <2>. QED  BY <1>8, <1>9
<1>. QED  BY <1>10 DEF DominantNext

Overlaps(m, n) == m.start < n.end /\ n.start < m.end

\* n is to be preferred to m: it begins before m, or with m and is longer.
Leads(n, m) == n.start < m.start \/ (n.start = m.start /\ n.end > m.end)

\* Of the matches from position i on some are kept that do not overlap, and any
\* other overlaps one of them that leads it.
Dominates(sentence, terms, i) ==
    LET kept == DominantFrom(sentence, terms)[i] IN
    /\ \A m \in kept : m \in AllMatches(sentence, terms) /\ i <= m.start
    /\ \A m, n \in kept : m # n => ~Overlaps(m, n)
    /\ \A m \in AllMatches(sentence, terms) :
          i <= m.start /\ m \notin kept => \E n \in kept : Overlaps(m, n) /\ Leads(n, m)

LEMMA DominantFacts ==
    ASSUME NEW sentence, sentence \in Seq(Nat), NEW terms, ProperTerms(terms)
    PROVE  Dominates(sentence, terms, 1)
<1>1. Len(sentence) \in Nat
  OBVIOUS
<1>a. PICK L \in Nat : L = Len(sentence)
  BY <1>1
<1>b. PICK D, All : D = DominantFrom(sentence, terms) /\ All = AllMatches(sentence, terms)
  OBVIOUS
<1>2. L = Len(sentence) /\ D = DominantFrom(sentence, terms) /\ All = AllMatches(sentence, terms)
  BY <1>a, <1>b
<1>3. PICK n \in Nat : n = L + 1
  OBVIOUS
<1>4. ASSUME NEW m \in All
      PROVE  /\ m.start \in 1..L /\ m.end \in (m.start + 1)..n
             /\ m.start \in Nat /\ m.end \in Nat
  BY <1>2, <1>3, MatchFacts
<1>. DEFINE S == {i \in 1..n : Dominates(sentence, terms, i)}
<1>5. ASSUME NEW i \in 1..n, \A j \in (i + 1)..n : j \in S PROVE i \in S
  <2>1. PICK H : H = Starting(sentence, terms, i)
    OBVIOUS
  <2>a. H = {m \in All : m.start = i}
    BY <1>2, <2>1 DEF Starting
  <2>2. D[i] = IF i > L THEN {} ELSE IF H = {} THEN D[i + 1] ELSE {Longest(H)} \cup D[Longest(H).end]
    <3>1. i \in 1..(Len(sentence) + 1)
      BY <1>2, <1>3
    <3>2. DominantFrom(sentence, terms)[i]
              = DominantNext(sentence, terms, DominantFrom(sentence, terms), i)
      BY <3>1, DominantDef
    <3>. QED  BY <1>2, <2>1, <3>2 DEF DominantNext
  <2>3. \A j \in (i + 1)..n : Dominates(sentence, terms, j)
    BY <1>5
  <2>4. ASSUME i > L PROVE Dominates(sentence, terms, i)
    <3>1. D[i] = {}
      BY <2>2, <2>4
    <3>2. \A m \in All : ~(i <= m.start)
      BY <1>4, <2>4
    <3>. QED  BY <1>2, <3>1, <3>2 DEF Dominates
  <2>5. ASSUME ~(i > L), H = {} PROVE Dominates(sentence, terms, i)
    <3>1. D[i] = D[i + 1]
      BY <2>2, <2>5
    <3>2. Dominates(sentence, terms, i + 1)
      BY <1>3, <2>3, <2>5
    <3>3. \A m \in All : i <= m.start <=> i + 1 <= m.start
      BY <1>4, <2>a, <2>5
    <3>. QED  BY <1>2, <3>1, <3>2, <3>3 DEF Dominates
  <2>6. ASSUME ~(i > L), H # {} PROVE Dominates(sentence, terms, i)
    <3>1. PICK l : l = Longest(H)
      OBVIOUS
    <3>2. l \in All /\ l.start = i /\ l.end \in (i + 1)..n /\ l.end \in Nat
      BY <1>2, <1>3, <2>1, <2>6, <3>1, LongestEnd
    <3>3. \A m \in H : m # l => m.end < l.end
      BY <1>2, <2>1, <2>6, <3>1, LongestFacts
    <3>4. PICK K : K = D[l.end]
      OBVIOUS
    <3>5. D[i] = {l} \cup K
      BY <2>2, <2>6, <3>1, <3>4
    <3>6. /\ \A m \in K : m \in All /\ l.end <= m.start
          /\ \A m, k \in K : m # k => ~Overlaps(m, k)
          /\ \A m \in All : l.end <= m.start /\ m \notin K => \E k \in K : Overlaps(m, k) /\ Leads(k, m)
      BY <1>2, <2>3, <3>2, <3>4 DEF Dominates
    <3>7. ASSUME NEW m \in {l} \cup K PROVE m \in All /\ i <= m.start
      <4>1. CASE m = l
        BY <3>2, <4>1
      <4>2. CASE m # l
        <5>1. m \in All /\ l.end <= m.start
          BY <3>6, <3>7, <4>2
        <5>. QED  BY <1>4, <3>2, <5>1
      <4>. QED  BY <4>1, <4>2
    <3>8. ASSUME NEW m \in {l} \cup K, NEW k \in {l} \cup K, m # k PROVE ~Overlaps(m, k)
      <4>1. CASE m \in K /\ k \in K
        BY <3>6, <3>8, <4>1
      <4>2. ASSUME NEW x \in K PROVE ~Overlaps(l, x) /\ ~Overlaps(x, l)
        <5>1. x \in All /\ l.end <= x.start
          BY <3>6
        <5>. QED  BY <1>4, <3>2, <5>1 DEF Overlaps
      <4>. QED  BY <3>8, <4>1, <4>2
    <3>9. ASSUME NEW m \in All, i <= m.start, m \notin {l} \cup K
          PROVE  \E k \in {l} \cup K : Overlaps(m, k) /\ Leads(k, m)
      <4>1. CASE l.end <= m.start
        BY <3>6, <3>9, <4>1
      <4>2. CASE ~(l.end <= m.start)
        <5>1. m.start \in Nat /\ m.end \in Nat /\ m.start < m.end /\ i \in Nat
          BY <1>4
        <5>2. Overlaps(m, l)
          BY <3>2, <3>9, <4>2, <5>1 DEF Overlaps
        <5>3. Leads(l, m)
          <6>1. CASE m.start = i
            <7>1. m \in H /\ m # l
              BY <2>a, <3>9, <6>1
            <7>. QED  BY <3>2, <3>3, <5>1, <6>1, <7>1 DEF Leads
          <6>2. CASE m.start # i
            BY <3>2, <3>9, <5>1, <6>2 DEF Leads
          <6>. QED  BY <6>1, <6>2
        <5>. QED  BY <5>2, <5>3
      <4>. QED  BY <4>1, <4>2
    <3>. QED  BY <1>2, <3>5, <3>7, <3>8, <3>9 DEF Dominates
  <2>. QED  BY <2>4, <2>5, <2>6
<1>6. 1 \in S
  <2>1. 1 \in 1..n
    BY <1>3
  <2>. HIDE DEF S
  <2>. QED  BY <1>5, <2>1, Downward
<1>. QED  BY <1>6

Silence == [inside |-> FALSE, spoken |-> FALSE, blanks |-> 0, out |-> <<>>]
Hearing == [inside : BOOLEAN, spoken : BOOLEAN, blanks : Nat, out : Seq(Seq(Nat))]

\* A line that says something does nothing else to a dialogue.
LEMMA SpeaksOnly ==
    ASSUME NEW line, Speaks(line)
    PROVE  line.kind \notin {"blank", "header", "section"}
  BY DEF Speaks

LEMMA HearType ==
    ASSUME NEW acc \in Hearing, NEW line, line.says \in Seq(Nat)
    PROVE  Hear(acc, line) \in Hearing
<1>1. acc.out \o Sentences(line.says) \in Seq(Seq(Nat))
  <2>1. Sentences(line.says) \in Seq(Seq(Nat))
    BY SentencesType
  <2>2. acc.out \in Seq(Seq(Nat))
    BY DEF Hearing
  <2>. QED  BY <2>1, <2>2, ConcatProperties
<1>2. OutOfDialogue(acc) \in Hearing
  BY DEF OutOfDialogue, Hearing
<1>3. \A n \in Nat : [acc EXCEPT !.blanks = n] \in Hearing
  BY DEF Hearing
<1>4. acc.blanks \in Nat /\ acc.blanks + 1 \in Nat /\ acc.inside \in BOOLEAN
  BY DEF Hearing
<1>5. [acc EXCEPT !.inside = TRUE] \in Hearing
  BY DEF Hearing
<1>6. [acc EXCEPT !.spoken = TRUE, !.blanks = 0, !.out = acc.out \o Sentences(line.says)] \in Hearing
  BY <1>1 DEF Hearing
<1>7. CASE ~acc.inside
  BY <1>5, <1>7 DEF Hear
<1>8. CASE acc.inside /\ line.kind = "blank"
  <2>1. Hear(acc, line) = IF acc.spoken /\ acc.blanks >= 1 THEN OutOfDialogue(acc)
                          ELSE [acc EXCEPT !.blanks = acc.blanks + 1]
    BY <1>8, SpeaksOnly DEF Hear
  <2>. QED  BY <1>2, <1>3, <1>4, <2>1
<1>9. CASE acc.inside /\ line.kind \in {"header", "section"}
  <2>1. Hear(acc, line) = IF acc.spoken THEN OutOfDialogue(acc) ELSE [acc EXCEPT !.blanks = 0]
    BY <1>9, SpeaksOnly DEF Hear
  <2>. QED  BY <1>2, <1>3, <2>1
<1>10. CASE acc.inside /\ Speaks(line)
  <2>1. Hear(acc, line) = [acc EXCEPT !.spoken = TRUE, !.blanks = 0,
                                      !.out = acc.out \o Sentences(line.says)]
    BY <1>10, SpeaksOnly DEF Hear
  <2>. QED  BY <1>6, <2>1
<1>11. CASE acc.inside /\ line.kind \notin {"blank", "header", "section"} /\ ~Speaks(line)
  <2>1. Hear(acc, line) = [acc EXCEPT !.blanks = 0]
    BY <1>11, SpeaksOnly DEF Hear
  <2>. QED  BY <1>3, <2>1
<1>. QED  BY <1>4, <1>7, <1>8, <1>9, <1>10, <1>11

LEMMA HeardDef ==
    ASSUME NEW X, NEW text, text \in Seq(X), \A x \in X : x.says \in Seq(Nat)
    PROVE  /\ HeardUpTo(text)[0] = Silence
           /\ \A i \in 1..Len(text) : HeardUpTo(text)[i] = Hear(HeardUpTo(text)[i - 1], text[i])
           /\ \A i \in 0..Len(text) : HeardUpTo(text)[i] \in Hearing
<1>. DEFINE Eq(f) == f = [i \in 0..Len(text) |->
                             IF i = 0 THEN [inside |-> FALSE, spoken |-> FALSE, blanks |-> 0,
                                            out |-> <<>>]
                             ELSE Hear(f[i - 1], text[i])]
<1>1. Len(text) \in Nat /\ \A i \in 1..Len(text) : text[i].says \in Seq(Nat)
  OBVIOUS
<1>2. Silence \in Hearing
  BY DEF Silence, Hearing
<1>3. PICK A : A = Hearing
  OBVIOUS
<1>4. PICK n \in Nat, a \in A : n = Len(text) /\ a = Silence
  BY <1>1, <1>2, <1>3
<1>. DEFINE g == [i \in 1..n |-> [acc \in A |-> Hear(acc, text[i])]]
<1>5. \A i \in 1..n : \A acc \in A : Hear(acc, text[i]) \in A
  BY <1>1, <1>3, <1>4, HearType
<1>6. g \in Steps(A, n)
  BY <1>5 DEF Steps
<1>7. PICK f : f \in Iterations(A, a, n, g)
  <2>. HIDE DEF g
  <2>. QED  BY <1>6, UpRecursion
<1>8. f \in [0..n -> A] /\ f[0] = a /\ \A i \in 1..n : f[i] = g[i][f[i - 1]]
  BY <1>7 DEF Iterations
<1>9. Eq(f)
  <2>1. ASSUME NEW i \in 0..n PROVE f[i] = IF i = 0 THEN a ELSE Hear(f[i - 1], text[i])
    <3>1. i # 0 => i \in 1..n /\ f[i - 1] \in A
      BY <1>8
    <3>2. i # 0 => f[i] = g[i][f[i - 1]]
      BY <1>8, <3>1
    <3>. QED  BY <1>8, <3>1, <3>2
  <2>2. f = [i \in 0..n |-> IF i = 0 THEN a ELSE Hear(f[i - 1], text[i])]
    BY <1>8, <2>1
  <2>. QED  BY <1>4, <2>2 DEF Silence
<1>. DEFINE F == CHOOSE h : Eq(h)
<1>10. Eq(F)
  <2>. HIDE DEF Eq
  <2>. QED  BY <1>9
<1>11. HeardUpTo(text) = F
  BY DEF HeardUpTo
<1>12. Eq(HeardUpTo(text))
  <2>. HIDE DEF F, Eq
  <2>. QED  BY <1>10, <1>11
<1>13. PICK G : G = HeardUpTo(text)
  OBVIOUS
<1>14. G = [i \in 0..n |-> IF i = 0 THEN a ELSE Hear(G[i - 1], text[i])]
  BY <1>4, <1>12, <1>13 DEF Silence
<1>15. G[0] = a /\ \A i \in 1..n : G[i] = Hear(G[i - 1], text[i])
  <2>1. 0 \in 0..n /\ \A i \in 1..n : i \in 0..n /\ i # 0
    OBVIOUS
  <2>. QED  BY <1>14, <2>1
<1>16. \A i \in 0..n : G[i] \in A
  <2>1. \A i \in 1..n : G[i - 1] \in A => G[i] \in A
    BY <1>5, <1>15
  <2>. QED  BY <1>15, <2>1, UpType
<1>. QED  BY <1>3, <1>4, <1>13, <1>15, <1>16

LEMMA DialogueType ==
    ASSUME NEW X, NEW text, text \in Seq(X), \A x \in X : x.says \in Seq(Nat)
    PROVE  DialogueSentences(text) \in Seq(Seq(Nat))
<1>1. Len(text) \in Nat /\ Len(text) \in 0..Len(text)
  OBVIOUS
<1>2. HeardUpTo(text)[Len(text)] \in Hearing
  BY <1>1, HeardDef
<1>. QED  BY <1>2 DEF DialogueSentences, Hearing

\* FlattenSeq appends the sequences one by one.
LEMMA FlattenDef ==
    ASSUME NEW Y, NEW s, s \in Seq(Seq(Y)), Len(s) # 0
    PROVE  \E f : /\ f[1] = s[1]
                  /\ \A i \in 2..Len(s) : f[i] = f[i - 1] \o s[i]
                  /\ FlattenSeq(s) = f[Len(s)]
<1>. DEFINE Eq(f) == f = [i \in 1..Len(s) |-> IF i = 1 THEN s[i] ELSE f[i - 1] \o s[i]]
<1>1. Len(s) \in Nat /\ \A i \in 1..Len(s) : s[i] \in Seq(Y)
  OBVIOUS
<1>2. <<>> \in Seq(Y)
  OBVIOUS
<1>3. PICK A : A = Seq(Y)
  OBVIOUS
<1>4. PICK n \in Nat, a \in A : n = Len(s) /\ a = <<>>
  BY <1>1, <1>2, <1>3
<1>. DEFINE g == [i \in 1..n |-> [acc \in A |-> acc \o s[i]]]
<1>5. \A i \in 1..n : \A acc \in A : acc \o s[i] \in A
  BY <1>1, <1>3, <1>4, ConcatProperties
<1>6. g \in Steps(A, n)
  BY <1>5 DEF Steps
<1>7. PICK f : f \in Iterations(A, a, n, g)
  <2>. HIDE DEF g
  <2>. QED  BY <1>6, UpRecursion
<1>8. f \in [0..n -> A] /\ f[0] = a /\ \A i \in 1..n : f[i] = g[i][f[i - 1]]
  BY <1>7 DEF Iterations
<1>9. ASSUME NEW i \in 1..n PROVE f[i] = f[i - 1] \o s[i]
  <2>1. f[i - 1] \in A
    BY <1>8
  <2>2. f[i] = g[i][f[i - 1]]
    BY <1>8
  <2>. QED  BY <2>1, <2>2
<1>. DEFINE h == [i \in 1..n |-> f[i]]
<1>10. Eq(h)
  <2>1. ASSUME NEW i \in 1..n PROVE h[i] = IF i = 1 THEN s[i] ELSE h[i - 1] \o s[i]
    <3>1. CASE i = 1
      <4>1. f[1] = f[0] \o s[1]
        <5>1. 1 - 1 = 0 /\ 1 \in 1..n
          BY <3>1
        <5>2. f[1] = f[1 - 1] \o s[1]
          BY <1>9, <5>1
        <5>. QED  BY <5>1, <5>2
      <4>2. f[0] = <<>> /\ s[1] \in Seq(Y)
        BY <1>1, <1>4, <1>8, <3>1
      <4>3. <<>> \o s[1] = s[1]
        BY <4>2
      <4>. QED  BY <3>1, <4>1, <4>2, <4>3
    <3>2. CASE i # 1
      <4>1. i - 1 \in 1..n
        BY <3>2
      <4>2. h[i] = f[i] /\ h[i - 1] = f[i - 1]
        BY <4>1
      <4>. HIDE DEF h
      <4>. QED  BY <1>9, <3>2, <4>2
    <3>. QED  BY <3>1, <3>2
  <2>2. h = [i \in 1..n |-> IF i = 1 THEN s[i] ELSE h[i - 1] \o s[i]]
    BY <2>1
  <2>. QED  BY <1>4, <2>2
<1>. DEFINE F == CHOOSE k : Eq(k)
<1>11. Eq(F)
  <2>. HIDE DEF Eq, h
  <2>. QED  BY <1>10
<1>12. FlattenSeq(s) = F[Len(s)]
  BY DEF FlattenSeq
<1>13. PICK k : k = F
  OBVIOUS
<1>14. k = [i \in 1..n |-> IF i = 1 THEN s[i] ELSE k[i - 1] \o s[i]]
  <2>1. Eq(k)
    <3>. HIDE DEF Eq, F
    <3>. QED  BY <1>11, <1>13
  <2>. QED  BY <1>4, <2>1
<1>15. k[1] = s[1] /\ \A i \in 2..n : k[i] = k[i - 1] \o s[i]
  <2>1. 1 \in 1..n /\ \A i \in 2..n : i \in 1..n /\ i # 1
    BY <1>4
  <2>. QED  BY <1>14, <2>1
<1>16. FlattenSeq(s) = k[n]
  <2>. HIDE DEF F
  <2>. QED  BY <1>4, <1>12, <1>13
<1>. QED  BY <1>4, <1>15, <1>16

\* Line c ends the dialogue begun at line h.
EndsAt(text, h, c) ==
    /\ \E s \in (h + 1)..(c - 1) : Speaks(text[s])
    /\ \/ text[c].kind = "section"
       \/ text[c].kind = "blank" /\ text[c - 1].kind = "blank"

\* What line i adds to the dialogue begun at line h.
SaidAt(text, h, i) ==
    IF /\ Speaks(text[i]) /\ h < i
       /\ \A c \in (h + 1)..(i - 1) : ~EndsAt(text, h, c)
    THEN Sentences(text[i].says) ELSE <<>>

\* The only dialogue of the text begins at line h.
OneHeader(text, h) ==
    /\ h \in 1..Len(text)
    /\ \A i \in 1..Len(text) : text[i].kind = "header" <=> i = h

\* What is known of the dialogue after line i.
HeardAt(text, h, i) ==
    LET acc == HeardUpTo(text)[i] IN
    /\ i < h => acc = Silence
    /\ i >= h => /\ acc.inside <=> \A c \in (h + 1)..i : ~EndsAt(text, h, c)
                 /\ acc.inside => /\ acc.spoken <=> \E s \in (h + 1)..i : Speaks(text[s])
                                  /\ acc.blanks >= 1 <=> text[i].kind = "blank"

\* What one more line does to a dialogue: new is what is known after it.
HearsAs(acc, line, new) ==
    /\ ~acc.inside /\ line.kind # "header" => new = acc
    /\ acc = Silence /\ line.kind = "header" =>
          /\ new.inside /\ new.spoken = FALSE
          /\ new.blanks = 0 /\ new.out = <<>>
    /\ acc.inside /\ line.kind = "blank" =>
          /\ new.out = acc.out
          /\ IF acc.spoken /\ acc.blanks >= 1 THEN ~new.inside
             ELSE /\ new.inside /\ new.spoken = acc.spoken
                  /\ new.blanks = acc.blanks + 1
    /\ acc.inside /\ line.kind = "section" =>
          /\ new.out = acc.out
          /\ IF acc.spoken THEN ~new.inside
             ELSE /\ new.inside /\ new.spoken = acc.spoken
                  /\ new.blanks = 0
    /\ acc.inside /\ Speaks(line) =>
          /\ new.out = acc.out \o Sentences(line.says)
          /\ new.inside /\ new.spoken /\ new.blanks = 0
    /\ acc.inside /\ line.kind \notin {"blank", "header", "section"} /\ ~Speaks(line) =>
          /\ new.out = acc.out
          /\ new.inside /\ new.spoken = acc.spoken
          /\ new.blanks = 0

LEMMA HearCases ==
    ASSUME NEW acc \in Hearing, NEW line, line.says \in Seq(Nat)
    PROVE  HearsAs(acc, line, Hear(acc, line))
<1>0. acc = [inside |-> acc.inside, spoken |-> acc.spoken, blanks |-> acc.blanks, out |-> acc.out]
      /\ acc.inside \in BOOLEAN /\ acc.spoken \in BOOLEAN
  BY DEF Hearing
<1>1. ASSUME ~acc.inside, line.kind # "header" PROVE Hear(acc, line) = acc
  BY <1>1 DEF Hear
<1>2. ASSUME acc = Silence, line.kind = "header"
      PROVE  /\ Hear(acc, line).inside = TRUE /\ Hear(acc, line).spoken = FALSE
             /\ Hear(acc, line).blanks = 0 /\ Hear(acc, line).out = <<>>
  <2>1. ~acc.inside
    BY <1>2 DEF Silence
  <2>2. Hear(acc, line) = [acc EXCEPT !.inside = TRUE]
    BY <1>2, <2>1 DEF Hear
  <2>. QED  BY <1>2, <2>2 DEF Silence
<1>3. ASSUME acc.inside, line.kind = "blank"
      PROVE  /\ Hear(acc, line).out = acc.out
             /\ IF acc.spoken /\ acc.blanks >= 1 THEN ~Hear(acc, line).inside
                ELSE /\ Hear(acc, line).inside /\ Hear(acc, line).spoken = acc.spoken
                     /\ Hear(acc, line).blanks = acc.blanks + 1
  <2>1. Hear(acc, line) = IF acc.spoken /\ acc.blanks >= 1 THEN OutOfDialogue(acc)
                          ELSE [acc EXCEPT !.blanks = acc.blanks + 1]
    BY <1>3, SpeaksOnly DEF Hear
  <2>2. OutOfDialogue(acc).out = acc.out /\ ~OutOfDialogue(acc).inside
    BY <1>0 DEF OutOfDialogue
  <2>3. /\ [acc EXCEPT !.blanks = acc.blanks + 1].out = acc.out
        /\ [acc EXCEPT !.blanks = acc.blanks + 1].inside = acc.inside
        /\ [acc EXCEPT !.blanks = acc.blanks + 1].spoken = acc.spoken
        /\ [acc EXCEPT !.blanks = acc.blanks + 1].blanks = acc.blanks + 1
    BY <1>0
  <2>. QED  BY <1>3, <2>1, <2>2, <2>3
<1>4. ASSUME acc.inside, line.kind = "section"
      PROVE  /\ Hear(acc, line).out = acc.out
             /\ IF acc.spoken THEN ~Hear(acc, line).inside
                ELSE /\ Hear(acc, line).inside /\ Hear(acc, line).spoken = acc.spoken
                     /\ Hear(acc, line).blanks = 0
  <2>1. Hear(acc, line) = IF acc.spoken THEN OutOfDialogue(acc) ELSE [acc EXCEPT !.blanks = 0]
    BY <1>4, SpeaksOnly DEF Hear
  <2>2. OutOfDialogue(acc).out = acc.out /\ ~OutOfDialogue(acc).inside
    BY <1>0 DEF OutOfDialogue
  <2>3. /\ [acc EXCEPT !.blanks = 0].out = acc.out
        /\ [acc EXCEPT !.blanks = 0].inside = acc.inside
        /\ [acc EXCEPT !.blanks = 0].spoken = acc.spoken
        /\ [acc EXCEPT !.blanks = 0].blanks = 0
    BY <1>0
  <2>. QED  BY <1>4, <2>1, <2>2, <2>3
<1>5. ASSUME acc.inside, Speaks(line)
      PROVE  /\ Hear(acc, line).out = acc.out \o Sentences(line.says)
             /\ Hear(acc, line).inside /\ Hear(acc, line).spoken = TRUE
             /\ Hear(acc, line).blanks = 0
  <2>1. Hear(acc, line) = [acc EXCEPT !.spoken = TRUE, !.blanks = 0,
                                      !.out = acc.out \o Sentences(line.says)]
    BY <1>5, SpeaksOnly DEF Hear
  <2>. QED  BY <1>0, <1>5, <2>1
<1>6. ASSUME acc.inside, line.kind \notin {"blank", "header", "section"}, ~Speaks(line)
      PROVE  /\ Hear(acc, line).out = acc.out
             /\ Hear(acc, line).inside /\ Hear(acc, line).spoken = acc.spoken
             /\ Hear(acc, line).blanks = 0
  <2>1. Hear(acc, line) = [acc EXCEPT !.blanks = 0]
    BY <1>6, SpeaksOnly DEF Hear
  <2>. QED  BY <1>0, <1>6, <2>1
<1>. QED  BY <1>1, <1>2, <1>3, <1>4, <1>5, <1>6 DEF HearsAs

LEMMA HeardNext ==
    ASSUME NEW X, NEW text, text \in Seq(X), \A x \in X : x.says \in Seq(Nat),
           NEW h, OneHeader(text, h), NEW i \in 1..Len(text), HeardAt(text, h, i - 1)
    PROVE  /\ HeardAt(text, h, i)
           /\ HeardUpTo(text)[i].out = HeardUpTo(text)[i - 1].out \o SaidAt(text, h, i)
<1>1. /\ Len(text) \in Nat /\ h \in 1..Len(text) /\ i \in Nat /\ h \in Nat
      /\ \A k \in 1..Len(text) : text[k].kind = "header" <=> k = h
      /\ text[i].says \in Seq(Nat)
  <2>1. Len(text) \in Nat /\ text[i] \in X
    OBVIOUS
  <2>. QED  BY <2>1 DEF OneHeader
<1>2. PICK A, B : A = HeardUpTo(text)[i - 1] /\ B = HeardUpTo(text)[i]
  OBVIOUS
<1>3. A \in Hearing /\ B \in Hearing /\ B = Hear(A, text[i])
  <2>1. i \in 0..Len(text) /\ i - 1 \in 0..Len(text)
    BY <1>1
  <2>. QED  BY <1>2, <2>1, HeardDef
<1>4. /\ A.inside \in BOOLEAN /\ A.spoken \in BOOLEAN /\ A.blanks \in Nat
      /\ A.out \o <<>> = A.out
  <2>1. A.out \in Seq(Seq(Nat))
    BY <1>3 DEF Hearing
  <2>2. A.out \o <<>> = A.out
    BY <2>1
  <2>. QED  BY <1>3, <2>2 DEF Hearing
<1>8. HearsAs(A, text[i], B)
  BY <1>1, <1>3, HearCases
<1>5. CASE i < h
  <2>1. A = Silence /\ text[i].kind # "header"
    BY <1>1, <1>2, <1>5 DEF HeardAt
  <2>2. B = A
    BY <1>8, <2>1 DEF HearsAs, Silence
  <2>3. SaidAt(text, h, i) = <<>>
    BY <1>1, <1>5 DEF SaidAt
  <2>. QED  BY <1>1, <1>2, <1>4, <1>5, <2>1, <2>2, <2>3 DEF HeardAt
<1>6. CASE i = h
  <2>1. A = Silence /\ text[i].kind = "header"
    BY <1>1, <1>2, <1>6 DEF HeardAt
  <2>2. B.inside /\ B.spoken = FALSE /\ B.blanks = 0 /\ B.out = <<>>
    BY <1>8, <2>1 DEF HearsAs
  <2>3. (h + 1)..i = {} /\ i >= h /\ ~(i < h) /\ ~(h < i)
    BY <1>1, <1>6
  <2>4. SaidAt(text, h, i) = <<>>
    BY <2>3 DEF SaidAt
  <2>5. A.out = <<>>
    BY <2>1 DEF Silence
  <2>. QED  BY <1>2, <1>4, <2>1, <2>2, <2>3, <2>4, <2>5 DEF HeardAt
<1>7. CASE i > h
  <2>1. /\ A.inside <=> \A c \in (h + 1)..(i - 1) : ~EndsAt(text, h, c)
        /\ A.inside => /\ A.spoken <=> \E s \in (h + 1)..(i - 1) : Speaks(text[s])
                       /\ A.blanks >= 1 <=> text[i - 1].kind = "blank"
    BY <1>1, <1>2, <1>7 DEF HeardAt
  <2>2. /\ text[i].kind # "header" /\ i >= h /\ ~(i < h) /\ h < i /\ i \in (h + 1)..i
        /\ \A c \in (h + 1)..i : c # i => c \in (h + 1)..(i - 1)
        /\ \A c \in (h + 1)..(i - 1) : c \in (h + 1)..i
    BY <1>1, <1>7
  <2>3. ASSUME ~A.inside
        PROVE  HeardAt(text, h, i) /\ B.out = A.out \o SaidAt(text, h, i)
    <3>1. B = A
      BY <1>8, <2>2, <2>3 DEF HearsAs
    <3>2. ~\A c \in (h + 1)..i : ~EndsAt(text, h, c)
      BY <2>1, <2>2, <2>3
    <3>3. SaidAt(text, h, i) = <<>>
      BY <2>1, <2>3 DEF SaidAt
    <3>. QED  BY <1>2, <1>4, <2>2, <2>3, <3>1, <3>2, <3>3 DEF HeardAt
  <2>4. ASSUME A.inside
        PROVE  HeardAt(text, h, i) /\ B.out = A.out \o SaidAt(text, h, i)
    <3>1. EndsAt(text, h, i) <=>
              /\ A.spoken
              /\ text[i].kind = "section" \/ (text[i].kind = "blank" /\ A.blanks >= 1)
      BY <2>1, <2>4 DEF EndsAt
    <3>2. (\A c \in (h + 1)..i : ~EndsAt(text, h, c)) <=> ~EndsAt(text, h, i)
      BY <2>1, <2>2, <2>4
    <3>3. (\E s \in (h + 1)..i : Speaks(text[s])) <=>
              (A.spoken \/ Speaks(text[i]))
      BY <2>1, <2>2, <2>4
    <3>4. SaidAt(text, h, i) = IF Speaks(text[i]) THEN Sentences(text[i].says) ELSE <<>>
      BY <2>1, <2>2, <2>4 DEF SaidAt
    <3>5. /\ B.inside <=> ~EndsAt(text, h, i)
          /\ B.inside => /\ B.spoken <=> (A.spoken \/ Speaks(text[i]))
                         /\ B.blanks >= 1 <=> text[i].kind = "blank"
          /\ B.out = IF Speaks(text[i]) THEN A.out \o Sentences(text[i].says) ELSE A.out
      <4>1. CASE text[i].kind = "blank"
        BY <1>4, <1>8, <2>4, <3>1, <4>1, SpeaksOnly DEF HearsAs
      <4>2. CASE text[i].kind = "section"
        BY <1>4, <1>8, <2>4, <3>1, <4>2, SpeaksOnly DEF HearsAs
      <4>3. CASE Speaks(text[i])
        <5>1. /\ B.out = A.out \o Sentences(text[i].says)
              /\ B.inside /\ B.spoken /\ B.blanks = 0
          BY <1>8, <2>4, <4>3 DEF HearsAs
        <5>2. ~EndsAt(text, h, i)
          BY <3>1, <4>3, SpeaksOnly
        <5>3. ~(B.blanks >= 1) /\ text[i].kind # "blank"
          BY <4>3, <5>1, SpeaksOnly
        <5>. QED  BY <4>3, <5>1, <5>2, <5>3
      <4>4. CASE text[i].kind \notin {"blank", "header", "section"} /\ ~Speaks(text[i])
        BY <1>4, <1>8, <2>4, <3>1, <4>4 DEF HearsAs
      <4>. QED  BY <2>2, <4>1, <4>2, <4>3, <4>4
    <3>6. HeardAt(text, h, i)
      BY <1>2, <2>2, <3>2, <3>3, <3>5 DEF HeardAt
    <3>. QED  BY <1>4, <3>4, <3>5, <3>6
  <2>. QED  BY <1>2, <1>4, <2>3, <2>4
<1>. QED  BY <1>1, <1>5, <1>6, <1>7

\* Exactly what the speakers of the dialogue say is taken, in order.
LEMMA HeardWhole ==
    ASSUME NEW X, NEW text, text \in Seq(X), \A x \in X : x.says \in Seq(Nat),
           NEW h, OneHeader(text, h)
    PROVE  DialogueSentences(text) = FlattenSeq([i \in DOMAIN text |-> SaidAt(text, h, i)])
<1>1. PICK n \in Nat : n = Len(text) /\ DOMAIN text = 1..n /\ n # 0 /\ h \in 1..n
  BY DEF OneHeader
<1>2. PICK H : H = HeardUpTo(text)
  OBVIOUS
<1>. DEFINE S == {i \in 0..n : HeardAt(text, h, i)}
<1>3. 0 \in S
  <2>1. HeardUpTo(text)[0] = Silence /\ 0 < h /\ ~(0 >= h)
    BY <1>1, HeardDef
  <2>. QED  BY <2>1 DEF HeardAt
<1>4. ASSUME NEW i \in 0..(n - 1), i \in S PROVE i + 1 \in S
  <2>1. i + 1 \in 1..Len(text) /\ (i + 1) - 1 = i /\ i + 1 \in 0..n
    BY <1>1
  <2>2. HeardAt(text, h, (i + 1) - 1)
    BY <1>4, <2>1
  <2>3. HeardAt(text, h, i + 1)
    BY <2>1, <2>2, HeardNext
  <2>. QED  BY <2>1, <2>3
<1>5. \A i \in 0..n : i \in S
  <2>. HIDE DEF S
  <2>. QED  BY <1>3, <1>4, Upward
<1>6. ASSUME NEW i \in 1..n PROVE H[i].out = H[i - 1].out \o SaidAt(text, h, i)
  <2>1. i \in 1..Len(text) /\ i - 1 \in 0..n
    BY <1>1
  <2>2. HeardAt(text, h, i - 1)
    BY <1>5, <2>1
  <2>. QED  BY <1>2, <2>1, <2>2, HeardNext
<1>7. \A i \in 0..n : H[i] \in Hearing /\ H[i].out \in Seq(Seq(Nat))
  BY <1>1, <1>2, HeardDef DEF Hearing
<1>8. H[0].out = <<>>
  BY <1>2, HeardDef DEF Silence
<1>9. PICK s : s = [i \in DOMAIN text |-> SaidAt(text, h, i)]
  OBVIOUS
<1>10. /\ s \in Seq(Seq(Seq(Nat))) /\ Len(s) = n
       /\ \A i \in 1..n : s[i] = SaidAt(text, h, i) /\ s[i] \in Seq(Seq(Nat))
  <2>1. ASSUME NEW i \in 1..n PROVE SaidAt(text, h, i) \in Seq(Seq(Nat))
    <3>1. text[i].says \in Seq(Nat)
      <4>1. text[i] \in X
        BY <1>1
      <4>. QED  BY <4>1
    <3>2. Sentences(text[i].says) \in Seq(Seq(Nat))
      BY <3>1, SentencesType
    <3>. QED  BY <3>2 DEF SaidAt
  <2>2. s \in [1..n -> Seq(Seq(Nat))]
    BY <1>1, <1>9, <2>1
  <2>3. \A i \in 1..n : s[i] = SaidAt(text, h, i)
    BY <1>1, <1>9
  <2>4. s \in Seq(Seq(Seq(Nat))) /\ Len(s) = n
    BY <2>2, FunctionSeq
  <2>. QED  BY <2>1, <2>3, <2>4
<1>11. PICK f : /\ f[1] = s[1]
                /\ \A i \in 2..n : f[i] = f[i - 1] \o s[i]
                /\ FlattenSeq(s) = f[n]
  <2>1. \E f : /\ f[1] = s[1]
               /\ \A i \in 2..Len(s) : f[i] = f[i - 1] \o s[i]
               /\ FlattenSeq(s) = f[Len(s)]
    BY <1>1, <1>10, FlattenDef
  <2>. QED  BY <1>10, <2>1
<1>. DEFINE T == {i \in 0..n : i = 0 \/ H[i].out = f[i]}
<1>12. 0 \in T
  OBVIOUS
<1>13. ASSUME NEW i \in 0..(n - 1), i \in T PROVE i + 1 \in T
  <2>1. i + 1 \in 1..n /\ (i + 1) - 1 = i /\ i + 1 \in 0..n
    OBVIOUS
  <2>2. H[i + 1].out = H[i].out \o s[i + 1]
    BY <1>6, <1>10, <2>1
  <2>3. CASE i = 0
    <3>1. <<>> \o s[1] = s[1]
      BY <1>1, <1>10
    <3>2. i + 1 = 1
      BY <2>3
    <3>3. H[1].out = <<>> \o s[1]
      BY <1>8, <2>2, <2>3, <3>2
    <3>4. H[i + 1].out = f[i + 1]
      BY <1>11, <3>1, <3>2, <3>3
    <3>. QED  BY <2>1, <3>4
  <2>4. CASE i # 0
    <3>1. i + 1 \in 2..n /\ H[i].out = f[i]
      BY <1>13, <2>4
    <3>. QED  BY <1>11, <2>1, <2>2, <3>1
  <2>. QED  BY <2>3, <2>4
<1>14. n \in T
  <2>. HIDE DEF T
  <2>1. \A i \in 0..n : i \in T
    BY <1>12, <1>13, Upward
  <2>. QED  BY <2>1
<1>. QED  BY <1>1, <1>2, <1>9, <1>11, <1>14 DEF DialogueSentences

----------------------------------------------------------------------------
(* Every unit is in the text *)

Inside(lo, hi) ==
    {W \in Seq(Window) : \A k \in 1..Len(W) : W[k].from \in lo..hi /\ W[k].to \in lo..hi}

LEMMA InsideConcat ==
    ASSUME NEW lo, NEW hi, NEW V \in Inside(lo, hi), NEW W \in Inside(lo, hi)
    PROVE  V \o W \in Inside(lo, hi)
<1>0. V \in Seq(Window) /\ W \in Seq(Window) /\ Len(V) \in Nat /\ Len(W) \in Nat
  BY DEF Inside
<1>1. /\ V \o W \in Seq(Window) /\ Len(V \o W) = Len(V) + Len(W)
      /\ \A k \in 1..(Len(V) + Len(W)) : (V \o W)[k] = IF k <= Len(V) THEN V[k] ELSE W[k - Len(V)]
  BY <1>0, ConcatProperties
<1>2. ASSUME NEW k \in 1..Len(V \o W)
      PROVE  (V \o W)[k].from \in lo..hi /\ (V \o W)[k].to \in lo..hi
  <2>1. CASE k <= Len(V)
    <3>1. k \in 1..Len(V) /\ (V \o W)[k] = V[k]
      BY <1>0, <1>1, <2>1
    <3>. QED  BY <3>1 DEF Inside
  <2>2. CASE ~(k <= Len(V))
    <3>1. k - Len(V) \in 1..Len(W) /\ (V \o W)[k] = W[k - Len(V)]
      BY <1>0, <1>1, <2>2
    <3>. QED  BY <3>1 DEF Inside
  <2>. QED  BY <2>1, <2>2
<1>. QED  BY <1>1, <1>2 DEF Inside

LEMMA ChunksInside ==
    ASSUME NEW b, ProperBlock(b), NEW lo \in Nat, NEW hi \in Nat, lo <= b.from, b.to <= hi
    PROVE  Chunks(b) \in Inside(lo, hi)
<1>0. b.from \in Nat /\ b.to \in Nat /\ b.from <= b.to
  BY DEF ProperBlock, Block
<1>1. PICK m \in Nat, n \in Nat : m = b.from /\ n = b.to
  BY <1>0
<1>2. PICK F : F = ChunksFrom(b)
  OBVIOUS
<1>. DEFINE S == {s \in m..n : F[s] \in Inside(lo, hi)}
<1>3. ASSUME NEW s \in m..n, \A j \in (s + 1)..n : j \in S PROVE s \in S
  <2>1. PICK e : e = WindowEnd(b, s)
    OBVIOUS
  <2>2. /\ s \in Nat /\ e \in s .. n
        /\ e < n => e - Overlap + 1 \in (s + 1) .. n
    BY <1>1, <2>1, WindowFacts
  <2>3. PICK w : w = [from |-> s, to |-> e]
    OBVIOUS
  <2>4. w \in Window /\ w.from \in lo..hi /\ w.to \in lo..hi
    BY <1>1, <2>2, <2>3 DEF Window
  <2>5. <<w>> \in Inside(lo, hi)
    <3>1. <<w>> \in Seq(Window) /\ Len(<<w>>) = 1 /\ <<w>>[1] = w
      BY <2>4
    <3>. QED  BY <2>4, <3>1 DEF Inside
  <2>6. F[s] = <<w>> \o (IF e >= n THEN <<>> ELSE F[e - Overlap + 1])
    BY <1>1, <1>2, <2>1, <2>3, ChunksDef DEF ChunksNext
  <2>7. <<>> \in Inside(lo, hi)
    BY DEF Inside
  <2>8. PICK R : R = IF e >= n THEN <<>> ELSE F[e - Overlap + 1]
    OBVIOUS
  <2>9. R \in Inside(lo, hi)
    <3>1. CASE e >= n
      BY <2>7, <2>8, <3>1
    <3>2. CASE ~(e >= n)
      <4>1. e - Overlap + 1 \in (s + 1)..n
        BY <1>1, <2>2, <3>2
      <4>2. F[e - Overlap + 1] \in Inside(lo, hi)
        BY <1>3, <4>1
      <4>. QED  BY <2>8, <3>2, <4>2
    <3>. QED  BY <3>1, <3>2
  <2>10. F[s] \in Inside(lo, hi)
    BY <2>5, <2>6, <2>8, <2>9, InsideConcat
  <2>. QED  BY <2>10
<1>4. m \in S
  <2>1. m \in m..n
    BY <1>0, <1>1
  <2>. HIDE DEF S
  <2>. QED  BY <1>3, <2>1, Downward
<1>. QED  BY <1>1, <1>2, <1>4 DEF Chunks

LEMMA UnitsInside ==
    ASSUME NEW text, NEW B, ProperBlocks(B), NEW hi \in Nat,
           \A k \in 1..Len(B) : 1 <= B[k].from /\ B[k].to <= hi
    PROVE  UnitsUpTo(text, B)[Len(B)] \in Inside(1, hi)
<1>1. PICK n \in Nat : n = Len(B)
  BY DEF ProperBlocks
<1>2. PICK U : U = UnitsUpTo(text, B)
  OBVIOUS
<1>3. PICK A : A = Inside(1, hi)
  OBVIOUS
<1>4. U[0] \in A
  <2>1. U[0] = <<>>
    BY <1>2, UnitsDef
  <2>2. <<>> \in Inside(1, hi)
    BY DEF Inside
  <2>. QED  BY <1>3, <2>1, <2>2
<1>5. ASSUME NEW i \in 1..n, U[i - 1] \in A PROVE U[i] \in A
  <2>1. PICK b : b = B[i]
    OBVIOUS
  <2>2. ProperBlock(b) /\ 1 <= b.from /\ b.to <= hi
    BY <1>1, <2>1 DEF ProperBlocks
  <2>3. UnitsOf(text, b) \in A
    <3>1. Chunks(b) \in Inside(1, hi)
      BY <2>2, ChunksInside
    <3>2. PICK w : w = [from |-> b.from, to |-> b.to]
      OBVIOUS
    <3>3. w \in Window /\ w.from \in 1..hi /\ w.to \in 1..hi
      BY <2>2, <3>2 DEF ProperBlock, Block, Window
    <3>4. <<w>> \in Inside(1, hi)
      <4>1. <<w>> \in Seq(Window) /\ Len(<<w>>) = 1 /\ <<w>>[1] = w
        BY <3>3
      <4>. QED  BY <3>3, <4>1 DEF Inside
    <3>5. <<>> \in Inside(1, hi)
      BY DEF Inside
    <3>. QED  BY <1>3, <3>1, <3>2, <3>4, <3>5 DEF UnitsOf
  <2>4. U[i] = U[i - 1] \o UnitsOf(text, b)
    <3>1. \A j \in 1..Len(B) : U[j] = U[j - 1] \o UnitsOf(text, B[j])
      BY <1>2, UnitsDef
    <3>. QED  BY <1>1, <2>1, <3>1
  <2>. QED  BY <1>3, <1>5, <2>3, <2>4, InsideConcat
<1>6. \A i \in 0..n : U[i] \in A
  BY <1>4, <1>5, UpType
<1>. QED  BY <1>1, <1>2, <1>3, <1>6
=============================================================================
