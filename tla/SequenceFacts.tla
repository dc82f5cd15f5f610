--------------------------- MODULE SequenceFacts ---------------------------
(***************************************************************************)
(* Facts about sequences that the proofs of the other modules cite: when a *)
(* concatenation is increasing, and what FlattenSeq, which is defined by   *)
(* recursion over a sequence of sequences, makes of it.                    *)
(***************************************************************************)
EXTENDS Integers, SequencesExt, SequenceTheorems, WellFoundedInduction, TLAPS

Increasing(s) == \A i, j \in DOMAIN s : i < j => s[i] < s[j]

\* A concatenation is increasing if its parts are, the first below the second.
Below(s, t) == \A i \in DOMAIN s, j \in DOMAIN t : s[i] < t[j]

LEMMA IncreasingParts ==
  ASSUME NEW s \in Seq(Nat), NEW t \in Seq(Nat)
  PROVE  Increasing(s \o t) <=> Increasing(s) /\ Increasing(t) /\ Below(s, t)
<1> DEFINE u == s \o t
<1>1. /\ DOMAIN s = 1..Len(s) /\ DOMAIN t = 1..Len(t)
      /\ DOMAIN u = 1..(Len(s) + Len(t))
      /\ Len(s) \in Nat /\ Len(t) \in Nat
  OBVIOUS
<1>2. \A i \in 1..Len(s) : u[i] = s[i]
  OBVIOUS
<1>3. \A i \in 1..Len(t) : u[Len(s) + i] = t[i]
  OBVIOUS
<1> HIDE DEF u
<1>4. ASSUME Increasing(u) PROVE Increasing(s) /\ Increasing(t) /\ Below(s, t)
  <2>1. Increasing(s)
    BY <1>1, <1>2, <1>4 DEF Increasing
  <2>2. Increasing(t)
    <3> SUFFICES ASSUME NEW i \in 1..Len(t), NEW j \in 1..Len(t), i < j
                 PROVE  t[i] < t[j]
      BY <1>1 DEF Increasing
    <3>1. Len(s) + i \in DOMAIN u /\ Len(s) + j \in DOMAIN u /\ Len(s) + i < Len(s) + j
      BY <1>1
    <3>2. u[Len(s) + i] < u[Len(s) + j]
      BY <1>4, <3>1 DEF Increasing
    <3>3. QED
      BY <1>3, <3>2
  <2>3. Below(s, t)
    <3> SUFFICES ASSUME NEW i \in 1..Len(s), NEW j \in 1..Len(t)
                 PROVE  s[i] < t[j]
      BY <1>1 DEF Below
    <3>1. i \in DOMAIN u /\ Len(s) + j \in DOMAIN u /\ i < Len(s) + j
      BY <1>1
    <3>2. u[i] < u[Len(s) + j]
      BY <1>4, <3>1 DEF Increasing
    <3>3. QED
      BY <1>2, <1>3, <3>2
  <2>4. QED
    BY <2>1, <2>2, <2>3
<1>5. ASSUME Increasing(s), Increasing(t), Below(s, t) PROVE Increasing(u)
  <2> SUFFICES ASSUME NEW i \in DOMAIN u, NEW j \in DOMAIN u, i < j
               PROVE  u[i] < u[j]
    BY DEF Increasing
  <2>1. CASE j \in 1..Len(s)
    BY <1>1, <1>2, <1>5, <2>1 DEF Increasing
  <2>2. CASE i \in 1..Len(s) /\ j \notin 1..Len(s)
    <3>1. j - Len(s) \in 1..Len(t) /\ u[j] = t[j - Len(s)]
      BY <1>1, <1>3, <2>2
    <3>2. QED
      BY <1>1, <1>2, <1>5, <2>2, <3>1 DEF Below
  <2>3. CASE i \notin 1..Len(s)
    <3>1. /\ i - Len(s) \in 1..Len(t) /\ Len(s) + (i - Len(s)) = i
          /\ j - Len(s) \in 1..Len(t) /\ Len(s) + (j - Len(s)) = j
          /\ i - Len(s) < j - Len(s)
      <4>1. /\ i \in 1..(Len(s) + Len(t)) /\ i \notin 1..Len(s)
            /\ j \in 1..(Len(s) + Len(t)) /\ i < j
            /\ Len(s) \in Nat /\ Len(t) \in Nat
        BY <1>1, <2>3
      <4>2. QED
        BY <4>1
    <3>2. u[i] = t[i - Len(s)] /\ u[j] = t[j - Len(s)]
      BY <1>3, <3>1
    <3>3. QED
      BY <1>1, <1>5, <3>1, <3>2 DEF Increasing
  <2>4. QED
    BY <2>1, <2>2, <2>3
<1>6. QED
  BY <1>4, <1>5 DEF u

-----------------------------------------------------------------------------
(* Concatenation of sequences of bytes.                                    *)

\* Where the elements of a concatenation are.
LEMMA ConcatParts ==
  ASSUME NEW s \in Seq(Nat), NEW t \in Seq(Nat)
  PROVE  /\ s \o t \in Seq(Nat) /\ Len(s \o t) = Len(s) + Len(t)
         /\ DOMAIN s = 1..Len(s) /\ DOMAIN t = 1..Len(t)
         /\ DOMAIN (s \o t) = 1..(Len(s) + Len(t))
         /\ Len(s) \in Nat /\ Len(t) \in Nat
         /\ \A i \in 1..Len(s) : (s \o t)[i] = s[i] /\ s[i] \in Nat
         /\ \A i \in 1..Len(t) : (s \o t)[Len(s) + i] = t[i] /\ t[i] \in Nat
OBVIOUS

\* Concatenation as an associative operator, and no more.
Cat(s, t) == s \o t

LEMMA CatAssociative ==
  /\ \A s, t \in Seq(Nat) : Cat(s, t) \in Seq(Nat)
  /\ \A s, t, u \in Seq(Nat) : Cat(Cat(s, t), u) = Cat(s, Cat(t, u))
  /\ \A s \in Seq(Nat) : Cat(s, <<>>) = s /\ Cat(<<>>, s) = s
<1>1. ASSUME NEW s \in Seq(Nat), NEW t \in Seq(Nat) PROVE s \o t \in Seq(Nat)
  OBVIOUS
<1>2. ASSUME NEW s \in Seq(Nat), NEW t \in Seq(Nat), NEW u \in Seq(Nat)
      PROVE  (s \o t) \o u = s \o (t \o u)
  OBVIOUS
<1>3. ASSUME NEW s \in Seq(Nat) PROVE s \o <<>> = s /\ <<>> \o s = s
  OBVIOUS
<1>4. QED
  BY <1>1, <1>2, <1>3 DEF Cat

\* What leaves a concatenation at its front.
LEMMA FrontTaken ==
  ASSUME NEW s \in Seq(Nat), NEW t \in Seq(Nat)
  PROVE  LET w == Cat(s, t)
         IN  /\ Len(s) \in 0..Len(w)
             /\ SubSeq(w, 1, Len(s)) = s
             /\ SubSeq(w, Len(s) + 1, Len(w)) = t
<1> DEFINE w == Cat(s, t)
           k == Len(s)
           n == Len(w)
<1>1. /\ w \in Seq(Nat) /\ n = k + Len(t) /\ Len(t) \in Nat /\ k \in Nat
      /\ \A i \in 1..k : w[i] = s[i] /\ s[i] \in Nat
      /\ \A i \in 1..Len(t) : w[k + i] = t[i] /\ t[i] \in Nat
  BY ConcatParts DEF Cat
<1> HIDE DEF w
<1>2. SubSeq(w, 1, k) = s
  <2>1. 1 \in Int /\ k \in Int /\ \A i \in 1..k : w[i] \in Nat
    BY <1>1
  <2>2. /\ SubSeq(w, 1, k) \in Seq(Nat) /\ Len(SubSeq(w, 1, k)) = k
        /\ \A i \in 1..k : SubSeq(w, 1, k)[i] = w[i]
    <3> HIDE DEF k
    <3>1. (IF 1 <= k THEN k - 1 + 1 ELSE 0) = k
      BY <1>1
    <3>2. \A i \in 1..k : 1 + i - 1 = i
      BY <1>1
    <3>3. QED
      BY <1>1, <2>1, <3>1, <3>2, SubSeqProperties
  <2>3. QED
    BY <1>1, <2>2, SeqEqual
<1>3. SubSeq(w, k + 1, n) = t
  <2> DEFINE r == SubSeq(w, k + 1, n)
  <2>1. k + 1 \in Int /\ n \in Int
    BY <1>1
  <2>2. \A i \in (k + 1)..n : i - k \in 1..Len(t) /\ k + (i - k) = i
    BY <1>1
  <2>3. \A i \in (k + 1)..n : w[i] \in Nat
    BY <1>1, <2>2
  <2>4. /\ r \in Seq(Nat) /\ Len(r) = IF k + 1 <= n THEN n - (k + 1) + 1 ELSE 0
        /\ \A i \in 1..(n - (k + 1) + 1) : r[i] = w[k + 1 + i - 1]
    BY <2>1, <2>3, SubSeqProperties
  <2> HIDE DEF r, k, n
  <2>5. Len(r) = Len(t) /\ \A i \in 1..Len(t) : i \in 1..(n - (k + 1) + 1) /\ k + 1 + i - 1 = k + i
    BY <1>1, <2>4
  <2>6. \A i \in 1..Len(t) : r[i] = t[i]
    BY <1>1, <2>4, <2>5
  <2>7. QED
    BY <2>4, <2>5, <2>6, SeqEqual DEF r
<1>4. QED
  BY <1>1, <1>2, <1>3 DEF w

-----------------------------------------------------------------------------
(* Induction: a property that fails for some number fails for a least one. *)
LEMMA LeastNumber ==
  ASSUME NEW T \in SUBSET Nat, T # {}
  PROVE  \E n \in T : \A m \in T : n <= m
<1> DEFINE R == OpToRel(<, Nat)
<1>1. IsWellFoundedOn(R, Nat)
  BY NatLessThanWellFounded
<1>2. ASSUME NEW i \in Nat, NEW j \in Nat, <<i, j>> \notin R PROVE j <= i
  BY <1>2 DEF OpToRel
<1> HIDE DEF R
<1>3. PICK n \in T : \A m \in T : ~ (<<m, n>> \in R)
  BY <1>1, WFMin
<1>4. ASSUME NEW m \in T PROVE n <= m
  BY <1>2, <1>3
<1>5. QED
  BY <1>4

-----------------------------------------------------------------------------
(* FlattenSeq.  Its value is the last one of a function f on the positions *)
(* of q: f[i] is what the first i members of q make together.              *)

Folds(q, n, f) == /\ f[1] = q[1]
                  /\ \A i \in 2..n : f[i] = f[i - 1] \o q[i]

LEMMA Predecessor ==
  ASSUME NEW n \in Nat, NEW k \in 1..n, k # 1
  PROVE  /\ k \in 2..n /\ k - 1 \in 1..n
         /\ (k - 1) + 1 = k /\ ~(k <= k - 1)
OBVIOUS

\* There is such a function.
LEMMA FoldExists ==
  ASSUME NEW S, NEW q \in Seq(Seq(S)), NEW n \in 1..Len(q)
  PROVE  \E f \in [1..n -> Seq(S)] : Folds(q, n, f)
<1> DEFINE P(k) == \E f \in [1..k -> Seq(S)] : Folds(q, k, f)
           T == {k \in 1..Len(q) : ~P(k)}
<1>0. Len(q) \in Nat /\ \A i \in 1..Len(q) : q[i] \in Seq(S)
  BY LenProperties
<1>1. P(1)
  <2>1. [i \in 1..1 |-> q[1]] \in [1..1 -> Seq(S)]
    BY <1>0
  <2>2. Folds(q, 1, [i \in 1..1 |-> q[1]])
    BY DEF Folds
  <2>3. QED
    BY <2>1, <2>2
<1>2. ASSUME NEW k \in 1..Len(q), k + 1 \in 1..Len(q), P(k) PROVE P(k + 1)
  <2>1. PICK f \in [1..k -> Seq(S)] : Folds(q, k, f)
    BY <1>2
  <2> DEFINE g == [i \in 1..(k + 1) |-> IF i = k + 1 THEN f[k] \o q[k + 1] ELSE f[i]]
  <2>2. k \in Nat /\ k >= 1
    BY <1>0
  <2>3. f[k] \o q[k + 1] \in Seq(S)
    BY <1>0, <1>2, <2>2, ConcatProperties
  <2>4. g \in [1..(k + 1) -> Seq(S)]
    <3>1. \A i \in 1..(k + 1) : i = k + 1 \/ i \in 1..k
      BY <2>2
    <3>2. QED
      BY <2>3, <3>1
  <2>5. g[k + 1] = f[k] \o q[k + 1] /\ \A i \in 1..k : g[i] = f[i]
    BY <2>2
  <2> HIDE DEF g
  <2>6. ASSUME NEW i \in 2..(k + 1) PROVE g[i] = g[i - 1] \o q[i]
    <3>1. CASE i = k + 1
      <4>1. i - 1 = k /\ k \in 1..k
        BY <2>2, <3>1
      <4>2. QED
        BY <2>5, <3>1, <4>1
    <3>2. CASE i # k + 1
      <4>1. i \in 2..k /\ i \in 1..k /\ i - 1 \in 1..k
        BY <2>2, <3>2
      <4>2. QED
        BY <2>1, <2>5, <4>1 DEF Folds
    <3>3. QED
      BY <3>1, <3>2
  <2>7. g[1] = q[1]
    BY <2>1, <2>2, <2>5 DEF Folds
  <2>8. QED
    BY <2>4, <2>6, <2>7 DEF Folds
<1> HIDE DEF P
<1>3. T = {}
  <2> SUFFICES ASSUME T # {} PROVE FALSE
    OBVIOUS
  <2>1. T \in SUBSET Nat
    BY <1>0
  <2>2. PICK k \in T : \A m \in T : k <= m
    BY <2>1, LeastNumber
  <2>3. k # 1 /\ k \in 1..Len(q) /\ ~P(k)
    BY <1>1
  <2>4. k - 1 \in 1..Len(q) /\ (k - 1) + 1 = k /\ ~(k <= k - 1)
    BY <1>0, <2>3, Predecessor
  <2>5. P(k - 1)
    BY <2>2, <2>4
  <2>6. QED
    BY <1>2, <2>3, <2>4, <2>5
<1>4. P(n)
  BY <1>3
<1>5. QED
  BY <1>4 DEF P

\* And only one.
LEMMA FoldUnique ==
  ASSUME NEW q, NEW r, NEW n \in Nat \ {0}, NEW f, NEW g, Folds(q, n, f), Folds(r, n, g),
         \A i \in 1..n : q[i] = r[i]
  PROVE  \A i \in 1..n : f[i] = g[i]
<1> SUFFICES ASSUME NEW b \in 1..n, f[b] # g[b] PROVE FALSE
  OBVIOUS
<1> DEFINE T == {i \in 1..n : f[i] # g[i]}
<1>1. T \in SUBSET Nat /\ T # {}
  OBVIOUS
<1>2. PICK k \in T : \A m \in T : k <= m
  BY <1>1, LeastNumber
<1>3. k # 1
  BY DEF Folds
<1>4. k \in 2..n /\ k - 1 \in 1..n /\ k - 1 \notin T
  BY <1>2, <1>3
<1>5. f[k] = f[k - 1] \o q[k] /\ g[k] = g[k - 1] \o r[k] /\ f[k - 1] = g[k - 1]
  BY <1>4 DEF Folds
<1>6. QED
  BY <1>5

\* What FlattenSeq is.
LEMMA FlattenIsFold ==
  ASSUME NEW S, NEW q \in Seq(Seq(S)), q # <<>>
  PROVE  \E f \in [1..Len(q) -> Seq(S)] : Folds(q, Len(q), f) /\ FlattenSeq(q) = f[Len(q)]
<1> DEFINE n == Len(q)
           Eqn(f) == f = [i \in 1..Len(q) |-> IF i = 1 THEN q[i] ELSE f[i - 1] \o q[i]]
<1>1. n \in Nat \ {0} /\ n \in 1..Len(q)
  OBVIOUS
<1>2. PICK f \in [1..n -> Seq(S)] : Folds(q, n, f)
  BY <1>1, FoldExists
<1>3. Eqn(f)
  <2>1. ASSUME NEW i \in 1..Len(q) PROVE f[i] = IF i = 1 THEN q[i] ELSE f[i - 1] \o q[i]
    <3>1. CASE i = 1
      BY <1>2, <3>1 DEF Folds
    <3>2. CASE i # 1
      <4>1. i \in 2..n
        BY <1>1, <3>2
      <4>2. QED
        BY <1>2, <3>2, <4>1 DEF Folds
    <3>3. QED
      BY <3>1, <3>2
  <2>2. f = [i \in 1..n |-> f[i]]
    BY <1>2
  <2>3. QED
    BY <2>1, <2>2
<1>4. ASSUME NEW g, Eqn(g) PROVE g = f
  <2>1. ASSUME NEW i \in 1..n PROVE g[i] = IF i = 1 THEN q[i] ELSE g[i - 1] \o q[i]
    <3> DEFINE F == [j \in 1..Len(q) |-> IF j = 1 THEN q[j] ELSE g[j - 1] \o q[j]]
    <3>1. g = F
      BY <1>4
    <3>2. F[i] = IF i = 1 THEN q[i] ELSE g[i - 1] \o q[i]
      OBVIOUS
    <3> HIDE DEF F
    <3>3. QED
      BY <3>1, <3>2
  <2>2. DOMAIN g = 1..n /\ g = [i \in 1..n |-> g[i]]
    <3> DEFINE F == [j \in 1..Len(q) |-> IF j = 1 THEN q[j] ELSE g[j - 1] \o q[j]]
    <3>1. g = F
      BY <1>4
    <3>2. DOMAIN F = 1..n /\ F = [i \in 1..n |-> F[i]]
      OBVIOUS
    <3> HIDE DEF F
    <3>3. QED
      BY <3>1, <3>2
  <2>3. Folds(q, n, g)
    <3>1. 1 \in 1..n /\ \A i \in 2..n : i \in 1..n /\ i # 1
      BY <1>1
    <3>2. QED
      BY <2>1, <3>1 DEF Folds
  <2>4. \A i \in 1..n : f[i] = g[i]
    BY <1>1, <1>2, <2>3, FoldUnique
  <2>5. f = [i \in 1..n |-> f[i]]
    BY <1>2
  <2>6. QED
    BY <2>2, <2>4, <2>5
<1>5. FlattenSeq(q) = (CHOOSE g : Eqn(g))[Len(q)]
  BY <1>1, Zenon DEF FlattenSeq
<1> HIDE DEF Eqn
<1>6. f = CHOOSE g : Eqn(g)
  BY <1>3, <1>4, Zenon
<1>7. QED
  BY <1>2, <1>5, <1>6

\* Of no members.
LEMMA FlattenEmpty == FlattenSeq(<<>>) = <<>>
BY DEF FlattenSeq

LEMMA FlattenType ==
  ASSUME NEW S, NEW q \in Seq(Seq(S))
  PROVE  FlattenSeq(q) \in Seq(S)
<1>1. CASE q = <<>>
  BY <1>1, FlattenEmpty, EmptySeq
<1>2. CASE q # <<>>
  <2>1. PICK f \in [1..Len(q) -> Seq(S)] : FlattenSeq(q) = f[Len(q)]
    BY <1>2, FlattenIsFold
  <2>2. Len(q) \in 1..Len(q)
    BY <1>2
  <2>3. QED
    BY <2>1, <2>2
<1>3. QED
  BY <1>1, <1>2

\* Of one.
LEMMA FlattenOne ==
  ASSUME NEW S, NEW m \in Seq(S)
  PROVE  FlattenSeq(<<m>>) = m
<1>1. <<m>> \in Seq(Seq(S)) /\ Len(<<m>>) = 1 /\ <<m>>[1] = m /\ <<m>> # <<>>
  OBVIOUS
<1>2. PICK f : Folds(<<m>>, 1, f) /\ FlattenSeq(<<m>>) = f[1]
  BY <1>1, FlattenIsFold
<1>3. QED
  BY <1>1, <1>2 DEF Folds

\* With one more at the end.
LEMMA FlattenAppend ==
  ASSUME NEW S, NEW q \in Seq(Seq(S)), NEW m \in Seq(S)
  PROVE  FlattenSeq(Append(q, m)) = FlattenSeq(q) \o m
<1>1. CASE q = <<>>
  <2>1. Append(q, m) = <<m>> /\ <<>> \o m = m
    BY <1>1
  <2>2. QED
    BY <1>1, <2>1, FlattenEmpty, FlattenOne
<1>2. CASE q # <<>>
  <2> DEFINE n == Len(q)
             a == Append(q, m)
  <2>1. /\ a \in Seq(Seq(S)) /\ a # <<>> /\ Len(a) = n + 1 /\ n \in Nat \ {0}
        /\ a[n + 1] = m /\ \A i \in 1..n : a[i] = q[i]
    BY <1>2, AppendProperties, EmptySeq
  <2> HIDE DEF a
  <2>2. PICK f : Folds(q, n, f) /\ FlattenSeq(q) = f[n]
    BY <1>2, FlattenIsFold
  <2>3. PICK g : Folds(a, n + 1, g) /\ FlattenSeq(a) = g[n + 1]
    BY <2>1, FlattenIsFold
  <2> HIDE DEF n
  <2>4. Folds(a, n, g) /\ g[n + 1] = g[n] \o a[n + 1]
    <3>1. n + 1 \in 2..(n + 1) /\ (n + 1) - 1 = n /\ 2..n \subseteq 2..(n + 1)
      BY <2>1
    <3>2. QED
      BY <2>3, <3>1 DEF Folds
  <2>5. g[n] = f[n]
    <3>1. n \in Nat \ {0} /\ \A i \in 1..n : a[i] = q[i]
      BY <2>1
    <3>2. Folds(a, n, g) /\ Folds(q, n, f)
      BY <2>2, <2>4
    <3>3. \A i \in 1..n : g[i] = f[i]
      BY <3>1, <3>2, FoldUnique
    <3>4. QED
      BY <2>1, <3>3
  <2>6. QED
    BY <2>1, <2>2, <2>3, <2>4, <2>5 DEF a
<1>3. QED
  BY <1>1, <1>2

\* By its first member and the others.
LEMMA FlattenHead ==
  ASSUME NEW S, NEW q \in Seq(Seq(S)), q # <<>>
  PROVE  FlattenSeq(q) = Head(q) \o FlattenSeq(Tail(q))
<1>0. \A x, y, z \in Seq(S) : (x \o y) \o z = x \o (y \o z)
  <2> TAKE x, y, z \in Seq(S)
  <2>1. QED
    OBVIOUS
<1> DEFINE t == Tail(q)
           n == Len(t)
<1>1. /\ Head(q) \in Seq(S) /\ Head(q) = q[1] /\ t \in Seq(Seq(S)) /\ n \in Nat
      /\ Len(q) = n + 1 /\ \A i \in 1..n : t[i] = q[i + 1]
  OBVIOUS
<1> HIDE DEF t
<1>2. PICK f : Folds(q, n + 1, f) /\ FlattenSeq(q) = f[n + 1]
  BY <1>1, FlattenIsFold
<1>3. CASE t = <<>>
  <2>1. n = 0 /\ n + 1 = 1 /\ Head(q) \o <<>> = Head(q)
    BY <1>1, <1>3
  <2>2. FlattenSeq(q) = Head(q)
    BY <1>1, <1>2, <2>1 DEF Folds
  <2>3. QED
    BY <1>3, <2>1, <2>2, FlattenEmpty DEF t
<1>4. CASE t # <<>>
  <2>1. n \in Nat \ {0}
    BY <1>1, <1>4, EmptySeq
  <2>2. PICK g \in [1..n -> Seq(S)] : Folds(t, n, g) /\ FlattenSeq(t) = g[n]
    BY <1>1, <1>4, FlattenIsFold
  <2> DEFINE T == {i \in 1..n : f[i + 1] # q[1] \o g[i]}
  <2> HIDE DEF n
  <2>3. T = {}
    <3> SUFFICES ASSUME T # {} PROVE FALSE
      OBVIOUS
    <3>1. T \in SUBSET Nat
      BY <2>1
    <3>2. PICK k \in T : \A m \in T : k <= m
      BY <3>1, LeastNumber
    <3>3. k \in 1..n /\ k + 1 \in 2..(n + 1) /\ (k + 1) - 1 = k
      BY <2>1
    <3>4. f[k + 1] = f[k] \o q[k + 1] /\ q[k + 1] = t[k]
      BY <1>1, <1>2, <3>3 DEF Folds
    <3>5. CASE k = 1
      BY <1>2, <2>2, <3>4, <3>5 DEF Folds
    <3>6. CASE k # 1
      <4> k \in 2..n /\ k - 1 \in 1..n /\ (k - 1) + 1 = k /\ ~(k <= k - 1)
        BY <2>1, <3>3, <3>6, Predecessor
      <4>1. f[(k - 1) + 1] = q[1] \o g[k - 1]
        BY <3>2
      <4>2. f[k] = q[1] \o g[k - 1] /\ g[k] = g[k - 1] \o t[k]
        BY <2>2, <4>1 DEF Folds
      <4> HIDE DEF T
      <4>3. q[1] \in Seq(S) /\ g[k - 1] \in Seq(S) /\ t[k] \in Seq(S)
        <5>1. k \in 1..Len(t)
          BY <3>3 DEF n
        <5>2. t[k] \in Seq(S)
          BY <1>1, <5>1, LenProperties
        <5>3. QED
          BY <1>1, <2>2, <5>2
      <4> DEFINE a  == q[1]
                 b  == g[k - 1]
                 c  == t[k]
                 ab == f[k]
                 bc == g[k]
                 abc == f[k + 1]
      <4>4. a \in Seq(S) /\ b \in Seq(S) /\ c \in Seq(S)
        BY <4>3
      <4>5. ab = a \o b /\ bc = b \o c /\ abc = ab \o c
        BY <3>4, <4>2
      <4> HIDE DEF a, b, c, ab, bc, abc
      <4>6. abc = a \o bc
        BY <1>0, <4>4, <4>5
      <4>7. QED
        BY <4>6 DEF T, a, bc, abc
    <3>7. QED
      BY <3>5, <3>6
  <2>4. f[n + 1] = q[1] \o g[n]
    <3>1. n \in 1..n
      BY <2>1
    <3>2. QED
      BY <2>3, <3>1
  <2>5. QED
    BY <1>1, <1>2, <2>2, <2>4 DEF t
<1>5. QED
  BY <1>3, <1>4
=============================================================================
