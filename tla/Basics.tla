------------------------------- MODULE Basics -------------------------------
(* Facts about numbers, sequences and recursion that the proofs share.      *)
(* Induction over the natural numbers, and functions defined by recursion,  *)
(* are facts about sets and functions here, and in this form can be used    *)
(* for what the modules define by recursion.  The least-number principle    *)
(* comes from the library's theorem on well-founded relations.              *)
EXTENDS Integers, SequencesExt, SequenceTheorems, WellFoundedInduction, TLAPS

Less == {ss \in Nat \X Nat : ss[1] < ss[2]}

\* A function on the numbers from 1 to n is a sequence of length n.
LEMMA SeqOfLength ==
  ASSUME NEW S, NEW n \in Nat, NEW r \in [1..n -> S]
  PROVE  r \in Seq(S) /\ Len(r) = n
OBVIOUS

\* < is well-founded, as a relation that is a set.
LEMMA LessWellFounded == IsWellFoundedOn(Less, Nat)
<1>1. Less = OpToRel(<, Nat)
  BY DEF Less, OpToRel
<1> QED
  BY <1>1, NatLessThanWellFounded

\* Every set of natural numbers that is not empty has a least element.
LEMMA LeastNumber ==
  ASSUME NEW T, T \subseteq Nat, T # {}
  PROVE  \E m \in T : \A k \in T : m <= k
<1>1. PICK m \in T : \A k \in T : ~ (<<k, m>> \in Less)
  BY LessWellFounded, WFMin
<1>2. ASSUME NEW k \in T PROVE m <= k
  <2>1. k \in Nat /\ m \in Nat
    OBVIOUS
  <2>2. <<k, m>> \in Nat \X Nat /\ <<k, m>>[1] = k /\ <<k, m>>[2] = m
    BY <2>1
  <2>3. ~ (k < m)
    BY <1>1, <2>2 DEF Less
  <2> QED
    BY <2>1, <2>3
<1> QED
  BY <1>2

\* A set with 0, and with n + 1 for each of its n below N, has all up to N.
LEMMA UpTo ==
  ASSUME NEW N \in Nat, NEW P, 0 \in P, \A n \in 0..(N - 1) : n \in P => n + 1 \in P
  PROVE  0..N \subseteq P
<1> DEFINE T == {n \in 0..N : n \notin P}
<1> SUFFICES ASSUME T # {} PROVE FALSE
  OBVIOUS
<1>0. T \subseteq Nat
  OBVIOUS
<1> HIDE DEF T
<1>1. PICK m \in T : \A k \in T : m <= k
  BY <1>0, LeastNumber
<1> USE DEF T
<1>2. m \in 1..N /\ m - 1 \in 0..(N - 1)
  BY <1>1
<1>3. m - 1 \in P
  BY <1>1, <1>2
<1> QED
  BY <1>1, <1>2, <1>3

\* A bounded set of natural numbers that is not empty has a greatest element.
LEMMA GreatestNumber ==
  ASSUME NEW N \in Nat, NEW T, T \subseteq 0..N, T # {}
  PROVE  Max(T) \in T /\ \A k \in T : k <= Max(T)
<1> DEFINE U == {u \in 0..N : N - u \in T}
<1>1. U # {}
  <2>1. PICK k \in T : TRUE
    OBVIOUS
  <2>2. N - k \in 0..N /\ N - (N - k) = k
    BY <2>1
  <2>3. N - k \in U
    BY <2>1, <2>2
  <2> QED
    BY <2>3
<1>0. U \subseteq Nat
  OBVIOUS
<1> HIDE DEF U
<1>2. PICK m \in U : \A u \in U : m <= u
  BY <1>0, <1>1, LeastNumber
<1> USE DEF U
<1>3. N - m \in T /\ \A k \in T : N - m >= k
  <2>1. ASSUME NEW k \in T PROVE N - m >= k
    <3>1. N - k \in 0..N /\ N - (N - k) = k
      OBVIOUS
    <3>2. N - k \in U
      BY <3>1
    <3>3. m <= N - k
      BY <1>2, <3>2
    <3> QED
      BY <1>2, <3>3
  <2> QED
    BY <1>2, <2>1
<1>4. \E x \in T : \A y \in T : x >= y
  BY <1>3
<1>5. Max(T) \in T /\ \A y \in T : Max(T) >= y
  BY <1>4 DEF Max
<1> QED
  BY <1>5

\* The same for the least element, found by Min.
LEMMA LeastByMin ==
  ASSUME NEW T, T \subseteq Nat, T # {}
  PROVE  Min(T) \in T /\ \A k \in T : Min(T) <= k
<1>1. \E x \in T : \A y \in T : x <= y
  BY LeastNumber
<1> QED
  BY <1>1 DEF Min

\* A function can be defined by recursion: its values follow from the one
\* before by a step D.
Steps(N, S) == [S \X (1..N) -> S]
Follows(f, N, c, D) == f[0] = c /\ \A i \in 1..N : f[i] = D[<<f[i - 1], i>>]
LEMMA Recursion ==
  ASSUME NEW N \in Nat, NEW S, NEW c \in S, NEW D, D \in Steps(N, S)
  PROVE  \E f \in [0..N -> S] : Follows(f, N, c, D)
<1> DEFINE Begun(n, f) == f[0] = c /\ \A i \in 1..n : f[i] = D[<<f[i - 1], i>>]
           P == {n \in 0..N : \E f \in [0..n -> S] : Begun(n, f)}
<1> USE DEF Steps
<1>1. 0 \in P
  <2> DEFINE f == [i \in 0..0 |-> c]
  <2>1. f \in [0..0 -> S] /\ Begun(0, f)
    OBVIOUS
  <2> HIDE DEF f
  <2> QED
    BY <2>1
<1>2. ASSUME NEW n \in 0..(N - 1), n \in P
      PROVE  n + 1 \in P
  <2>1. PICK f \in [0..n -> S] : Begun(n, f)
    BY <1>2
  <2> DEFINE g == [i \in 0..(n + 1) |-> IF i = n + 1 THEN D[<<f[n], n + 1>>] ELSE f[i]]
  <2>2. n \in 0..n /\ n + 1 \in 1..N /\ f[n] \in S
    OBVIOUS
  <2>3. D[<<f[n], n + 1>>] \in S
    BY <2>2
  <2>4. g \in [0..(n + 1) -> S]
    BY <2>3
  <2>5. g[0] = c
    BY <2>1
  <2>6. ASSUME NEW i \in 1..(n + 1) PROVE g[i] = D[<<g[i - 1], i>>]
    <3>1. CASE i = n + 1
      <4>1. g[i] = D[<<f[n], i>>] /\ g[i - 1] = f[n]
        BY <3>1
      <4> QED
        BY <4>1
    <3>2. CASE i # n + 1
      <4>1. i \in 1..n /\ g[i] = f[i] /\ g[i - 1] = f[i - 1]
        BY <3>2
      <4> QED
        BY <2>1, <4>1
    <3> QED
      BY <3>1, <3>2
  <2> HIDE DEF g
  <2>7. n + 1 \in 0..N /\ g \in [0..(n + 1) -> S] /\ Begun(n + 1, g)
    BY <2>4, <2>5, <2>6
  <2> QED
    BY <2>7
<1> HIDE DEF P
<1>3. 0..N \subseteq P
  BY <1>1, <1>2, UpTo
<1>4. N \in P
  BY <1>3
<1> QED
  BY <1>4 DEF P, Follows

\* What a function defined by recursion gives is in a set that its steps keep.
LEMMA ByRecursion ==
  ASSUME NEW N \in Nat, NEW S, NEW r, r = [i \in 0..N |-> r[i]], r[0] \in S,
         \A i \in 1..N : r[i - 1] \in S => r[i] \in S
  PROVE  r \in [0..N -> S]
<1> DEFINE P == {i \in 0..N : r[i] \in S}
<1>1. 0 \in P
  OBVIOUS
<1>2. ASSUME NEW i \in 0..(N - 1), i \in P PROVE i + 1 \in P
  <2>1. i + 1 \in 1..N /\ (i + 1) - 1 = i /\ r[i] \in S
    BY <1>2
  <2>2. r[i + 1] \in S
    BY <2>1
  <2> QED
    BY <2>1, <2>2
<1> HIDE DEF P
<1>3. 0..N \subseteq P
  BY <1>1, <1>2, UpTo
<1>4. \A i \in 0..N : r[i] \in S
  BY <1>3 DEF P
<1> QED
  BY <1>4

\* FlattenSeq puts its sequences one after the other.
Flattens(f, seqs) == f[0] = <<>> /\ \A i \in 1..Len(seqs) : f[i] = f[i - 1] \o seqs[i]
LEMMA FlattenSeqByParts ==
  ASSUME NEW S, NEW seqs \in Seq(Seq(S))
  PROVE  \E f \in [0..Len(seqs) -> Seq(S)] : Flattens(f, seqs) /\ FlattenSeq(seqs) = f[Len(seqs)]
<1> DEFINE N == Len(seqs)
           Step(g) == [i \in 1..N |-> IF i = 1 THEN seqs[i] ELSE g[i - 1] \o seqs[i]]
           flatten == CHOOSE g : g = Step(g)
           D == [x \in Seq(S) \X (1..N) |-> x[1] \o seqs[x[2]]]
<1>1. N \in Nat /\ \A i \in 1..N : seqs[i] \in Seq(S)
  OBVIOUS
<1>2. PICK f \in [0..N -> Seq(S)] : Follows(f, N, <<>>, D)
  <2>1. D \in Steps(N, Seq(S))
    <3>1. ASSUME NEW x \in Seq(S) \X (1..N) PROVE D[x] \in Seq(S)
      <4>1. x[1] \in Seq(S) /\ seqs[x[2]] \in Seq(S)
        BY <1>1
      <4>2. x[1] \o seqs[x[2]] \in Seq(S)
        BY <4>1
      <4> QED
        BY <4>1, <4>2
    <3> QED
      BY <3>1 DEF Steps
  <2>2. <<>> \in Seq(S)
    OBVIOUS
  <2> HIDE DEF D, N
  <2> QED
    BY <1>1, <2>1, <2>2, Recursion
<1>3. f[0] = <<>> /\ \A i \in 1..N : f[i] = f[i - 1] \o seqs[i]
  <2>1. ASSUME NEW i \in 1..N PROVE f[i] = f[i - 1] \o seqs[i]
    <3>1. f[i - 1] \in Seq(S) /\ f[i] = D[<<f[i - 1], i>>]
      <4> HIDE DEF D, N
      <4>1. i - 1 \in 0..N
        BY <1>1
      <4> QED
        BY <1>2, <4>1 DEF Follows
    <3>2. <<f[i - 1], i>> \in Seq(S) \X (1..N)
      BY <3>1
    <3> QED
      BY <3>1, <3>2
  <2> HIDE DEF D, N
  <2> QED
    BY <1>2, <2>1 DEF Follows
<1>4. \A i \in 1..N : f[i] = IF i = 1 THEN seqs[i] ELSE f[i - 1] \o seqs[i]
  <2> SUFFICES ASSUME NEW i \in 1..N, i = 1 PROVE f[i] = seqs[i]
    BY <1>3
  <2>0. i - 1 = 0 /\ seqs[i] \in Seq(S)
    BY <1>1
  <2>1. f[i - 1] = <<>> /\ f[i] = <<>> \o seqs[i]
    <3> HIDE DEF N
    <3> QED
      BY <1>3, <2>0
  <2> QED
    BY <2>0, <2>1
<1> DEFINE e == [i \in 1..N |-> f[i]]
<1>5. e = Step(e)
  <2>1. ASSUME NEW i \in 1..N PROVE e[i] = Step(e)[i]
    <3>1. i # 1 => i - 1 \in 1..N
      BY <1>1
    <3>2. i # 1 => e[i - 1] = f[i - 1]
      BY <3>1
    <3> HIDE DEF D, N
    <3> QED
      BY <1>4, <3>2
  <2> HIDE DEF D, N
  <2> QED
    BY <2>1
<1>6. flatten = Step(flatten)
  <2> HIDE DEF Step, e
  <2> QED
    BY <1>5
<1>7. \A i \in 1..N : flatten[i] = IF i = 1 THEN seqs[i] ELSE flatten[i - 1] \o seqs[i]
  <2>1. \A i \in 1..N : flatten[i] = Step(flatten)[i]
    BY <1>6
  <2> HIDE DEF flatten
  <2> QED
    BY <2>1
<1> DEFINE P == {i \in 0..N : i = 0 \/ flatten[i] = f[i]}
<1>8. ASSUME NEW i \in 0..(N - 1), i \in P PROVE i + 1 \in P
  <2>1. i + 1 \in 1..N /\ (i + 1) - 1 = i /\ i + 1 \in 0..N /\ (i = 0 <=> i + 1 = 1)
    BY <1>1
  <2>2. flatten[i + 1] = IF i = 0 THEN seqs[i + 1] ELSE flatten[i] \o seqs[i + 1]
    <3> HIDE DEF flatten, N
    <3> QED
      BY <1>7, <2>1
  <2>3. f[i + 1] = IF i = 0 THEN seqs[i + 1] ELSE f[i] \o seqs[i + 1]
    <3> HIDE DEF flatten, N
    <3> QED
      BY <1>4, <2>1
  <2>4. i # 0 => flatten[i] = f[i]
    BY <1>8
  <2> HIDE DEF flatten, N
  <2> QED
    BY <2>1, <2>2, <2>3, <2>4
<1>9. 0 \in P
  BY <1>1
<1> HIDE DEF P
<1>10. 0..N \subseteq P
  BY <1>1, <1>8, <1>9, UpTo
<1>11. N # 0 => flatten[N] = f[N]
  <2> HIDE DEF flatten, N
  <2>1. N \in P
    BY <1>1, <1>10
  <2> QED
    BY <2>1 DEF P
<1>12. FlattenSeq(seqs) = IF N = 0 THEN seqs ELSE flatten[N]
  BY DEF FlattenSeq
<1>13. N = 0 => seqs = <<>>
  OBVIOUS
<1> HIDE DEF flatten, N
<1>14. FlattenSeq(seqs) = f[N]
  BY <1>3, <1>11, <1>12, <1>13
<1> QED
  BY <1>2, <1>3, <1>14 DEF Flattens, N

\* A sequence of sequences, one after the other, is a sequence.
LEMMA FlattenSeqIs ==
  ASSUME NEW S, NEW seqs \in Seq(Seq(S))
  PROVE  FlattenSeq(seqs) \in Seq(S)
<1>1. PICK f \in [0..Len(seqs) -> Seq(S)] : FlattenSeq(seqs) = f[Len(seqs)]
  BY FlattenSeqByParts
<1>2. Len(seqs) \in 0..Len(seqs)
  OBVIOUS
<1> QED
  BY <1>1, <1>2

\* Sequences, element by element.
LEMMA AppendIs ==
  ASSUME NEW T, NEW q \in Seq(T), NEW e \in T
  PROVE  /\ Append(q, e) \in Seq(T) /\ Len(Append(q, e)) = Len(q) + 1
         /\ Append(q, e)[Len(q) + 1] = e /\ \A k \in 1..Len(q) : Append(q, e)[k] = q[k]
OBVIOUS

LEMMA FrontIs ==
  ASSUME NEW T, NEW q \in Seq(T), q # <<>>
  PROVE  /\ Len(q) \in Nat /\ Len(q) >= 1 /\ Last(q) = q[Len(q)] /\ Last(q) \in T
         /\ Front(q) \in Seq(T) /\ Len(Front(q)) = Len(q) - 1
         /\ \A k \in 1..(Len(q) - 1) : Front(q)[k] = q[k]
<1> DEFINE r == Front(q)
<1>1. Len(q) \in Nat /\ Len(q) >= 1
  OBVIOUS
<1>2. Last(q) = q[Len(q)] /\ Last(q) \in T
  BY <1>1 DEF Last
<1>3. r = SubSeq(q, 1, Len(q) - 1)
  BY DEF Front
<1> HIDE DEF r
<1>4. r \in Seq(T) /\ Len(r) = Len(q) - 1
  <2>1. \A m \in 0..Len(q) : SubSeq(q, 1, m) \in Seq(T) /\ Len(SubSeq(q, 1, m)) = m
    OBVIOUS
  <2>2. Len(q) - 1 \in 0..Len(q)
    BY <1>1
  <2> QED
    BY <1>3, <2>1, <2>2
<1>5. ASSUME NEW k \in 1..(Len(q) - 1) PROVE r[k] = q[k]
  BY <1>1, <1>3
<1> QED
  BY <1>1, <1>2, <1>4, <1>5 DEF r

LEMMA LastReplaced ==
  ASSUME NEW T, NEW q \in Seq(T), q # <<>>, NEW e \in T
  PROVE  /\ Append(Front(q), e) \in Seq(T) /\ Len(Append(Front(q), e)) = Len(q)
         /\ Append(Front(q), e)[Len(q)] = e
         /\ \A k \in 1..(Len(q) - 1) : Append(Front(q), e)[k] = q[k]
<1> DEFINE f == Front(q)
<1>1. /\ Len(q) \in Nat /\ Len(q) >= 1 /\ f \in Seq(T) /\ Len(f) = Len(q) - 1
      /\ \A k \in 1..(Len(q) - 1) : f[k] = q[k]
  BY FrontIs
<1> HIDE DEF f
<1> DEFINE r == Append(f, e)
<1>3. r \in Seq(T) /\ Len(r) = Len(f) + 1 /\ r[Len(f) + 1] = e /\ \A k \in 1..Len(f) : r[k] = f[k]
  BY <1>1, AppendIs
<1> HIDE DEF r
<1>4. r \in Seq(T) /\ Len(r) = Len(q) /\ r[Len(q)] = e /\ \A k \in 1..(Len(q) - 1) : r[k] = q[k]
  BY <1>1, <1>3
<1> QED
  BY <1>4 DEF r, f

(* Segments and the places of their slashes.                                *)

LEMMA SameSeq ==
  ASSUME NEW T, NEW a \in Seq(T), NEW b \in Seq(T), Len(a) = Len(b),
         \A k \in 1..Len(b) : a[k] = b[k]
  PROVE  a = b
OBVIOUS

\* Two loops that begin alike and step alike agree throughout.
Alike(f, g, N) == f[0] = g[0] /\ \A n \in 1..N : f[n - 1] = g[n - 1] => f[n] = g[n]
LEMMA Agree ==
  ASSUME NEW N \in Nat, NEW f, NEW g, Alike(f, g, N)
  PROVE  f[N] = g[N]
<1> DEFINE P == {n \in 0..N : f[n] = g[n]}
<1>1. 0 \in P
  BY DEF Alike
<1>2. ASSUME NEW n \in 0..(N - 1), n \in P PROVE n + 1 \in P
  <2>1. n + 1 \in 1..N /\ n + 1 \in 0..N /\ (n + 1) - 1 = n
    OBVIOUS
  <2>2. f[n] = g[n]
    BY <1>2
  <2>3. f[(n + 1) - 1] = g[(n + 1) - 1]
    BY <2>1, <2>2
  <2>4. f[n + 1] = g[n + 1]
    BY <2>1, <2>3 DEF Alike
  <2> QED
    BY <2>1, <2>4
<1> HIDE DEF P
<1>3. 0..N \subseteq P
  BY <1>1, <1>2, UpTo
<1>4. N \in 0..N
  OBVIOUS
<1> QED
  BY <1>3, <1>4 DEF P

LEMMA FlattenSeqAppend ==
  ASSUME NEW S, NEW seqs \in Seq(Seq(S)), NEW e \in Seq(S)
  PROVE  FlattenSeq(Append(seqs, e)) = FlattenSeq(seqs) \o e
<1> DEFINE longer == Append(seqs, e)
           N == Len(seqs)
           T == Seq(S)
<1>1. N \in Nat /\ longer \in Seq(T) /\ Len(longer) = N + 1 /\ longer[N + 1] = e
      /\ \A k \in 1..N : longer[k] = seqs[k]
  <2> HIDE DEF T
  <2>1. seqs \in Seq(T) /\ e \in T
    BY DEF T
  <2> QED
    BY <2>1, AppendIs
<1> HIDE DEF longer
<1>2. PICK f : Flattens(f, longer) /\ FlattenSeq(longer) = f[Len(longer)]
  BY <1>1, FlattenSeqByParts
<1>3. PICK g : Flattens(g, seqs) /\ FlattenSeq(seqs) = g[N]
  BY FlattenSeqByParts
<1> HIDE DEF N, T
<1>4. f[0] = g[0]
  BY <1>2, <1>3 DEF Flattens
<1>5. ASSUME NEW n \in 1..N, f[n - 1] = g[n - 1] PROVE f[n] = g[n]
  <2>1. n \in 1..Len(longer)
    BY <1>1
  <2>2. f[n] = f[n - 1] \o longer[n]
    BY <1>2, <2>1 DEF Flattens
  <2>3. g[n] = g[n - 1] \o seqs[n]
    BY <1>3 DEF Flattens, N
  <2>4. longer[n] = seqs[n]
    BY <1>1
  <2> QED
    BY <1>5, <2>2, <2>3, <2>4
<1>6. f[N] = g[N]
  <2>1. Alike(f, g, N)
    BY <1>4, <1>5 DEF Alike
  <2> QED
    BY <1>1, <2>1, Agree
<1>7. f[N + 1] = f[N] \o e
  <2>1. N + 1 \in 1..Len(longer) /\ (N + 1) - 1 = N
    BY <1>1
  <2>2. f[N + 1] = f[(N + 1) - 1] \o longer[N + 1]
    BY <1>2, <2>1 DEF Flattens
  <2> QED
    BY <1>1, <2>1, <2>2
<1> QED
  BY <1>1, <1>2, <1>3, <1>6, <1>7 DEF longer

LEMMA Alone ==
  ASSUME NEW T, NEW t \in Seq(T), Len(t) = 1
  PROVE  t = <<t[1]>>
OBVIOUS

LEMMA SingleIs ==
  ASSUME NEW T, NEW s \in Seq(T), NEW m \in 1..Len(s)
  PROVE  SubSeq(s, m, m) = <<s[m]>>
<1> DEFINE t == SubSeq(s, m, m)
<1>1. t \in Seq(T) /\ Len(t) = 1 /\ t[1] = s[m]
  OBVIOUS
<1> HIDE DEF t
<1>2. t = <<t[1]>>
  BY <1>1, Alone
<1> QED
  BY <1>1, <1>2 DEF t

LEMMA Couple ==
  ASSUME NEW T, NEW t \in Seq(T), Len(t) = 2
  PROVE  t = <<t[1], t[2]>>
<1> DEFINE u == <<t[1], t[2]>>
<1>1. t = [i \in 1..Len(t) |-> t[i]]
  OBVIOUS
<1>2. u = [i \in 1..2 |-> u[i]]
  OBVIOUS
<1>3. \A i \in 1..2 : i = 1 \/ i = 2
  OBVIOUS
<1>4. u[1] = t[1] /\ u[2] = t[2]
  OBVIOUS
<1> HIDE DEF u
<1>5. \A i \in 1..2 : u[i] = t[i]
  BY <1>3, <1>4
<1>6. u = t
  BY <1>1, <1>2, <1>5
<1> QED
  BY <1>6 DEF u

LEMMA PairIs ==
  ASSUME NEW T, NEW x \in T, NEW y \in T
  PROVE  <<x>> \o <<y>> = <<x, y>>
<1> DEFINE a == <<x>>
           b == <<y>>
           t == a \o b
<1>1. a \in Seq(T) /\ b \in Seq(T) /\ Len(a) = 1 /\ Len(b) = 1 /\ a[1] = x /\ b[1] = y
  OBVIOUS
<1> HIDE DEF a, b
<1>2. t \in Seq(T) /\ Len(t) = Len(a) + Len(b)
  BY <1>1, ConcatProperties
<1>3. \A i \in 1..Len(t) : t[i] = IF i <= Len(a) THEN a[i] ELSE b[i - Len(a)]
  BY <1>1, <1>2, ConcatProperties
<1> HIDE DEF t
<1>4. Len(t) = 2
  BY <1>1, <1>2
<1>5. \A i \in 1..2 : t[i] = IF i <= 1 THEN a[i] ELSE b[i - 1]
  BY <1>1, <1>3, <1>4
<1>6. 1 \in 1..2 /\ 2 \in 1..2 /\ 2 - 1 = 1 /\ ~ (2 <= 1)
  OBVIOUS
<1>7. t[1] = x /\ t[2] = y
  BY <1>1, <1>5, <1>6
<1>8. t = <<t[1], t[2]>>
  BY <1>2, <1>4, Couple
<1>9. t = <<x, y>>
  BY <1>7, <1>8
<1> QED
  BY <1>9 DEF a, b, t

LEMMA ConcatHas ==
  ASSUME NEW T, NEW a \in Seq(T), NEW b \in Seq(T)
  PROVE  /\ a \o b \in Seq(T) /\ Len(a \o b) = Len(a) + Len(b)
         /\ \A i \in 1..Len(a) : (a \o b)[i] = a[i]
         /\ \A i \in 1..Len(b) : (a \o b)[Len(a) + i] = b[i]
OBVIOUS

LEMMA PrefixedHas ==
  ASSUME NEW T, NEW e \in T, NEW b \in Seq(T)
  PROVE  /\ <<e>> \o b \in Seq(T) /\ Len(<<e>> \o b) = 1 + Len(b)
         /\ (<<e>> \o b)[1] = e
         /\ \A i \in 1..Len(b) : (<<e>> \o b)[1 + i] = b[i]
OBVIOUS

LEMMA AppendIsConcatenation ==
  ASSUME NEW T, NEW a \in Seq(T), NEW e \in T
  PROVE  Append(a, e) = a \o <<e>>
OBVIOUS
=============================================================================
