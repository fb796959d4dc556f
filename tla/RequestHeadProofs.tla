------------------------- MODULE RequestHeadProofs -------------------------
(* For heads of any length, and any limits: the parser's flags agree with   *)
(* the lines it has consumed, so that a head it accepts has one framing and *)
(* one it refuses has not, its loops end unless the URI is empty, and which *)
(* path and query are taken from any URI.                                   *)
EXTENDS RequestHead, Basics, FiniteSetTheorems, SequenceTheorems

(* The URI: what decoding, cutting, keeping and joining make of a text.     *)
\* What decoding gives.
Chars == STRING \cup {".", "/", "?"}
NoSlash == Seq(Chars \ {"/"})
Left == NoSlash \ {<<>>, <<".">>}
Plain == Left \ {Up}

LEMMA DecodeIs ==
  ASSUME NEW s \in Seq(STRING)
  PROVE  Decode(s) \in Seq(Chars) /\ (Decode(s) = <<>> <=> s = <<>>)
<1>1. \A c \in {"%2e", "%2f", "%3f"} : Encoded[c] \in Chars
  BY DEF Encoded, Chars
<1>2. DOMAIN Encoded = {"%2e", "%2f", "%3f"}
  BY DEF Encoded
<1>3. \A i \in 1..Len(s) :
        (IF s[i] \in DOMAIN Encoded THEN Encoded[s[i]] ELSE s[i]) \in Chars
  BY <1>1, <1>2 DEF Chars
<1>4. Decode(s) \in [1..Len(s) -> Chars]
  BY <1>3 DEF Decode
<1>5. Decode(s) \in Seq(Chars) /\ Len(Decode(s)) = Len(s)
  BY <1>4, SeqOfLength
<1> QED
  BY <1>5

LEMMA FirstIs ==
  ASSUME NEW S, NEW s \in Seq(S), NEW c \in ToSet(s)
  PROVE  /\ First(c, s) \in 1..Len(s) /\ s[First(c, s)] = c
         /\ \A j \in 1..(First(c, s) - 1) : s[j] # c
<1> DEFINE T == {i \in 1..Len(s) : s[i] = c}
<1>1. T # {} /\ T \subseteq Nat
  BY DEF ToSet
<1> HIDE DEF T
<1>2. PICK m \in T : \A k \in T : m <= k
  BY <1>1, LeastNumber
<1>3. m \in DOMAIN s /\ m \in 1..Len(s) /\ s[m] = c
  BY <1>2 DEF T
<1>4. \A j \in 1..(m - 1) : s[j] # c
  BY <1>2, <1>3 DEF T
<1>5. \E i \in DOMAIN s : s[i] = c /\ \A j \in 1..(i - 1) : s[j] # c
  BY <1>3, <1>4
<1>6. DOMAIN s = 1..Len(s)
  OBVIOUS
<1> QED
  BY <1>5, <1>6 DEF First

LEMMA BeforeIs ==
  ASSUME NEW S, NEW s \in Seq(S), NEW c
  PROVE  /\ Before(c, s) \in Seq(S) /\ Len(Before(c, s)) <= Len(s)
         /\ \A i \in 1..Len(Before(c, s)) : Before(c, s)[i] = s[i]
         /\ After(c, s) \in Seq(S)
<1>1. CASE c \in ToSet(s)
  <2>1. First(c, s) \in 1..Len(s)
    BY <1>1, FirstIs
  <2>2. Before(c, s) = SubSeq(s, 1, First(c, s) - 1) /\ After(c, s) = SubSeq(s, First(c, s) + 1, Len(s))
    BY <1>1 DEF Before, After
  <2> QED
    BY <2>1, <2>2
<1>2. CASE c \notin ToSet(s)
  BY <1>2 DEF Before, After
<1> QED
  BY <1>1, <1>2

\* Segments and Kept are what their loops have at their ends.
Read(f, s) == f[0] = << <<>> >> /\ \A n \in 1..Len(s) : f[n] = Cut(f[n - 1], s[n])
LEMMA SegmentsRead ==
  ASSUME NEW S, NEW s \in Seq(S)
  PROVE  \E f \in [0..Len(s) -> Seq(Seq(S \ {"/"})) \ {<<>>}] :
           Read(f, s) /\ Segments(s) = f[Len(s)]
<1> DEFINE Q == Seq(Seq(S \ {"/"})) \ {<<>>}
           N == Len(s)
           Step(g) == [n \in 0..N |-> IF n = 0 THEN << <<>> >> ELSE Cut(g[n - 1], s[n])]
           read == CHOOSE g : g = Step(g)
           D == [x \in Q \X (1..N) |-> Cut(x[1], s[x[2]])]
<1>0. ASSUME NEW q \in Q, NEW c \in S PROVE Cut(q, c) \in Q
  <2>1. CASE c = "/"
    <3>1. <<>> \in Seq(S \ {"/"})
      OBVIOUS
    <3>2. Append(q, <<>>) \in Q
      BY <3>1
    <3> QED
      BY <2>1, <3>2 DEF Cut
  <2>2. CASE c # "/"
    <3>1. Len(q) \in Nat /\ Len(q) >= 1 /\ q \in Seq(Seq(S \ {"/"}))
      OBVIOUS
    <3>2. Front(q) \in Seq(Seq(S \ {"/"})) /\ Last(q) \in Seq(S \ {"/"})
      BY <3>1 DEF Front, Last
    <3>3. Append(Last(q), c) \in Seq(S \ {"/"})
      BY <2>2, <3>2
    <3>4. Append(Front(q), Append(Last(q), c)) \in Q
      <4> DEFINE T == Seq(S \ {"/"})
                 r == Front(q)
                 t == Append(Last(q), c)
      <4>1. r \in Seq(T) /\ t \in T
        BY <3>2, <3>3
      <4> HIDE DEF T, r, t
      <4>2. Append(r, t) \in Seq(T) /\ Len(Append(r, t)) = Len(r) + 1
        BY <4>1
      <4>3. ASSUME Append(r, t) = <<>> PROVE FALSE
        <5>1. Len(r) + 1 = 0 /\ Len(r) \in Nat
          BY <4>1, <4>2, <4>3
        <5> QED
          BY <5>1
      <4> QED
        BY <4>2, <4>3 DEF r, t, T
    <3> QED
      BY <2>2, <3>4 DEF Cut
  <2> QED
    BY <2>1, <2>2
<1>1. N \in Nat /\ \A n \in 1..N : s[n] \in S
  OBVIOUS
<1>2. PICK f \in [0..N -> Q] : Follows(f, N, << <<>> >>, D)
  <2>1. D \in Steps(N, Q)
    <3>1. ASSUME NEW x \in Q \X (1..N) PROVE D[x] \in Q
      <4>1. x[1] \in Q /\ s[x[2]] \in S
        BY <1>1
      <4>2. Cut(x[1], s[x[2]]) \in Q
        BY <1>0, <4>1
      <4> HIDE DEF Q
      <4> QED
        BY <4>1, <4>2
    <3> HIDE DEF Q
    <3> QED
      BY <3>1 DEF Steps
  <2>2. << <<>> >> \in Q
    OBVIOUS
  <2> HIDE DEF D, N, Q
  <2> QED
    BY <1>1, <2>1, <2>2, Recursion
<1> HIDE DEF Q
<1>3. f[0] = << <<>> >> /\ \A n \in 1..N : f[n] = Cut(f[n - 1], s[n])
  <2>1. ASSUME NEW n \in 1..N PROVE f[n] = Cut(f[n - 1], s[n])
    <3>1. f[n - 1] \in Q /\ f[n] = D[<<f[n - 1], n>>]
      <4> HIDE DEF D, N
      <4>1. n - 1 \in 0..N
        BY <1>1
      <4> QED
        BY <1>2, <4>1 DEF Follows
    <3>2. <<f[n - 1], n>> \in Q \X (1..N)
      BY <3>1
    <3> QED
      BY <3>1, <3>2
  <2> HIDE DEF D, N
  <2> QED
    BY <1>2, <2>1 DEF Follows
<1>4. f = Step(f)
  <2>1. ASSUME NEW n \in 0..N PROVE f[n] = Step(f)[n]
    <3>1. n = 0 \/ n \in 1..N
      BY <1>1
    <3> HIDE DEF D, N
    <3> QED
      BY <1>3, <3>1
  <2> HIDE DEF D, N
  <2> QED
    BY <2>1
<1>5. read = Step(read)
  <2> HIDE DEF Step
  <2> QED
    BY <1>4
<1>6. read[0] = << <<>> >> /\ \A n \in 1..N : read[n] = Cut(read[n - 1], s[n])
  <2>1. \A n \in 0..N : read[n] = Step(read)[n]
    BY <1>5
  <2> HIDE DEF read
  <2> QED
    BY <1>1, <2>1
<1>7. read = [n \in 0..N |-> read[n]]
  <2> HIDE DEF read
  <2> QED
    BY <1>5
<1>8. read \in [0..N -> Q]
  <2>1. read[0] \in Q
    <3> HIDE DEF read
    <3> QED
      BY <1>6 DEF Q
  <2>2. \A n \in 1..N : read[n - 1] \in Q => read[n] \in Q
    <3> HIDE DEF read
    <3> QED
      BY <1>0, <1>1, <1>6
  <2> HIDE DEF read, N
  <2> QED
    BY <1>1, <1>7, <2>1, <2>2, ByRecursion
<1>9. Segments(s) = read[N]
  BY DEF Segments
<1> HIDE DEF read
<1> QED
  BY <1>6, <1>8, <1>9 DEF Read, Q

Keeps(f, segments) ==
  f[0] = <<>> /\ \A n \in 1..Len(segments) : f[n] = Keep(f[n - 1], segments[n])
LEMMA KeptReads ==
  ASSUME NEW S, NEW segments \in Seq(S)
  PROVE  \E f \in [0..Len(segments) -> Seq(S \ {<<>>, <<".">>})] :
           Keeps(f, segments) /\ Kept(segments) = f[Len(segments)]
<1> DEFINE Q == Seq(S \ {<<>>, <<".">>})
           N == Len(segments)
           Step(g) == [n \in 0..N |-> IF n = 0 THEN <<>> ELSE Keep(g[n - 1], segments[n])]
           kept == CHOOSE g : g = Step(g)
           D == [x \in Q \X (1..N) |-> Keep(x[1], segments[x[2]])]
<1>0. ASSUME NEW q \in Q, NEW c \in S PROVE Keep(q, c) \in Q
  <2>1. CASE c \in {<<>>, <<".">>}
    <3>1. Keep(q, c) = q
      <4>1. c # Up
        <5>1. Up # <<>> /\ Up # <<".">>
          BY DEF Up
        <5> QED
          BY <2>1, <5>1
      <4> HIDE DEF Q
      <4> QED
        BY <2>1, <4>1 DEF Keep
    <3> HIDE DEF Q
    <3> QED
      BY <3>1
  <2>2. CASE c = Up /\ (q = <<>> \/ Last(q) = Up)
    <3>1. Up # <<>> /\ Up # <<".">>
      BY DEF Up
    <3>2. Append(q, Up) \in Q
      BY <2>2, <3>1
    <3> QED
      BY <2>2, <3>1, <3>2 DEF Keep
  <2>3. CASE c = Up /\ ~ (q = <<>> \/ Last(q) = Up)
    <3>1. Up # <<>> /\ Up # <<".">>
      BY DEF Up
    <3>2. Front(q) \in Q
      BY <2>3 DEF Front
    <3> HIDE DEF Q
    <3> QED
      BY <2>3, <3>1, <3>2 DEF Keep
  <2>4. CASE c \notin {<<>>, <<".">>, Up}
    <3>1. Append(q, c) \in Q
      BY <2>4
    <3>2. Keep(q, c) = Append(q, c)
      BY <2>4, Zenon DEF Keep
    <3> HIDE DEF Q
    <3> QED
      BY <3>1, <3>2
  <2> QED
    BY <2>1, <2>2, <2>3, <2>4
<1>1. N \in Nat /\ \A n \in 1..N : segments[n] \in S
  OBVIOUS
<1>2. PICK f \in [0..N -> Q] : Follows(f, N, <<>>, D)
  <2>1. D \in Steps(N, Q)
    <3>1. ASSUME NEW x \in Q \X (1..N) PROVE D[x] \in Q
      <4>1. x[1] \in Q /\ segments[x[2]] \in S
        BY <1>1
      <4>2. Keep(x[1], segments[x[2]]) \in Q
        BY <1>0, <4>1
      <4> HIDE DEF Q
      <4> QED
        BY <4>1, <4>2
    <3> HIDE DEF Q
    <3> QED
      BY <3>1 DEF Steps
  <2>2. <<>> \in Q
    OBVIOUS
  <2> HIDE DEF D, N, Q
  <2> QED
    BY <1>1, <2>1, <2>2, Recursion
<1> HIDE DEF Q
<1>3. f[0] = <<>> /\ \A n \in 1..N : f[n] = Keep(f[n - 1], segments[n])
  <2>1. ASSUME NEW n \in 1..N PROVE f[n] = Keep(f[n - 1], segments[n])
    <3>1. f[n - 1] \in Q /\ f[n] = D[<<f[n - 1], n>>]
      <4> HIDE DEF D, N
      <4>1. n - 1 \in 0..N
        BY <1>1
      <4> QED
        BY <1>2, <4>1 DEF Follows
    <3>2. <<f[n - 1], n>> \in Q \X (1..N)
      BY <3>1
    <3> QED
      BY <3>1, <3>2
  <2> HIDE DEF D, N
  <2> QED
    BY <1>2, <2>1 DEF Follows
<1>4. f = Step(f)
  <2>1. ASSUME NEW n \in 0..N PROVE f[n] = Step(f)[n]
    <3>1. n = 0 \/ n \in 1..N
      BY <1>1
    <3> HIDE DEF D, N
    <3> QED
      BY <1>3, <3>1
  <2> HIDE DEF D, N
  <2> QED
    BY <2>1
<1>5. kept = Step(kept)
  <2> HIDE DEF Step
  <2> QED
    BY <1>4
<1>6. kept[0] = <<>> /\ \A n \in 1..N : kept[n] = Keep(kept[n - 1], segments[n])
  <2>1. \A n \in 0..N : kept[n] = Step(kept)[n]
    BY <1>5
  <2> HIDE DEF kept
  <2> QED
    BY <1>1, <2>1
<1>7. kept = [n \in 0..N |-> kept[n]]
  <2> HIDE DEF kept
  <2> QED
    BY <1>5
<1>8. kept \in [0..N -> Q]
  <2>1. kept[0] \in Q
    <3> HIDE DEF kept
    <3> QED
      BY <1>6 DEF Q
  <2>2. \A n \in 1..N : kept[n - 1] \in Q => kept[n] \in Q
    <3> HIDE DEF kept
    <3> QED
      BY <1>0, <1>1, <1>6
  <2> HIDE DEF kept, N
  <2> QED
    BY <1>1, <1>7, <2>1, <2>2, ByRecursion
<1>9. Kept(segments) = kept[N]
  BY DEF Kept
<1> HIDE DEF kept
<1> QED
  BY <1>6, <1>8, <1>9 DEF Keeps, Q
\* A text whose names are separated by one slash each, and are not Up but for
\* the last.
Inside(w) ==
  /\ w # <<>> /\ w[1] = "/"
  /\ \A i \in 1..(Len(w) - 1) : ~(w[i] = "/" /\ w[i + 1] = "/")
  /\ \A i \in 1..(Len(w) - 3) : ~(w[i] = "/" /\ w[i + 1] = "." /\ w[i + 2] = "." /\ w[i + 3] = "/")

LEMMA InsidePrefix ==
  ASSUME NEW w \in Seq(Chars), Inside(w), NEW p \in Seq(Chars), p # <<>>,
         Len(p) <= Len(w), \A i \in 1..Len(p) : p[i] = w[i]
  PROVE  Inside(p)
<1>1. Len(p) \in Nat /\ Len(w) \in Nat /\ Len(p) >= 1
  OBVIOUS
<1>2. p[1] = "/"
  BY <1>1 DEF Inside
<1>3. ASSUME NEW i \in 1..(Len(p) - 1) PROVE ~(p[i] = "/" /\ p[i + 1] = "/")
  <2>1. i \in 1..(Len(w) - 1) /\ i \in 1..Len(p) /\ i + 1 \in 1..Len(p)
    BY <1>1
  <2> QED
    BY <2>1 DEF Inside
<1>4. ASSUME NEW i \in 1..(Len(p) - 3)
      PROVE  ~(p[i] = "/" /\ p[i + 1] = "." /\ p[i + 2] = "." /\ p[i + 3] = "/")
  <2>1. /\ i \in 1..(Len(w) - 3) /\ i \in 1..Len(p) /\ i + 1 \in 1..Len(p)
        /\ i + 2 \in 1..Len(p) /\ i + 3 \in 1..Len(p)
    BY <1>1
  <2> QED
    BY <2>1 DEF Inside
<1> QED
  BY <1>2, <1>3, <1>4 DEF Inside

\* A name and a slash may follow a slash.
LEMMA InsideGrows ==
  ASSUME NEW w \in Seq(Chars), Inside(w), w[Len(w)] = "/", NEW q \in Plain,
         NEW t, t = w \o Append(q, "/")
  PROVE  t \in Seq(Chars) /\ Inside(t) /\ t[Len(t)] = "/"
<1> DEFINE m == Len(w)
           k == Len(q)
<1>1. m \in Nat /\ m >= 1 /\ w[1] = "/"
  BY DEF Inside
<1>2. k \in Nat /\ k >= 1 /\ q \in Seq(Chars \ {"/"})
  BY DEF Plain, Left, NoSlash
<1>3. \A i \in 1..k : q[i] # "/"
  BY <1>2
<1>4. ASSUME k = 2 PROVE ~(q[1] = "." /\ q[2] = ".")
  <2>1. q # Up
    BY DEF Plain
  <2> SUFFICES ASSUME q[1] = "." /\ q[2] = "." PROVE FALSE
    OBVIOUS
  <2>2. q = <<".", ".">>
    BY <1>2, <1>4
  <2> QED
    BY <2>1, <2>2 DEF Up
<1>5. "/" \in Chars
  BY DEF Chars
<1>6. Append(q, "/") \in Seq(Chars) /\ Len(Append(q, "/")) = k + 1
      /\ \A i \in 1..(k + 1) : Append(q, "/")[i] = IF i = k + 1 THEN "/" ELSE q[i]
  BY <1>2, <1>5
<1> DEFINE a == Append(q, "/")
<1> HIDE DEF a
<1>7. /\ t \in Seq(Chars) /\ Len(t) = m + (k + 1)
      /\ \A i \in 1..m : t[i] = w[i]
      /\ \A i \in 1..(k + 1) : t[m + i] = a[i]
  BY <1>6 DEF a
<1> HIDE DEF m, k
<1>8. \A i \in 1..(m + (k + 1)) :
        /\ i <= m => t[i] = w[i]
        /\ m < i /\ i <= m + k => t[i] = q[i - m] /\ t[i] # "/"
        /\ i = m + (k + 1) => t[i] = "/"
  <2> TAKE i \in 1..(m + (k + 1))
  <2>1. CASE i <= m
    BY <1>1, <1>2, <1>7, <2>1
  <2>2. CASE m < i
    <3>1. i - m \in 1..(k + 1) /\ m + (i - m) = i
      BY <1>1, <1>2, <2>2
    <3>2. t[i] = a[i - m]
      BY <1>7, <3>1
    <3>3. a[i - m] = IF i - m = k + 1 THEN "/" ELSE q[i - m]
      BY <1>6, <3>1 DEF a
    <3>4. i <= m + k => i - m # k + 1 /\ i - m \in 1..k
      BY <1>1, <1>2, <2>2
    <3>5. i = m + (k + 1) => i - m = k + 1
      BY <1>1, <1>2
    <3>6. i <= m + k => t[i] = q[i - m] /\ t[i] # "/"
      BY <1>3, <3>2, <3>3, <3>4
    <3>7. i = m + (k + 1) => t[i] = "/"
      BY <3>2, <3>3, <3>5
    <3>8. ~ (i <= m)
      BY <1>1, <2>2
    <3> QED
      BY <3>6, <3>7, <3>8
  <2>3. i <= m \/ m < i
    BY <1>1
  <2> QED
    BY <2>1, <2>2, <2>3
<1>9. w[m] = "/"
  BY DEF m
<1>10. ASSUME NEW i \in 1..(Len(t) - 1) PROVE ~(t[i] = "/" /\ t[i + 1] = "/")
  <2>1. i \in 1..(m + (k + 1)) /\ i + 1 \in 1..(m + (k + 1))
    BY <1>1, <1>2, <1>7
  <2>2. CASE i + 1 <= m
    <3>1. i \in 1..(m - 1) /\ i <= m
      BY <1>1, <2>2
    <3>2. ~(w[i] = "/" /\ w[i + 1] = "/")
      BY <3>1 DEF Inside, m
    <3> QED
      BY <1>8, <2>1, <2>2, <3>1, <3>2
  <2>3. CASE i = m
    <3>1. m < i + 1 /\ i + 1 <= m + k
      BY <1>1, <1>2, <2>3
    <3> QED
      BY <1>8, <2>1, <3>1
  <2>4. CASE i > m
    <3>1. i <= m + k
      BY <1>1, <1>2, <2>1, <2>4
    <3> QED
      BY <1>8, <2>1, <2>4, <3>1
  <2>5. i + 1 <= m \/ i = m \/ i > m
    BY <1>1, <2>1
  <2> QED
    BY <2>2, <2>3, <2>4, <2>5
<1>11. ASSUME NEW i \in 1..(Len(t) - 3),
              t[i] = "/", t[i + 1] = ".", t[i + 2] = ".", t[i + 3] = "/"
       PROVE  FALSE
  <2>1. /\ i \in 1..(m + (k + 1)) /\ i + 1 \in 1..(m + (k + 1))
        /\ i + 2 \in 1..(m + (k + 1)) /\ i + 3 \in 1..(m + (k + 1))
    BY <1>1, <1>2, <1>7
  <2>2. CASE i + 3 <= m
    <3>1. i \in 1..(m - 3) /\ i <= m /\ i + 1 <= m /\ i + 2 <= m
      BY <1>1, <2>2
    <3>2. w[i] = "/" /\ w[i + 1] = "." /\ w[i + 2] = "." /\ w[i + 3] = "/"
      BY <1>8, <1>11, <2>1, <2>2, <3>1
    <3> QED
      BY <3>1, <3>2 DEF Inside, m
  <2>3. CASE i + 3 > m
    <3>1. ~ (m < i + 3 /\ i + 3 <= m + k)
      BY <1>8, <1>11, <2>1
    <3>2. i + 3 = m + (k + 1)
      BY <1>1, <1>2, <2>1, <2>3, <3>1
    <3>3. ~ (m < i /\ i <= m + k)
      BY <1>8, <1>11, <2>1
    <3>4. i <= m
      BY <1>1, <1>2, <2>1, <3>2, <3>3
    <3>5. m # i + 1 /\ m # i + 2
      <4>1. "/" # "."
        OBVIOUS
      <4>2. m \in 1..(m + (k + 1)) /\ m <= m
        BY <1>1, <1>2
      <4>3. t[m] = "/"
        BY <1>8, <1>9, <4>2
      <4> QED
        BY <1>11, <4>1, <4>3
    <3>6. k = 2 /\ i = m
      BY <1>1, <1>2, <2>1, <3>2, <3>4, <3>5
    <3>7. m < i + 1 /\ i + 1 <= m + k /\ m < i + 2 /\ i + 2 <= m + k /\ (i + 1) - m = 1 /\ (i + 2) - m = 2
      BY <1>1, <3>6
    <3>8. q[1] = "." /\ q[2] = "."
      BY <1>8, <1>11, <2>1, <3>7
    <3> QED
      BY <1>4, <3>6, <3>8
  <2> QED
    BY <1>1, <2>1, <2>2, <2>3
<1>12. Len(t) \in 1..(m + (k + 1)) /\ Len(t) = m + (k + 1) /\ Len(t) >= 1 /\ 1 <= m /\ 1 \in 1..(m + (k + 1))
  BY <1>1, <1>2, <1>7
<1>13. t[Len(t)] = "/" /\ t[1] = "/" /\ t # <<>>
  BY <1>1, <1>7, <1>8, <1>12
<1> QED
  BY <1>7, <1>10, <1>11, <1>13 DEF Inside

\* Only the last name may be Up.
LEMMA InsideUps ==
  ASSUME NEW p \in Seq(Chars), Inside(p)
  PROVE  \A u \in Ups(p) : u[2] = Len(p)
<1> SUFFICES ASSUME NEW u \in Ups(p), u[2] # Len(p) PROVE FALSE
  OBVIOUS
<1> DEFINE a == u[1]
           b == u[2]
<1>1. /\ a \in 1..Len(p) /\ b \in 1..Len(p) /\ a <= b /\ Len(p) \in Nat
      /\ SubSeq(p, a, b) = Up
      /\ a > 1 => p[a - 1] = "/"
      /\ b < Len(p) => p[b + 1] = "/"
  BY DEF Ups, Names
<1> HIDE DEF a, b
<1>2. Len(SubSeq(p, a, b)) = (b - a) + 1
  BY <1>1
<1>3. Len(Up) = 2 /\ Up[1] = "." /\ Up[2] = "."
  BY DEF Up
<1>4. b = a + 1
  <2>1. (b - a) + 1 = 2
    BY <1>1, <1>2, <1>3
  <2> QED
    BY <1>1, <2>1
<1>5. SubSeq(p, a, b)[1] = p[a] /\ SubSeq(p, a, b)[2] = p[b]
  BY <1>1, <1>4
<1>6. p[a] = "." /\ p[b] = "."
  BY <1>1, <1>3, <1>5
<1>7. p[1] = "/"
  BY DEF Inside
<1>8. a # 1
  BY <1>6, <1>7
<1>9. b < Len(p)
  BY <1>1 DEF b
<1> DEFINE c == a - 1
<1>10. c \in 1..(Len(p) - 3) /\ a = c + 1 /\ b = c + 2 /\ b + 1 = c + 3
  BY <1>1, <1>4, <1>8, <1>9
<1>11. p[c] = "/" /\ p[c + 3] = "/"
  BY <1>1, <1>8, <1>9, <1>10
<1> HIDE DEF c
<1> QED
  BY <1>6, <1>10, <1>11 DEF Inside
Parts(kept) == [i \in DOMAIN kept |-> Append(kept[i], "/")]
LEMMA PartsAre ==
  ASSUME NEW kept \in Seq(Plain)
  PROVE  /\ Parts(kept) \in Seq(Seq(Chars)) /\ Len(Parts(kept)) = Len(kept)
         /\ \A i \in 1..Len(kept) : kept[i] \in Plain /\ Parts(kept)[i] = Append(kept[i], "/")
<1>1. \A q \in Plain : Append(q, "/") \in Seq(Chars)
  <2> TAKE q \in Plain
  <2>1. q \in Seq(Chars) /\ "/" \in Chars
    BY DEF Plain, Left, NoSlash, Chars
  <2> QED
    BY <2>1
<1>2. Len(kept) \in Nat /\ DOMAIN kept = 1..Len(kept) /\ \A i \in 1..Len(kept) : kept[i] \in Plain
  OBVIOUS
<1>3. Parts(kept) \in [1..Len(kept) -> Seq(Chars)]
  BY <1>1, <1>2 DEF Parts
<1>4. Parts(kept) \in Seq(Seq(Chars)) /\ Len(Parts(kept)) = Len(kept)
  BY <1>2, <1>3, SeqOfLength
<1> QED
  BY <1>2, <1>4 DEF Parts

\* An absolute text, from what is kept of it.
LEMMA AbsoluteInside ==
  ASSUME NEW kept \in Seq(Plain), NEW t, t = <<"/">> \o FlattenSeq(Parts(kept))
  PROVE  t \in Seq(Chars) /\ Inside(t) /\ t[Len(t)] = "/" /\ (kept # <<>> => Len(t) >= 2)
<1> DEFINE N == Len(kept)
           parts == Parts(kept)
<1>1. parts \in Seq(Seq(Chars)) /\ Len(parts) = N /\ N \in Nat
      /\ \A i \in 1..N : kept[i] \in Plain /\ parts[i] = Append(kept[i], "/")
  BY PartsAre
<1>2. PICK f \in [0..N -> Seq(Chars)] : Flattens(f, parts) /\ FlattenSeq(parts) = f[N]
  <2>1. \E f \in [0..Len(parts) -> Seq(Chars)] : Flattens(f, parts) /\ FlattenSeq(parts) = f[Len(parts)]
    <3> HIDE DEF parts
    <3> QED
      BY <1>1, FlattenSeqByParts
  <2> QED
    BY <1>1, <2>1
<1> HIDE DEF N, parts
<1> DEFINE Good(u) == u \in Seq(Chars) /\ Inside(u) /\ u[Len(u)] = "/"
           P == {i \in 0..N : Good(<<"/">> \o f[i]) /\ (i # 0 => f[i] # <<>>)}
<1>3. "/" \in Chars /\ <<"/">> \in Seq(Chars)
  BY DEF Chars
<1>4. 0 \in P
  <2>1. <<"/">> \o f[0] = <<"/">>
    BY <1>2 DEF Flattens
  <2>2. Inside(<<"/">>)
    BY DEF Inside
  <2>3. Good(<<"/">>)
    BY <1>3, <2>2
  <2> HIDE DEF Good
  <2>4. 0 \in 0..N
    BY <1>1
  <2> QED
    BY <2>1, <2>3, <2>4
<1>5. ASSUME NEW i \in 0..(N - 1), i \in P PROVE i + 1 \in P
  <2> DEFINE a == Append(kept[i + 1], "/")
             u == <<"/">> \o f[i]
  <2>1. i + 1 \in 1..N /\ (i + 1) - 1 = i /\ i \in 0..N /\ i + 1 \in 0..N
    BY <1>1
  <2>2. kept[i + 1] \in Plain /\ parts[i + 1] = a /\ parts[i + 1] \in Seq(Chars) /\ f[i] \in Seq(Chars)
    <3>1. kept[i + 1] \in Plain /\ parts[i + 1] = a
      BY <1>1, <2>1
    <3>2. parts[i + 1] \in Seq(Chars) /\ f[i] \in Seq(Chars)
      BY <1>1, <2>1
    <3> QED
      BY <3>1, <3>2
  <2>3. f[i + 1] = f[i] \o a
    BY <1>1, <1>2, <2>1, <2>2 DEF Flattens
  <2>4. Good(u)
    BY <1>5
  <2> HIDE DEF Good
  <2>5. <<"/">> \o f[i + 1] = u \o a
    <3> HIDE DEF a
    <3>1. a \in Seq(Chars)
      BY <2>2
    <3>2. (<<"/">> \o f[i]) \o a = <<"/">> \o (f[i] \o a)
      <4>1. ASSUME NEW x \in Seq(Chars), NEW y \in Seq(Chars), NEW z \in Seq(Chars)
            PROVE  (x \o y) \o z = x \o (y \o z)
        BY ONLY x \in Seq(Chars), y \in Seq(Chars), z \in Seq(Chars), ConcatAssociative
      <4> QED
        BY <1>3, <2>2, <3>1, <4>1, Zenon
    <3> QED
      BY <2>3, <3>2
  <2>6. Good(u \o a)
    <3> HIDE DEF u
    <3> QED
      BY <2>2, <2>4, InsideGrows DEF Good
  <2>7. f[i + 1] # <<>>
    <3>1. Len(a) >= 1
      <4>1. kept[i + 1] \in Seq(Chars)
        BY <2>2 DEF Plain, Left, NoSlash
      <4> QED
        BY <4>1
    <3> HIDE DEF a
    <3>2. Len(f[i + 1]) = Len(f[i]) + Len(a) /\ Len(f[i]) \in Nat /\ Len(a) \in Nat
      BY <2>2, <2>3
    <3> QED
      BY <3>1, <3>2
  <2> QED
    BY <2>1, <2>5, <2>6, <2>7
<1> HIDE DEF P, Good
<1>6. 0..N \subseteq P
  BY <1>1, <1>4, <1>5, UpTo
<1>7. N \in P
  BY <1>1, <1>6
<1>8. t = <<"/">> \o f[N]
  BY <1>2 DEF parts
<1>9. Good(t) /\ (N # 0 => f[N] # <<>>)
  BY <1>7, <1>8 DEF P
<1>10. f[N] \in Seq(Chars) /\ Len(t) = 1 + Len(f[N])
  BY <1>1, <1>3, <1>8
<1>11. kept # <<>> => N # 0
  BY DEF N
<1>12. kept # <<>> => Len(t) >= 2
  <2> SUFFICES ASSUME kept # <<>> PROVE Len(t) >= 2
    OBVIOUS
  <2>1. Len(f[N]) \in Nat /\ Len(f[N]) # 0
    BY <1>9, <1>10, <1>11
  <2> QED
    BY <1>10, <2>1
<1> QED
  BY <1>9, <1>12 DEF Good

\* One that does not begin with a slash, but with the first name kept of it.
LEMMA RelativeText ==
  ASSUME NEW kept \in Seq(Plain), NEW t, t = <<>> \o FlattenSeq(Parts(kept))
  PROVE  /\ t \in Seq(Chars) /\ (kept = <<>> => t = <<>>)
         /\ kept # <<>> => Len(t) >= 2 /\ t[1] # "/"
<1> DEFINE N == Len(kept)
           parts == Parts(kept)
<1>1. parts \in Seq(Seq(Chars)) /\ Len(parts) = N /\ N \in Nat
      /\ \A i \in 1..N : kept[i] \in Plain /\ parts[i] = Append(kept[i], "/")
  BY PartsAre
<1>2. PICK f \in [0..N -> Seq(Chars)] : Flattens(f, parts) /\ FlattenSeq(parts) = f[N]
  <2>1. \E f \in [0..Len(parts) -> Seq(Chars)] : Flattens(f, parts) /\ FlattenSeq(parts) = f[Len(parts)]
    <3> HIDE DEF parts
    <3> QED
      BY <1>1, FlattenSeqByParts
  <2> QED
    BY <1>1, <2>1
<1> HIDE DEF N, parts
<1> DEFINE Good(u) == Len(u) >= 2 /\ u[1] # "/"
           P == {i \in 0..N : i = 0 \/ Good(f[i])}
<1>4. 0 \in P
  BY <1>1
<1>5. ASSUME NEW i \in 0..(N - 1), i \in P PROVE i + 1 \in P
  <2> DEFINE q == kept[i + 1]
             a == Append(q, "/")
  <2>1. i + 1 \in 1..N /\ (i + 1) - 1 = i /\ i \in 0..N /\ i + 1 \in 0..N
    BY <1>1
  <2>2. q \in Plain /\ parts[i + 1] = a /\ f[i] \in Seq(Chars)
    BY <1>1, <2>1
  <2>3. f[i + 1] = f[i] \o a
    BY <1>1, <1>2, <2>1, <2>2 DEF Flattens
  <2> HIDE DEF q
  <2>4. q \in Seq(Chars) /\ Len(q) >= 1 /\ Len(q) \in Nat /\ q[1] # "/"
    BY <2>2 DEF Plain, Left, NoSlash
  <2>5. a \in Seq(Chars) /\ Len(a) >= 2 /\ a[1] # "/"
    <3>1. "/" \in Chars
      BY DEF Chars
    <3> QED
      BY <2>4, <3>1
  <2> HIDE DEF a
  <2>6. CASE i = 0
    <3>1. f[i] = <<>>
      BY <1>2, <2>6 DEF Flattens
    <3>2. f[i + 1] = a
      BY <2>3, <2>5, <3>1
    <3> QED
      BY <2>1, <2>5, <3>2
  <2>7. CASE i # 0
    <3>1. Good(f[i])
      BY <1>5, <2>7
    <3>2. Good(f[i] \o a)
      BY <2>2, <2>5, <3>1
    <3> HIDE DEF Good
    <3> QED
      BY <2>1, <2>3, <3>2
  <2> QED
    BY <2>6, <2>7
<1> HIDE DEF P, Good
<1>6. 0..N \subseteq P
  BY <1>1, <1>4, <1>5, UpTo
<1>7. N \in P
  BY <1>1, <1>6
<1>8. t = f[N] /\ t \in Seq(Chars)
  <2>1. f[N] \in Seq(Chars)
    BY <1>1
  <2>2. t = <<>> \o f[N]
    BY <1>2 DEF parts
  <2> QED
    BY <2>1, <2>2
<1>9. kept = <<>> => N = 0
  BY DEF N
<1>10. kept # <<>> => N # 0
  BY DEF N
<1>11. N = 0 => t = <<>>
  BY <1>2, <1>8 DEF Flattens
<1> QED
  BY <1>7, <1>8, <1>9, <1>10, <1>11 DEF P, Good

\* What normalize_uri makes of a text it takes.
LEMMA JoinIs ==
  ASSUME NEW s, NEW kept \in Seq(Plain), NEW w, w = Join(s, kept)
  PROVE  w \in Seq(Chars) /\ w # <<>> /\ (w[1] = "/" => Inside(w))
<1> DEFINE lead == IF Head(s) = "/" THEN <<"/">> ELSE <<>>
           text == lead \o FlattenSeq(Parts(kept))
<1>1. w = IF text = <<>> THEN <<"/">>
          ELSE IF kept # <<>> /\ Last(s) # "/" THEN Front(text) ELSE text
  BY DEF Join, Parts
<1>2. <<"/">> \in Seq(Chars) /\ Inside(<<"/">>)
  BY DEF Chars, Inside
<1>3. CASE Head(s) = "/"
  <2>1. text = <<"/">> \o FlattenSeq(Parts(kept))
    BY <1>3
  <2> HIDE DEF text
  <2>2. text \in Seq(Chars) /\ Inside(text) /\ (kept # <<>> => Len(text) >= 2)
    BY <2>1, AbsoluteInside
  <2>3. text # <<>>
    BY <2>2 DEF Inside
  <2>4. CASE kept # <<>> /\ Last(s) # "/"
    <3>1. w = Front(text)
      BY <1>1, <2>3, <2>4
    <3>2. w \in Seq(Chars) /\ Len(w) = Len(text) - 1 /\ \A i \in 1..Len(w) : w[i] = text[i]
      BY <2>2, <2>4, <3>1 DEF Front
    <3>3. w # <<>> /\ Len(w) <= Len(text)
      <4>1. Len(text) >= 2 /\ Len(text) \in Nat
        BY <2>2, <2>4
      <4>2. Len(w) >= 1 /\ Len(w) <= Len(text)
        BY <3>2, <4>1
      <4> QED
        BY <4>2
    <3> QED
      BY <2>2, <3>2, <3>3, InsidePrefix
  <2>5. CASE ~ (kept # <<>> /\ Last(s) # "/")
    BY <1>1, <2>2, <2>3, <2>5
  <2> QED
    BY <2>4, <2>5
<1>4. CASE Head(s) # "/"
  <2>1. text = <<>> \o FlattenSeq(Parts(kept))
    BY <1>4
  <2> HIDE DEF text
  <2>2. /\ text \in Seq(Chars) /\ (kept = <<>> => text = <<>>)
        /\ kept # <<>> => Len(text) >= 2 /\ text[1] # "/"
    BY <2>1, RelativeText
  <2>3. CASE text = <<>>
    BY <1>1, <1>2, <2>3
  <2>4. CASE text # <<>> /\ Last(s) = "/"
    BY <1>1, <2>2, <2>4
  <2>5. CASE text # <<>> /\ Last(s) # "/"
    <3>1. w = Front(text) /\ Len(text) >= 2 /\ Len(text) \in Nat
      BY <1>1, <2>2, <2>5
    <3>2. w \in Seq(Chars) /\ Len(w) = Len(text) - 1 /\ w[1] = text[1]
      BY <2>2, <3>1 DEF Front
    <3>3. Len(w) >= 1
      BY <3>1, <3>2
    <3> QED
      BY <2>2, <2>5, <3>2, <3>3
  <2> QED
    BY <2>3, <2>4, <2>5
<1> QED
  BY <1>3, <1>4

\* What is kept of a text that does not lead outside has no Up.
LEMMA KeptPlain ==
  ASSUME NEW s \in Seq(Chars), ~LeadsOutside(s)
  PROVE  Kept(Segments(s)) \in Seq(Plain)
<1> DEFINE segments == Segments(s)
<1>1. segments \in Seq(NoSlash)
  <2>1. PICK f \in [0..Len(s) -> Seq(NoSlash) \ {<<>>}] : segments = f[Len(s)]
    BY SegmentsRead DEF NoSlash
  <2>2. Len(s) \in 0..Len(s)
    OBVIOUS
  <2> HIDE DEF segments
  <2> QED
    BY <2>1, <2>2
<1>2. Up \notin ToSet(IF Head(s) = "/" THEN Kept(segments) ELSE segments)
  BY DEF LeadsOutside
<1> HIDE DEF segments
<1>3. ASSUME NEW S, segments \in Seq(S) PROVE Kept(segments) \in Seq(S \ {<<>>, <<".">>})
  <2>1. PICK f \in [0..Len(segments) -> Seq(S \ {<<>>, <<".">>})] : Kept(segments) = f[Len(segments)]
    BY <1>3, KeptReads
  <2>2. Len(segments) \in 0..Len(segments)
    BY <1>3
  <2> QED
    BY <2>1, <2>2
<1>4. ASSUME NEW S, NEW q \in Seq(S), Up \notin ToSet(q) PROVE q \in Seq(S \ {Up})
  <2>1. \A i \in 1..Len(q) : q[i] \in S \ {Up}
    BY <1>4 DEF ToSet
  <2> QED
    BY <2>1
<1>5. CASE Head(s) = "/"
  <2>1. Kept(segments) \in Seq(Left)
    BY <1>1, <1>3 DEF Left
  <2> QED
    BY <1>2, <1>4, <1>5, <2>1 DEF Plain, segments
<1>6. CASE Head(s) # "/"
  <2>1. segments \in Seq(NoSlash \ {Up})
    BY <1>1, <1>2, <1>4, <1>6
  <2>2. Kept(segments) \in Seq((NoSlash \ {Up}) \ {<<>>, <<".">>})
    BY <1>3, <2>1
  <2>3. (NoSlash \ {Up}) \ {<<>>, <<".">>} = Plain
    BY DEF Plain, Left
  <2> QED
    BY <2>2, <2>3 DEF segments
<1> QED
  BY <1>5, <1>6

\* What set_request_uri gives.
LEMMA UriIs ==
  ASSUME NEW uri \in Seq(STRING), NEW r, r = set_request_uri(uri)
  PROVE  /\ r.error \in {0, 400, 414}
         /\ r.uri \in Seq(Chars) /\ Len(r.uri) <= MaxUriLength
         /\ r.uri # <<>> => Inside(r.uri)
<1> DEFINE sent == Before("#", uri)
           text == Decode(sent)
           kept == Kept(Segments(text))
           whole == Join(text, kept)
           path == Before("?", whole)
<1>1. sent \in Seq(STRING) /\ text \in Seq(Chars)
  BY BeforeIs, DecodeIs
<1>0. MaxUriLength \in Nat
  BY RequestHeadAssumption
<1>2. CASE r.uri = <<>> /\ r.error \in {0, 400, 414}
  <2>1. Len(r.uri) = 0 /\ r.uri \in Seq(Chars)
    BY <1>2
  <2> QED
    BY <1>0, <1>2, <2>1
<1>3. CASE ~ (r.uri = <<>> /\ r.error \in {0, 400, 414})
  <2>1. /\ r = [error |-> 0, uri |-> path, query |-> After("?", whole)]
        /\ ~ LeadsOutside(text) /\ path # <<>> /\ path[1] = "/" /\ ~ (Len(path) > MaxUriLength)
    BY <1>3 DEF set_request_uri, Refused
  <2> HIDE DEF text
  <2>2. kept \in Seq(Plain)
    BY <1>1, <2>1, KeptPlain
  <2> HIDE DEF kept
  <2>3. whole \in Seq(Chars) /\ whole # <<>> /\ (whole[1] = "/" => Inside(whole))
    BY <2>2, JoinIs
  <2> HIDE DEF whole
  <2>4. /\ path \in Seq(Chars) /\ Len(path) <= Len(whole)
        /\ \A i \in 1..Len(path) : path[i] = whole[i]
    BY <2>3, BeforeIs
  <2> HIDE DEF path
  <2>5. Len(path) \in Nat /\ Len(path) >= 1
    BY <2>1, <2>4
  <2>6. whole[1] = "/"
    BY <2>1, <2>4, <2>5
  <2>7. Inside(path)
    BY <2>1, <2>3, <2>4, <2>6, InsidePrefix
  <2>8. Len(path) <= MaxUriLength
    BY <1>0, <2>1, <2>5
  <2> QED
    BY <2>1, <2>4, <2>7, <2>8
<1> QED
  BY <1>2, <1>3
-----------------------------------------------------------------------------
(* What a URI means: the names that resolving leaves, told from the places  *)
(* of the slashes (Survivors), are the ones that the stack of normalize_uri *)
(* has at its end. Segments are located in the text by their slashes        *)
(* (Cuts), the level after each is the depth of the text there (Levels),    *)
(* and the stack has a name exactly while no Up has led below it (Stack).   *)
\* c[k] is the slash before the k-th segment, 0 before the first, and the place
\* after the end of the text after the last.
Cuts(s, segments, c) ==
  LET M == Len(segments) IN
  /\ c \in [1..(M + 1) -> 0..(Len(s) + 1)]
  /\ c[1] = 0 /\ c[M + 1] = Len(s) + 1
  /\ \A k \in 1..M : /\ c[k] < c[k + 1] /\ segments[k] = SubSeq(s, c[k] + 1, c[k + 1] - 1)
                     /\ \A i \in (c[k] + 1)..(c[k + 1] - 1) : s[i] # "/"
  /\ \A k \in 2..M : s[c[k]] = "/"

\* The same after n characters, where the last segment has no end yet.
CutsAt(n, s, segments, c) ==
  LET M == Len(segments) IN
  /\ c \in [1..M -> 0..n] /\ c[1] = 0
  /\ \A k \in 1..(M - 1) : /\ c[k] < c[k + 1] /\ segments[k] = SubSeq(s, c[k] + 1, c[k + 1] - 1)
                           /\ \A i \in (c[k] + 1)..(c[k + 1] - 1) : s[i] # "/"
  /\ \A k \in 2..M : s[c[k]] = "/"
  /\ segments[M] = SubSeq(s, c[M] + 1, n) /\ \A i \in (c[M] + 1)..n : s[i] # "/"

LEMMA CutAtSlash ==
  ASSUME NEW S, NEW s \in Seq(S), NEW n \in 0..(Len(s) - 1), s[n + 1] = "/",
         NEW q \in Seq(Seq(S \ {"/"})) \ {<<>>}, NEW c, CutsAt(n, s, q, c)
  PROVE  \E d : CutsAt(n + 1, s, Cut(q, s[n + 1]), d)
<1> DEFINE M == Len(q)
           t == Cut(q, s[n + 1])
           d == [k \in 1..(M + 1) |-> IF k = M + 1 THEN n + 1 ELSE c[k]]
<1>1. M \in Nat /\ M >= 1 /\ Len(s) \in Nat /\ n \in Nat
  OBVIOUS
<1>2. t = Append(q, <<>>)
  BY DEF Cut
<1>3. Len(t) = M + 1 /\ t[M + 1] = <<>> /\ \A k \in 1..M : t[k] = q[k]
  <2> DEFINE T == Seq(S \ {"/"})
             e == <<>>
  <2>1. e \in T /\ q \in Seq(T) /\ t = Append(q, e)
    BY <1>2
  <2> HIDE DEF T, e, t
  <2>2. Len(t) = Len(q) + 1 /\ t[Len(q) + 1] = e /\ \A k \in 1..Len(q) : t[k] = q[k]
    BY <2>1, AppendIs
  <2> QED
    BY <2>2 DEF e
<1>4. /\ c \in [1..M -> 0..n] /\ c[1] = 0
      /\ \A k \in 1..(M - 1) : /\ c[k] < c[k + 1] /\ q[k] = SubSeq(s, c[k] + 1, c[k + 1] - 1)
                               /\ \A i \in (c[k] + 1)..(c[k + 1] - 1) : s[i] # "/"
      /\ \A k \in 2..M : s[c[k]] = "/"
      /\ q[M] = SubSeq(s, c[M] + 1, n) /\ \A i \in (c[M] + 1)..n : s[i] # "/"
  BY DEF CutsAt
<1> HIDE DEF M, t
<1>5. d \in [1..(M + 1) -> 0..(n + 1)]
  <2>1. \A k \in 1..(M + 1) : k # M + 1 => c[k] \in 0..(n + 1)
    BY <1>1, <1>4
  <2> QED
    BY <1>1, <2>1
<1>6. d[M + 1] = n + 1 /\ \A k \in 1..M : d[k] = c[k]
  BY <1>1
<1> HIDE DEF d
<1>7. ASSUME NEW k \in 1..M
      PROVE  /\ d[k] < d[k + 1] /\ t[k] = SubSeq(s, d[k] + 1, d[k + 1] - 1)
             /\ \A i \in (d[k] + 1)..(d[k + 1] - 1) : s[i] # "/"
  <2>1. CASE k = M
    <3>0. M \in 1..M /\ (n + 1) - 1 = n
      BY <1>1
    <3>1. d[k] = c[M] /\ d[k + 1] = n + 1 /\ (n + 1) - 1 = n /\ c[M] \in 0..n /\ t[k] = q[M]
      BY <1>3, <1>4, <1>6, <2>1, <3>0
    <3>2. d[k] < d[k + 1]
      BY <1>1, <3>1
    <3> QED
      BY <1>4, <3>1, <3>2
  <2>2. CASE k # M
    <3>1. k \in 1..(M - 1) /\ k + 1 \in 1..M
      BY <1>1, <2>2
    <3>2. d[k] = c[k] /\ d[k + 1] = c[k + 1] /\ t[k] = q[k]
      BY <1>3, <1>6, <3>1
    <3> QED
      BY <1>4, <3>1, <3>2
  <2> QED
    BY <2>1, <2>2
<1>8. ASSUME NEW k \in 2..(M + 1) PROVE s[d[k]] = "/"
  <2>1. CASE k = M + 1
    BY <1>6, <2>1
  <2>2. CASE k # M + 1
    <3>1. k \in 2..M /\ k \in 1..M
      BY <1>1, <2>2
    <3> QED
      BY <1>4, <1>6, <3>1
  <2> QED
    BY <2>1, <2>2
<1>9. d[1] = 0
  <2>1. 1 \in 1..M
    BY <1>1
  <2> QED
    BY <1>4, <1>6, <2>1
<1>10. t[M + 1] = SubSeq(s, d[M + 1] + 1, n + 1) /\ (d[M + 1] + 1)..(n + 1) = {}
  <2>1. SubSeq(s, (n + 1) + 1, n + 1) = <<>> /\ ((n + 1) + 1)..(n + 1) = {}
    BY <1>1
  <2> QED
    BY <1>3, <1>6, <2>1
<1>11. (M + 1) - 1 = M
  BY <1>1
<1>12. CutsAt(n + 1, s, t, d)
  BY <1>3, <1>5, <1>7, <1>8, <1>9, <1>10, <1>11 DEF CutsAt
<1> QED
  BY <1>12 DEF t

LastIs(e, q, t) ==
  Len(t) = Len(q) /\ t[Len(q)] = e /\ \A k \in 1..(Len(q) - 1) : t[k] = q[k]
LEMMA CutOther ==
  ASSUME NEW S, NEW q, q # <<>>, NEW c, c # "/", q \in Seq(Seq(S \ {"/"})), c \in S
  PROVE  LastIs(Append(q[Len(q)], c), q, Cut(q, c))
<1> DEFINE e == Append(q[Len(q)], c)
<1>1. e \in Seq(S \ {"/"})
  <2>1. q[Len(q)] \in Seq(S \ {"/"})
    OBVIOUS
  <2> QED
    BY <2>1
<1>2. Cut(q, c) = Append(Front(q), e)
  BY DEF Cut, Last
<1> HIDE DEF e
<1>3. Len(Append(Front(q), e)) = Len(q) /\ Append(Front(q), e)[Len(q)] = e
      /\ \A k \in 1..(Len(q) - 1) : Append(Front(q), e)[k] = q[k]
  BY <1>1, LastReplaced
<1>4. LastIs(e, q, Cut(q, c))
  BY <1>2, <1>3 DEF LastIs
<1> QED
  BY <1>4 DEF e

LEMMA CutInside ==
  ASSUME NEW S, NEW s \in Seq(S), NEW n \in 0..(Len(s) - 1), s[n + 1] # "/",
         NEW q \in Seq(Seq(S \ {"/"})) \ {<<>>}, NEW c, CutsAt(n, s, q, c)
  PROVE  CutsAt(n + 1, s, Cut(q, s[n + 1]), c)
<1> DEFINE M == Len(q)
           t == Cut(q, s[n + 1])
           T == Seq(S \ {"/"})
           a == Append(q[M], s[n + 1])
<1>1. M \in Nat /\ M >= 1 /\ Len(s) \in Nat /\ n \in Nat
  OBVIOUS
<1>2. q \in Seq(T) /\ q # <<>> /\ q[M] \in T
  BY <1>1
<1>3. a \in T
  <2>1. s[n + 1] \in S \ {"/"}
    OBVIOUS
  <2> QED
    BY <1>2, <2>1
<1>4. t = Append(Front(q), a)
  BY DEF Cut, Last
<1>5. /\ c \in [1..M -> 0..n] /\ c[1] = 0
      /\ \A k \in 1..(M - 1) : /\ c[k] < c[k + 1] /\ q[k] = SubSeq(s, c[k] + 1, c[k + 1] - 1)
                               /\ \A i \in (c[k] + 1)..(c[k + 1] - 1) : s[i] # "/"
      /\ \A k \in 2..M : s[c[k]] = "/"
      /\ q[M] = SubSeq(s, c[M] + 1, n) /\ \A i \in (c[M] + 1)..n : s[i] # "/"
  BY DEF CutsAt
<1>6. a = SubSeq(s, c[M] + 1, n + 1)
  <2>1. c[M] \in 0..n
    <3>1. M \in 1..M
      BY <1>1
    <3>2. c \in [1..M -> 0..n]
      BY <1>5
    <3> HIDE DEF M
    <3> QED
      BY ONLY <3>1, <3>2
  <2> DEFINE b == c[M] + 1
  <2>2. b \in 1..(n + 1)
    BY <1>1, <2>1
  <2> HIDE DEF b
  <2>3. Append(SubSeq(s, b, n), s[n + 1]) = SubSeq(s, b, n + 1)
    BY <1>1, <2>2
  <2> QED
    BY <1>5, <2>3 DEF b
<1> HIDE DEF t, a, T
<1>7. Len(t) = M /\ t[M] = a /\ \A k \in 1..(M - 1) : t[k] = q[k]
  <2>1. q # <<>> /\ q \in Seq(Seq(S \ {"/"})) /\ s[n + 1] \in S
    OBVIOUS
  <2>2. LastIs(Append(q[Len(q)], s[n + 1]), q, Cut(q, s[n + 1]))
    BY <2>1, CutOther
  <2> QED
    BY <2>2 DEF t, a, LastIs
<1> HIDE DEF M
<1>8. c \in [1..M -> 0..(n + 1)]
  BY <1>1, <1>5
<1>9. \A i \in (c[M] + 1)..(n + 1) : s[i] # "/"
  <2> TAKE i \in (c[M] + 1)..(n + 1)
  <2>1. c[M] \in 0..n
    <3>1. M \in 1..M
      BY <1>1
    <3>2. c \in [1..M -> 0..n]
      BY <1>5
    <3> HIDE DEF M
    <3> QED
      BY ONLY <3>1, <3>2
  <2>2. i = n + 1 \/ i \in (c[M] + 1)..n
    BY <1>1, <2>1
  <2> QED
    BY <1>5, <2>2
<1>10. CutsAt(n + 1, s, t, c)
  BY <1>5, <1>6, <1>7, <1>8, <1>9 DEF CutsAt
<1> QED
  BY <1>10 DEF t

LEMMA SegmentsCut ==
  ASSUME NEW S, NEW s \in Seq(S), NEW segments, segments = Segments(s)
  PROVE  /\ segments \in Seq(Seq(S \ {"/"})) /\ Len(segments) >= 1
         /\ \E c : Cuts(s, segments, c)
<1> DEFINE N == Len(s)
           Q == Seq(Seq(S \ {"/"})) \ {<<>>}
<1>1. PICK f \in [0..N -> Q] : Read(f, s) /\ segments = f[N]
  BY SegmentsRead
<1>2. N \in Nat /\ N \in 0..N
  OBVIOUS
<1> DEFINE P == {n \in 0..N : \E c : CutsAt(n, s, f[n], c)}
<1>3. 0 \in P
  <2> DEFINE q == << <<>> >>
             c == [k \in 1..1 |-> 0]
  <2>1. f[0] = q
    BY <1>1 DEF Read
  <2>2. Len(q) = 1 /\ q[1] = <<>>
    OBVIOUS
  <2>3. SubSeq(s, 0 + 1, 0) = <<>>
    OBVIOUS
  <2>4. c \in [1..1 -> 0..0] /\ c[1] = 0
    OBVIOUS
  <2> HIDE DEF q, c
  <2>5. 1..(1 - 1) = {} /\ 2..1 = {} /\ (0 + 1)..0 = {}
    OBVIOUS
  <2>6. CutsAt(0, s, q, c)
    BY <2>2, <2>3, <2>4, <2>5 DEF CutsAt
  <2> QED
    BY <1>2, <2>1, <2>6
<1>4. ASSUME NEW n \in 0..(N - 1), n \in P PROVE n + 1 \in P
  <2>1. n + 1 \in 1..N /\ n + 1 \in 0..N /\ n \in 0..N /\ (n + 1) - 1 = n
    BY <1>2
  <2>2. f[n] \in Q
    BY <2>1
  <2>3. f[n + 1] = Cut(f[n], s[n + 1])
    BY <1>1, <2>1 DEF Read
  <2>4. PICK c : CutsAt(n, s, f[n], c)
    BY <1>4
  <2>5. \E d : CutsAt(n + 1, s, Cut(f[n], s[n + 1]), d)
    BY <2>2, <2>4, CutAtSlash, CutInside
  <2> QED
    BY <2>1, <2>3, <2>5
<1> HIDE DEF P
<1>5. N \in P
  <2>1. 0..N \subseteq P
    BY <1>2, <1>3, <1>4, UpTo
  <2> QED
    BY <1>2, <2>1
<1>6. PICK c : CutsAt(N, s, segments, c)
  BY <1>1, <1>5 DEF P
<1>7. segments \in Q
  BY <1>1, <1>2
<1>8. segments \in Seq(Seq(S \ {"/"})) /\ Len(segments) >= 1 /\ Len(segments) \in Nat
  BY <1>7
<1> DEFINE M == Len(segments)
           d == [k \in 1..(M + 1) |-> IF k = M + 1 THEN N + 1 ELSE c[k]]
<1>9. /\ c \in [1..M -> 0..N] /\ c[1] = 0
      /\ \A k \in 1..(M - 1) : /\ c[k] < c[k + 1] /\ segments[k] = SubSeq(s, c[k] + 1, c[k + 1] - 1)
                               /\ \A i \in (c[k] + 1)..(c[k + 1] - 1) : s[i] # "/"
      /\ \A k \in 2..M : s[c[k]] = "/"
      /\ segments[M] = SubSeq(s, c[M] + 1, N) /\ \A i \in (c[M] + 1)..N : s[i] # "/"
  BY <1>6 DEF CutsAt
<1>10. M \in Nat /\ M >= 1
  BY <1>8
<1> HIDE DEF M, N
<1>11. d[M + 1] = N + 1 /\ \A k \in 1..M : d[k] = c[k]
  BY <1>10
<1>12. d \in [1..(M + 1) -> 0..(N + 1)]
  <2>1. \A k \in 1..(M + 1) : k # M + 1 => c[k] \in 0..(N + 1)
    BY <1>2, <1>9, <1>10
  <2> QED
    BY <1>2, <1>10, <2>1
<1> HIDE DEF d
<1>13. ASSUME NEW k \in 1..M
       PROVE  /\ d[k] < d[k + 1] /\ segments[k] = SubSeq(s, d[k] + 1, d[k + 1] - 1)
              /\ \A i \in (d[k] + 1)..(d[k + 1] - 1) : s[i] # "/"
  <2>1. CASE k = M
    <3>1. d[k] = c[M] /\ d[k + 1] = N + 1 /\ (N + 1) - 1 = N /\ c[M] \in 0..N
      BY <1>2, <1>9, <1>10, <1>11, <2>1
    <3>2. d[k] < d[k + 1]
      BY <1>2, <3>1
    <3> QED
      BY <1>9, <2>1, <3>1, <3>2
  <2>2. CASE k # M
    <3>1. k \in 1..(M - 1) /\ k + 1 \in 1..M
      BY <1>10, <2>2
    <3>2. d[k] = c[k] /\ d[k + 1] = c[k + 1]
      BY <1>11, <3>1
    <3> QED
      BY <1>9, <3>1, <3>2
  <2> QED
    BY <2>1, <2>2
<1>14. \A k \in 2..M : s[d[k]] = "/"
  <2> TAKE k \in 2..M
  <2>1. k \in 1..M
    BY <1>10
  <2> QED
    BY <1>9, <1>11, <2>1
<1>15. d[1] = 0
  <2>1. 1 \in 1..M
    BY <1>10
  <2> QED
    BY <1>9, <1>11, <2>1
<1>16. Cuts(s, segments, d)
  BY <1>11, <1>12, <1>13, <1>14, <1>15 DEF Cuts, M, N
<1> QED
  BY <1>8, <1>16

(* The stack of Kept, told from the levels its segments lead to.            *)
IsDown(segment) == segment \notin {<<>>, <<".">>, Up}

\* d[k] is the number of names less the number of Ups in the first k segments.
Levels(d, segments) ==
  /\ d \in [0..Len(segments) -> Int] /\ d[0] = 0
  /\ \A k \in 1..Len(segments) :
       /\ IsDown(segments[k]) => d[k] = d[k - 1] + 1
       /\ segments[k] = Up => d[k] = d[k - 1] - 1
       /\ segments[k] \in {<<>>, <<".">>} => d[k] = d[k - 1]

\* No Up after the k-th segment, in the first n, leads below its level.
Stays(k, n, segments, d) ==
  IsDown(segments[k]) /\ \A j \in (k + 1)..n : segments[j] = Up => d[j] >= d[k]

\* q has the indices of the names that the first n segments leave.
Stack(q, n, segments, d, kept) ==
  /\ q \in Seq(1..n) /\ Len(q) = d[n]
  /\ Len(kept) = Len(q) /\ \A i \in 1..Len(q) : kept[i] = segments[q[i]]
  /\ \A i, j \in 1..Len(q) : i < j => q[i] < q[j]
  /\ \A i \in 1..Len(q) : d[q[i]] = i
  /\ \A k \in 1..n : Stays(k, n, segments, d) <=> \E i \in 1..Len(q) : q[i] = k

Fine(n, segments, d) == \A j \in 1..n : segments[j] = Up => d[j] >= 0
Broken(kept) == kept # <<>> /\ kept[1] = Up

LEMMA UpIs == Up # <<>> /\ Up # <<".">> /\ ~IsDown(Up)
  BY DEF Up, IsDown

LEMMA KeepIs ==
  ASSUME NEW kept, NEW segment
  PROVE  /\ segment \in {<<>>, <<".">>} => Keep(kept, segment) = kept
         /\ IsDown(segment) => Keep(kept, segment) = Append(kept, segment)
         /\ segment = Up => Keep(kept, segment) =
              IF kept = <<>> \/ Last(kept) = Up THEN Append(kept, Up) ELSE Front(kept)
<1>1. CASE segment \in {<<>>, <<".">>}
  <2>1. segment # Up /\ ~IsDown(segment)
    BY <1>1, UpIs DEF IsDown
  <2> QED
    BY <1>1, <2>1, Zenon DEF Keep
<1>2. CASE segment = Up
  <2>1. segment \notin {<<>>, <<".">>} /\ ~IsDown(segment)
    BY <1>2, UpIs
  <2> QED
    BY <1>2, <2>1, Zenon DEF Keep
<1>3. CASE IsDown(segment)
  <2>1. segment # Up /\ segment \notin {<<>>, <<".">>}
    BY <1>3 DEF IsDown
  <2> QED
    BY <1>3, <2>1, Zenon DEF Keep
<1> QED
  BY <1>1, <1>2, <1>3 DEF IsDown

LEMMA StaysSkip ==
  ASSUME NEW segments, NEW d, NEW n \in Nat, segments[n + 1] \in {<<>>, <<".">>},
         NEW k \in 1..(n + 1)
  PROVE  Stays(k, n + 1, segments, d) <=> k \in 1..n /\ Stays(k, n, segments, d)
<1>1. segments[n + 1] # Up /\ ~IsDown(segments[n + 1])
  BY UpIs DEF IsDown
<1>2. CASE k = n + 1
  BY <1>1, <1>2 DEF Stays
<1>3. CASE k # n + 1
  <2>1. k \in 1..n /\ \A j \in (k + 1)..(n + 1) : j = n + 1 \/ j \in (k + 1)..n
    BY <1>3
  <2>2. \A j \in (k + 1)..n : j \in (k + 1)..(n + 1)
    OBVIOUS
  <2> QED
    BY <1>1, <2>1, <2>2 DEF Stays
<1> QED
  BY <1>2, <1>3

LEMMA StaysDown ==
  ASSUME NEW segments, NEW d, NEW n \in Nat, IsDown(segments[n + 1]),
         NEW k \in 1..(n + 1)
  PROVE  Stays(k, n + 1, segments, d) <=> k = n + 1 \/ (k \in 1..n /\ Stays(k, n, segments, d))
<1>1. segments[n + 1] # Up
  BY UpIs
<1>2. CASE k = n + 1
  <2>1. ((n + 1) + 1)..(n + 1) = {}
    OBVIOUS
  <2> QED
    BY <1>2, <2>1 DEF Stays
<1>3. CASE k # n + 1
  <2>1. k \in 1..n /\ \A j \in (k + 1)..(n + 1) : j = n + 1 \/ j \in (k + 1)..n
    BY <1>3
  <2>2. \A j \in (k + 1)..n : j \in (k + 1)..(n + 1)
    OBVIOUS
  <2> QED
    BY <1>1, <1>3, <2>1, <2>2 DEF Stays
<1> QED
  BY <1>2, <1>3

LEMMA StaysUp ==
  ASSUME NEW segments, NEW d, NEW n \in Nat, segments[n + 1] = Up,
         NEW k \in 1..(n + 1)
  PROVE  Stays(k, n + 1, segments, d)
           <=> k \in 1..n /\ Stays(k, n, segments, d) /\ d[n + 1] >= d[k]
<1>1. ~IsDown(segments[n + 1])
  BY UpIs
<1>2. CASE k = n + 1
  BY <1>1, <1>2 DEF Stays
<1>3. CASE k # n + 1
  <2>1. k \in 1..n /\ \A j \in (k + 1)..(n + 1) : j = n + 1 \/ j \in (k + 1)..n
    BY <1>3
  <2>2. (\A j \in (k + 1)..n : j \in (k + 1)..(n + 1)) /\ n + 1 \in (k + 1)..(n + 1)
    BY <2>1
  <2> QED
    BY <2>1, <2>2 DEF Stays
<1> QED
  BY <1>2, <1>3

LEMMA StackSkip ==
  ASSUME NEW segments, NEW d, NEW n \in Nat, segments[n + 1] \in {<<>>, <<".">>},
         d[n + 1] = d[n], NEW kept, NEW q, Stack(q, n, segments, d, kept)
  PROVE  Stack(q, n + 1, segments, d, kept)
<1>1. /\ q \in Seq(1..n) /\ Len(q) = d[n]
      /\ Len(kept) = Len(q) /\ \A i \in 1..Len(q) : kept[i] = segments[q[i]]
      /\ \A i, j \in 1..Len(q) : i < j => q[i] < q[j]
      /\ \A i \in 1..Len(q) : d[q[i]] = i
      /\ \A k \in 1..n : Stays(k, n, segments, d) <=> \E i \in 1..Len(q) : q[i] = k
  BY DEF Stack
<1>2. \A i \in 1..Len(q) : q[i] \in 1..n
  BY <1>1
<1>3. q \in Seq(1..(n + 1))
  <2>1. 1..n \subseteq 1..(n + 1)
    OBVIOUS
  <2> QED
    BY <1>1, <2>1
<1>4. ASSUME NEW k \in 1..(n + 1)
      PROVE  Stays(k, n + 1, segments, d) <=> \E i \in 1..Len(q) : q[i] = k
  <2>1. Stays(k, n + 1, segments, d) <=> k \in 1..n /\ Stays(k, n, segments, d)
    BY StaysSkip
  <2>2. CASE k \in 1..n
    BY <1>1, <2>1, <2>2
  <2>3. CASE k \notin 1..n
    BY <1>2, <2>1, <2>3
  <2> QED
    BY <2>2, <2>3
<1> QED
  BY <1>1, <1>3, <1>4 DEF Stack

LEMMA StackDown ==
  ASSUME NEW segments, NEW d, NEW n \in Nat, IsDown(segments[n + 1]),
         d[n] \in Int, d[n + 1] = d[n] + 1,
         NEW T, NEW kept \in Seq(T), segments[n + 1] \in T,
         NEW q, Stack(q, n, segments, d, kept)
  PROVE  Stack(Append(q, n + 1), n + 1, segments, d, Append(kept, segments[n + 1]))
<1> DEFINE e == segments[n + 1]
           r == Append(q, n + 1)
           t == Append(kept, e)
           L == Len(q)
<1>1. /\ q \in Seq(1..n) /\ L = d[n]
      /\ Len(kept) = L /\ \A i \in 1..L : kept[i] = segments[q[i]]
      /\ \A i, j \in 1..L : i < j => q[i] < q[j]
      /\ \A i \in 1..L : d[q[i]] = i
      /\ \A k \in 1..n : Stays(k, n, segments, d) <=> \E i \in 1..L : q[i] = k
  BY DEF Stack
<1>2. L \in Nat /\ \A i \in 1..L : q[i] \in 1..n
  BY <1>1
<1>3. r \in Seq(1..(n + 1)) /\ Len(r) = L + 1 /\ r[L + 1] = n + 1 /\ \A i \in 1..L : r[i] = q[i]
  <2>1. 1..n \subseteq 1..(n + 1) /\ n + 1 \in 1..(n + 1)
    OBVIOUS
  <2>2. q \in Seq(1..(n + 1))
    BY <1>1, <2>1
  <2> QED
    BY <2>1, <2>2, AppendIs
<1>4. e \in T
  OBVIOUS
<1> HIDE DEF e
<1>5. Len(t) = L + 1 /\ t[L + 1] = e /\ \A i \in 1..L : t[i] = kept[i]
  BY <1>1, <1>4, AppendIs
<1> HIDE DEF r, t, L
<1>6. ASSUME NEW i \in 1..(L + 1) PROVE i = L + 1 \/ i \in 1..L
  BY <1>2
<1>7. ASSUME NEW i \in 1..(L + 1) PROVE t[i] = segments[r[i]]
  <2>1. CASE i = L + 1
    BY <1>3, <1>5, <2>1 DEF e
  <2>2. CASE i \in 1..L
    BY <1>1, <1>3, <1>5, <2>2
  <2> QED
    BY <1>6, <2>1, <2>2
<1>8. ASSUME NEW i \in 1..(L + 1), NEW j \in 1..(L + 1), i < j PROVE r[i] < r[j]
  <2>1. i \in 1..L
    BY <1>2, <1>8
  <2>2. r[i] = q[i] /\ q[i] \in 1..n
    BY <1>2, <1>3, <2>1
  <2>3. CASE j = L + 1
    <3>1. r[j] = n + 1
      BY <1>3, <2>3
    <3> QED
      BY <2>2, <3>1
  <2>4. CASE j \in 1..L
    BY <1>1, <1>3, <1>8, <2>1, <2>4
  <2> QED
    BY <1>6, <2>3, <2>4
<1>9. ASSUME NEW i \in 1..(L + 1) PROVE d[r[i]] = i
  <2>1. CASE i = L + 1
    BY <1>1, <1>3, <2>1
  <2>2. CASE i \in 1..L
    BY <1>1, <1>3, <2>2
  <2> QED
    BY <1>6, <2>1, <2>2
<1>10. ASSUME NEW k \in 1..(n + 1)
       PROVE  Stays(k, n + 1, segments, d) <=> \E i \in 1..(L + 1) : r[i] = k
  <2>1. Stays(k, n + 1, segments, d) <=> k = n + 1 \/ (k \in 1..n /\ Stays(k, n, segments, d))
    BY StaysDown
  <2>2. L + 1 \in 1..(L + 1) /\ \A i \in 1..L : i \in 1..(L + 1)
    BY <1>2
  <2>3. CASE k = n + 1
    BY <1>3, <2>1, <2>2, <2>3
  <2>4. CASE k # n + 1
    <3>1. k \in 1..n
      BY <2>4
    <3>2. Stays(k, n + 1, segments, d) <=> \E i \in 1..L : q[i] = k
      BY <1>1, <2>1, <2>4, <3>1
    <3>3. (\E i \in 1..L : q[i] = k) => \E i \in 1..(L + 1) : r[i] = k
      BY <1>3, <2>2
    <3>4. ASSUME NEW i \in 1..(L + 1), r[i] = k PROVE \E m \in 1..L : q[m] = k
      <4>1. i # L + 1
        BY <1>3, <2>4, <3>4
      <4>2. i \in 1..L
        BY <1>6, <4>1
      <4> QED
        BY <1>3, <3>4, <4>2
    <3> QED
      BY <3>2, <3>3, <3>4
  <2> QED
    BY <2>3, <2>4
<1>11. Len(r) = d[n + 1]
  BY <1>1, <1>3
<1>12. Stack(r, n + 1, segments, d, t)
  BY <1>3, <1>5, <1>7, <1>8, <1>9, <1>10, <1>11 DEF Stack
<1> QED
  BY <1>12 DEF r, t, e

LEMMA StackUp ==
  ASSUME NEW segments, NEW d, NEW n \in Nat, segments[n + 1] = Up,
         d[n] \in Int, d[n + 1] = d[n] - 1,
         NEW T, NEW kept \in Seq(T), kept # <<>>,
         NEW q, Stack(q, n, segments, d, kept)
  PROVE  Stack(Front(q), n + 1, segments, d, Front(kept))
<1> DEFINE r == Front(q)
           t == Front(kept)
           L == Len(q)
<1>1. /\ q \in Seq(1..n) /\ L = d[n]
      /\ Len(kept) = L /\ \A i \in 1..L : kept[i] = segments[q[i]]
      /\ \A i, j \in 1..L : i < j => q[i] < q[j]
      /\ \A i \in 1..L : d[q[i]] = i
      /\ \A k \in 1..n : Stays(k, n, segments, d) <=> \E i \in 1..L : q[i] = k
  BY DEF Stack
<1>2. L \in Nat /\ L >= 1 /\ \A i \in 1..L : q[i] \in 1..n
  BY <1>1
<1>3. Len(t) = L - 1 /\ \A i \in 1..(L - 1) : t[i] = kept[i]
  BY <1>1, FrontIs
<1>4. r \in Seq(1..(n + 1)) /\ Len(r) = L - 1 /\ \A i \in 1..(L - 1) : r[i] = q[i]
  <2>1. 1..n \subseteq 1..(n + 1)
    OBVIOUS
  <2>2. q \in Seq(1..(n + 1)) /\ q # <<>>
    BY <1>1, <1>2, <2>1
  <2> QED
    BY <2>2, FrontIs
<1> HIDE DEF r, t, L
<1>5. \A i \in 1..(L - 1) : i \in 1..L
  BY <1>2
<1>6. ASSUME NEW k \in 1..(n + 1)
      PROVE  Stays(k, n + 1, segments, d) <=> \E i \in 1..(L - 1) : r[i] = k
  <2>1. Stays(k, n + 1, segments, d) <=> k \in 1..n /\ Stays(k, n, segments, d) /\ d[n + 1] >= d[k]
    BY StaysUp
  <2>2. ASSUME Stays(k, n + 1, segments, d) PROVE \E i \in 1..(L - 1) : r[i] = k
    <3>1. PICK i \in 1..L : q[i] = k
      BY <1>1, <2>1, <2>2
    <3>2. d[k] = i /\ d[n + 1] >= d[k]
      BY <1>1, <2>1, <2>2, <3>1
    <3>3. i \in 1..(L - 1)
      BY <1>1, <1>2, <3>2
    <3> QED
      BY <1>4, <3>1, <3>3
  <2>3. ASSUME NEW i \in 1..(L - 1), r[i] = k PROVE Stays(k, n + 1, segments, d)
    <3>1. q[i] = k /\ i \in 1..L
      BY <1>4, <1>5, <2>3
    <3>2. k \in 1..n /\ Stays(k, n, segments, d) /\ d[k] = i
      BY <1>1, <1>2, <3>1
    <3>3. d[n + 1] >= d[k]
      BY <1>1, <1>2, <3>2
    <3> QED
      BY <2>1, <3>2, <3>3
  <2> QED
    BY <2>2, <2>3
<1>7. Len(r) = d[n + 1]
  BY <1>1, <1>4
<1>8. \A i \in 1..(L - 1) : t[i] = segments[r[i]] /\ d[r[i]] = i
  BY <1>1, <1>3, <1>4, <1>5
<1>9. \A i, j \in 1..(L - 1) : i < j => r[i] < r[j]
  BY <1>1, <1>4, <1>5
<1>10. Stack(r, n + 1, segments, d, t)
  BY <1>3, <1>4, <1>6, <1>7, <1>8, <1>9 DEF Stack
<1> QED
  BY <1>10 DEF r, t

LEMMA BrokenStays ==
  ASSUME NEW T, Up \in T, NEW kept \in Seq(T), Broken(kept), NEW segment \in T
  PROVE  Broken(Keep(kept, segment))
<1>1. Len(kept) \in Nat /\ Len(kept) >= 1 /\ kept[1] = Up /\ kept # <<>>
  BY DEF Broken
<1>2. ASSUME NEW e \in T PROVE Broken(Append(kept, e))
  <2> DEFINE t == Append(kept, e)
  <2>1. t \in Seq(T) /\ Len(t) = Len(kept) + 1 /\ t[1] = kept[1]
    BY <1>1
  <2> HIDE DEF t
  <2>2. Broken(t)
    BY <1>1, <2>1 DEF Broken
  <2> QED
    BY <2>2 DEF t
<1>3. ASSUME Last(kept) # Up PROVE Broken(Front(kept))
  <2> DEFINE t == Front(kept)
  <2>1. /\ Last(kept) = kept[Len(kept)] /\ t \in Seq(T) /\ Len(t) = Len(kept) - 1
        /\ \A k \in 1..(Len(kept) - 1) : t[k] = kept[k]
    BY <1>1, FrontIs
  <2> HIDE DEF t
  <2>2. Len(kept) # 1
    BY <1>1, <1>3, <2>1
  <2>3. Len(t) >= 1 /\ t[1] = Up
    BY <1>1, <2>1, <2>2
  <2>4. Broken(t)
    BY <2>1, <2>3 DEF Broken
  <2> QED
    BY <2>4 DEF t
<1>4. CASE segment \in {<<>>, <<".">>}
  BY <1>4, KeepIs
<1>5. CASE IsDown(segment)
  BY <1>2, <1>5, KeepIs
<1>6. CASE segment = Up
  <2>1. Keep(kept, segment) = IF Last(kept) = Up THEN Append(kept, Up) ELSE Front(kept)
    BY <1>1, <1>6, KeepIs
  <2> QED
    BY <1>2, <1>3, <2>1
<1> QED
  BY <1>4, <1>5, <1>6 DEF IsDown

LEMMA StackStep ==
  ASSUME NEW T, Up \in T, NEW segments \in Seq(T), NEW d, Levels(d, segments),
         NEW n \in 0..(Len(segments) - 1), NEW kept \in Seq(T),
         NEW q, Stack(q, n, segments, d, kept), Fine(n, segments, d)
  PROVE  LET next == Keep(kept, segments[n + 1])
         IN  IF Fine(n + 1, segments, d) THEN \E r : Stack(r, n + 1, segments, d, next)
             ELSE Broken(next)
<1> DEFINE next == Keep(kept, segments[n + 1])
<1>1. Len(segments) \in Nat /\ n \in Nat /\ n + 1 \in 1..Len(segments) /\ (n + 1) - 1 = n
  OBVIOUS
<1>2. /\ d[n] \in Int /\ d[n + 1] \in Int
      /\ IsDown(segments[n + 1]) => d[n + 1] = d[n] + 1
      /\ segments[n + 1] = Up => d[n + 1] = d[n] - 1
      /\ segments[n + 1] \in {<<>>, <<".">>} => d[n + 1] = d[n]
  <2>1. n \in 0..Len(segments) /\ n + 1 \in 0..Len(segments)
    BY <1>1
  <2>2. d[n] \in Int /\ d[n + 1] \in Int
    BY <2>1 DEF Levels
  <2>3. ASSUME NEW k \in 1..Len(segments), k - 1 = n
        PROVE  /\ IsDown(segments[k]) => d[k] = d[n] + 1
               /\ segments[k] = Up => d[k] = d[n] - 1
               /\ segments[k] \in {<<>>, <<".">>} => d[k] = d[n]
    BY <2>3, Zenon DEF Levels
  <2> QED
    BY <1>1, <2>2, <2>3
<1>3. segments[n + 1] \in T
  BY <1>1
<1>4. ASSUME segments[n + 1] = Up => d[n + 1] >= 0 PROVE Fine(n + 1, segments, d)
  <2>1. \A j \in 1..(n + 1) : j = n + 1 \/ j \in 1..n
    BY <1>1
  <2> QED
    BY <1>4, <2>1 DEF Fine
<1>5. CASE segments[n + 1] \in {<<>>, <<".">>}
  <2>1. segments[n + 1] # Up
    BY <1>5, UpIs
  <2>2. next = kept
    BY <1>5, KeepIs
  <2>3. Stack(q, n + 1, segments, d, kept)
    BY <1>1, <1>2, <1>5, StackSkip
  <2> QED
    BY <1>4, <2>1, <2>2, <2>3
<1>6. CASE IsDown(segments[n + 1])
  <2>1. segments[n + 1] # Up
    BY <1>6, UpIs
  <2>2. next = Append(kept, segments[n + 1])
    BY <1>6, KeepIs
  <2>3. Stack(Append(q, n + 1), n + 1, segments, d, Append(kept, segments[n + 1]))
    BY <1>1, <1>2, <1>3, <1>6, StackDown
  <2> HIDE DEF next
  <2>4. Fine(n + 1, segments, d) /\ \E r : Stack(r, n + 1, segments, d, next)
    BY <1>4, <2>1, <2>2, <2>3
  <2> QED
    BY <2>4 DEF next
<1>7. CASE segments[n + 1] = Up
  <2>1. next = IF kept = <<>> \/ Last(kept) = Up THEN Append(kept, Up) ELSE Front(kept)
    BY <1>7, KeepIs
  <2>2. /\ q \in Seq(1..n) /\ Len(q) = d[n]
        /\ Len(kept) = Len(q) /\ \A i \in 1..Len(q) : kept[i] = segments[q[i]]
        /\ \A k \in 1..n : Stays(k, n, segments, d) <=> \E i \in 1..Len(q) : q[i] = k
    BY DEF Stack
  <2> HIDE DEF next
  <2>3. CASE kept = <<>>
    <3>1. next = Append(<<>>, Up)
      BY <2>1, <2>3
    <3>2. Broken(next)
      BY <3>1 DEF Broken
    <3>3. Len(kept) = 0
      BY <2>3
    <3>4. d[n + 1] = 0 - 1
      BY <1>2, <1>7, <2>2, <3>3
    <3>5. ~ (d[n + 1] >= 0) /\ n + 1 \in 1..(n + 1)
      BY <1>1, <3>4
    <3>6. ~Fine(n + 1, segments, d)
      BY <1>7, <3>5 DEF Fine
    <3> QED
      BY <3>2, <3>6 DEF next
  <2>4. CASE kept # <<>>
    <3>1. Len(kept) \in Nat /\ Len(kept) >= 1 /\ Last(kept) = kept[Len(kept)]
      BY <2>4, FrontIs
    <3>2. Last(kept) # Up
      <4> DEFINE k == q[Len(q)]
      <4>1. Len(q) \in 1..Len(q) /\ k \in 1..n /\ Last(kept) = segments[k]
        BY <2>2, <3>1
      <4>2. Stays(k, n, segments, d)
        BY <2>2, <4>1
      <4>3. IsDown(segments[k])
        BY <4>2 DEF Stays
      <4> QED
        BY <4>1, <4>3, UpIs
    <3>3. next = Front(kept)
      BY <2>1, <2>4, <3>2
    <3>4. Stack(Front(q), n + 1, segments, d, Front(kept))
      BY <1>1, <1>2, <1>7, <2>4, StackUp
    <3>5. d[n + 1] >= 0
      BY <1>2, <1>7, <2>2, <3>1
    <3>6. Fine(n + 1, segments, d) /\ \E r : Stack(r, n + 1, segments, d, next)
      BY <1>4, <3>3, <3>4, <3>5
    <3> QED
      BY <3>6 DEF next
  <2> QED
    BY <2>3, <2>4
<1> QED
  BY <1>5, <1>6, <1>7 DEF IsDown

LEMMA FineGrows ==
  ASSUME NEW segments, NEW d, NEW n \in Nat, Fine(n + 1, segments, d)
  PROVE  Fine(n, segments, d)
<1>1. \A j \in 1..n : j \in 1..(n + 1)
  OBVIOUS
<1> QED
  BY <1>1 DEF Fine

LEMMA StackKept ==
  ASSUME NEW T, Up \in T, NEW segments \in Seq(T), NEW d, Levels(d, segments)
  PROVE  IF Fine(Len(segments), segments, d)
         THEN \E q : Stack(q, Len(segments), segments, d, Kept(segments))
         ELSE Broken(Kept(segments))
<1> DEFINE M == Len(segments)
<1>1. PICK f \in [0..M -> Seq(T \ {<<>>, <<".">>})] : Keeps(f, segments) /\ Kept(segments) = f[M]
  BY KeptReads
<1>2. M \in Nat /\ M \in 0..M /\ 0 \in 0..M
  OBVIOUS
<1>3. f \in [0..M -> Seq(T)]
  <2>1. \A w \in Seq(T \ {<<>>, <<".">>}) : w \in Seq(T)
    OBVIOUS
  <2> QED
    BY <1>1, <2>1
<1> DEFINE Good(n) == IF Fine(n, segments, d) THEN \E q : Stack(q, n, segments, d, f[n])
                      ELSE Broken(f[n])
           P == {n \in 0..M : Good(n)}
<1>4. 0 \in P
  <2>1. f[0] = <<>> /\ d[0] = 0
    BY <1>1 DEF Keeps, Levels
  <2>2. 1..0 = {}
    OBVIOUS
  <2>3. Stack(<<>>, 0, segments, d, f[0])
    <3>1. Len(<<>>) = 0 /\ <<>> \in Seq(1..0)
      OBVIOUS
    <3>2. /\ <<>> \in Seq(1..0) /\ Len(<<>>) = d[0] /\ Len(f[0]) = Len(<<>>)
      BY <2>1, <3>1
    <3> QED
      BY <2>1, <2>2, <3>1, <3>2, Zenon DEF Stack
  <2>4. Fine(0, segments, d)
    BY <2>2 DEF Fine
  <2>5. Good(0)
    BY <2>3, <2>4
  <2> HIDE DEF Good
  <2> QED
    BY <1>2, <2>5
<1>5. ASSUME NEW n \in 0..(M - 1), n \in P PROVE n + 1 \in P
  <2>1. n + 1 \in 1..M /\ n + 1 \in 0..M /\ n \in 0..M /\ (n + 1) - 1 = n /\ n \in Nat
    BY <1>2
  <2>2. f[n] \in Seq(T) /\ f[n + 1] = Keep(f[n], segments[n + 1]) /\ segments[n + 1] \in T
    <3>1. f[n + 1] = Keep(f[n], segments[n + 1])
      BY <1>1, <2>1 DEF Keeps
    <3> QED
      BY <1>3, <2>1, <3>1
  <2>3. Good(n)
    BY <1>5
  <2>4. CASE Fine(n, segments, d)
    <3>1. PICK q : Stack(q, n, segments, d, f[n])
      BY <2>3, <2>4
    <3>2. Good(n + 1)
      BY <2>2, <2>4, <3>1, StackStep
    <3> HIDE DEF Good
    <3> QED
      BY <2>1, <3>2
  <2>5. CASE ~Fine(n, segments, d)
    <3>1. ~Fine(n + 1, segments, d)
      BY <2>1, <2>5, FineGrows
    <3>2. Broken(f[n + 1])
      BY <2>2, <2>3, <2>5, BrokenStays
    <3>3. Good(n + 1)
      BY <3>1, <3>2
    <3> HIDE DEF Good
    <3> QED
      BY <2>1, <3>3
  <2> QED
    BY <2>4, <2>5
<1> HIDE DEF P, Good
<1>6. 0..M \subseteq P
  BY <1>2, <1>4, <1>5, UpTo
<1>7. Good(M)
  BY <1>2, <1>6 DEF P
<1> QED
  BY <1>1, <1>7 DEF Good

(* Names, Downs, Ups and Depth, told from the cuts.                         *)
LEMMA CutsAre ==
  ASSUME NEW s, NEW segments, Len(s) \in Nat, Len(segments) \in Nat, NEW c, Cuts(s, segments, c)
  PROVE  /\ \A k \in 1..(Len(segments) + 1) : c[k] \in Nat /\ c[k] <= Len(s) + 1
         /\ \A i, j \in 1..(Len(segments) + 1) : i < j => c[i] < c[j]
<1> DEFINE M == Len(segments)
           P == {j \in 0..M : \A i \in 1..j : c[i] < c[j + 1]}
<1>1. c \in [1..(M + 1) -> 0..(Len(s) + 1)] /\ \A k \in 1..M : c[k] < c[k + 1]
  BY DEF Cuts
<1>2. M \in Nat
  OBVIOUS
<1> HIDE DEF M
<1>3. \A k \in 1..(M + 1) : c[k] \in Nat /\ c[k] <= Len(s) + 1
  BY <1>1
<1>4. 0 \in P
  BY <1>2
<1>5. ASSUME NEW j \in 0..(M - 1), j \in P PROVE j + 1 \in P
  <2>1. j + 1 \in 1..M /\ j + 1 \in 0..M /\ j + 1 \in 1..(M + 1) /\ (j + 1) + 1 \in 1..(M + 1)
    BY <1>2
  <2>2. c[j + 1] < c[(j + 1) + 1] /\ c[j + 1] \in Nat /\ c[(j + 1) + 1] \in Nat
    BY <1>1, <1>3, <2>1
  <2>3. ASSUME NEW i \in 1..(j + 1) PROVE c[i] < c[(j + 1) + 1]
    <3>1. i = j + 1 \/ i \in 1..j
      BY <1>2
    <3>2. i \in 1..(M + 1)
      BY <1>2, <2>1
    <3>3. c[i] \in Nat
      BY <1>3, <3>2
    <3>4. i \in 1..j => c[i] < c[j + 1]
      BY <1>5
    <3> QED
      BY <2>2, <3>1, <3>3, <3>4
  <2> QED
    BY <2>1, <2>3
<1> HIDE DEF P
<1>6. 0..M \subseteq P
  BY <1>2, <1>4, <1>5, UpTo
<1>7. ASSUME NEW i \in 1..(M + 1), NEW j \in 1..(M + 1), i < j PROVE c[i] < c[j]
  <2>1. j - 1 \in 0..M /\ i \in 1..(j - 1) /\ (j - 1) + 1 = j
    BY <1>2, <1>7
  <2>2. j - 1 \in P
    BY <1>6, <2>1
  <2> QED
    BY <2>1, <2>2 DEF P
<1> QED
  BY <1>3, <1>7 DEF M

Name(c, k) == <<c[k] + 1, c[k + 1] - 1>>

\* Every place but those of the slashes is in a segment.
LEMMA Located ==
  ASSUME NEW S, NEW s \in Seq(S), NEW segments, Len(segments) \in Nat,
         NEW c, Cuts(s, segments, c), NEW i \in 1..Len(s)
  PROVE  \E k \in 1..Len(segments) :
           c[k] < i /\ i <= c[k + 1] /\ (s[i] # "/" => i < c[k + 1])
<1> DEFINE M == Len(segments)
           T == {k \in 1..(M + 1) : c[k] >= i}
<1>1. M \in Nat /\ Len(s) \in Nat /\ i \in Nat /\ M + 1 \in 1..(M + 1) /\ i >= 1
  OBVIOUS
<1>2. c[1] = 0 /\ c[M + 1] = Len(s) + 1 /\ \A k \in 2..M : s[c[k]] = "/"
  BY DEF Cuts
<1>3. \A k \in 1..(M + 1) : c[k] \in Nat
  BY <1>1, CutsAre
<1> HIDE DEF M
<1>4. T \subseteq Nat /\ T # {}
  <2>1. M + 1 \in T
    BY <1>1, <1>2
  <2> QED
    BY <2>1
<1> HIDE DEF T
<1>5. PICK m \in T : \A k \in T : m <= k
  BY <1>4, LeastNumber
<1>6. m \in 1..(M + 1) /\ c[m] >= i
  BY <1>5 DEF T
<1>7. m # 1
  BY <1>1, <1>2, <1>6
<1>8. m - 1 \in 1..M /\ m - 1 \in 1..(M + 1) /\ (m - 1) + 1 = m
  BY <1>1, <1>6, <1>7
<1>9. c[m - 1] < i
  <2>1. m - 1 \notin T
    BY <1>5, <1>8
  <2>2. ~ (c[m - 1] >= i) /\ c[m - 1] \in Nat
    BY <1>3, <1>8, <2>1 DEF T
  <2> QED
    BY <1>1, <2>2
<1>10. i <= c[m] /\ c[m] \in Nat
  BY <1>1, <1>3, <1>6
<1>11. ASSUME s[i] # "/" PROVE i < c[m]
  <2>1. CASE m = M + 1
    BY <1>1, <1>2, <2>1
  <2>2. CASE m # M + 1
    <3>1. m \in 2..M
      BY <1>1, <1>6, <1>7, <2>2
    <3>2. s[c[m]] = "/"
      BY <1>2, <3>1
    <3>3. c[m] # i
      BY <1>11, <3>2
    <3> QED
      BY <1>1, <1>10, <3>3
  <2> QED
    BY <2>1, <2>2
<1>12. \E k \in 1..M : c[k] < i /\ i <= c[k + 1] /\ (s[i] # "/" => i < c[k + 1])
  BY <1>8, <1>9, <1>10, <1>11
<1> QED
  BY <1>12 DEF M

LEMMA NamesHave ==
  ASSUME NEW S, NEW s \in Seq(S), NEW segments, Len(segments) \in Nat,
         NEW c, Cuts(s, segments, c), NEW k \in 1..Len(segments)
  PROVE  /\ SubSeq(s, c[k] + 1, c[k + 1] - 1) = segments[k]
         /\ segments[k] # <<>> <=> c[k] + 1 <= c[k + 1] - 1
         /\ segments[k] # <<>> => Name(c, k) \in Names(s)
<1> DEFINE M == Len(segments)
           a == c[k] + 1
           b == c[k + 1] - 1
<1>1. M \in Nat /\ Len(s) \in Nat /\ k \in 1..(M + 1) /\ k + 1 \in 1..(M + 1)
  OBVIOUS
<1>2. c[k] \in Nat /\ c[k + 1] \in Nat /\ c[k] < c[k + 1] /\ c[k + 1] <= Len(s) + 1
  <2>1. k < k + 1
    OBVIOUS
  <2> QED
    BY <1>1, <2>1, CutsAre
<1>3. segments[k] = SubSeq(s, a, b) /\ \A i \in a..b : s[i] # "/"
  BY DEF Cuts
<1>4. a \in Int /\ b \in Int /\ a >= 1 /\ b <= Len(s) /\ a <= b + 1
  BY <1>1, <1>2
<1>5. (k # 1 => s[c[k]] = "/") /\ (k # M => s[c[k + 1]] = "/")
  <2>1. \A j \in 2..M : s[c[j]] = "/"
    BY DEF Cuts
  <2>2. (k # 1 => k \in 2..M) /\ (k # M => k + 1 \in 2..M)
    BY <1>1
  <2> QED
    BY <2>1, <2>2
<1>6. (k = 1 => c[k] = 0) /\ (k = M => c[k + 1] = Len(s) + 1)
  BY DEF Cuts
<1>7. c[k] = a - 1 /\ c[k + 1] = b + 1
  BY <1>2
<1>8. Name(c, k) = <<a, b>>
  BY DEF Name
<1> HIDE DEF a, b
<1>9. segments[k] # <<>> <=> a <= b
  <2>1. CASE a <= b
    <3>1. Len(SubSeq(s, a, b)) = b - a + 1
      BY <1>1, <1>4, <2>1
    <3>2. Len(SubSeq(s, a, b)) # 0
      BY <1>4, <2>1, <3>1
    <3>3. SubSeq(s, a, b) # <<>>
      <4> DEFINE t == SubSeq(s, a, b)
      <4>1. Len(t) # 0
        BY <3>2
      <4> HIDE DEF t
      <4>2. t # <<>>
        BY <4>1
      <4> QED
        BY <4>2 DEF t
    <3> QED
      BY <1>3, <2>1, <3>3
  <2>2. CASE ~ (a <= b)
    <3>1. a = b + 1
      BY <1>4, <2>2
    <3>2. Len(SubSeq(s, a, b)) = 0 /\ SubSeq(s, a, b) \in Seq(S)
      BY <1>1, <1>4, <3>1
    <3>3. SubSeq(s, a, b) = <<>>
      BY <3>2
    <3> QED
      BY <1>3, <2>2, <3>3
  <2> QED
    BY <2>1, <2>2
<1>10. ASSUME a <= b PROVE <<a, b>> \in Names(s)
  <2>1. a \in DOMAIN s /\ b \in DOMAIN s
    BY <1>1, <1>4, <1>10
  <2>2. a > 1 => s[a - 1] = "/"
    <3>1. a > 1 => k # 1
      BY <1>4, <1>6, <1>7
    <3> QED
      BY <1>5, <1>7, <3>1
  <2>3. b < Len(s) => s[b + 1] = "/"
    <3>1. b < Len(s) => k # M
      BY <1>1, <1>4, <1>6, <1>7
    <3> QED
      BY <1>5, <1>7, <3>1
  <2>4. <<a, b>> \in (DOMAIN s) \X (DOMAIN s) /\ <<a, b>>[1] = a /\ <<a, b>>[2] = b
    BY <2>1
  <2> QED
    BY <1>3, <1>10, <2>2, <2>3, <2>4 DEF Names
<1> QED
  BY <1>3, <1>8, <1>9, <1>10 DEF a, b

LEMMA NamesAre ==
  ASSUME NEW S, NEW s \in Seq(S), NEW segments, Len(segments) \in Nat,
         NEW c, Cuts(s, segments, c), NEW r \in Names(s)
  PROVE  \E k \in 1..Len(segments) : segments[k] # <<>> /\ r = Name(c, k)
<1> DEFINE M == Len(segments)
           a == r[1]
           b == r[2]
<1>1. /\ a \in 1..Len(s) /\ b \in 1..Len(s) /\ r = <<a, b>> /\ a <= b
      /\ \A i \in a..b : s[i] # "/"
      /\ a > 1 => s[a - 1] = "/"
      /\ b < Len(s) => s[b + 1] = "/"
  BY DEF Names
<1>2. M \in Nat /\ Len(s) \in Nat /\ a \in a..b
  BY <1>1
<1> HIDE DEF a, b
<1>3. PICK k \in 1..M : c[k] < a /\ a < c[k + 1]
  <2>1. s[a] # "/"
    BY <1>1, <1>2
  <2> QED
    BY <1>1, <2>1, Located
<1>4. /\ segments[k] # <<>> <=> c[k] + 1 <= c[k + 1] - 1
      /\ \A i \in (c[k] + 1)..(c[k + 1] - 1) : s[i] # "/"
  <2>1. k \in 1..Len(segments)
    BY DEF M
  <2>2. segments[k] # <<>> <=> c[k] + 1 <= c[k + 1] - 1
    BY <2>1, NamesHave
  <2>3. \A i \in (c[k] + 1)..(c[k + 1] - 1) : s[i] # "/"
    BY <2>1 DEF Cuts
  <2> QED
    BY <2>2, <2>3
<1>5. c[k] \in Nat /\ c[k + 1] \in Nat /\ c[k + 1] <= Len(s) + 1
  <2>1. k \in 1..(M + 1) /\ k + 1 \in 1..(M + 1)
    BY <1>2
  <2> QED
    BY <1>2, <2>1, CutsAre
<1>6. a = c[k] + 1
  <2> SUFFICES ASSUME a # c[k] + 1 PROVE FALSE
    OBVIOUS
  <2>0. a \in Nat
    BY <1>1
  <2>1. a > 1 /\ a - 1 \in (c[k] + 1)..(c[k + 1] - 1)
    BY <1>3, <1>5, <2>0
  <2> QED
    BY <1>1, <1>4, <2>1
<1>7. b < c[k + 1]
  <2> SUFFICES ASSUME ~ (b < c[k + 1]) PROVE FALSE
    OBVIOUS
  <2>1. c[k + 1] \in a..b /\ c[k + 1] # Len(s) + 1
    BY <1>1, <1>2, <1>3, <1>5
  <2>2. k # M
    BY <2>1 DEF Cuts
  <2>3. k + 1 \in 2..M
    BY <1>2, <2>2
  <2>4. s[c[k + 1]] = "/"
    BY <2>3 DEF Cuts
  <2> QED
    BY <1>1, <2>1, <2>4
<1>8. b = c[k + 1] - 1
  <2> SUFFICES ASSUME b # c[k + 1] - 1 PROVE FALSE
    OBVIOUS
  <2>0. a \in Nat /\ b \in Nat /\ a <= b
    BY <1>1
  <2>1. b < Len(s) /\ b + 1 \in (c[k] + 1)..(c[k + 1] - 1)
    BY <1>2, <1>3, <1>5, <1>7, <2>0
  <2> QED
    BY <1>1, <1>4, <2>1
<1>9. segments[k] # <<>>
  BY <1>1, <1>2, <1>4, <1>5, <1>6, <1>8
<1>10. r = Name(c, k)
  BY <1>1, <1>6, <1>8 DEF Name
<1> QED
  BY <1>9, <1>10 DEF M

Until(X, end) == {r \in X : r[2] <= end}

LEMMA UntilNext ==
  ASSUME NEW S, NEW s \in Seq(S), NEW segments, Len(segments) \in Nat,
         NEW c, Cuts(s, segments, c), NEW X, X \subseteq Names(s), NEW k \in 1..Len(segments)
  PROVE  /\ Cardinality(Until(X, c[k] - 1)) \in Nat
         /\ Cardinality(Until(X, c[k + 1] - 1)) =
              Cardinality(Until(X, c[k] - 1)) + IF Name(c, k) \in X THEN 1 ELSE 0
<1> DEFINE M == Len(segments)
           A == Until(X, c[k] - 1)
           B == Until(X, c[k + 1] - 1)
           e == Name(c, k)
<1>1. M \in Nat /\ Len(s) \in Nat /\ k \in 1..(M + 1) /\ k + 1 \in 1..(M + 1) /\ k < k + 1
  OBVIOUS
<1>2. c[k] \in Nat /\ c[k + 1] \in Nat /\ c[k] < c[k + 1]
  BY <1>1, CutsAre
<1>3. IsFiniteSet(A)
  <2>1. IsFiniteSet(1..Len(s))
    BY <1>1, FS_Interval
  <2>2. IsFiniteSet((1..Len(s)) \X (1..Len(s)))
    BY <2>1, FS_Product
  <2>3. DOMAIN s = 1..Len(s)
    OBVIOUS
  <2>4. A \in SUBSET ((1..Len(s)) \X (1..Len(s)))
    BY <2>3 DEF Until, Names
  <2> HIDE DEF A
  <2> QED
    BY <2>2, <2>4, FS_Subset
<1>4. Cardinality(A) \in Nat
  <2> HIDE DEF A
  <2> QED
    BY <1>3, FS_CardinalityType
<1>5. e[2] = c[k + 1] - 1
  BY DEF Name
<1>6. e \notin A
  <2>1. ~ (c[k + 1] - 1 <= c[k] - 1)
    BY <1>2
  <2> QED
    BY <1>5, <2>1 DEF Until
<1>7. A \subseteq B
  <2> SUFFICES ASSUME NEW r \in X, r[2] <= c[k] - 1 PROVE r[2] <= c[k + 1] - 1
    BY DEF Until
  <2>1. r[2] \in 1..Len(s)
    BY DEF Names
  <2> QED
    BY <1>2, <2>1
<1>8. ASSUME NEW r \in B, r # e PROVE r \in A
  <2>1. r \in X /\ r[2] <= c[k + 1] - 1
    BY DEF Until
  <2>2. PICK j \in 1..M : segments[j] # <<>> /\ r = Name(c, j)
    BY <2>1, NamesAre
  <2>3. r[2] = c[j + 1] - 1
    BY <2>2 DEF Name
  <2>4. j \in 1..(M + 1) /\ j + 1 \in 1..(M + 1) /\ j # k
    BY <1>1, <1>8, <2>2
  <2>5. c[j + 1] \in Nat /\ (k + 1 < j + 1 => c[k + 1] < c[j + 1])
        /\ (j + 1 < k => c[j + 1] < c[k])
    BY <1>1, <2>4, CutsAre
  <2>6. ~ (k + 1 < j + 1)
    BY <1>2, <2>1, <2>3, <2>5
  <2>7. j + 1 < k \/ j + 1 = k
    BY <1>1, <2>4, <2>6
  <2>8. c[j + 1] - 1 <= c[k] - 1
    BY <1>2, <2>5, <2>7
  <2> QED
    BY <2>1, <2>3, <2>8 DEF Until
<1>9. CASE e \in X
  <2>1. e \in B
    <3>1. c[k + 1] - 1 <= c[k + 1] - 1
      BY <1>2
    <3> QED
      BY <1>5, <1>9, <3>1 DEF Until
  <2> HIDE DEF A, B, e
  <2>2. B = A \cup {e}
    BY <1>7, <1>8, <2>1
  <2>3. Cardinality(B) = Cardinality(A) + 1
    BY <1>3, <1>6, <2>2, FS_AddElement
  <2> QED
    BY <1>4, <1>9, <2>3 DEF A, B, e
<1>10. CASE e \notin X
  <2>1. e \notin B
    BY <1>10 DEF Until
  <2> HIDE DEF A, B, e
  <2>2. B = A
    BY <1>7, <1>8, <2>1
  <2>3. Cardinality(B) = Cardinality(A) + 0
    BY <1>4, <2>2
  <2> QED
    BY <1>4, <1>10, <2>3 DEF A, B, e
<1> QED
  BY <1>9, <1>10

LEMMA Kinds ==
  ASSUME NEW S, NEW s \in Seq(S), NEW segments, Len(segments) \in Nat,
         NEW c, Cuts(s, segments, c), NEW k \in 1..Len(segments)
  PROVE  /\ Name(c, k) \in Downs(s) <=> IsDown(segments[k])
         /\ Name(c, k) \in Ups(s) <=> segments[k] = Up
<1> DEFINE e == Name(c, k)
<1>1. /\ SubSeq(s, c[k] + 1, c[k + 1] - 1) = segments[k]
      /\ segments[k] # <<>> <=> c[k] + 1 <= c[k + 1] - 1
      /\ segments[k] # <<>> => e \in Names(s)
  BY NamesHave
<1>2. e[1] = c[k] + 1 /\ e[2] = c[k + 1] - 1
  BY DEF Name
<1>3. e \in Names(s) => segments[k] # <<>>
  <2>1. e \in Names(s) => e[1] <= e[2]
    BY DEF Names
  <2> QED
    BY <1>1, <1>2, <2>1
<1> HIDE DEF e
<1>4. SubSeq(s, e[1], e[2]) = segments[k]
  BY <1>1, <1>2
<1>5. e \in Downs(s) <=> e \in Names(s) /\ segments[k] \notin {<<".">>, Up}
  BY <1>4 DEF Downs
<1>6. e \in Ups(s) <=> e \in Names(s) /\ segments[k] = Up
  BY <1>4 DEF Ups
<1>7. e \in Names(s) <=> segments[k] # <<>>
  BY <1>1, <1>3
<1>8. segments[k] = Up => segments[k] # <<>>
  BY UpIs
<1> QED
  BY <1>5, <1>6, <1>7, <1>8 DEF IsDown, e

Depths(s, segments, c) == [k \in 0..Len(segments) |-> Depth(s, c[k + 1] - 1)]

LEMMA DepthLevels ==
  ASSUME NEW S, NEW s \in Seq(S), NEW segments, Len(segments) \in Nat,
         NEW c, Cuts(s, segments, c)
  PROVE  Levels(Depths(s, segments, c), segments)
<1> DEFINE M == Len(segments)
           d == Depths(s, segments, c)
           D(k) == Cardinality(Until(Downs(s), c[k] - 1))
           U(k) == Cardinality(Until(Ups(s), c[k] - 1))
<1>1. M \in Nat /\ 0 \in 0..M
  OBVIOUS
<1>2. Downs(s) \subseteq Names(s) /\ Ups(s) \subseteq Names(s)
  BY DEF Downs, Ups
<1>3. \A k \in 0..M : d[k] = D(k + 1) - U(k + 1)
  BY DEF Depths, Depth, Until
<1>4. D(1) = 0 /\ U(1) = 0
  <2>1. c[1] = 0 /\ 0 - 1 = -1
    BY DEF Cuts
  <2>2. ASSUME NEW X, X \subseteq Names(s) PROVE Cardinality(Until(X, -1)) = 0
    <3>1. \A r \in X : r[2] \in 1..Len(s)
      BY <2>2 DEF Names
    <3>2. \A r \in X : ~ (r[2] <= -1)
      BY <3>1
    <3>3. Until(X, -1) = {}
      BY <3>2 DEF Until
    <3> QED
      BY <3>3, FS_EmptySet
  <2> QED
    BY <1>2, <2>1, <2>2
<1>5. ASSUME NEW k \in 1..M
      PROVE  /\ D(k) \in Nat /\ D(k + 1) = D(k) + IF IsDown(segments[k]) THEN 1 ELSE 0
             /\ U(k) \in Nat /\ U(k + 1) = U(k) + IF segments[k] = Up THEN 1 ELSE 0
  <2>1. ASSUME NEW X, X \subseteq Names(s)
        PROVE  /\ Cardinality(Until(X, c[k] - 1)) \in Nat
               /\ Cardinality(Until(X, c[k + 1] - 1)) =
                    Cardinality(Until(X, c[k] - 1)) + IF Name(c, k) \in X THEN 1 ELSE 0
    BY <2>1, UntilNext
  <2>2. /\ Name(c, k) \in Downs(s) <=> IsDown(segments[k])
        /\ Name(c, k) \in Ups(s) <=> segments[k] = Up
    BY Kinds
  <2> QED
    BY <1>2, <2>1, <2>2
<1> HIDE DEF D, U, M
<1>6. ASSUME NEW k \in 0..M PROVE D(k + 1) \in Nat /\ U(k + 1) \in Nat
  <2>1. CASE k = 0
    BY <1>4, <2>1
  <2>2. CASE k # 0
    <3>1. k \in 1..M
      BY <1>1, <2>2
    <3>2. D(k + 1) = D(k) + 1 \/ D(k + 1) = D(k) + 0
      BY <1>5, <3>1
    <3>3. U(k + 1) = U(k) + 1 \/ U(k + 1) = U(k) + 0
      BY <1>5, <3>1
    <3>4. D(k) \in Nat /\ U(k) \in Nat
      BY <1>5, <3>1
    <3> QED
      BY <3>2, <3>3, <3>4
  <2> QED
    BY <2>1, <2>2
<1>7. d \in [0..M -> Int]
  <2>1. \A k \in 0..M : d[k] \in Int
    BY <1>3, <1>6
  <2>2. d = [k \in 0..M |-> d[k]]
    BY DEF Depths, M
  <2> HIDE DEF d
  <2> QED
    BY <2>1, <2>2
<1> HIDE DEF d
<1>8. d[0] = 0
  BY <1>1, <1>3, <1>4
<1>9. ASSUME NEW k \in 1..M
      PROVE  /\ IsDown(segments[k]) => d[k] = d[k - 1] + 1
             /\ segments[k] = Up => d[k] = d[k - 1] - 1
             /\ segments[k] \in {<<>>, <<".">>} => d[k] = d[k - 1]
  <2>1. k \in 0..M /\ k - 1 \in 0..M /\ (k - 1) + 1 = k
    BY <1>1
  <2>2. d[k] = D(k + 1) - U(k + 1) /\ d[k - 1] = D(k) - U(k)
    BY <1>3, <2>1
  <2>3. D(k) \in Nat /\ U(k) \in Nat
    BY <1>5
  <2>4. CASE IsDown(segments[k])
    <3>1. segments[k] # Up /\ segments[k] \notin {<<>>, <<".">>}
      BY <2>4 DEF IsDown
    <3>2. D(k + 1) = D(k) + 1 /\ U(k + 1) = U(k) + 0
      BY <1>5, <2>4, <3>1
    <3>3. d[k] = d[k - 1] + 1
      BY <2>2, <2>3, <3>2
    <3> QED
      BY <3>1, <3>3
  <2>5. CASE segments[k] = Up
    <3>1. ~IsDown(segments[k]) /\ segments[k] \notin {<<>>, <<".">>}
      BY <2>5, UpIs
    <3>2. D(k + 1) = D(k) + 0 /\ U(k + 1) = U(k) + 1
      BY <1>5, <2>5, <3>1
    <3>3. d[k] = d[k - 1] - 1
      BY <2>2, <2>3, <3>2
    <3> QED
      BY <3>1, <3>3
  <2>6. CASE segments[k] \in {<<>>, <<".">>}
    <3>1. ~IsDown(segments[k]) /\ segments[k] # Up
      BY <2>6, UpIs DEF IsDown
    <3>2. D(k + 1) = D(k) + 0 /\ U(k + 1) = U(k) + 0
      BY <1>5, <3>1
    <3>3. d[k] = d[k - 1]
      BY <2>2, <2>3, <3>2
    <3> QED
      BY <3>1, <3>3
  <2> QED
    BY <2>4, <2>5, <2>6 DEF IsDown
<1> QED
  BY <1>7, <1>8, <1>9 DEF Levels, d, M

\* What Resolved and Resolvable say of names, said of segments.
LEMMA SurvivorsStay ==
  ASSUME NEW S, NEW s \in Seq(S), NEW segments, Len(segments) \in Nat,
         NEW c, Cuts(s, segments, c), NEW k \in 1..Len(segments)
  PROVE  Name(c, k) \in Survivors(s)
           <=> Stays(k, Len(segments), segments, Depths(s, segments, c))
<1> DEFINE M == Len(segments)
           d == Depths(s, segments, c)
           e == Name(c, k)
<1>1. e \in Downs(s) <=> IsDown(segments[k])
  BY Kinds
<1>2. \A j \in 1..M : d[j] = Depth(s, c[j + 1] - 1)
  <2>1. \A j \in 1..M : j \in 0..M
    OBVIOUS
  <2> QED
    BY <2>1 DEF Depths
<1>3. \A j \in 1..M : Name(c, j)[1] = c[j] + 1 /\ Name(c, j)[2] = c[j + 1] - 1
  BY DEF Name
<1>4. M \in Nat /\ Len(s) \in Nat /\ k \in 1..(M + 1) /\ k + 1 \in 1..(M + 1) /\ k < k + 1
  OBVIOUS
<1>5. ASSUME e \in Downs(s), NEW j \in 1..M
      PROVE  Name(c, j)[1] > e[2] <=> j \in (k + 1)..M
  <2>1. j \in 1..(M + 1)
    BY <1>4
  <2>2. c[k] \in Nat /\ c[k + 1] \in Nat /\ c[k] < c[k + 1] /\ c[j] \in Nat
        /\ (j < k => c[j] < c[k]) /\ (k + 1 < j => c[k + 1] < c[j])
    BY <1>4, <2>1, CutsAre
  <2>3. c[k] + 1 <= c[k + 1] - 1
    <3>1. segments[k] # <<>>
      BY <1>1, <1>5 DEF IsDown
    <3> QED
      BY <3>1, NamesHave
  <2>4. Name(c, j)[1] = c[j] + 1 /\ e[2] = c[k + 1] - 1
    BY <1>3
  <2>5. CASE j < k
    BY <1>4, <2>2, <2>3, <2>4, <2>5
  <2>6. CASE j = k
    BY <1>4, <2>2, <2>3, <2>4, <2>6
  <2>7. CASE j = k + 1
    BY <1>4, <2>2, <2>3, <2>4, <2>7
  <2>8. CASE k + 1 < j
    BY <1>4, <2>2, <2>3, <2>4, <2>8
  <2> QED
    BY <1>4, <2>5, <2>6, <2>7, <2>8
<1>6. \A j \in 1..M : Name(c, j) \in Ups(s) <=> segments[j] = Up
  BY Kinds
<1>7. \A u \in Ups(s) : \E j \in 1..M : u = Name(c, j)
  BY NamesAre DEF Ups
<1>8. \A j \in 1..M : Depth(s, Name(c, j)[2]) = d[j]
  BY <1>2, <1>3
<1>9. Depth(s, e[2]) = d[k]
  BY <1>8
<1>10. \A j \in (k + 1)..M : j \in 1..M
  BY <1>4
<1>11. e \in Survivors(s) <=>
         e \in Downs(s) /\ \A u \in Ups(s) : u[1] > e[2] => Depth(s, u[2]) >= Depth(s, e[2])
  BY DEF Survivors
<1> HIDE DEF M, d, e
<1>12. ASSUME e \in Downs(s), \A u \in Ups(s) : u[1] > e[2] => Depth(s, u[2]) >= Depth(s, e[2]),
              NEW j \in (k + 1)..M, segments[j] = Up
       PROVE  d[j] >= d[k]
  <2>1. j \in 1..M
    BY <1>10
  <2>2. Name(c, j) \in Ups(s) /\ Name(c, j)[1] > e[2]
    BY <1>5, <1>6, <1>12, <2>1
  <2>3. Depth(s, Name(c, j)[2]) >= Depth(s, e[2])
    BY <1>12, <2>2
  <2> QED
    BY <1>8, <1>9, <2>1, <2>3
<1>13. ASSUME e \in Downs(s), \A j \in (k + 1)..M : segments[j] = Up => d[j] >= d[k],
              NEW u \in Ups(s), u[1] > e[2]
       PROVE  Depth(s, u[2]) >= Depth(s, e[2])
  <2>1. PICK j \in 1..M : u = Name(c, j)
    BY <1>7
  <2>2. j \in (k + 1)..M /\ segments[j] = Up
    BY <1>5, <1>6, <1>13, <2>1
  <2>3. d[j] >= d[k]
    BY <1>13, <2>2
  <2> QED
    BY <1>8, <1>9, <2>1, <2>3
<1>14. Stays(k, M, segments, d) <=>
         e \in Downs(s) /\ \A j \in (k + 1)..M : segments[j] = Up => d[j] >= d[k]
  BY <1>1 DEF Stays
<1>15. e \in Survivors(s) <=> Stays(k, M, segments, d)
  BY <1>11, <1>12, <1>13, <1>14
<1> QED
  BY <1>15 DEF M, d, e

LEMMA UpsFine ==
  ASSUME NEW S, NEW s \in Seq(S), NEW segments, Len(segments) \in Nat,
         NEW c, Cuts(s, segments, c)
  PROVE  (\A u \in Ups(s) : Depth(s, u[2]) >= 0)
           <=> Fine(Len(segments), segments, Depths(s, segments, c))
<1> DEFINE M == Len(segments)
           d == Depths(s, segments, c)
<1>1. \A j \in 1..M : Depth(s, Name(c, j)[2]) = d[j]
  <2>1. \A j \in 1..M : j \in 0..M
    OBVIOUS
  <2>2. \A j \in 1..M : d[j] = Depth(s, c[j + 1] - 1)
    BY <2>1 DEF Depths
  <2>3. \A j \in 1..M : Name(c, j)[2] = c[j + 1] - 1
    BY DEF Name
  <2> HIDE DEF d
  <2> QED
    BY <2>2, <2>3
<1>2. \A j \in 1..M : Name(c, j) \in Ups(s) <=> segments[j] = Up
  BY Kinds
<1>3. \A u \in Ups(s) : \E j \in 1..M : u = Name(c, j)
  BY NamesAre DEF Ups
<1> HIDE DEF M, d
<1>4. (\A u \in Ups(s) : Depth(s, u[2]) >= 0) <=> Fine(M, segments, d)
  BY <1>1, <1>2, <1>3 DEF Fine
<1> QED
  BY <1>4 DEF M, d

(* The text of Resolved, told from the segments.                            *)
Piece(s, names, i) ==
  IF \E r \in names : i = r[1] THEN <<"/", s[i]>>
  ELSE IF \E r \in names : i \in r[1]..r[2] THEN <<s[i]>> ELSE <<>>

Word(segments, c, names, k) ==
  IF Name(c, k) \in names THEN <<"/">> \o segments[k] ELSE <<>>

LEMMA Assoc ==
  ASSUME NEW x \in Seq(Chars), NEW y \in Seq(Chars), NEW z \in Seq(Chars)
  PROVE  (x \o y) \o z = x \o (y \o z)
  BY ONLY x \in Seq(Chars), y \in Seq(Chars), z \in Seq(Chars), ConcatAssociative

LEMMA ConcatIs ==
  ASSUME NEW x \in Seq(Chars), NEW y \in Seq(Chars)
  PROVE  x \o y \in Seq(Chars)
OBVIOUS

LEMMA EmptyConcat ==
  ASSUME NEW x \in Seq(Chars)
  PROVE  x \o <<>> = x /\ <<>> \o x = x
OBVIOUS

LEMMA PieceBetween ==
  ASSUME NEW S, NEW s \in Seq(S), NEW segments, Len(segments) \in Nat,
         NEW c, Cuts(s, segments, c), NEW names, names \subseteq Names(s),
         NEW i \in 1..Len(s), s[i] = "/"
  PROVE  Piece(s, names, i) = <<>>
<1>1. ASSUME NEW r \in names, i \in r[1]..r[2] PROVE FALSE
  BY <1>1 DEF Names
<1>2. \A r \in names : r[1] \in r[1]..r[2]
  <2> TAKE r \in names
  <2>1. r[1] \in 1..Len(s) /\ r[2] \in 1..Len(s) /\ r[1] <= r[2]
    BY DEF Names
  <2> QED
    BY <2>1
<1> QED
  BY <1>1, <1>2 DEF Piece

LEMMA PieceInside ==
  ASSUME NEW S, NEW s \in Seq(S), NEW segments, Len(segments) \in Nat,
         NEW c, Cuts(s, segments, c), NEW names, names \subseteq Names(s),
         NEW i \in 1..Len(s), NEW k \in 1..Len(segments), c[k] < i, i < c[k + 1]
  PROVE  Piece(s, names, i) =
           IF Name(c, k) \notin names THEN <<>>
           ELSE IF i = c[k] + 1 THEN <<"/", s[i]>> ELSE <<s[i]>>
<1> DEFINE M == Len(segments)
           e == Name(c, k)
<1>1. M \in Nat /\ Len(s) \in Nat /\ k \in 1..(M + 1) /\ k + 1 \in 1..(M + 1) /\ i \in Nat
  OBVIOUS
<1>2. c[k] \in Nat /\ c[k + 1] \in Nat
  BY <1>1, CutsAre
<1>3. ASSUME NEW r \in names, i \in r[1]..r[2] PROVE r = e
  <2>1. PICK j \in 1..M : r = Name(c, j)
    BY NamesAre
  <2>2. r[1] = c[j] + 1 /\ r[2] = c[j + 1] - 1
    BY <2>1 DEF Name
  <2>3. j \in 1..(M + 1) /\ j + 1 \in 1..(M + 1)
    BY <1>1
  <2>4. /\ c[j] \in Nat /\ c[j + 1] \in Nat
        /\ k + 1 < j => c[k + 1] < c[j]
        /\ j + 1 < k => c[j + 1] < c[k]
    BY <1>1, <2>3, CutsAre
  <2>5. c[j] + 1 <= i /\ i <= c[j + 1] - 1
    BY <1>1, <1>3, <2>2, <2>4
  <2>6. ~ (k + 1 < j) /\ k + 1 # j
    BY <1>1, <1>2, <2>4, <2>5
  <2>7. ~ (j + 1 < k) /\ j + 1 # k
    BY <1>1, <1>2, <2>4, <2>5
  <2>8. j = k
    BY <1>1, <2>6, <2>7
  <2> QED
    BY <2>1, <2>8
<1>4. e[1] = c[k] + 1 /\ e[2] = c[k + 1] - 1
  BY DEF Name
<1>5. i \in e[1]..e[2]
  BY <1>1, <1>2, <1>4
<1>6. \A r \in names : r[1] \in r[1]..r[2]
  <2> TAKE r \in names
  <2>1. r[1] \in 1..Len(s) /\ r[2] \in 1..Len(s) /\ r[1] <= r[2]
    BY DEF Names
  <2> QED
    BY <2>1
<1> HIDE DEF e
<1>7. (\E r \in names : i \in r[1]..r[2]) <=> e \in names
  BY <1>3, <1>5
<1>8. (\E r \in names : i = r[1]) <=> e \in names /\ i = c[k] + 1
  <2>1. ASSUME NEW r \in names, i = r[1] PROVE e \in names /\ i = c[k] + 1
    <3>1. i \in r[1]..r[2]
      BY <1>6, <2>1
    <3>2. r = e
      BY <1>3, <3>1
    <3> QED
      BY <1>4, <2>1, <3>2
  <2>2. ASSUME e \in names, i = c[k] + 1 PROVE \E r \in names : i = r[1]
    BY <1>4, <2>2
  <2> QED
    BY <2>1, <2>2
<1> QED
  BY <1>7, <1>8 DEF Piece, e

\* What there is of the k-th segment in the first n characters.
Begun(s, c, names, n, k) ==
  IF Name(c, k) \in names /\ n > c[k] THEN <<"/">> \o SubSeq(s, c[k] + 1, n) ELSE <<>>

Grows(s, c, names, n, k) ==
  /\ Begun(s, c, names, n, k) \in Seq(Chars)
  /\ Piece(s, names, n + 1) \in Seq(Chars)
  /\ Begun(s, c, names, n, k) \o Piece(s, names, n + 1) = Begun(s, c, names, n + 1, k)

LEMMA BegunGrows ==
  ASSUME NEW s \in Seq(Chars), NEW segments, Len(segments) \in Nat,
         NEW c, Cuts(s, segments, c), NEW names, names \subseteq Names(s),
         NEW n \in Nat, n + 1 \in 1..Len(s),
         NEW k \in 1..Len(segments), c[k] <= n, n + 1 < c[k + 1]
  PROVE  Grows(s, c, names, n, k)
<1> DEFINE piece == Piece(s, names, n + 1)
           Rest(m) == Begun(s, c, names, m, k)
           b == c[k] + 1
           w == <<"/">>
           y == <<s[n + 1]>>
<1>1. c[k] \in Nat /\ c[k] < n + 1
  <2>1. k \in 1..(Len(segments) + 1) /\ Len(s) \in Nat
    OBVIOUS
  <2>2. c[k] \in Nat
    BY <2>1, CutsAre
  <2> QED
    BY <2>2
<1>2. piece = IF Name(c, k) \notin names THEN <<>>
              ELSE IF n + 1 = c[k] + 1 THEN <<"/", s[n + 1]>> ELSE <<s[n + 1]>>
  BY <1>1, PieceInside
<1>3. s[n + 1] \in Chars /\ Len(s) \in Nat /\ w \in Seq(Chars) /\ y \in Seq(Chars)
  BY DEF Chars
<1>4. n + 1 = c[k] + 1 <=> n = c[k]
  BY <1>1
<1>5. CASE Name(c, k) \notin names
  <2>1. Rest(n) = <<>> /\ Rest(n + 1) = <<>> /\ piece = <<>>
    BY <1>2, <1>5 DEF Begun
  <2>2. <<>> \in Seq(Chars)
    OBVIOUS
  <2> HIDE DEF Rest, piece
  <2>3. Rest(n) \in Seq(Chars) /\ piece \in Seq(Chars) /\ Rest(n) \o piece = Rest(n + 1)
    BY <2>1, <2>2, EmptyConcat
  <2> QED
    BY <2>3 DEF Rest, piece, Grows
<1>6. CASE Name(c, k) \in names /\ n = c[k]
  <2>1. ~ (n > c[k]) /\ n + 1 > c[k]
    BY <1>1, <1>6
  <2>2. Rest(n) = <<>> /\ piece = <<"/", s[n + 1]>>
    BY <1>2, <1>4, <1>6, <2>1 DEF Begun
  <2>3. Rest(n + 1) = w \o SubSeq(s, n + 1, n + 1)
    BY <1>6, <2>1 DEF Begun
  <2>4. SubSeq(s, n + 1, n + 1) = y
    BY SingleIs
  <2>5. w \o y = <<"/", s[n + 1]>>
    <3>1. ASSUME NEW e \in Chars PROVE <<"/">> \o <<e>> = <<"/", e>>
      <4>1. "/" \in Chars
        BY DEF Chars
      <4> QED
        BY <4>1, PairIs
    <3> QED
      BY <1>3, <3>1
  <2> HIDE DEF Rest, piece, w, y
  <2>6. piece = w \o y /\ w \o y \in Seq(Chars)
    <3>1. w \o y \in Seq(Chars)
      BY <1>3, ConcatIs
    <3> QED
      BY <2>2, <2>5, <3>1
  <2>8. <<>> \in Seq(Chars)
    OBVIOUS
  <2>7. Rest(n) \in Seq(Chars) /\ piece \in Seq(Chars) /\ Rest(n) \o piece = Rest(n + 1)
    BY <2>2, <2>3, <2>4, <2>6, <2>8, EmptyConcat
  <2> QED
    BY <2>7 DEF Rest, piece, Grows
<1>7. CASE Name(c, k) \in names /\ n # c[k]
  <2> DEFINE x == SubSeq(s, b, n)
  <2>1. n > c[k] /\ n + 1 > c[k] /\ b \in 1..n
    BY <1>1, <1>7
  <2>2. Rest(n) = w \o x /\ Rest(n + 1) = w \o SubSeq(s, b, n + 1)
    BY <1>7, <2>1 DEF Begun
  <2>3. piece = y
    BY <1>2, <1>4, <1>7
  <2> HIDE DEF b
  <2>4. x \in Seq(Chars) /\ SubSeq(s, b, n + 1) = Append(x, s[n + 1])
    BY <1>3, <2>1
  <2> HIDE DEF x
  <2>5. ASSUME NEW z \in Chars PROVE Append(x, z) = x \o <<z>>
    BY <2>4
  <2>6. SubSeq(s, b, n + 1) = x \o y
    BY <1>3, <2>4, <2>5
  <2> HIDE DEF Rest, piece, w, y
  <2>7. w \o x \in Seq(Chars) /\ (w \o x) \o y = w \o (x \o y)
    <3>1. w \o x \in Seq(Chars)
      BY <1>3, <2>4, ConcatIs
    <3>2. (w \o x) \o y = w \o (x \o y)
      BY <1>3, <2>4, Assoc
    <3> QED
      BY <3>1, <3>2
  <2>8. Rest(n) \in Seq(Chars) /\ piece \in Seq(Chars) /\ Rest(n) \o piece = Rest(n + 1)
    BY <1>3, <2>2, <2>3, <2>6, <2>7
  <2> QED
    BY <2>8 DEF Rest, piece, Grows
<1> QED
  BY <1>5, <1>6, <1>7

LEMMA BegunEnds ==
  ASSUME NEW S, NEW s \in Seq(S), NEW segments, Len(segments) \in Nat,
         NEW c, Cuts(s, segments, c), NEW names, names \subseteq Names(s),
         NEW k \in 1..Len(segments)
  PROVE  /\ Begun(s, c, names, c[k + 1] - 1, k) = Word(segments, c, names, k)
         /\ Begun(s, c, names, c[k], k) = <<>>
<1>1. SubSeq(s, c[k] + 1, c[k + 1] - 1) = segments[k]
  BY NamesHave
<1>2. c[k] \in Nat /\ c[k + 1] \in Nat
  <2>1. k \in 1..(Len(segments) + 1) /\ k + 1 \in 1..(Len(segments) + 1) /\ Len(s) \in Nat
    OBVIOUS
  <2> QED
    BY <2>1, CutsAre
<1>3. Name(c, k) \in names => c[k + 1] - 1 > c[k]
  <2>1. Name(c, k) \in names => Name(c, k)[1] <= Name(c, k)[2]
    BY DEF Names
  <2>2. Name(c, k)[1] = c[k] + 1 /\ Name(c, k)[2] = c[k + 1] - 1
    BY DEF Name
  <2> QED
    BY <1>2, <2>1, <2>2
<1>4. ~ (c[k] > c[k])
  BY <1>2
<1> QED
  BY <1>1, <1>3, <1>4 DEF Begun, Word

\* What the pieces of a text make, character by character; what its words make,
\* segment by segment; and what names make, each after a slash.
PiecesMake(G, s, names) ==
  /\ G \in [0..Len(s) -> Seq(Chars)] /\ G[0] = <<>>
  /\ \A i \in 1..Len(s) : G[i] = G[i - 1] \o Piece(s, names, i)

WordsMake(F, segments, c, names) ==
  /\ F \in [0..Len(segments) -> Seq(Chars)] /\ F[0] = <<>>
  /\ \A k \in 1..Len(segments) : F[k] = F[k - 1] \o Word(segments, c, names, k)

NamesMake(H, kept) ==
  /\ H \in [0..Len(kept) -> Seq(Chars)] /\ H[0] = <<>>
  /\ \A i \in 1..Len(kept) : H[i] = H[i - 1] \o (<<"/">> \o kept[i])

\* The pieces of the first n characters make the words of the segments that
\* end before, and what there is of the k-th.
LEMMA PiecesWords ==
  ASSUME NEW s \in Seq(Chars), NEW segments, Len(segments) \in Nat, Len(segments) >= 1,
         NEW c, Cuts(s, segments, c), NEW names, names \subseteq Names(s),
         NEW G, PiecesMake(G, s, names), NEW F, WordsMake(F, segments, c, names)
  PROVE  G[Len(s)] = F[Len(segments)]
<1> USE DEF PiecesMake, WordsMake
<1> DEFINE M == Len(segments)
           N == Len(s)
           Rest(n, k) == Begun(s, c, names, n, k)
           Good(n) == \A k \in 1..M : c[k] <= n /\ n < c[k + 1] => G[n] = F[k - 1] \o Rest(n, k)
           P == {n \in 0..N : Good(n)}
<1>1. M \in Nat /\ M >= 1 /\ N \in Nat /\ 0 \in 0..N /\ N \in 0..N
  OBVIOUS
<1>2. ASSUME NEW k \in 1..M
      PROVE  /\ c[k] \in Nat /\ c[k + 1] \in Nat /\ c[k] < c[k + 1]
             /\ F[k - 1] \in Seq(Chars) /\ F[k] = F[k - 1] \o Word(segments, c, names, k)
             /\ Rest(c[k + 1] - 1, k) = Word(segments, c, names, k) /\ Rest(c[k], k) = <<>>
  <2>1. k \in 1..(M + 1) /\ k + 1 \in 1..(M + 1) /\ k - 1 \in 0..M /\ k < k + 1
    BY <1>1
  <2>2. c[k] \in Nat /\ c[k + 1] \in Nat /\ c[k] < c[k + 1]
    BY <2>1, CutsAre
  <2>3. F[k - 1] \in Seq(Chars)
    BY <2>1
  <2>4. Rest(c[k + 1] - 1, k) = Word(segments, c, names, k) /\ Rest(c[k], k) = <<>>
    BY BegunEnds
  <2> HIDE DEF Rest
  <2> QED
    BY <2>2, <2>3, <2>4
<1>3. c[1] = 0 /\ c[M + 1] = N + 1 /\ \A k \in 2..M : s[c[k]] = "/"
  BY DEF Cuts
<1>4. ASSUME NEW n \in 0..(N - 1)
      PROVE  G[n + 1] = G[n] \o Piece(s, names, n + 1) /\ G[n] \in Seq(Chars)
  <2>1. n + 1 \in 1..N /\ n \in 0..N /\ (n + 1) - 1 = n
    BY <1>1
  <2>2. G[n + 1] = G[(n + 1) - 1] \o Piece(s, names, n + 1)
    BY <2>1
  <2> QED
    BY <2>1, <2>2
<1>5. ASSUME NEW k \in 1..M, k # 1, NEW n \in 0..(N - 1), c[k] = n + 1
      PROVE  Piece(s, names, n + 1) = <<>>
  <2>1. k \in 2..M /\ n + 1 \in 1..N
    BY <1>1, <1>5
  <2>2. s[n + 1] = "/"
    BY <1>3, <1>5, <2>1
  <2> QED
    BY <2>1, <2>2, PieceBetween
<1>6. ASSUME NEW k \in 1..M, NEW n \in 0..(N - 1), c[k] <= n, n + 1 < c[k + 1]
      PROVE  /\ Rest(n, k) \in Seq(Chars) /\ Piece(s, names, n + 1) \in Seq(Chars)
             /\ Rest(n, k) \o Piece(s, names, n + 1) = Rest(n + 1, k)
  <2>1. n \in Nat /\ n + 1 \in 1..Len(s)
    BY <1>1
  <2>2. /\ Begun(s, c, names, n, k) \in Seq(Chars)
        /\ Piece(s, names, n + 1) \in Seq(Chars)
        /\ Begun(s, c, names, n, k) \o Piece(s, names, n + 1) = Begun(s, c, names, n + 1, k)
    <3>1. c[k] <= n /\ n + 1 < c[k + 1] /\ k \in 1..Len(segments)
      BY <1>6
    <3>2. Grows(s, c, names, n, k)
      BY <2>1, <3>1, BegunGrows
    <3> QED
      BY <3>2 DEF Grows
  <2> QED
    BY <2>2
<1>7. G[0] = <<>> /\ F[0] = <<>>
  OBVIOUS
<1> HIDE DEF M, N, Rest
<1>8. 0 \in P
  <2> SUFFICES ASSUME NEW k \in 1..M, c[k] <= 0, 0 < c[k + 1] PROVE G[0] = F[k - 1] \o Rest(0, k)
    BY <1>1
  <2>1. c[k] = 0
    BY <1>2
  <2>2. k = 1
    <3>1. k \in 1..(Len(segments) + 1) /\ 1 \in 1..(Len(segments) + 1) /\ (k # 1 => 1 < k)
      BY <1>1 DEF M
    <3>2. k # 1 => c[1] < c[k]
      BY <3>1, CutsAre
    <3> QED
      BY <1>3, <2>1, <3>2
  <2>3. Rest(0, k) = <<>>
    BY <1>2, <2>1
  <2>4. F[k - 1] = <<>>
    BY <1>7, <2>2
  <2>5. <<>> \o <<>> = <<>>
    OBVIOUS
  <2> QED
    BY <1>7, <2>3, <2>4, <2>5
<1>9. ASSUME NEW n \in 0..(N - 1), Good(n), NEW k \in 1..M, c[k] <= n + 1, n + 1 < c[k + 1]
      PROVE  G[n + 1] = F[k - 1] \o Rest(n + 1, k)
  <2>1. n \in Nat
    BY <1>1
  <2>2. c[k] \in Nat /\ c[k + 1] \in Nat /\ F[k - 1] \in Seq(Chars)
    BY <1>2
  <2>3. CASE c[k] = n + 1
    <3>1. k # 1
      BY <1>3, <2>1, <2>3
    <3> DEFINE j == k - 1
    <3>2. j \in 1..M /\ j + 1 = k
      BY <1>1, <3>1
    <3> HIDE DEF j
    <3>3. c[j] \in Nat /\ c[j] < c[k] /\ c[j + 1] = c[k]
      BY <1>2, <3>2
    <3>4. c[j] <= n /\ n < c[j + 1] /\ n = c[j + 1] - 1
      <4>1. c[j] <= n /\ n < c[k] /\ n = c[k] - 1
        BY <2>1, <2>3, <3>3
      <4> QED
        BY <3>3, <4>1
    <3>5. G[n] = F[j - 1] \o Rest(n, j)
      BY <1>9, <3>2, <3>4
    <3>6. G[n] = F[j]
      BY <1>2, <3>2, <3>4, <3>5
    <3>7. Piece(s, names, n + 1) = <<>>
      BY <1>5, <2>3, <3>1
    <3>8. G[n + 1] = G[n]
      BY <1>4, <3>7, EmptyConcat
    <3>9. Rest(n + 1, k) = <<>>
      BY <1>2, <2>3
    <3>10. F[j] = F[k - 1] /\ F[k - 1] \o <<>> = F[k - 1]
      BY <2>2, EmptyConcat DEF j
    <3> QED
      BY <3>6, <3>8, <3>9, <3>10
  <2>4. CASE c[k] # n + 1
    <3>1. c[k] <= n /\ n < c[k + 1]
      BY <1>9, <2>1, <2>2, <2>4
    <3>2. G[n] = F[k - 1] \o Rest(n, k)
      BY <1>9, <3>1
    <3>3. /\ Rest(n, k) \in Seq(Chars) /\ Piece(s, names, n + 1) \in Seq(Chars)
          /\ Rest(n, k) \o Piece(s, names, n + 1) = Rest(n + 1, k)
      BY <1>6, <1>9, <3>1
    <3>4. G[n + 1] = (F[k - 1] \o Rest(n, k)) \o Piece(s, names, n + 1)
      BY <1>4, <3>2
    <3>5. (F[k - 1] \o Rest(n, k)) \o Piece(s, names, n + 1)
            = F[k - 1] \o (Rest(n, k) \o Piece(s, names, n + 1))
      BY <2>2, <3>3, Assoc
    <3> QED
      BY <3>3, <3>4, <3>5
  <2> QED
    BY <2>3, <2>4
<1>10. ASSUME NEW n \in 0..(N - 1), n \in P PROVE n + 1 \in P
  <2>1. n + 1 \in 0..N
    BY <1>1
  <2>2. Good(n + 1)
    BY <1>9, <1>10
  <2> HIDE DEF Good
  <2> QED
    BY <2>1, <2>2
<1> HIDE DEF P
<1>11. 0..N \subseteq P
  BY <1>1, <1>8, <1>10, UpTo
<1>12. Good(N)
  BY <1>1, <1>11 DEF P
<1>13. M \in 1..M /\ c[M] <= N /\ N < c[M + 1] /\ N = c[M + 1] - 1
  <2>1. M \in 1..M
    BY <1>1
  <2>2. c[M] \in Nat /\ c[M] < c[M + 1]
    BY <1>2, <2>1
  <2> QED
    BY <1>1, <1>3, <2>1, <2>2
<1>14. G[N] = F[M - 1] \o Rest(N, M)
  BY <1>12, <1>13
<1>15. G[N] = F[M]
  BY <1>2, <1>13, <1>14
<1> QED
  BY <1>15 DEF M, N

LEMMA WordsKept ==
  ASSUME NEW segments, Len(segments) \in Nat, NEW c, NEW names,
         NEW d, NEW kept, NEW q, Stack(q, Len(segments), segments, d, kept),
         \A k \in 1..Len(segments) : Name(c, k) \in names <=> \E i \in 1..Len(q) : q[i] = k,
         NEW F, WordsMake(F, segments, c, names), NEW H, NamesMake(H, kept)
  PROVE  F[Len(segments)] = H[Len(q)]
<1> DEFINE M == Len(segments)
           L == Len(q)
           Upto(k, m) == \A i \in 1..L : q[i] <= k <=> i <= m
           P == {k \in 0..M : \E m \in 0..L : Upto(k, m) /\ F[k] = H[m]}
<1>stack.
      /\ M \in Nat /\ q \in Seq(1..M) /\ Len(kept) = Len(q)
      /\ \A i \in 1..Len(q) : kept[i] = segments[q[i]]
      /\ \A i, j \in 1..Len(q) : i < j => q[i] < q[j]
  BY DEF Stack
<1>words.
       /\ F \in [0..M -> Seq(Chars)] /\ F[0] = <<>>
       /\ \A k \in 1..M : F[k] = F[k - 1] \o Word(segments, c, names, k)
  BY DEF WordsMake
<1>slashed.
       /\ H \in [0..Len(q) -> Seq(Chars)] /\ H[0] = <<>>
       /\ \A i \in 1..Len(q) : H[i] = H[i - 1] \o (<<"/">> \o segments[q[i]])
  BY <1>stack DEF NamesMake
<1>named. \A k \in 1..M : Name(c, k) \in names <=> \E i \in 1..Len(q) : q[i] = k
  OBVIOUS
<1> HIDE DEF M
<1> USE <1>stack, <1>words, <1>slashed, <1>named
<1>1. L \in Nat /\ \A i \in 1..L : q[i] \in 1..M /\ q[i] \in Nat
  <2>1. ASSUME NEW T, q \in Seq(T) PROVE \A i \in 1..L : q[i] \in T
    BY <2>1
  <2>2. \A i \in 1..L : q[i] \in 1..M
    BY <2>1
  <2>3. L \in Nat
    OBVIOUS
  <2>4. \A x \in 1..M : x \in Nat
    OBVIOUS
  <2> QED
    BY ONLY <2>2, <2>3, <2>4
<1>2. \A i, j \in 1..L : i < j => q[i] < q[j]
  OBVIOUS
<1>3. \A k \in 1..M : Name(c, k) \in names <=> \E i \in 1..L : q[i] = k
  OBVIOUS
<1>4. \A i \in 1..L : H[i] = H[i - 1] \o (<<"/">> \o segments[q[i]])
  OBVIOUS
<1>5. H \in [0..L -> Seq(Chars)]
  OBVIOUS
<1> HIDE DEF L
<1>6. 0 \in P
  <2>1. Upto(0, 0)
    <3> SUFFICES ASSUME NEW i \in 1..L PROVE ~ (q[i] <= 0) /\ ~ (i <= 0)
      OBVIOUS
    <3>1. q[i] \in 1..M /\ i \in Nat /\ i # 0
      BY <1>1
    <3>2. \A x \in 1..M : x \in Nat /\ x # 0
      BY ONLY <1>stack
    <3>3. ASSUME NEW x \in Nat, x # 0 PROVE ~ (x <= 0)
      BY ONLY <3>3
    <3> QED
      BY ONLY <3>1, <3>2, <3>3
  <2> HIDE DEF Upto
  <2>2. 0 \in 0..L /\ 0 \in 0..M
    BY <1>1
  <2> QED
    BY <2>1, <2>2
<1>7. ASSUME NEW k \in 0..(M - 1), k \in P PROVE k + 1 \in P
  <2>1. k + 1 \in 1..M /\ k + 1 \in 0..M /\ (k + 1) - 1 = k /\ k \in Nat /\ k \in 0..M
    OBVIOUS
  <2>2. PICK m \in 0..L : Upto(k, m) /\ F[k] = H[m]
    BY <1>7
  <2>3. F[k + 1] = F[k] \o Word(segments, c, names, k + 1) /\ F[k] \in Seq(Chars)
    <3>1. \A j \in 1..M : F[j] = F[j - 1] \o Word(segments, c, names, j)
      OBVIOUS
    <3>2. F[k + 1] = F[(k + 1) - 1] \o Word(segments, c, names, k + 1)
      BY <2>1, <3>1
    <3> QED
      BY <2>1, <3>2
  <2>4. m \in Nat /\ L \in Nat
    BY <1>1
  <2>5. CASE Name(c, k + 1) \in names
    <3>1. PICK i \in 1..L : q[i] = k + 1
      BY <1>3, <2>1, <2>5
    <3>2. ~ (i <= m)
      <4>1. ~ (k + 1 <= k)
        BY <2>1
      <4> QED
        BY <2>2, <3>1, <4>1
    <3>3. i = m + 1
      <4> SUFFICES ASSUME i # m + 1 PROVE FALSE
        OBVIOUS
      <4>1. m + 1 \in 1..L /\ m + 1 < i /\ ~ (m + 1 <= m)
        BY <2>4, <3>2
      <4>2. q[m + 1] < k + 1 /\ q[m + 1] \in Nat
        BY <1>1, <1>2, <3>1, <4>1
      <4>3. ASSUME NEW x \in Nat, x < k + 1 PROVE x <= k
        BY ONLY <2>1, <4>3
      <4>4. q[m + 1] <= k
        BY <4>2, <4>3
      <4> QED
        BY <2>2, <4>1, <4>4
    <3>4. m + 1 \in 1..L /\ m + 1 \in 0..L /\ (m + 1) - 1 = m
      BY <2>4, <3>3
    <3>5. ASSUME NEW j \in 1..L PROVE q[j] <= k + 1 <=> j <= m + 1
      <4>1. q[j] \in Nat /\ j \in Nat
        BY ONLY <1>1, <2>4, j \in 1..L
      <4>2. ASSUME NEW x \in Nat
            PROVE  /\ x = k + 1 => x <= k + 1
                   /\ x < k + 1 => x <= k + 1
                   /\ k + 1 < x => ~ (x <= k + 1)
        BY ONLY <2>1, <4>2
      <4>3. CASE j = i
        <5>1. q[j] <= k + 1
          BY <3>1, <4>1, <4>2, <4>3
        <5>2. j <= m + 1
          BY <2>4, <3>3, <4>3
        <5> QED
          BY <5>1, <5>2
      <4>4. CASE j < i
        <5>1. q[j] < k + 1
          BY <1>2, <3>1, <4>4
        <5>2. q[j] <= k + 1
          BY <4>1, <4>2, <5>1
        <5>3. j <= m + 1
          BY <2>4, <3>3, <4>1, <4>4
        <5> QED
          BY <5>2, <5>3
      <4>5. CASE i < j
        <5>1. k + 1 < q[j]
          BY <1>2, <3>1, <4>5
        <5>2. ~ (q[j] <= k + 1)
          BY <4>1, <4>2, <5>1
        <5>3. ~ (j <= m + 1)
          BY <2>4, <3>3, <4>1, <4>5
        <5> QED
          BY <5>2, <5>3
      <4>6. j = i \/ j < i \/ i < j
        BY <2>4, <3>3, <4>1
      <4> QED
        BY <4>3, <4>4, <4>5, <4>6
    <3>6. F[k + 1] = H[m + 1]
      <4>1. Word(segments, c, names, k + 1) = <<"/">> \o segments[k + 1]
        BY <2>5 DEF Word
      <4>2. H[m + 1] = H[m] \o (<<"/">> \o segments[q[m + 1]])
        <5>1. H[m + 1] = H[(m + 1) - 1] \o (<<"/">> \o segments[q[m + 1]])
          BY <1>4, <3>4
        <5> QED
          BY <3>4, <5>1
      <4>3. q[m + 1] = k + 1
        BY <3>1, <3>3
      <4> QED
        BY <2>2, <2>3, <4>1, <4>2, <4>3
    <3>7. Upto(k + 1, m + 1)
      BY <3>5
    <3> HIDE DEF Upto
    <3> QED
      BY <2>1, <3>4, <3>6, <3>7
  <2>6. CASE Name(c, k + 1) \notin names
    <3>1. \A i \in 1..L : q[i] # k + 1
      BY <1>3, <2>1, <2>6
    <3>2. ASSUME NEW j \in 1..L PROVE q[j] <= k + 1 <=> j <= m
      <4>1. q[j] \in Nat /\ (q[j] <= k <=> j <= m) /\ q[j] # k + 1
        BY <1>1, <2>2, <3>1
      <4>2. ASSUME NEW x \in Nat, x # k + 1 PROVE x <= k + 1 <=> x <= k
        BY ONLY <2>1, <4>2
      <4>3. q[j] <= k + 1 <=> q[j] <= k
        BY <4>1, <4>2
      <4> QED
        BY <4>1, <4>3
    <3>3. Upto(k + 1, m)
      BY <3>2
    <3>4. F[k + 1] = H[m]
      <4>1. Word(segments, c, names, k + 1) = <<>>
        BY <2>6 DEF Word
      <4> QED
        BY <2>2, <2>3, <4>1, EmptyConcat
    <3> HIDE DEF Upto
    <3> QED
      BY <2>1, <3>3, <3>4
  <2> QED
    BY <2>5, <2>6
<1> HIDE DEF P, Upto
<1>8. 0..M \subseteq P
  BY <1>6, <1>7, UpTo
<1>9. M \in 0..M
  OBVIOUS
<1>10. PICK m \in 0..L : Upto(M, m) /\ F[M] = H[m]
  BY <1>8, <1>9 DEF P
<1>11. m = L
  <2> SUFFICES ASSUME m # L PROVE FALSE
    OBVIOUS
  <2>1. L \in 1..L /\ ~ (L <= m)
    BY <1>1
  <2>2. q[L] \in 1..M
    BY <1>1, <2>1
  <2>3. q[L] <= M
    BY <2>2
  <2> QED
    BY <1>10, <2>1, <2>3 DEF Upto
<1> QED
  BY <1>10, <1>11 DEF L, M

LEMMA SlashMoves ==
  ASSUME NEW L \in Nat, NEW kept, \A i \in 1..L : kept[i] \in Seq(Chars),
         NEW A \in [0..L -> Seq(Chars)], A[0] = <<>>,
         \A i \in 1..L : A[i] = A[i - 1] \o (kept[i] \o <<"/">>),
         NEW H \in [0..L -> Seq(Chars)], H[0] = <<>>,
         \A i \in 1..L : H[i] = H[i - 1] \o (<<"/">> \o kept[i])
  PROVE  <<"/">> \o A[L] = H[L] \o <<"/">>
<1> DEFINE w == <<"/">>
           P == {i \in 0..L : w \o A[i] = H[i] \o w}
<1>1. w \in Seq(Chars)
  BY DEF Chars
<1>2. 0 \in P
  <2>1. w \o A[0] = w /\ H[0] \o w = w
    BY <1>1, EmptyConcat
  <2> QED
    BY <2>1
<1>3. \A i \in 1..L : A[i] = A[i - 1] \o (kept[i] \o w) /\ H[i] = H[i - 1] \o (w \o kept[i])
  OBVIOUS
<1> HIDE DEF w
<1>4. ASSUME NEW i \in 0..(L - 1), i \in P PROVE i + 1 \in P
  <2> DEFINE a == A[i]
             h == H[i]
             t == kept[i + 1]
  <2>1. i + 1 \in 1..L /\ i + 1 \in 0..L /\ (i + 1) - 1 = i /\ i \in 0..L
    OBVIOUS
  <2>2. A[i + 1] = a \o (t \o w) /\ H[i + 1] = h \o (w \o t)
    <3>1. A[i + 1] = A[(i + 1) - 1] \o (t \o w) /\ H[i + 1] = H[(i + 1) - 1] \o (w \o t)
      BY <1>3, <2>1
    <3> QED
      BY <2>1, <3>1
  <2>3. a \in Seq(Chars) /\ h \in Seq(Chars) /\ t \in Seq(Chars)
    BY <2>1
  <2>4. w \o a = h \o w
    BY <1>4
  <2> HIDE DEF a, h, t, P
  <2>5. t \o w \in Seq(Chars) /\ w \o t \in Seq(Chars)
    BY <1>1, <2>3, ConcatIs
  <2>6. w \o (a \o (t \o w)) = (w \o a) \o (t \o w)
    BY <1>1, <2>3, <2>5, Assoc
  <2>7. (h \o w) \o (t \o w) = h \o (w \o (t \o w))
    BY <1>1, <2>3, <2>5, Assoc
  <2>8. w \o (t \o w) = (w \o t) \o w
    BY <1>1, <2>3, Assoc
  <2>9. h \o ((w \o t) \o w) = (h \o (w \o t)) \o w
    BY <1>1, <2>3, <2>5, Assoc
  <2>10. w \o A[i + 1] = H[i + 1] \o w
    BY <2>2, <2>4, <2>6, <2>7, <2>8, <2>9
  <2> QED
    BY <2>1, <2>10 DEF P
<1> HIDE DEF P
<1>5. 0..L \subseteq P
  BY <1>2, <1>4, UpTo
<1>6. L \in 0..L
  OBVIOUS
<1>7. w \o A[L] = H[L] \o w
  BY <1>5, <1>6 DEF P
<1> QED
  BY <1>7 DEF w

LEMMA PiecesFlatten ==
  ASSUME NEW s \in Seq(Chars), NEW names
  PROVE  \E G : /\ PiecesMake(G, s, names)
              /\ FlattenSeq([i \in DOMAIN s |-> Piece(s, names, i)]) = G[Len(s)]
<1> DEFINE pieces == [i \in DOMAIN s |-> Piece(s, names, i)]
<1>1. Len(s) \in Nat /\ DOMAIN s = 1..Len(s)
  OBVIOUS
<1>2. ASSUME NEW i \in 1..Len(s) PROVE Piece(s, names, i) \in Seq(Chars)
  <2>1. s[i] \in Chars /\ "/" \in Chars
    BY DEF Chars
  <2>2. \A x, y \in Chars : <<x, y>> \in Seq(Chars) /\ <<x>> \in Seq(Chars)
    OBVIOUS
  <2>3. <<>> \in Seq(Chars)
    OBVIOUS
  <2> QED
    BY <2>1, <2>2, <2>3 DEF Piece
<1>3. pieces \in [1..Len(s) -> Seq(Chars)]
  BY <1>1, <1>2
<1>4. \A i \in 1..Len(s) : pieces[i] = Piece(s, names, i)
  BY <1>1
<1> HIDE DEF pieces
<1>5. pieces \in Seq(Seq(Chars)) /\ Len(pieces) = Len(s)
  BY <1>1, <1>3, SeqOfLength
<1>6. PICK G \in [0..Len(pieces) -> Seq(Chars)] : Flattens(G, pieces) /\ FlattenSeq(pieces) = G[Len(pieces)]
  BY <1>5, FlattenSeqByParts
<1>7. G \in [0..Len(s) -> Seq(Chars)] /\ FlattenSeq(pieces) = G[Len(s)]
  BY <1>5, <1>6
<1>8. G[0] = <<>> /\ \A i \in 1..Len(s) : G[i] = G[i - 1] \o Piece(s, names, i)
  BY <1>4, <1>5, <1>6 DEF Flattens
<1> QED
  BY <1>7, <1>8 DEF pieces, PiecesMake

LEMMA WordsFlatten ==
  ASSUME NEW segments \in Seq(NoSlash), NEW c, NEW names
  PROVE  \E F : WordsMake(F, segments, c, names)
<1> DEFINE M == Len(segments)
           words == [k \in 1..M |-> Word(segments, c, names, k)]
<1>1. M \in Nat
  OBVIOUS
<1>2. ASSUME NEW k \in 1..M PROVE Word(segments, c, names, k) \in Seq(Chars)
  <2>1. segments[k] \in Seq(Chars) /\ <<"/">> \in Seq(Chars)
    BY DEF NoSlash, Chars
  <2>2. <<"/">> \o segments[k] \in Seq(Chars)
    BY <2>1, ConcatIs
  <2>3. <<>> \in Seq(Chars)
    OBVIOUS
  <2> QED
    BY <2>2, <2>3 DEF Word
<1>3. words \in [1..M -> Seq(Chars)] /\ \A k \in 1..M : words[k] = Word(segments, c, names, k)
  BY <1>2
<1> HIDE DEF words, M
<1>4. words \in Seq(Seq(Chars)) /\ Len(words) = M
  BY <1>1, <1>3, SeqOfLength
<1>5. PICK F \in [0..Len(words) -> Seq(Chars)] : Flattens(F, words)
  BY <1>4, FlattenSeqByParts
<1>6. F \in [0..M -> Seq(Chars)]
  BY <1>4, <1>5
<1>7. F[0] = <<>> /\ \A k \in 1..M : F[k] = F[k - 1] \o Word(segments, c, names, k)
  BY <1>3, <1>4, <1>5 DEF Flattens
<1> QED
  BY <1>6, <1>7 DEF M, WordsMake

\* Joining puts a slash before each name instead of after it.
LEMMA JoinSlashed ==
  ASSUME NEW s, Head(s) = "/", NEW kept \in Seq(Plain)
  PROVE  \E H :
           /\ NamesMake(H, kept)
           /\ Join(s, kept) = IF kept # <<>> /\ Last(s) # "/" THEN H[Len(kept)]
                              ELSE Append(H[Len(kept)], "/")
<1> DEFINE L == Len(kept)
           parts == Parts(kept)
           names == [i \in 1..L |-> <<"/">> \o kept[i]]
           w == <<"/">>
<1>1. parts \in Seq(Seq(Chars)) /\ Len(parts) = L /\ L \in Nat
      /\ \A i \in 1..L : kept[i] \in Plain /\ parts[i] = Append(kept[i], "/")
  BY PartsAre
<1>2. w \in Seq(Chars) /\ "/" \in Chars
  BY DEF Chars
<1>3. \A i \in 1..L : kept[i] \in Seq(Chars)
  BY <1>1 DEF Plain, Left, NoSlash
<1>4. \A t \in Seq(Chars) : Append(t, "/") = t \o w
  BY <1>2, AppendIsConcat
<1>5. \A i \in 1..L : parts[i] = kept[i] \o w
  BY <1>1, <1>3, <1>4
<1> HIDE DEF parts, w
<1>6. PICK A \in [0..Len(parts) -> Seq(Chars)] : Flattens(A, parts) /\ FlattenSeq(parts) = A[Len(parts)]
  BY <1>1, FlattenSeqByParts
<1>7. A \in [0..L -> Seq(Chars)] /\ FlattenSeq(parts) = A[L]
  BY <1>1, <1>6
<1>8. A[0] = <<>> /\ \A i \in 1..L : A[i] = A[i - 1] \o (kept[i] \o w)
  BY <1>1, <1>5, <1>6 DEF Flattens
<1>9. names \in [1..L -> Seq(Chars)] /\ \A i \in 1..L : names[i] = w \o kept[i]
  <2>1. \A i \in 1..L : w \o kept[i] \in Seq(Chars)
    BY <1>2, <1>3, ConcatIs
  <2> QED
    BY <2>1 DEF w
<1> HIDE DEF names
<1>10. names \in Seq(Seq(Chars)) /\ Len(names) = L
  BY <1>1, <1>9, SeqOfLength
<1>11. PICK H \in [0..Len(names) -> Seq(Chars)] : Flattens(H, names)
  BY <1>10, FlattenSeqByParts
<1>12. H \in [0..L -> Seq(Chars)] /\ H[L] \in Seq(Chars)
  <2>1. H \in [0..L -> Seq(Chars)]
    BY <1>10, <1>11
  <2>2. L \in 0..L
    BY <1>1
  <2> HIDE DEF L
  <2> QED
    BY <2>1, <2>2
<1>13. H[0] = <<>> /\ \A i \in 1..L : H[i] = H[i - 1] \o (w \o kept[i])
  BY <1>9, <1>10, <1>11 DEF Flattens
<1>14. w \o A[L] = H[L] \o w
  <2>1. \A i \in 1..L : A[i] = A[i - 1] \o (kept[i] \o <<"/">>)
    BY <1>8 DEF w
  <2>2. \A i \in 1..L : H[i] = H[i - 1] \o (<<"/">> \o kept[i])
    BY <1>13 DEF w
  <2>3. L \in Nat /\ A[0] = <<>> /\ H[0] = <<>> /\ H \in [0..L -> Seq(Chars)]
    BY <1>1, <1>8, <1>12, <1>13
  <2> HIDE DEF L
  <2>4. <<"/">> \o A[L] = H[L] \o <<"/">>
    BY ONLY <1>3, <1>7, <2>1, <2>2, <2>3, SlashMoves
  <2> QED
    BY <2>4 DEF w
<1> DEFINE text == w \o FlattenSeq(parts)
           h == H[L]
<1>15. text = Append(h, "/")
  BY <1>4, <1>7, <1>12, <1>14
<1>16. h \in Seq(Chars)
  BY <1>12
<1> HIDE DEF h, text
<1>17. text # <<>> /\ Front(text) = h
  <2>1. text \in Seq(Chars) /\ Len(text) = Len(h) + 1 /\ Len(h) \in Nat
        /\ \A i \in 1..Len(h) : text[i] = h[i]
    BY <1>2, <1>15, <1>16, AppendIs
  <2>2. text # <<>>
    BY <2>1
  <2>3. /\ Front(text) \in Seq(Chars) /\ Len(Front(text)) = Len(text) - 1
        /\ \A k \in 1..(Len(text) - 1) : Front(text)[k] = text[k]
    BY <2>1, <2>2, FrontIs
  <2> DEFINE f == Front(text)
  <2> HIDE DEF f
  <2>4. f \in Seq(Chars) /\ Len(f) = Len(h) /\ \A k \in 1..Len(h) : f[k] = h[k]
    BY <2>1, <2>3 DEF f
  <2>5. f = h
    BY <1>16, <2>4
  <2> QED
    BY <2>2, <2>5 DEF f
<1>18. Join(s, kept) = IF text = <<>> THEN <<"/">>
                       ELSE IF kept # <<>> /\ Last(s) # "/" THEN Front(text) ELSE text
  BY DEF Join, text, parts, Parts, w
<1>19. Join(s, kept) = IF kept # <<>> /\ Last(s) # "/" THEN h ELSE Append(h, "/")
  BY <1>15, <1>17, <1>18
<1> QED
  BY <1>12, <1>13, <1>19 DEF h, w, NamesMake

LEMMA SurvivorsKept ==
  ASSUME NEW s \in Seq(Chars), NEW segments, Len(segments) \in Nat, NEW c, Cuts(s, segments, c),
         NEW kept, NEW q, Stack(q, Len(segments), segments, Depths(s, segments, c), kept)
  PROVE  /\ \A k \in 1..Len(segments) :
              Name(c, k) \in Survivors(s) <=> \E i \in 1..Len(q) : q[i] = k
         /\ Survivors(s) = {} <=> Len(q) = 0
         /\ Survivors(s) \subseteq Names(s)
<1> DEFINE M == Len(segments)
<1>1. ASSUME NEW k \in 1..M
      PROVE  Name(c, k) \in Survivors(s) <=> \E i \in 1..Len(q) : q[i] = k
  BY SurvivorsStay DEF Stack
<1>2. Survivors(s) \subseteq Names(s)
  BY DEF Survivors, Downs
<1>3. Len(q) \in Nat /\ \A i \in 1..Len(q) : q[i] \in 1..M
  BY DEF Stack
<1>4. ASSUME NEW r \in Survivors(s) PROVE Len(q) # 0
  <2>1. PICK k \in 1..M : r = Name(c, k)
    BY <1>2, <1>4, NamesAre
  <2>2. \E i \in 1..Len(q) : q[i] = k
    BY <1>1, <1>4, <2>1
  <2> QED
    BY <1>3, <2>2
<1>5. ASSUME Len(q) # 0 PROVE Survivors(s) # {}
  <2>1. 1 \in 1..Len(q)
    BY <1>3, <1>5
  <2>2. Name(c, q[1]) \in Survivors(s)
    BY <1>1, <1>3, <2>1
  <2> QED
    BY <2>2
<1> QED
  BY <1>1, <1>2, <1>4, <1>5

\* What is kept of a text that begins with a slash is joined to what it
\* resolves to.
LEMMA JoinResolves ==
  ASSUME NEW s \in Seq(Chars), Head(s) = "/",
         NEW segments \in Seq(NoSlash), Len(segments) >= 1, NEW c, Cuts(s, segments, c),
         NEW kept \in Seq(Plain),
         NEW q, Stack(q, Len(segments), segments, Depths(s, segments, c), kept)
  PROVE  Join(s, kept) = Resolved(s)
<1> DEFINE M == Len(segments)
           names == Survivors(s)
<1>1. /\ M \in Nat /\ q \in Seq(1..M) /\ Len(q) \in Nat
      /\ Len(kept) = Len(q) /\ \A i \in 1..Len(q) : kept[i] = segments[q[i]]
      /\ \A i, j \in 1..Len(q) : i < j => q[i] < q[j]
  BY DEF Stack
<1>2. /\ \A k \in 1..M : Name(c, k) \in names <=> \E i \in 1..Len(q) : q[i] = k
      /\ names = {} <=> Len(q) = 0
      /\ names \subseteq Names(s)
  BY <1>1, SurvivorsKept
<1> DEFINE pieces == [i \in DOMAIN s |-> Piece(s, names, i)]
<1>3. Resolved(s) = IF names = {} \/ Last(s) = "/" THEN Append(FlattenSeq(pieces), "/")
                    ELSE FlattenSeq(pieces)
  BY DEF Resolved, Piece
<1> HIDE DEF names
<1>4. PICK G : PiecesMake(G, s, names) /\ FlattenSeq(pieces) = G[Len(s)]
  BY PiecesFlatten
<1> HIDE DEF pieces
<1>5. PICK F : WordsMake(F, segments, c, names)
  BY WordsFlatten
<1>6. PICK H :
        /\ NamesMake(H, kept)
        /\ Join(s, kept) = IF kept # <<>> /\ Last(s) # "/" THEN H[Len(kept)]
                           ELSE Append(H[Len(kept)], "/")
  BY JoinSlashed
<1>8. G[Len(s)] = F[M]
  BY <1>1, <1>2, <1>4, <1>5, PiecesWords
<1>9. F[M] = H[Len(q)]
  BY <1>1, <1>2, <1>5, <1>6, WordsKept
<1>10. kept # <<>> <=> names # {}
  <2>1. kept # <<>> <=> Len(kept) # 0
    OBVIOUS
  <2> QED
    BY <1>1, <1>2, <2>1
<1> QED
  BY <1>1, <1>3, <1>4, <1>6, <1>8, <1>9, <1>10

\* A text that begins with a slash is refused when it leads outside, and
\* otherwise joined to what it resolves to.
LEMMA AbsoluteResolved ==
  ASSUME NEW s \in Seq(Chars), s # <<>>, s[1] = "/"
  PROVE  /\ Resolvable(s) <=> ~LeadsOutside(s)
         /\ ~LeadsOutside(s) => Join(s, Kept(Segments(s))) = Resolved(s)
<1> DEFINE segments == Segments(s)
           kept == Kept(segments)
<1>1. Head(s) = "/"
  OBVIOUS
<1>2. segments = Segments(s)
  OBVIOUS
<1>3. LeadsOutside(s) <=> Up \in ToSet(kept)
  BY <1>1 DEF LeadsOutside
<1>4. ~LeadsOutside(s) => kept \in Seq(Plain)
  BY KeptPlain
<1>5. Up \in NoSlash
  BY DEF Up, NoSlash, Chars
<1> HIDE DEF segments
<1>6. segments \in Seq(NoSlash) /\ Len(segments) >= 1 /\ \E c : Cuts(s, segments, c)
  BY <1>2, SegmentsCut DEF NoSlash
<1>7. PICK c : Cuts(s, segments, c)
  BY <1>6
<1> DEFINE M == Len(segments)
           d == Depths(s, segments, c)
<1>8. M \in Nat
  BY <1>6
<1>9. Levels(d, segments)
  BY <1>7, <1>8, DepthLevels
<1>10. Resolvable(s) <=> Fine(M, segments, d)
  BY <1>7, <1>8, UpsFine DEF Resolvable
<1> HIDE DEF d
<1>11. IF Fine(M, segments, d) THEN \E q : Stack(q, M, segments, d, kept) ELSE Broken(kept)
  BY <1>5, <1>6, <1>9, StackKept
<1>12. kept \in Seq(NoSlash)
  <2>1. PICK f \in [0..M -> Seq(NoSlash \ {<<>>, <<".">>})] : kept = f[M]
    BY <1>6, KeptReads
  <2>2. M \in 0..M
    BY <1>8
  <2> HIDE DEF kept, M
  <2> QED
    BY <2>1, <2>2
<1> HIDE DEF kept
<1>13. ASSUME Broken(kept) PROVE Up \in ToSet(kept)
  <2>1. 1 \in DOMAIN kept /\ kept[1] = Up
    BY <1>12, <1>13 DEF Broken
  <2> QED
    BY <2>1 DEF ToSet
<1>14. ASSUME NEW q, Stack(q, M, segments, d, kept)
       PROVE  Up \notin ToSet(kept)
  <2>1. ASSUME NEW i \in DOMAIN kept PROVE kept[i] # Up
    <3>1. i \in 1..Len(q) /\ q[i] \in 1..M /\ kept[i] = segments[q[i]]
      BY <1>12, <1>14, <2>1 DEF Stack
    <3>2. Stays(q[i], M, segments, d)
      BY <1>14, <3>1 DEF Stack
    <3> QED
      BY <3>1, <3>2 DEF Stays, IsDown
  <2> QED
    BY <2>1 DEF ToSet
<1>15. Resolvable(s) <=> ~LeadsOutside(s)
  BY <1>3, <1>10, <1>11, <1>13, <1>14
<1>16. ASSUME ~LeadsOutside(s) PROVE Join(s, kept) = Resolved(s)
  <2>1. PICK q : Stack(q, M, segments, d, kept)
    BY <1>10, <1>11, <1>15, <1>16
  <2> QED
    BY <1>1, <1>4, <1>6, <1>7, <1>16, <2>1, JoinResolves DEF d, kept
<1> QED
  BY <1>15, <1>16 DEF kept, segments

\* Nothing is resolved to that is not in the text, or a slash.
LEMMA ResolvedIs ==
  ASSUME NEW s \in Seq(Chars)
  PROVE  /\ Resolved(s) \in Seq(ToSet(s) \cup {"/"})
         /\ Survivors(s) = {} => Resolved(s) = <<"/">>
<1> DEFINE T == ToSet(s) \cup {"/"}
           names == Survivors(s)
           pieces == [i \in DOMAIN s |-> Piece(s, names, i)]
<1>1. Resolved(s) = IF names = {} \/ Last(s) = "/" THEN Append(FlattenSeq(pieces), "/")
                    ELSE FlattenSeq(pieces)
  BY DEF Resolved, Piece
<1>2. Len(s) \in Nat /\ DOMAIN s = 1..Len(s)
  OBVIOUS
<1> HIDE DEF names
<1>3. \A i \in 1..Len(s) : s[i] \in T
  BY DEF ToSet
<1> HIDE DEF T
<1>4. ASSUME NEW i \in 1..Len(s)
      PROVE  Piece(s, names, i) \in Seq(T) /\ (names = {} => Piece(s, names, i) \in Seq({}))
  <2>1. s[i] \in T /\ "/" \in T
    BY <1>3 DEF T
  <2>2. \A x, y \in T : <<x, y>> \in Seq(T) /\ <<x>> \in Seq(T)
    OBVIOUS
  <2>3. <<>> \in Seq(T) /\ <<>> \in Seq({})
    OBVIOUS
  <2>4. Piece(s, names, i) \in Seq(T)
    BY <2>1, <2>2, <2>3 DEF Piece
  <2>5. names = {} => Piece(s, names, i) = <<>>
    BY DEF Piece
  <2> QED
    BY <2>3, <2>4, <2>5
<1>5. ASSUME NEW S, \A i \in 1..Len(s) : Piece(s, names, i) \in Seq(S)
      PROVE  FlattenSeq(pieces) \in Seq(S)
  <2>1. pieces \in [1..Len(s) -> Seq(S)]
    BY <1>2, <1>5
  <2> HIDE DEF pieces
  <2>2. pieces \in Seq(Seq(S))
    BY <1>2, <2>1, SeqOfLength
  <2> QED
    BY <2>2, FlattenSeqIs
<1>6. FlattenSeq(pieces) \in Seq(T)
  BY <1>4, <1>5
<1>7. names = {} => FlattenSeq(pieces) = <<>>
  <2>1. names = {} => FlattenSeq(pieces) \in Seq({})
    BY <1>4, <1>5
  <2>2. \A x \in Seq({}) : x = <<>>
    OBVIOUS
  <2> QED
    BY <2>1, <2>2
<1> DEFINE flat == FlattenSeq(pieces)
<1> HIDE DEF pieces
<1>8. flat \in Seq(T) /\ "/" \in T
  BY <1>6 DEF T
<1> HIDE DEF flat
<1>9. Append(flat, "/") \in Seq(T)
  BY <1>8, AppendIs
<1>10. Append(<<>>, "/") = <<"/">>
  OBVIOUS
<1> QED
  BY <1>1, <1>7, <1>8, <1>9, <1>10 DEF flat, names, T

\* The first segment of a text that does not begin with a slash has a name.
LEMMA FirstNamed ==
  ASSUME NEW S, NEW s \in Seq(S), s # <<>>, s[1] # "/",
         NEW segments, Len(segments) \in Nat, Len(segments) >= 1, NEW c, Cuts(s, segments, c)
  PROVE  segments[1] # <<>>
<1> DEFINE M == Len(segments)
<1>1. Len(s) \in Nat /\ Len(s) >= 1
  OBVIOUS
<1>2. /\ c[1] = 0 /\ c[M + 1] = Len(s) + 1 /\ c[1] < c[1 + 1]
      /\ \A k \in 2..M : s[c[k]] = "/"
  BY DEF Cuts
<1>3. c[2] \in Nat
  <2>1. 2 \in 1..(M + 1)
    OBVIOUS
  <2> QED
    BY <1>1, <2>1, CutsAre
<1>4. c[2] # 1
  <2>1. CASE M = 1
    BY <1>1, <1>2, <2>1
  <2>2. CASE M # 1
    <3>1. 2 \in 2..M
      <4>1. M \in Nat /\ M >= 1
        OBVIOUS
      <4> HIDE DEF M
      <4> QED
        BY <2>2, <4>1
    <3> QED
      BY <1>2, <3>1
  <2> QED
    BY <2>1, <2>2
<1>5. 1 \in 1..M /\ c[1] + 1 = 1
  BY <1>2
<1>6. c[1] + 1 <= c[1 + 1] - 1
  <2>1. 1 + 1 = 2
    OBVIOUS
  <2> DEFINE x == c[2]
  <2>2. x \in Nat /\ x # 1 /\ 0 < x
    BY <1>2, <1>3, <1>4
  <2>3. c[1] = 0 /\ c[1 + 1] = x
    BY <1>2
  <2> HIDE DEF x
  <2>4. 0 + 1 <= x - 1
    BY <2>2
  <2> QED
    BY <2>3, <2>4
<1> QED
  BY <1>1, <1>5, <1>6, NamesHave

\* One is resolvable when it names nothing.
LEMMA RelativeNames ==
  ASSUME NEW S, NEW s \in Seq(S), s # <<>>, s[1] # "/",
         NEW segments, Len(segments) \in Nat, Len(segments) >= 1, NEW c, Cuts(s, segments, c)
  PROVE  Resolvable(s) <=> \A k \in 1..Len(segments) : segments[k] \in {<<>>, <<".">>}
<1> DEFINE M == Len(segments)
           texts == Texts(s, Names(s))
<1>1. Resolvable(s) <=> texts = {<<".">>}
  BY DEF Resolvable
<1>2. ASSUME NEW k \in 1..M, segments[k] # <<>> PROVE segments[k] \in texts
  <2> DEFINE r == Name(c, k)
  <2>1. r \in Names(s) /\ SubSeq(s, c[k] + 1, c[k + 1] - 1) = segments[k]
    BY <1>2, NamesHave
  <2>2. SubSeq(s, r[1], r[2]) = segments[k]
    BY <2>1 DEF Name
  <2> HIDE DEF r
  <2> QED
    BY <2>1, <2>2 DEF Texts
<1>3. ASSUME NEW t \in texts PROVE \E k \in 1..M : segments[k] # <<>> /\ t = segments[k]
  <2>1. PICK r \in Names(s) : t = SubSeq(s, r[1], r[2])
    BY <1>3 DEF Texts
  <2>2. PICK k \in 1..M : segments[k] # <<>> /\ r = Name(c, k)
    BY NamesAre
  <2>3. SubSeq(s, c[k] + 1, c[k + 1] - 1) = segments[k]
    BY NamesHave
  <2> QED
    BY <2>1, <2>2, <2>3 DEF Name
<1>4. 1 \in 1..M /\ segments[1] # <<>>
  BY FirstNamed
<1> HIDE DEF texts
<1>5. ASSUME texts = {<<".">>}, NEW k \in 1..M PROVE segments[k] \in {<<>>, <<".">>}
  BY <1>2, <1>5
<1>6. ASSUME \A k \in 1..M : segments[k] \in {<<>>, <<".">>} PROVE texts = {<<".">>}
  <2>1. segments[1] = <<".">> /\ segments[1] \in texts
    BY <1>2, <1>4, <1>6
  <2>2. \A t \in texts : t = <<".">>
    BY <1>3, <1>6
  <2> QED
    BY <2>1, <2>2
<1> QED
  BY <1>1, <1>5, <1>6

LEMMA RelativeResolved ==
  ASSUME NEW s \in Seq(Chars), s # <<>>, s[1] # "/", NEW w, w = Join(s, Kept(Segments(s)))
  PROVE  /\ Resolvable(s) => ~LeadsOutside(s) /\ w = <<"/">> /\ Resolved(s) = <<"/">>
         /\ ~Resolvable(s) /\ ~LeadsOutside(s) => w \in Seq(Chars) /\ w # <<>> /\ w[1] # "/"
<1> DEFINE segments == Segments(s)
           kept == Kept(segments)
           M == Len(segments)
<1>1. Head(s) # "/"
  OBVIOUS
<1>2. segments = Segments(s)
  OBVIOUS
<1>3. LeadsOutside(s) <=> Up \in ToSet(segments)
  BY <1>1 DEF LeadsOutside
<1>4. ~LeadsOutside(s) => kept \in Seq(Plain)
  BY KeptPlain
<1> HIDE DEF segments
<1>5. segments \in Seq(NoSlash) /\ M >= 1 /\ \E c : Cuts(s, segments, c)
  BY <1>2, SegmentsCut DEF NoSlash
<1>6. PICK c : Cuts(s, segments, c)
  BY <1>5
<1>7. M \in Nat
  BY <1>5
<1> DEFINE d == Depths(s, segments, c)
<1>8. Levels(d, segments)
  BY <1>6, <1>7, DepthLevels
<1>9. Resolvable(s) <=> \A k \in 1..M : segments[k] \in {<<>>, <<".">>}
  BY <1>5, <1>6, <1>7, RelativeNames
<1>10. Up \in NoSlash
  BY DEF Up, NoSlash, Chars
<1> DEFINE text == <<>> \o FlattenSeq(Parts(kept))
<1>11. Join(s, kept) = IF text = <<>> THEN <<"/">>
                       ELSE IF kept # <<>> /\ Last(s) # "/" THEN Front(text) ELSE text
  BY <1>1 DEF Join, Parts
<1>12. kept \in Seq(Plain) =>
          /\ text \in Seq(Chars) /\ (kept = <<>> => text = <<>>)
          /\ kept # <<>> => Len(text) >= 2 /\ text[1] # "/"
  BY RelativeText
<1> HIDE DEF text
<1>13. w = Join(s, kept)
  BY DEF segments
<1>14. ASSUME Resolvable(s) PROVE ~LeadsOutside(s) /\ kept = <<>> /\ Survivors(s) = {}
  <2> DEFINE Z == {<<>>, <<".">>}
  <2>1. \A k \in 1..M : segments[k] \in Z
    BY <1>9, <1>14
  <2>2. segments \in Seq(Z)
    <3> HIDE DEF Z
    <3> QED
      BY <1>5, <2>1
  <2>3. PICK f \in [0..M -> Seq(Z \ {<<>>, <<".">>})] : kept = f[M]
    <3> HIDE DEF Z
    <3> QED
      BY <2>2, KeptReads
  <2>4. kept \in Seq(Z \ {<<>>, <<".">>})
    <3>1. M \in 0..M
      BY <1>7
    <3> HIDE DEF kept, M, Z
    <3> QED
      BY <2>3, <3>1
  <2>5. Z \ {<<>>, <<".">>} = {}
    OBVIOUS
  <2>6. kept = <<>>
    <3> HIDE DEF kept, Z
    <3>1. kept \in Seq({})
      BY <2>4, <2>5
    <3> QED
      BY <3>1
  <2>7. ~LeadsOutside(s)
    <3>1. \A k \in 1..M : segments[k] # Up
      BY <2>1, UpIs
    <3> QED
      BY <1>3, <1>5, <3>1 DEF ToSet
  <2>8. Survivors(s) = {}
    <3> SUFFICES ASSUME NEW r \in Survivors(s) PROVE FALSE
      OBVIOUS
    <3>1. r \in Names(s) /\ r \in Downs(s)
      BY DEF Survivors, Downs
    <3>2. PICK k \in 1..M : r = Name(c, k)
      BY <1>6, <1>7, <3>1, NamesAre
    <3>3. IsDown(segments[k])
      BY <1>6, <1>7, <3>1, <3>2, Kinds
    <3> QED
      BY <2>1, <3>3 DEF IsDown
  <2> QED
    BY <2>6, <2>7, <2>8
<1>15. ASSUME ~LeadsOutside(s), kept = <<>> PROVE Resolvable(s)
  <2>1. \A k \in 1..M : segments[k] # Up
    BY <1>3, <1>5, <1>15 DEF ToSet
  <2>2. Fine(M, segments, d)
    BY <2>1 DEF Fine
  <2> HIDE DEF d
  <2>3. PICK q : Stack(q, M, segments, d, kept)
    BY <1>5, <1>8, <1>10, <2>2, StackKept
  <2>4. Len(q) = 0
    <3>1. Len(kept) = 0
      BY <1>15
    <3> QED
      BY <2>3, <3>1 DEF Stack
  <2>5. ASSUME NEW k \in 1..M PROVE segments[k] \in {<<>>, <<".">>}
    <3>1. ~Stays(k, M, segments, d)
      <4>1. Stays(k, M, segments, d) => \E i \in 1..Len(q) : q[i] = k
        BY <2>3 DEF Stack
      <4>2. 1..Len(q) = {}
        BY <2>4
      <4> QED
        BY <4>1, <4>2
    <3>2. \A j \in (k + 1)..M : segments[j] # Up
      BY <1>7, <2>1
    <3>3. ~IsDown(segments[k])
      BY <3>1, <3>2 DEF Stays
    <3> QED
      BY <2>1, <3>3 DEF IsDown
  <2> QED
    BY <1>9, <2>5
<1>16. Resolvable(s) => ~LeadsOutside(s) /\ w = <<"/">> /\ Resolved(s) = <<"/">>
  <2> SUFFICES ASSUME Resolvable(s) PROVE ~LeadsOutside(s) /\ w = <<"/">> /\ Resolved(s) = <<"/">>
    OBVIOUS
  <2>1. ~LeadsOutside(s) /\ kept = <<>> /\ Survivors(s) = {}
    BY <1>14
  <2>2. text = <<>>
    BY <1>4, <1>12, <2>1
  <2> HIDE DEF kept
  <2> QED
    BY <1>11, <1>13, <2>1, <2>2, ResolvedIs
<1>17. ASSUME ~Resolvable(s), ~LeadsOutside(s)
       PROVE  w \in Seq(Chars) /\ w # <<>> /\ w[1] # "/"
  <2>1. kept # <<>> /\ kept \in Seq(Plain)
    BY <1>4, <1>15, <1>17
  <2> HIDE DEF kept
  <2>2. text \in Seq(Chars) /\ Len(text) >= 2 /\ text[1] # "/" /\ text # <<>>
    BY <1>12, <2>1
  <2>3. CASE Last(s) = "/"
    BY <1>11, <1>13, <2>2, <2>3
  <2>4. CASE Last(s) # "/"
    <3>1. w = Front(text)
      BY <1>11, <1>13, <2>1, <2>2, <2>4
    <3>2. Front(text) \in Seq(Chars) /\ Len(Front(text)) = Len(text) - 1
          /\ \A k \in 1..(Len(text) - 1) : Front(text)[k] = text[k]
      BY <2>2, FrontIs
    <3>3. w \in Seq(Chars) /\ Len(w) = Len(text) - 1
          /\ \A k \in 1..(Len(text) - 1) : w[k] = text[k]
      BY <3>1, <3>2
    <3>4. Len(text) \in Nat /\ 1 \in 1..(Len(text) - 1) /\ Len(w) # 0
      BY <2>2, <3>3
    <3> QED
      BY <2>2, <3>3, <3>4
  <2> QED
    BY <2>3, <2>4
<1> QED
  BY <1>16, <1>17

\* One more segment is kept or not, one more part is flattened.
LEMMA KeptAppend ==
  ASSUME NEW S, NEW segments \in Seq(S), NEW e \in S
  PROVE  Kept(Append(segments, e)) = Keep(Kept(segments), e)
<1> DEFINE longer == Append(segments, e)
           N == Len(segments)
<1>1. N \in Nat /\ longer \in Seq(S) /\ Len(longer) = N + 1 /\ longer[N + 1] = e
      /\ \A k \in 1..N : longer[k] = segments[k]
  BY AppendIs
<1> HIDE DEF longer
<1>2. PICK f : Keeps(f, longer) /\ Kept(longer) = f[Len(longer)]
  BY <1>1, KeptReads
<1>3. PICK g : Keeps(g, segments) /\ Kept(segments) = g[N]
  BY KeptReads
<1> HIDE DEF N
<1>4. f[0] = g[0]
  BY <1>2, <1>3 DEF Keeps
<1>5. ASSUME NEW n \in 1..N, f[n - 1] = g[n - 1] PROVE f[n] = g[n]
  <2>1. n \in 1..Len(longer)
    BY <1>1
  <2>2. f[n] = Keep(f[n - 1], longer[n])
    BY <1>2, <2>1 DEF Keeps
  <2>3. g[n] = Keep(g[n - 1], segments[n])
    BY <1>3 DEF Keeps, N
  <2>4. longer[n] = segments[n]
    BY <1>1
  <2> QED
    BY <1>5, <2>2, <2>3, <2>4
<1>6. f[N] = g[N]
  <2>1. Alike(f, g, N)
    BY <1>4, <1>5 DEF Alike
  <2> QED
    BY <1>1, <2>1, Agree
<1>7. f[N + 1] = Keep(f[N], e)
  <2>1. N + 1 \in 1..Len(longer) /\ (N + 1) - 1 = N
    BY <1>1
  <2>2. f[N + 1] = Keep(f[(N + 1) - 1], longer[N + 1])
    BY <1>2, <2>1 DEF Keeps
  <2> QED
    BY <1>1, <2>1, <2>2
<1> QED
  BY <1>1, <1>2, <1>3, <1>6, <1>7 DEF longer

\* Characters without a slash are added to the last segment.
LEMMA SegmentsLonger ==
  ASSUME NEW S, NEW s \in Seq(S), NEW x \in Seq(S \ {"/"}), NEW t \in Seq(S),
         Len(t) = Len(s) + Len(x), \A i \in 1..Len(s) : t[i] = s[i],
         \A i \in 1..Len(x) : t[Len(s) + i] = x[i]
  PROVE  Segments(t) = Append(Front(Segments(s)), Last(Segments(s)) \o x)
<1> DEFINE N == Len(s)
           K == Len(x)
           Q == Seq(Seq(S \ {"/"})) \ {<<>>}
           X == Seq(S \ {"/"})
<1>1. N \in Nat /\ K \in Nat
  OBVIOUS
<1>2. PICK f \in [0..Len(t) -> Q] : Read(f, t) /\ Segments(t) = f[Len(t)]
  BY SegmentsRead
<1>3. PICK g \in [0..N -> Q] : Read(g, s) /\ Segments(s) = g[N]
  BY SegmentsRead
<1> DEFINE a == Front(g[N])
           z == Last(g[N])
<1>4. g[N] \in Q
  <2>1. N \in 0..N
    BY <1>1
  <2> HIDE DEF N, Q
  <2> QED
    BY <1>3, <2>1
<1>5. a \in Seq(X) /\ z \in X /\ Append(a, z) = g[N]
  <2> DEFINE h == g[N]
  <2>1. h \in Seq(X) /\ h # <<>>
    BY <1>4
  <2> HIDE DEF h, X
  <2>2. /\ Front(h) \in Seq(X) /\ Last(h) \in X /\ Last(h) = h[Len(h)] /\ Len(h) \in Nat /\ Len(h) >= 1
        /\ Len(Front(h)) = Len(h) - 1 /\ \A k \in 1..(Len(h) - 1) : Front(h)[k] = h[k]
    BY <2>1, FrontIs
  <2>3. /\ Append(Front(h), Last(h)) \in Seq(X) /\ Len(Append(Front(h), Last(h))) = Len(h)
        /\ Append(Front(h), Last(h))[Len(h)] = Last(h)
        /\ \A k \in 1..(Len(h) - 1) : Append(Front(h), Last(h))[k] = h[k]
    BY <2>1, <2>2, LastReplaced
  <2> DEFINE b == Append(Front(h), Last(h))
  <2>4. \A k \in 1..Len(h) : k \in 1..(Len(h) - 1) \/ k = Len(h)
    BY <2>2
  <2> HIDE DEF b
  <2>5. b \in Seq(X) /\ Len(b) = Len(h) /\ \A k \in 1..Len(h) : b[k] = h[k]
    BY <2>2, <2>3, <2>4 DEF b
  <2>6. b = h
    <3>1. h \in Seq(X)
      BY <2>1
    <3> QED
      BY ONLY <2>5, <3>1, SameSeq
  <2> QED
    BY <2>2, <2>6 DEF h, b
<1> HIDE DEF a, z, Q
<1>6. f[N] = g[N]
  <2>1. f[0] = g[0]
    BY <1>2, <1>3 DEF Read
  <2>2. ASSUME NEW n \in 1..N, f[n - 1] = g[n - 1] PROVE f[n] = g[n]
    <3>1. n \in 1..Len(t) /\ t[n] = s[n]
      BY <1>1
    <3>2. f[n] = Cut(f[n - 1], t[n])
      BY <1>2, <3>1 DEF Read
    <3>3. g[n] = Cut(g[n - 1], s[n])
      BY <1>3 DEF Read
    <3> QED
      BY <2>2, <3>1, <3>2, <3>3
  <2> HIDE DEF N
  <2>3. Alike(f, g, N)
    BY <2>1, <2>2 DEF Alike
  <2> QED
    BY <1>1, <2>3, Agree
<1> DEFINE P == {j \in 0..K : f[N + j] = Append(a, z \o SubSeq(x, 1, j))}
<1>7. 0 \in P
  <2>1. SubSeq(x, 1, 0) = <<>> /\ z \o <<>> = z
    BY <1>5
  <2>2. N + 0 = N /\ 0 \in 0..K
    BY <1>1
  <2> QED
    BY <1>5, <1>6, <2>1, <2>2
<1>8. ASSUME NEW j \in 0..(K - 1), j \in P PROVE j + 1 \in P
  <2>1. /\ j + 1 \in 0..K /\ j + 1 \in 1..K /\ N + (j + 1) \in 1..Len(t)
        /\ (N + (j + 1)) - 1 = N + j
    BY <1>1
  <2> DEFINE y == z \o SubSeq(x, 1, j)
             e == x[j + 1]
  <2>2. f[N + j] = Append(a, y)
    BY <1>8
  <2>3. e \in S \ {"/"} /\ t[N + (j + 1)] = e
    BY <2>1
  <2>4. y \in X /\ z \o SubSeq(x, 1, j + 1) = Append(y, e)
    <3>1. SubSeq(x, 1, j) \in Seq(S \ {"/"}) /\ SubSeq(x, 1, j + 1) = Append(SubSeq(x, 1, j), e)
      BY <1>1
    <3> DEFINE v == SubSeq(x, 1, j)
    <3>2. z \in Seq(S \ {"/"})
      BY <1>5
    <3> HIDE DEF v, e
    <3>3. v \in Seq(S \ {"/"})
      BY <3>1 DEF v
    <3>4. z \o v \in Seq(S \ {"/"}) /\ z \o Append(v, e) = Append(z \o v, e)
      BY <2>3, <3>2, <3>3
    <3> QED
      BY <3>1, <3>4 DEF v
  <2> HIDE DEF y, e
  <2>5. f[N + (j + 1)] = Cut(Append(a, y), e)
    <3>1. f[N + (j + 1)] = Cut(f[(N + (j + 1)) - 1], t[N + (j + 1)])
      BY <1>2, <2>1 DEF Read
    <3> QED
      BY <2>1, <2>2, <2>3, <3>1
  <2>6. Cut(Append(a, y), e) = Append(a, Append(y, e))
    <3> HIDE DEF X
    <3> DEFINE h == Append(a, y)
    <3>1. /\ h \in Seq(X) /\ Len(h) = Len(a) + 1 /\ h[Len(a) + 1] = y
          /\ \A k \in 1..Len(a) : h[k] = a[k]
      BY <1>5, <2>4, AppendIs
    <3> HIDE DEF h
    <3>2. Len(a) \in Nat /\ h # <<>>
      BY <1>5, <3>1
    <3>3. /\ Front(h) \in Seq(X) /\ Last(h) = h[Len(h)] /\ Len(Front(h)) = Len(h) - 1
          /\ \A k \in 1..(Len(h) - 1) : Front(h)[k] = h[k]
      BY <3>1, <3>2, FrontIs
    <3>4. Last(h) = y /\ Len(h) - 1 = Len(a)
      BY <3>1, <3>2, <3>3
    <3>5. Front(h) = a
      <4> DEFINE b == Front(h)
      <4> HIDE DEF b
      <4>1. b \in Seq(X) /\ Len(b) = Len(a) /\ \A k \in 1..Len(a) : b[k] = a[k]
        BY <3>1, <3>3, <3>4 DEF b
      <4>2. b = a
        BY <1>5, <4>1
      <4> QED
        BY <4>2 DEF b
    <3> QED
      BY <2>3, <3>4, <3>5 DEF Cut, h
  <2> QED
    BY <2>1, <2>4, <2>5, <2>6
<1> HIDE DEF P
<1>9. 0..K \subseteq P
  BY <1>1, <1>7, <1>8, UpTo
<1>10. K \in 0..K /\ SubSeq(x, 1, K) = x
  BY <1>1
<1>11. f[N + K] = Append(a, z \o x)
  BY <1>9, <1>10 DEF P
<1> QED
  BY <1>2, <1>3, <1>11 DEF a, z

\* A text is split where its only "?" is.
LEMMA SplitIs ==
  ASSUME NEW a \in Seq(Chars), "?" \notin ToSet(a), NEW query \in Seq(Chars),
         NEW w, w = a \o (<<"?">> \o query)
  PROVE  Before("?", w) = a /\ After("?", w) = query
<1> DEFINE L == Len(a)
           K == Len(query)
           x == <<"?">> \o query
           p == First("?", w)
<1>1. L \in Nat /\ K \in Nat
  OBVIOUS
<1>2. <<"?">> \in Seq(Chars) /\ Len(<<"?">>) = 1 /\ <<"?">>[1] = "?"
  BY DEF Chars
<1>3. /\ x \in Seq(Chars) /\ Len(x) = 1 + K /\ x[1] = "?"
      /\ \A i \in 1..K : x[1 + i] = query[i]
  <2>1. "?" \in Chars
    BY DEF Chars
  <2> QED
    BY <2>1, PrefixedHas
<1>4. w = a \o x
  OBVIOUS
<1> HIDE DEF x
<1>5. /\ w \in Seq(Chars) /\ Len(w) = L + (1 + K)
      /\ \A i \in 1..L : w[i] = a[i]
      /\ \A i \in 1..(1 + K) : w[L + i] = x[i]
  BY <1>3, <1>4, ConcatHas
<1>6. \A i \in 1..L : w[i] # "?"
  BY <1>5 DEF ToSet
<1> HIDE DEF L, K
<1>7. w[L + 1] = "?" /\ L + 1 \in 1..Len(w)
  <2>1. 1 \in 1..(1 + K) /\ L + 1 \in 1..Len(w)
    BY <1>1, <1>5
  <2> QED
    BY <1>3, <1>5, <2>1
<1>8. "?" \in ToSet(w)
  BY <1>5, <1>7 DEF ToSet
<1>9. /\ p \in 1..Len(w) /\ w[p] = "?" /\ \A j \in 1..(p - 1) : w[j] # "?"
  BY <1>5, <1>8, FirstIs
<1>10. Before("?", w) = SubSeq(w, 1, p - 1) /\ After("?", w) = SubSeq(w, p + 1, Len(w))
  BY <1>8 DEF Before, After
<1> HIDE DEF p
<1>11. p = L + 1
  <2>1. p \in Nat
    BY <1>9
  <2>2. ~ (p \in 1..L)
    BY <1>6, <1>9
  <2>3. ~ (L + 1 \in 1..(p - 1))
    BY <1>7, <1>9
  <2>4. p >= 1
    BY <1>9
  <2> QED
    BY <1>1, <2>1, <2>2, <2>3, <2>4
<1>12. SubSeq(w, 1, p - 1) = a
  <2> DEFINE b == SubSeq(w, 1, L)
  <2>1. b \in Seq(Chars) /\ Len(b) = L /\ \A i \in 1..L : b[i] = w[i]
    BY <1>1, <1>5
  <2>2. p - 1 = L
    BY <1>1, <1>11
  <2> HIDE DEF b
  <2>3. b = a
    BY <1>5, <2>1, SameSeq DEF L
  <2> QED
    BY <2>2, <2>3 DEF b
<1>13. SubSeq(w, p + 1, Len(w)) = query
  <2> DEFINE b == SubSeq(w, L + 2, L + (1 + K))
  <2>1. b \in Seq(Chars) /\ Len(b) = K /\ \A i \in 1..K : b[i] = w[(L + 1) + i]
    BY <1>1, <1>5
  <2>2. p + 1 = L + 2
    BY <1>1, <1>11
  <2>3. \A i \in 1..K : b[i] = query[i]
    <3> SUFFICES ASSUME NEW i \in 1..K PROVE b[i] = query[i]
      OBVIOUS
    <3>1. 1 + i \in 1..(1 + K) /\ (L + 1) + i = L + (1 + i)
      BY <1>1
    <3> HIDE DEF b
    <3>2. b[i] = w[L + (1 + i)]
      BY <2>1, <3>1
    <3> QED
      BY <1>3, <1>5, <3>1, <3>2
  <2> HIDE DEF b
  <2>4. b = query
    BY <2>1, <2>3, SameSeq DEF K
  <2> QED
    BY <1>5, <2>2, <2>4 DEF b
<1> QED
  BY <1>10, <1>12, <1>13

\* The last segment is empty when a slash ends the text, and otherwise the
\* name that ends it.
LEMMA LastSegment ==
  ASSUME NEW S, NEW s \in Seq(S), s # <<>>,
         NEW segments, Len(segments) \in Nat, Len(segments) >= 1, NEW c, Cuts(s, segments, c)
  PROVE  LET M == Len(segments)
         IN  /\ segments[M] = <<>> <=> Last(s) = "/"
             /\ Name(c, M)[2] = Len(s)
<1> DEFINE M == Len(segments)
           N == Len(s)
<1>1. M \in Nat /\ M >= 1 /\ M \in 1..M /\ N \in Nat /\ N >= 1 /\ Last(s) = s[N]
  BY DEF Last
<1>2. c[1] = 0 /\ c[M + 1] = N + 1 /\ \A k \in 2..M : s[c[k]] = "/"
  BY DEF Cuts
<1>3. c[M] \in Nat /\ c[M] < c[M + 1]
  <2>1. M \in 1..(M + 1) /\ M + 1 \in 1..(M + 1) /\ M < M + 1
    BY <1>1
  <2> QED
    BY <1>1, <2>1, CutsAre
<1>4. /\ segments[M] # <<>> <=> c[M] + 1 <= c[M + 1] - 1
      /\ segments[M] # <<>> => Name(c, M) \in Names(s)
  BY <1>1, NamesHave
<1>5. Name(c, M)[1] = c[M] + 1 /\ Name(c, M)[2] = N
  <2>1. Name(c, M)[2] = c[M + 1] - 1
    BY DEF Name
  <2> HIDE DEF N, M
  <2>2. (N + 1) - 1 = N
    BY <1>1
  <2> QED
    BY <1>2, <2>1, <2>2 DEF Name
<1> DEFINE y == c[M]
<1>6. y \in Nat /\ y < N + 1 /\ (segments[M] # <<>> <=> y + 1 <= (N + 1) - 1)
  BY <1>2, <1>3, <1>4
<1> HIDE DEF y, N, M
<1>7. ASSUME segments[M] = <<>> PROVE Last(s) = "/"
  <2>1. y = N
    <3>1. ~ (y + 1 <= (N + 1) - 1)
      BY <1>6, <1>7
    <3> QED
      BY <1>1, <1>6, <3>1
  <2>2. M # 1
    BY <1>1, <1>2, <2>1 DEF y
  <2>3. M \in 2..M
    BY <1>1, <2>2
  <2> QED
    BY <1>1, <1>2, <2>1, <2>3 DEF y
<1>8. ASSUME segments[M] # <<>> PROVE Last(s) # "/"
  <2> DEFINE r == Name(c, M)
  <2>1. r \in Names(s) /\ r[1] = y + 1 /\ r[2] = N
    BY <1>4, <1>5, <1>8 DEF y
  <2> HIDE DEF r
  <2>2. \A i \in r[1]..r[2] : s[i] # "/"
    BY <2>1 DEF Names
  <2>3. y + 1 <= (N + 1) - 1
    BY <1>6, <1>8
  <2>4. N \in (y + 1)..N
    BY <1>1, <1>6, <2>3
  <2> QED
    BY <1>1, <2>1, <2>2, <2>4
<1> QED
  BY <1>5, <1>7, <1>8 DEF M, N

\* What is joined when a name is kept last, and no slash ends the text; and
\* when one does.
Base(kept) == <<"/">> \o FlattenSeq(Parts(kept))

LEMMA JoinEnds ==
  ASSUME NEW s, Head(s) = "/", NEW kept \in Seq(Plain)
  PROVE  /\ Base(kept) \in Seq(Chars)
         /\ Last(s) = "/" => Join(s, kept) = Base(kept)
         /\ Last(s) # "/" => \A z \in Plain : Join(s, Append(kept, z)) = Base(kept) \o z
<1> DEFINE base == Base(kept)
<1>1. base \in Seq(Chars) /\ Inside(base)
  BY AbsoluteInside DEF Base
<1>2. base # <<>>
  BY <1>1 DEF Inside
<1>3. ASSUME NEW more
      PROVE  Join(s, more) = IF Base(more) = <<>> THEN <<"/">>
                             ELSE IF more # <<>> /\ Last(s) # "/" THEN Front(Base(more)) ELSE Base(more)
  BY DEF Join, Base, Parts
<1> HIDE DEF base
<1>4. ASSUME Last(s) = "/" PROVE Join(s, kept) = base
  BY <1>2, <1>3, <1>4 DEF base
<1>5. ASSUME Last(s) # "/", NEW z \in Plain PROVE Join(s, Append(kept, z)) = base \o z
  <2> DEFINE more == Append(kept, z)
             parts == Parts(kept)
             flat == FlattenSeq(parts)
             part == Append(z, "/")
             w == <<"/">>
  <2>1. more \in Seq(Plain) /\ Len(more) = Len(kept) + 1 /\ more[Len(kept) + 1] = z
        /\ \A k \in 1..Len(kept) : more[k] = kept[k]
    BY AppendIs
  <2>2. more # <<>> /\ Len(kept) \in Nat
    BY <2>1
  <2> HIDE DEF more
  <2>3. /\ Parts(more) \in Seq(Seq(Chars)) /\ Len(Parts(more)) = Len(more)
        /\ \A i \in 1..Len(more) : more[i] \in Plain /\ Parts(more)[i] = Append(more[i], "/")
    BY <2>1, PartsAre
  <2>4. /\ parts \in Seq(Seq(Chars)) /\ Len(parts) = Len(kept)
        /\ \A i \in 1..Len(kept) : kept[i] \in Plain /\ parts[i] = Append(kept[i], "/")
    BY PartsAre
  <2>5. z \in Seq(Chars) /\ "/" \in Chars /\ w \in Seq(Chars)
    BY DEF Plain, Left, NoSlash, Chars
  <2>6. part \in Seq(Chars) /\ part = z \o w
    BY <2>5, AppendIs, AppendIsConcatenation
  <2> HIDE DEF parts, part
  <2>7. Parts(more) = Append(parts, part)
    <3> DEFINE X == Seq(Chars)
               longer == Append(parts, part)
               m == Parts(more)
               n == Len(kept)
    <3>1. parts \in Seq(X) /\ part \in X
      BY <2>4, <2>6
    <3> HIDE DEF X
    <3>2. /\ longer \in Seq(X) /\ Len(longer) = Len(parts) + 1
          /\ longer[Len(parts) + 1] = part /\ \A k \in 1..Len(parts) : longer[k] = parts[k]
      BY <3>1, AppendIs
    <3> HIDE DEF longer
    <3>3. /\ longer \in Seq(X) /\ Len(longer) = n + 1
          /\ longer[n + 1] = part /\ \A k \in 1..n : longer[k] = parts[k]
      BY <2>4, <3>2
    <3>4. m \in Seq(X) /\ Len(m) = n + 1
      BY <2>1, <2>3 DEF X
    <3>5. m[n + 1] = part
      <4>1. n + 1 \in 1..Len(more)
        BY <2>1, <2>2
      <4> QED
        BY <2>1, <2>3, <4>1 DEF part
    <3>6. ASSUME NEW k \in 1..n PROVE m[k] = parts[k]
      <4>1. k \in 1..Len(more)
        BY <2>1, <2>2
      <4>2. m[k] = Append(more[k], "/")
        BY <2>3, <4>1
      <4> QED
        BY <2>1, <2>4, <4>2
    <3> HIDE DEF m, n
    <3>7. n \in Nat
      BY <2>2 DEF n
    <3>8. \A k \in 1..(n + 1) : k \in 1..n \/ k = n + 1
      BY <3>7
    <3>9. \A k \in 1..(n + 1) : m[k] = longer[k]
      BY <3>3, <3>5, <3>6, <3>8
    <3>10. m = longer
      BY ONLY <3>3, <3>4, <3>9, SameSeq
    <3> QED
      BY <3>10 DEF m, longer
  <2>8. FlattenSeq(Parts(more)) = flat \o part
    BY <2>4, <2>6, <2>7, FlattenSeqAppend
  <2>9. flat \in Seq(Chars)
    BY <2>4, FlattenSeqIs
  <2>10. base = w \o flat
    BY DEF base, Base, parts
  <2> HIDE DEF flat, w
  <2>11. Base(more) = (base \o z) \o w
    <3>1. Base(more) = w \o (flat \o (z \o w))
      BY <2>6, <2>8 DEF Base, w
    <3>2. z \o w \in Seq(Chars)
      BY <2>5, ConcatIs
    <3>3. (w \o flat) \o (z \o w) = w \o (flat \o (z \o w))
      BY <2>5, <2>9, <3>2, Assoc
    <3>4. (base \o z) \o w = base \o (z \o w)
      BY <1>1, <2>5, Assoc
    <3> QED
      BY <2>10, <3>1, <3>3, <3>4
  <2> DEFINE h == base \o z
             t == Base(more)
  <2>12. h \in Seq(Chars)
    BY <1>1, <2>5, ConcatIs
  <2> HIDE DEF h
  <2>13. t = Append(h, "/")
    BY <2>5, <2>11, <2>12, AppendIsConcatenation DEF w, h
  <2>14. t \in Seq(Chars) /\ Len(t) = Len(h) + 1 /\ \A k \in 1..Len(h) : t[k] = h[k]
    BY <2>5, <2>12, <2>13, AppendIs
  <2> HIDE DEF t
  <2>15. Len(h) \in Nat /\ t # <<>>
    BY <2>12, <2>14
  <2>16. Front(t) = h
    <3>1. Front(t) \in Seq(Chars) /\ Len(Front(t)) = Len(t) - 1
          /\ \A k \in 1..(Len(t) - 1) : Front(t)[k] = t[k]
      BY <2>14, <2>15, FrontIs
    <3>2. Len(t) - 1 = Len(h)
      BY <2>14, <2>15
    <3> DEFINE f == Front(t)
    <3> HIDE DEF f
    <3>3. f \in Seq(Chars) /\ Len(f) = Len(h) /\ \A k \in 1..Len(h) : f[k] = h[k]
      BY <2>14, <3>1, <3>2 DEF f
    <3>4. f = h
      BY ONLY <2>12, <3>3, SameSeq
    <3> QED
      BY <3>4 DEF f
  <2>17. Join(s, more) = Front(t)
    BY <1>3, <1>5, <2>2, <2>15 DEF t
  <2> QED
    BY <2>16, <2>17 DEF h, more
<1> QED
  BY <1>1, <1>4, <1>5 DEF base

\* A query after a path that ends in a slash or an ordinary name: it is kept
\* with the last segment, and split off again.
Ordinary(path) ==
  /\ path # <<>> /\ path[1] = "/" /\ "?" \notin ToSet(path)
  /\ \A r \in Names(path) : r[2] = Len(path) => r \in Downs(path)

Splits(whole, path, query) == Before("?", whole) = Resolved(path) /\ After("?", whole) = query

LEMMA QueryJoined ==
  ASSUME NEW path \in Seq(Chars), Ordinary(path),
         NEW query \in Seq(Chars \ {"/"}),
         NEW text \in Seq(Chars), text = path \o (<<"?">> \o query), ~LeadsOutside(text),
         NEW whole, whole = Join(text, Kept(Segments(text)))
  PROVE  Splits(whole, path, query)
<1> USE DEF Ordinary
<1> DEFINE N == Len(path)
           K == Len(query)
           x == <<"?">> \o query
           segments == Segments(path)
           M == Len(segments)
           a == Front(segments)
           e == Last(segments)
           z == e \o x
           kept == Kept(a)
<1>1. N \in Nat /\ N >= 1 /\ K \in Nat /\ Head(path) = "/"
  OBVIOUS
<1>2. /\ x \in NoSlash /\ Len(x) = 1 + K /\ x[1] = "?"
      /\ \A i \in 1..K : x[1 + i] = query[i]
  <2>1. "?" \in Chars \ {"/"}
    BY DEF Chars
  <2> QED
    BY <2>1, PrefixedHas DEF NoSlash
<1>3. NoSlash \subseteq Seq(Chars)
  BY DEF NoSlash
<1>4. x \in Seq(Chars) /\ text = path \o x
  BY <1>2, <1>3
<1> HIDE DEF x
<1>5. /\ Len(text) = N + Len(x)
      /\ \A i \in 1..N : text[i] = path[i]
      /\ \A i \in 1..Len(x) : text[N + i] = x[i]
  <2>1. path \in Seq(Chars)
    OBVIOUS
  <2> QED
    BY ONLY <1>4, <2>1, ConcatHas DEF N
<1>6. Head(text) = "/"
  <2>1. 1 \in 1..N /\ text # <<>>
    BY <1>1, <1>2, <1>5
  <2>2. text[1] = "/"
    BY <1>5, <2>1
  <2> QED
    BY <2>1, <2>2
<1>7. Last(text) # "/"
  <2>1. Last(text) = text[N + (1 + K)]
    BY <1>2, <1>5 DEF Last
  <2>2. text[N + (1 + K)] = x[1 + K]
    <3>1. 1 + K \in 1..Len(x)
      BY <1>1, <1>2
    <3> QED
      BY <1>5, <3>1
  <2>3. x[1 + K] # "/"
    <3> HIDE DEF K
    <3>1. CASE K = 0
      <4>1. 1 + K = 1
        BY <3>1
      <4> QED
        BY <1>2, <4>1
    <3>2. CASE K # 0
      <4>1. K \in 1..K
        BY <1>1, <3>2
      <4>2. x[1 + K] = query[K]
        BY <1>2, <4>1
      <4>3. query[K] \in Chars \ {"/"}
        BY <4>1 DEF K
      <4> QED
        BY <4>2, <4>3
    <3> QED
      BY <3>1, <3>2
  <2> QED
    BY <2>1, <2>2, <2>3
<1>8. segments = Segments(path)
  OBVIOUS
<1> HIDE DEF segments
<1>9. segments \in Seq(NoSlash) /\ M >= 1 /\ \E c : Cuts(path, segments, c)
  BY <1>8, SegmentsCut DEF NoSlash
<1>10. M \in Nat /\ M \in 1..M /\ segments # <<>>
  BY <1>9
<1>11. /\ a \in Seq(NoSlash) /\ e \in NoSlash /\ e = segments[M] /\ Len(a) = M - 1
       /\ \A k \in 1..(M - 1) : a[k] = segments[k]
  BY <1>9, <1>10, FrontIs
<1>12. segments = Append(a, e)
  <2> DEFINE b == Append(a, e)
  <2> HIDE DEF a, e, M
  <2>1. b \in Seq(NoSlash) /\ Len(b) = Len(a) + 1 /\ b[Len(a) + 1] = e /\ \A k \in 1..Len(a) : b[k] = a[k]
    BY <1>11, AppendIs
  <2>2. (M - 1) + 1 = M
    BY <1>10
  <2> HIDE DEF b
  <2>3. Len(b) = M /\ b[M] = e /\ \A k \in 1..(M - 1) : b[k] = segments[k]
    BY <1>11, <2>1, <2>2
  <2>4. \A k \in 1..M : k \in 1..(M - 1) \/ k = M
    BY <1>10
  <2>5. \A k \in 1..M : b[k] = segments[k]
    BY <1>11, <2>3, <2>4
  <2>6. b = segments
    BY <1>9, <2>1, <2>3, <2>5, SameSeq DEF M
  <2> QED
    BY <2>6 DEF b
<1>13. Segments(text) = Append(a, z)
  <2>1. x \in Seq(Chars \ {"/"})
    BY <1>2 DEF NoSlash
  <2>2. Segments(text) = Append(Front(Segments(path)), Last(Segments(path)) \o x)
    BY <1>5, <2>1, SegmentsLonger
  <2> QED
    BY <1>8, <2>2
<1>14. z \in NoSlash /\ Len(e) \in Nat /\ Len(z) = Len(e) + (1 + K) /\ z[Len(e) + 1] = "?"
  <2> DEFINE T == Chars \ {"/"}
  <2>1. e \in Seq(T) /\ x \in Seq(T)
    BY <1>2, <1>11 DEF NoSlash
  <2> HIDE DEF T, e, z
  <2>2. /\ e \o x \in Seq(T) /\ Len(e \o x) = Len(e) + Len(x)
        /\ \A i \in 1..Len(x) : (e \o x)[Len(e) + i] = x[i]
    BY <2>1, ConcatHas
  <2>3. 1 \in 1..Len(x) /\ Len(e) \in Nat
    BY <1>1, <1>2, <2>1
  <2> QED
    BY <1>2, <2>2, <2>3 DEF T, NoSlash, z
<1> HIDE DEF z
<1>15. IsDown(z)
  <2> DEFINE m == Len(e)
  <2>1. z # <<>>
    <3>1. m + (1 + K) # 0
      BY <1>1, <1>14
    <3> QED
      BY <1>14, <3>1
  <2>2. ASSUME z = <<".">> PROVE FALSE
    <3>1. Len(z) = 1 /\ z[1] = "."
      BY <2>2
    <3>2. m + 1 = 1
      <4> HIDE DEF m, K
      <4>1. m \in Nat /\ m + (1 + K) = 1
        BY <1>14, <3>1 DEF m
      <4> QED
        BY <1>1, <4>1
    <3> QED
      BY <1>14, <3>1, <3>2
  <2>3. ASSUME z = Up PROVE FALSE
    <3>1. Len(z) = 2 /\ z[1] = "." /\ z[2] = "."
      BY <2>3 DEF Up
    <3>2. m + 1 = 1 \/ m + 1 = 2
      <4> HIDE DEF m, K
      <4>1. m \in Nat /\ m + (1 + K) = 2
        BY <1>14, <3>1 DEF m
      <4> QED
        BY <1>1, <4>1
    <3> QED
      BY <1>14, <3>1, <3>2
  <2> QED
    BY <2>1, <2>2, <2>3 DEF IsDown
<1>16. PICK c : Cuts(path, segments, c)
  BY <1>9
<1>17. (e = <<>> <=> Last(path) = "/") /\ Name(c, M)[2] = N
  BY <1>9, <1>10, <1>11, <1>16, LastSegment
<1>18. e = <<>> \/ IsDown(e)
  <2> SUFFICES ASSUME e # <<>> PROVE IsDown(e)
    OBVIOUS
  <2>1. Name(c, M) \in Names(path)
    BY <1>10, <1>11, <1>16, NamesHave
  <2>2. Name(c, M) \in Downs(path)
    BY <1>17, <2>1
  <2> QED
    BY <1>10, <1>11, <1>16, <2>2, Kinds
<1> HIDE DEF a, e
<1>19. Kept(Segments(text)) = Append(kept, z)
  <2>1. Kept(Append(a, z)) = Keep(Kept(a), z)
    BY <1>11, <1>14, KeptAppend
  <2> QED
    BY <1>13, <1>15, <2>1, KeepIs
<1>20. Kept(segments) = IF e = <<>> THEN kept ELSE Append(kept, e)
  <2>1. Kept(Append(a, e)) = Keep(Kept(a), e)
    BY <1>11, KeptAppend
  <2>2. Keep(kept, e) = IF e = <<>> THEN kept ELSE Append(kept, e)
    <3>1. CASE e = <<>>
      BY <3>1, KeepIs
    <3>2. CASE e # <<>>
      BY <1>18, <3>2, KeepIs
    <3> QED
      BY <3>1, <3>2
  <2> QED
    BY <1>12, <2>1, <2>2
<1>21. Append(kept, z) \in Seq(Plain)
  BY <1>19, KeptPlain
<1>22. kept \in Seq(NoSlash)
  <2>1. PICK f \in [0..Len(a) -> Seq(NoSlash \ {<<>>, <<".">>})] : kept = f[Len(a)]
    BY <1>11, KeptReads
  <2>2. Len(a) \in 0..Len(a)
    BY <1>11
  <2> HIDE DEF kept
  <2>3. kept \in Seq(NoSlash \ {<<>>, <<".">>})
    BY ONLY <2>1, <2>2
  <2>4. \A X, Y : X \subseteq Y => Seq(X) \subseteq Seq(Y)
    OBVIOUS
  <2>5. NoSlash \ {<<>>, <<".">>} \subseteq NoSlash
    OBVIOUS
  <2> QED
    BY ONLY <2>3, <2>4, <2>5
<1> HIDE DEF kept
<1>23. kept \in Seq(Plain) /\ z \in Plain
  <2> DEFINE longer == Append(kept, z)
  <2>1. /\ Len(longer) = Len(kept) + 1 /\ longer[Len(kept) + 1] = z
        /\ \A k \in 1..Len(kept) : longer[k] = kept[k]
    BY <1>14, <1>22, AppendIs
  <2>2. longer \in Seq(Plain)
    BY <1>21
  <2> HIDE DEF longer
  <2>3. Len(kept) \in Nat
    BY <1>22
  <2>4. \A k \in 1..(Len(kept) + 1) : longer[k] \in Plain
    BY <2>1, <2>2
  <2>5. Len(kept) + 1 \in 1..(Len(kept) + 1) /\ \A k \in 1..Len(kept) : k \in 1..(Len(kept) + 1)
    BY <2>3
  <2>6. z \in Plain /\ \A k \in 1..Len(kept) : kept[k] \in Plain
    BY <2>1, <2>4, <2>5
  <2> QED
    BY <1>22, <2>6
<1>24. e # <<>> => e \in Plain
  BY <1>11, <1>18 DEF Plain, Left, IsDown
<1>25. ~LeadsOutside(path)
  <2>1. Kept(segments) \in Seq(Plain)
    <3>1. e # <<>> => Append(kept, e) \in Seq(Plain)
      BY <1>23, <1>24, AppendIs
    <3> QED
      BY <1>20, <1>23, <3>1
  <2>2. \A i \in DOMAIN Kept(segments) : Kept(segments)[i] # Up
    <3> DEFINE q == Kept(segments)
    <3> HIDE DEF q
    <3>1. q \in Seq(Plain)
      BY <2>1 DEF q
    <3>2. \A i \in DOMAIN q : q[i] \in Plain
      BY <3>1
    <3> QED
      BY <3>2 DEF Plain, q
  <2>3. Up \notin ToSet(Kept(segments))
    BY <2>2 DEF ToSet
  <2> QED
    BY <1>1, <1>8, <2>3 DEF LeadsOutside
<1> DEFINE base == Base(kept)
<1>26. Resolved(path) = base \o e
  <2>1. Resolved(path) = Join(path, Kept(segments))
    BY <1>8, <1>25, AbsoluteResolved
  <2>2. CASE e = <<>>
    <3>1. base \in Seq(Chars) /\ Join(path, kept) = base
      BY <1>1, <1>17, <1>23, <2>2, JoinEnds
    <3>2. base \o <<>> = base
      BY <3>1, EmptyConcat
    <3> QED
      BY <1>20, <2>1, <2>2, <3>1, <3>2
  <2>3. CASE e # <<>>
    <3>1. \A y \in Plain : Join(path, Append(kept, y)) = base \o y
      BY <1>1, <1>17, <1>23, <2>3, JoinEnds
    <3> QED
      BY <1>20, <1>24, <2>1, <2>3, <3>1
  <2> QED
    BY <2>2, <2>3
<1>27. base \in Seq(Chars) /\ whole = base \o z
  <2>1. base \in Seq(Chars) /\ \A y \in Plain : Join(text, Append(kept, y)) = base \o y
    BY <1>6, <1>7, <1>23, JoinEnds
  <2> QED
    BY <1>19, <1>23, <2>1
<1> HIDE DEF base
<1>28. e \in Seq(Chars) /\ query \in Seq(Chars)
  BY <1>3, <1>11
<1> DEFINE resolved == Resolved(path)
<1>29. resolved \in Seq(Chars) /\ "?" \notin ToSet(resolved)
  <2>1. resolved \in Seq(Chars)
    BY <1>26, <1>27, <1>28, ConcatIs
  <2> DEFINE T == ToSet(path) \cup {"/"}
  <2>2. resolved \in Seq(T)
    BY ResolvedIs
  <2>3. "?" \notin T
    OBVIOUS
  <2> HIDE DEF T, resolved
  <2>4. \A i \in DOMAIN resolved : resolved[i] \in T
    BY <2>2
  <2> QED
    BY <2>1, <2>3, <2>4 DEF ToSet
<1>30. whole = resolved \o (<<"?">> \o query)
  <2>1. (base \o e) \o x = base \o (e \o x)
    BY <1>4, <1>27, <1>28, Assoc
  <2> QED
    BY <1>26, <1>27, <2>1 DEF z, x
<1> HIDE DEF resolved
<1> QED
  BY <1>28, <1>29, <1>30, SplitIs DEF resolved, Splits

\* Decoding does not move the only "?" of a text.
LEMMA QueryDecoded ==
  ASSUME NEW sent \in Seq(STRING), Count("?", sent) = 1, "%3f" \notin ToSet(sent)
  PROVE  /\ Decode(Before("?", sent)) \in Seq(Chars) /\ Decode(After("?", sent)) \in Seq(Chars)
         /\ "?" \notin ToSet(Decode(Before("?", sent)))
         /\ Decode(sent) = Decode(Before("?", sent)) \o (<<"?">> \o Decode(After("?", sent)))
<1> DEFINE p == First("?", sent)
           N == Len(sent)
           path == Decode(Before("?", sent))
           query == Decode(After("?", sent))
           text == Decode(sent)
           x == <<"?">> \o query
           D(ch) == IF ch \in DOMAIN Encoded THEN Encoded[ch] ELSE ch
<1>1. N \in Nat /\ \A i \in 1..N : sent[i] \in STRING /\ sent[i] # "%3f"
  BY DEF ToSet
<1>2. "?" \in ToSet(sent)
  <2> SUFFICES ASSUME "?" \notin ToSet(sent) PROVE FALSE
    OBVIOUS
  <2>1. {i \in DOMAIN sent : sent[i] = "?"} = {}
    BY DEF ToSet
  <2>2. Count("?", sent) = 0
    BY <2>1, FS_EmptySet DEF Count
  <2> QED
    BY <2>2
<1>3. p \in 1..N /\ sent[p] = "?" /\ \A j \in 1..(p - 1) : sent[j] # "?"
  BY <1>2, FirstIs
<1>4. Before("?", sent) = SubSeq(sent, 1, p - 1) /\ After("?", sent) = SubSeq(sent, p + 1, N)
  BY <1>2 DEF Before, After
<1>5. DOMAIN Encoded = {"%2e", "%2f", "%3f"} /\ Encoded["%2e"] = "." /\ Encoded["%2f"] = "/"
      /\ Encoded["%3f"] = "?"
  BY DEF Encoded
<1>6. /\ D("?") = "?"
      /\ \A ch \in STRING : D(ch) \in Chars /\ (ch # "?" /\ ch # "%3f" => D(ch) # "?")
  <2>1. "?" \notin {"%2e", "%2f", "%3f"}
    OBVIOUS
  <2>2. \A ch \in {"%2e", "%2f"} : D(ch) # "?" /\ D(ch) \in Chars
    BY <1>5 DEF Chars
  <2>3. D("%3f") \in Chars
    BY <1>5 DEF Chars
  <2>4. \A ch : ch \notin {"%2e", "%2f", "%3f"} => D(ch) = ch
    BY <1>5
  <2>5. STRING \subseteq Chars
    BY DEF Chars
  <2> HIDE DEF D
  <2> QED
    BY <2>1, <2>2, <2>3, <2>4, <2>5
<1>7. ASSUME NEW S, NEW s \in Seq(S) PROVE Len(Decode(s)) = Len(s) /\ \A i \in 1..Len(s) : Decode(s)[i] = D(s[i])
  <2> DEFINE T == {D(s[i]) : i \in 1..Len(s)}
             d == [i \in 1..Len(s) |-> D(s[i])]
  <2>1. Decode(s) = d
    BY DEF Decode
  <2>2. d \in [1..Len(s) -> T] /\ \A i \in 1..Len(s) : d[i] = D(s[i])
    OBVIOUS
  <2>3. Len(s) \in Nat
    OBVIOUS
  <2> HIDE DEF d, T, D
  <2>4. Len(d) = Len(s)
    BY <2>2, <2>3, SeqOfLength
  <2> QED
    BY <2>1, <2>2, <2>4
<1> HIDE DEF D
<1>8. /\ Len(text) = N /\ \A i \in 1..N : text[i] = D(sent[i])
  BY <1>7
<1>9. text \in Seq(Chars) /\ path \in Seq(Chars) /\ query \in Seq(Chars)
  <2>1. Before("?", sent) \in Seq(STRING) /\ After("?", sent) \in Seq(STRING)
    BY BeforeIs
  <2> QED
    BY <2>1, DecodeIs
<1>10. /\ Len(path) = p - 1 /\ \A i \in 1..(p - 1) : path[i] = D(sent[i])
  <2> DEFINE b == SubSeq(sent, 1, p - 1)
  <2> HIDE DEF p, N
  <2>1. p - 1 \in Nat /\ p - 1 <= N
    BY <1>1, <1>3
  <2>2. b \in Seq(STRING) /\ Len(b) = p - 1 /\ \A i \in 1..(p - 1) : b[i] = sent[i]
    BY <2>1, <1>1 DEF N
  <2> HIDE DEF b
  <2>3. path = Decode(b)
    BY <1>4 DEF b
  <2>4. Len(Decode(b)) = Len(b) /\ \A i \in 1..Len(b) : Decode(b)[i] = D(b[i])
    BY <2>2, <1>7
  <2> HIDE DEF path
  <2> QED
    BY <2>2, <2>3, <2>4
<1>11. /\ Len(query) = N - p /\ \A i \in 1..(N - p) : query[i] = D(sent[p + i])
  <2> DEFINE b == SubSeq(sent, p + 1, N)
  <2> HIDE DEF p
  <2>1. p \in Nat /\ p >= 1 /\ p <= N
    BY <1>1, <1>3
  <2>2. b \in Seq(STRING) /\ Len(b) = N - p /\ \A i \in 1..(N - p) : b[i] = sent[p + i]
    BY <2>1, <1>1
  <2> HIDE DEF b, N
  <2>3. query = Decode(b)
    BY <1>4 DEF b
  <2>4. Len(Decode(b)) = Len(b) /\ \A i \in 1..Len(b) : Decode(b)[i] = D(b[i])
    BY <2>2, <1>7
  <2> HIDE DEF query
  <2> QED
    BY <2>2, <2>3, <2>4
<1> HIDE DEF p, N, path, query, text
<1>12. "?" \notin ToSet(path)
  <2> SUFFICES ASSUME NEW i \in DOMAIN path PROVE path[i] # "?"
    BY DEF ToSet
  <2>1. i \in 1..(p - 1) /\ i \in 1..N
    BY <1>1, <1>3, <1>9, <1>10
  <2> QED
    BY <1>1, <1>3, <1>6, <1>10, <2>1
<1>13. text = path \o x
  <2>1. /\ x \in Seq(Chars) /\ Len(x) = 1 + Len(query) /\ x[1] = "?"
        /\ \A i \in 1..Len(query) : x[1 + i] = query[i]
    <3>1. "?" \in Chars
      BY DEF Chars
    <3> QED
      BY <1>9, <3>1, PrefixedHas
  <2> DEFINE y == path \o x
  <2> HIDE DEF x
  <2>2. /\ y \in Seq(Chars) /\ Len(y) = Len(path) + Len(x)
        /\ \A i \in 1..Len(path) : y[i] = path[i]
        /\ \A i \in 1..Len(x) : y[Len(path) + i] = x[i]
    <3>1. path \in Seq(Chars) /\ x \in Seq(Chars)
      BY <1>9, <2>1
    <3>2. /\ path \o x \in Seq(Chars) /\ Len(path \o x) = Len(path) + Len(x)
          /\ \A i \in 1..Len(path) : (path \o x)[i] = path[i]
          /\ \A i \in 1..Len(x) : (path \o x)[Len(path) + i] = x[i]
      BY ONLY <3>1, ConcatHas
    <3> QED
      BY <3>2
  <2> HIDE DEF y
  <2>3. p \in Nat /\ p >= 1 /\ p <= N
    BY <1>1, <1>3
  <2>4. Len(x) = 1 + (N - p) /\ Len(y) = N
    BY <1>1, <1>10, <1>11, <2>1, <2>2, <2>3
  <2>5. ASSUME NEW i \in 1..N PROVE text[i] = y[i]
    <3>1. CASE i \in 1..(p - 1)
      BY <1>8, <1>10, <2>2, <3>1
    <3>2. CASE i = p
      <4>1. 1 \in 1..Len(x) /\ (p - 1) + 1 = p
        BY <1>1, <2>3, <2>4
      <4>2. y[(p - 1) + 1] = x[1]
        BY <1>10, <2>2, <4>1
      <4>3. text[p] = "?"
        BY <1>3, <1>6, <1>8
      <4> QED
        BY <2>1, <3>2, <4>1, <4>2, <4>3
    <3>3. CASE i > p
      <4>1. /\ i - p \in 1..(N - p) /\ 1 + (i - p) \in 1..Len(x)
            /\ (p - 1) + (1 + (i - p)) = i /\ p + (i - p) = i
        BY <1>1, <2>3, <2>4, <3>3
      <4>2. y[(p - 1) + (1 + (i - p))] = x[1 + (i - p)]
        BY <1>10, <2>2, <4>1
      <4>3. x[1 + (i - p)] = query[i - p]
        BY <1>11, <2>1, <4>1
      <4>4. query[i - p] = D(sent[p + (i - p)])
        BY <1>11, <4>1
      <4> QED
        BY <1>8, <4>1, <4>2, <4>3, <4>4
    <3>4. i \in 1..(p - 1) \/ i = p \/ i > p
      BY <2>3
    <3> QED
      BY <3>1, <3>2, <3>3, <3>4
  <2>6. Len(text) = Len(y) /\ \A i \in 1..Len(y) : text[i] = y[i]
    BY <1>8, <2>4, <2>5
  <2>7. text = y
    BY ONLY <1>9, <2>2, <2>6, SameSeq
  <2> QED
    BY <2>7 DEF y
<1> QED
  BY <1>9, <1>12, <1>13 DEF path, query, text, x

\* What set_request_uri gives, read with its conditions.
LEMMA UriGiven ==
  ASSUME NEW uri \in Seq(STRING), NEW r, r = set_request_uri(uri),
         NEW text, text = Decode(Before("#", uri)), text # <<>>,
         NEW whole, whole = Join(text, Kept(Segments(text))),
         NEW path, path = Before("?", whole)
  PROVE  /\ r.uri # <<>> <=> /\ "^" \notin ToSet(uri) /\ ~Undecodable(Before("#", uri))
                             /\ ~LeadsOutside(text) /\ path # <<>> /\ path[1] = "/"
                             /\ ~(Len(path) > MaxUriLength)
         /\ r.uri # <<>> => r.uri = path /\ r.query = After("?", whole)
<1> DEFINE sent == Before("#", uri)
<1>1. CASE "^" \in ToSet(uri) \/ Undecodable(sent)
  BY <1>1 DEF set_request_uri, Refused
<1>2. CASE ~("^" \in ToSet(uri) \/ Undecodable(sent)) /\ LeadsOutside(text)
  BY <1>2 DEF set_request_uri, Refused
<1>3. CASE /\ ~("^" \in ToSet(uri) \/ Undecodable(sent)) /\ ~LeadsOutside(text)
           /\ path = <<>> \/ path[1] # "/"
  BY <1>3 DEF set_request_uri, Refused
<1>4. CASE /\ ~("^" \in ToSet(uri) \/ Undecodable(sent)) /\ ~LeadsOutside(text)
           /\ ~(path = <<>> \/ path[1] # "/") /\ Len(path) > MaxUriLength
  BY <1>4 DEF set_request_uri, Refused
<1>5. CASE /\ ~("^" \in ToSet(uri) \/ Undecodable(sent)) /\ ~LeadsOutside(text)
           /\ ~(path = <<>> \/ path[1] # "/") /\ ~(Len(path) > MaxUriLength)
  BY <1>5 DEF set_request_uri
<1> QED
  BY <1>1, <1>2, <1>3, <1>4, <1>5

\* A slash at the beginning is before the first "?".
LEMMA BeforeRooted ==
  ASSUME NEW w \in Seq(Chars), w # <<>>, w[1] = "/"
  PROVE  Before("?", w) # <<>> /\ Before("?", w)[1] = "/"
<1>1. CASE "?" \in ToSet(w)
  <2>1. First("?", w) \in 1..Len(w) /\ w[First("?", w)] = "?"
    BY <1>1, FirstIs
  <2>2. First("?", w) # 1
    BY <2>1
  <2> DEFINE n == First("?", w) - 1
  <2>3. n \in 1..Len(w)
    BY <2>1, <2>2
  <2>4. Before("?", w) = SubSeq(w, 1, n)
    BY <1>1 DEF Before
  <2> HIDE DEF n
  <2>5. Len(SubSeq(w, 1, n)) = n /\ SubSeq(w, 1, n)[1] = w[1]
    BY <2>3
  <2> QED
    BY <2>3, <2>4, <2>5
<1>2. CASE "?" \notin ToSet(w)
  BY <1>2 DEF Before
<1> QED
  BY <1>1, <1>2

\* The join of a text that begins with a slash begins with one.
LEMMA JoinRooted ==
  ASSUME NEW s, Head(s) = "/", NEW kept \in Seq(Plain), NEW w, w = Join(s, kept)
  PROVE  w # <<>> /\ w[1] = "/"
<1> DEFINE text == <<"/">> \o FlattenSeq(Parts(kept))
<1>1. w = IF text = <<>> THEN <<"/">>
          ELSE IF kept # <<>> /\ Last(s) # "/" THEN Front(text) ELSE text
  BY DEF Join, Parts
<1>2. w # <<>>
  BY JoinIs
<1> HIDE DEF text
<1>3. text \in Seq(Chars) /\ Inside(text) /\ (kept # <<>> => Len(text) >= 2)
  BY AbsoluteInside DEF text
<1>4. text # <<>> /\ text[1] = "/"
  BY <1>3 DEF Inside
<1>5. CASE kept # <<>> /\ Last(s) # "/"
  <2>1. w = Front(text)
    BY <1>1, <1>4, <1>5
  <2>2. Front(text) \in Seq(Chars) /\ Len(Front(text)) = Len(text) - 1
        /\ \A k \in 1..(Len(text) - 1) : Front(text)[k] = text[k]
    BY <1>3, <1>4, FrontIs
  <2>3. Len(text) \in Nat /\ 1 \in 1..(Len(text) - 1)
    BY <1>3, <1>5
  <2> QED
    BY <1>2, <1>4, <2>1, <2>2, <2>3
<1>6. CASE ~(kept # <<>> /\ Last(s) # "/")
  BY <1>1, <1>4, <1>6
<1> QED
  BY <1>5, <1>6

\* A URI is taken when its text resolves within the root, and what that
\* resolves to is split at its first "?".
LEMMA WholeIs ==
  ASSUME NEW uri \in Seq(STRING), NEW r, r = set_request_uri(uri),
         NEW s, s = Decode(Before("#", uri)), s # <<>>
  PROVE  /\ r.uri # <<>> <=> /\ "^" \notin ToSet(uri) /\ ~Undecodable(Before("#", uri))
                             /\ Resolvable(s) /\ Len(Before("?", Resolved(s))) <= MaxUriLength
         /\ r.uri # <<>> => r.uri = Before("?", Resolved(s)) /\ r.query = After("?", Resolved(s))
<1> DEFINE whole == Join(s, Kept(Segments(s)))
           path == Before("?", whole)
           sane == "^" \notin ToSet(uri) /\ ~Undecodable(Before("#", uri))
           meant == Before("?", Resolved(s))
<1>0. MaxUriLength \in Nat
  BY RequestHeadAssumption
<1>1. s \in Seq(Chars)
  BY BeforeIs, DecodeIs
<1>2. /\ r.uri # <<>> <=> /\ sane /\ ~LeadsOutside(s) /\ path # <<>> /\ path[1] = "/"
                          /\ ~(Len(path) > MaxUriLength)
      /\ r.uri # <<>> => r.uri = path /\ r.query = After("?", whole)
  BY UriGiven
<1> HIDE DEF sane
<1>3. whole = Join(s, Kept(Segments(s)))
  OBVIOUS
<1> HIDE DEF whole
<1>4. Resolved(s) \in Seq(Chars)
  <2> DEFINE w == Resolved(s)
             T == ToSet(s) \cup {"/"}
  <2>1. w \in Seq(T)
    BY <1>1, ResolvedIs
  <2>2. T \subseteq Chars
    BY <1>1 DEF ToSet, Chars
  <2> HIDE DEF T, w
  <2>3. w \in Seq(Chars)
    BY <2>1, <2>2
  <2> QED
    BY <2>3 DEF w
<1>5. Len(meant) \in Nat
  BY <1>4, BeforeIs
<1>6. ~(Len(meant) > MaxUriLength) <=> Len(meant) <= MaxUriLength
  <2> DEFINE n == Len(meant)
  <2>1. n \in Nat
    BY <1>5
  <2> HIDE DEF n
  <2>2. ~(n > MaxUriLength) <=> n <= MaxUriLength
    BY <1>0, <2>1
  <2> QED
    BY <2>2 DEF n
<1>7. ASSUME whole = Resolved(s), whole # <<>>, whole[1] = "/", Resolvable(s) <=> ~LeadsOutside(s)
      PROVE  /\ r.uri # <<>> <=> sane /\ Resolvable(s) /\ Len(meant) <= MaxUriLength
             /\ r.uri # <<>> => r.uri = meant /\ r.query = After("?", Resolved(s))
  <2>1. path = meant /\ After("?", whole) = After("?", Resolved(s))
    BY <1>7
  <2>2. path # <<>> /\ path[1] = "/"
    BY <1>4, <1>7, BeforeRooted
  <2> HIDE DEF path, meant
  <2> QED
    BY <1>2, <1>6, <1>7, <2>1, <2>2
<1>8. CASE s[1] = "/"
  <2>1. Head(s) = "/"
    BY <1>1, <1>8
  <2>2. Resolvable(s) <=> ~LeadsOutside(s)
    BY <1>1, <1>8, AbsoluteResolved
  <2>3. CASE LeadsOutside(s)
    BY <1>2, <2>2, <2>3
  <2>4. CASE ~LeadsOutside(s)
    <3>1. whole = Resolved(s)
      BY <1>1, <1>3, <1>8, <2>4, AbsoluteResolved
    <3>2. Kept(Segments(s)) \in Seq(Plain)
      BY <1>1, <2>4, KeptPlain
    <3>3. whole # <<>> /\ whole[1] = "/"
      BY <1>3, <2>1, <3>2, JoinRooted
    <3> QED
      BY <1>7, <2>2, <3>1, <3>3 DEF sane
  <2> QED
    BY <2>3, <2>4 DEF sane
<1>9. CASE s[1] # "/"
  <2>1. /\ Resolvable(s) => ~LeadsOutside(s) /\ whole = <<"/">> /\ Resolved(s) = <<"/">>
        /\ ~Resolvable(s) /\ ~LeadsOutside(s) => whole \in Seq(Chars) /\ whole # <<>> /\ whole[1] # "/"
    BY <1>1, <1>3, <1>9, RelativeResolved
  <2>2. CASE Resolvable(s)
    <3>1. ~LeadsOutside(s) /\ whole = <<"/">> /\ Resolved(s) = <<"/">>
      BY <2>1, <2>2
    <3>2. whole = Resolved(s) /\ whole # <<>> /\ whole[1] = "/"
      BY ONLY <3>1
    <3> QED
      BY <1>7, <2>2, <3>1, <3>2 DEF sane
  <2>3. CASE ~Resolvable(s)
    <3>1. r.uri = <<>>
      <4> SUFFICES ASSUME r.uri # <<>> PROVE FALSE
        OBVIOUS
      <4>1. ~LeadsOutside(s) /\ path # <<>> /\ path[1] = "/"
        BY <1>2
      <4>2. whole \in Seq(Chars) /\ whole # <<>> /\ whole[1] # "/"
        BY <2>1, <2>3, <4>1
      <4>3. path \in Seq(Chars) /\ Len(path) <= Len(whole) /\ \A i \in 1..Len(path) : path[i] = whole[i]
        BY <4>2, BeforeIs
      <4> HIDE DEF path
      <4>4. 1 \in 1..Len(path)
        BY <4>1, <4>3
      <4> QED
        BY <4>1, <4>2, <4>3, <4>4
    <3> QED
      BY <2>3, <3>1
  <2> QED
    BY <2>2, <2>3
<1> QED
  BY <1>8, <1>9

\* Without a "?" nothing is split off.
LEMMA Unsplit ==
  ASSUME NEW w, "?" \notin ToSet(w)
  PROVE  Before("?", w) = w /\ After("?", w) = <<>>
BY DEF Before, After

LEMMA ResolvedPlain ==
  ASSUME NEW s \in Seq(Chars), "?" \notin ToSet(s)
  PROVE  "?" \notin ToSet(Resolved(s))
<1> DEFINE T == ToSet(s) \cup {"/"}
           w == Resolved(s)
<1>1. w \in Seq(T)
  BY ResolvedIs
<1>2. "?" \notin T
  OBVIOUS
<1> HIDE DEF T, w
<1>3. \A i \in DOMAIN w : w[i] \in T
  BY <1>1
<1>4. "?" \notin ToSet(w)
  BY <1>2, <1>3 DEF ToSet
<1> QED
  BY <1>4 DEF w

\* A text that ends in a slash, and one without it, have no Up.
LEMMA JoinNoUps ==
  ASSUME NEW s, Head(s) = "/", NEW kept \in Seq(Plain), NEW w, w = Join(s, kept)
  PROVE  Ups(w) = {}
<1> DEFINE text == <<"/">> \o FlattenSeq(Parts(kept))
           N == Len(text)
<1>1. w = IF text = <<>> THEN <<"/">>
          ELSE IF kept # <<>> /\ Last(s) # "/" THEN Front(text) ELSE text
  BY DEF Join, Parts
<1> HIDE DEF text
<1>2. text \in Seq(Chars) /\ Inside(text) /\ text[N] = "/" /\ (kept # <<>> => N >= 2)
  BY AbsoluteInside DEF text
<1>3. text # <<>> /\ N \in Nat
  BY <1>2 DEF Inside
<1>4. Ups(text) = {}
  <2> SUFFICES ASSUME NEW u \in Ups(text) PROVE FALSE
    OBVIOUS
  <2>1. u[2] = N
    BY <1>2, InsideUps
  <2>2. u[2] \in u[1]..u[2] /\ text[u[2]] # "/"
    BY DEF Ups, Names
  <2> QED
    BY <1>2, <2>1, <2>2
<1>5. CASE kept # <<>> /\ Last(s) # "/"
  <2>1. w = Front(text)
    BY <1>1, <1>3, <1>5
  <2>2. Front(text) \in Seq(Chars) /\ Len(Front(text)) = N - 1
        /\ \A k \in 1..(N - 1) : Front(text)[k] = text[k]
    BY <1>2, <1>3, FrontIs
  <2>3. w \in Seq(Chars) /\ Len(w) = N - 1 /\ \A k \in 1..(N - 1) : w[k] = text[k]
    BY <2>1, <2>2
  <2> SUFFICES ASSUME NEW u \in Ups(w) PROVE FALSE
    OBVIOUS
  <2>4. /\ u = <<u[1], u[2]>> /\ u[1] \in 1..(N - 1) /\ u[2] \in 1..(N - 1) /\ u[1] <= u[2]
        /\ \A i \in u[1]..u[2] : w[i] # "/"
        /\ u[1] > 1 => w[u[1] - 1] = "/"
        /\ u[2] < Len(w) => w[u[2] + 1] = "/"
        /\ SubSeq(w, u[1], u[2]) = Up
    BY <2>3 DEF Ups, Names
  <2>5. SubSeq(text, u[1], u[2]) = Up
    <3> DEFINE a == u[1]
               b == u[2]
    <3>1. a \in 1..(N - 1) /\ b \in 1..(N - 1) /\ a <= b
      BY <2>4
    <3> HIDE DEF a, b
    <3>2. SubSeq(text, a, b) = SubSeq(w, a, b)
      BY <1>2, <1>3, <2>3, <3>1
    <3> QED
      BY <2>4, <3>2 DEF a, b
  <2>6. \A i \in u[1]..u[2] : text[i] # "/"
    BY <1>3, <2>3, <2>4
  <2>7. u[1] > 1 => text[u[1] - 1] = "/"
    <3> DEFINE a == u[1]
    <3>1. a \in 1..(N - 1) /\ (a > 1 => w[a - 1] = "/")
      BY <2>4
    <3> HIDE DEF a, N
    <3>2. a > 1 => a - 1 \in 1..(N - 1)
      BY <1>3, <3>1
    <3> QED
      BY <2>3, <3>1, <3>2 DEF a
  <2>8. u[2] < N => text[u[2] + 1] = "/"
    <3> DEFINE b == u[2]
    <3>1. b \in 1..(N - 1) /\ (b < Len(w) => w[b + 1] = "/")
      BY <2>4
    <3> HIDE DEF b, N
    <3>2. b < Len(w) => b + 1 \in 1..(N - 1)
      BY <1>3, <2>3, <3>1
    <3>3. b < Len(w) \/ b + 1 = N
      BY <1>3, <2>3, <3>1
    <3> QED
      BY <1>2, <2>3, <3>1, <3>2, <3>3 DEF b
  <2>9. u[1] \in DOMAIN text /\ u[2] \in DOMAIN text
    BY <1>2, <1>3, <2>4
  <2>10. u \in Names(text)
    BY <2>4, <2>6, <2>7, <2>8, <2>9 DEF Names
  <2> QED
    BY <1>4, <2>5, <2>10 DEF Ups
<1>6. CASE ~(kept # <<>> /\ Last(s) # "/")
  BY <1>1, <1>3, <1>4, <1>6
<1> QED
  BY <1>5, <1>6

\* Without a "?" no Up is left.
LEMMA PlainNoUps ==
  ASSUME NEW uri \in Seq(STRING), NEW r, r = set_request_uri(uri), r.uri # <<>>,
         NEW s, s = Decode(Before("#", uri)), s # <<>>, "?" \notin ToSet(s)
  PROVE  Ups(r.uri) = {}
<1>1. s \in Seq(Chars)
  BY BeforeIs, DecodeIs
<1>2. Resolvable(s) /\ r.uri = Before("?", Resolved(s))
  BY WholeIs
<1>3. r.uri = Resolved(s)
  BY <1>1, <1>2, ResolvedPlain, Unsplit
<1>4. CASE s[1] = "/"
  <2>1. Head(s) = "/" /\ ~LeadsOutside(s) /\ Resolved(s) = Join(s, Kept(Segments(s)))
    BY <1>1, <1>2, <1>4, AbsoluteResolved
  <2>2. Kept(Segments(s)) \in Seq(Plain)
    BY <1>1, <2>1, KeptPlain
  <2> QED
    BY <1>3, <2>1, <2>2, JoinNoUps
<1>5. CASE s[1] # "/"
  <2>1. r.uri = <<"/">>
    BY <1>1, <1>2, <1>3, <1>5, RelativeResolved
  <2>2. Ups(<<"/">>) = {}
    BY DEF Ups, Names
  <2> QED
    BY <2>1, <2>2
<1> QED
  BY <1>4, <1>5

\* One with a query.
LEMMA QueryIs ==
  ASSUME NEW uri \in Seq(STRING), NEW r, r = set_request_uri(uri), r.uri # <<>>,
         NEW sent, sent = Before("#", uri), Count("?", sent) = 1, "%3f" \notin ToSet(sent),
         NEW path, path = Decode(Before("?", sent)), NEW query, query = Decode(After("?", sent)),
         path # <<>>, "/" \notin ToSet(query), path[1] = "/",
         \A n \in Names(path) : n[2] = Len(path) => n \in Downs(path)
  PROVE  r.query = query /\ r.uri = Resolved(path)
<1> DEFINE text == Decode(sent)
           whole == Join(text, Kept(Segments(text)))
<1>1. sent \in Seq(STRING)
  BY BeforeIs
<1>2. /\ path \in Seq(Chars) /\ query \in Seq(Chars) /\ "?" \notin ToSet(path)
      /\ text = path \o (<<"?">> \o query)
  BY <1>1, QueryDecoded
<1>3. text \in Seq(Chars)
  BY <1>1, DecodeIs
<1>4. query \in Seq(Chars \ {"/"})
  <2>1. \A i \in 1..Len(query) : query[i] \in Chars \ {"/"}
    BY <1>2 DEF ToSet
  <2> QED
    BY <1>2, <2>1
<1>5. text # <<>>
  <2>1. CASE text = <<>>
    BY <2>1 DEF set_request_uri, Refused
  <2> QED
    BY <2>1
<1> HIDE DEF text
<1>6. text = Decode(Before("#", uri))
  BY DEF text
<1>7. ~LeadsOutside(text) /\ r.uri = Before("?", whole) /\ r.query = After("?", whole)
  BY <1>5, <1>6, UriGiven
<1>8. Before("?", whole) = Resolved(path) /\ After("?", whole) = query
  <2>1. \A n \in Names(path) : n[2] = Len(path) => n \in Downs(path)
    OBVIOUS
  <2>2. whole = Join(text, Kept(Segments(text)))
    OBVIOUS
  <2> HIDE DEF whole
  <2> QED
    <3>1. Ordinary(path)
      BY <1>2, <2>1 DEF Ordinary
    <3>2. Splits(whole, path, query)
      BY <1>2, <1>3, <1>4, <1>7, <2>2, <3>1, QueryJoined
    <3> QED
      BY <3>2 DEF Splits
<1> QED
  BY <1>7, <1>8
-----------------------------------------------------------------------------
(* The first invariant: the flags, the map of headers and the lines.       *)
Reading == state \in {"REQUEST_LINE", "HEADERS"}

\* The flags tell which keys have been read.
FlagsTell ==
  /\ has_host <=> \E i \in 1..pos : head.lines[i].key = "host"
  /\ has_content_length <=> \E i \in 1..pos : head.lines[i].key = "content-length"
  /\ has_transfer_encoding <=> \E i \in 1..pos : head.lines[i].key = "transfer-encoding"
  /\ {has_host, has_content_length, has_transfer_encoding} \subseteq BOOLEAN

\* The lines that have been read are right, as LinesAcceptable wants them.
LinesRight ==
  \A i \in 1..pos :
    /\ head.lines[i].key \notin {"fold", "bad", "large"}
    /\ head.lines[i].key = "content-length" =>
         head.lines[i].value = content_length_value /\ head.lines[i].value # "text"
    /\ head.lines[i].key = "transfer-encoding" => head.lines[i].value \in Codings
    /\ head.lines[i].key = "expect" => head.lines[i].value = "100-continue"
    /\ head.lines[i].key = "host" =>
         \A j \in 1..pos : head.lines[j].key = "host" => j = i
    /\ Cardinality(KeysBefore(i)) < MaxHeaderCount

\* The map holds the keys of these lines, and the length last noted.
HeadersHold ==
  /\ DOMAIN headers = KeysBefore(pos + 1) /\ IsFiniteSet(DOMAIN headers)
  /\ "content-length" \in DOMAIN headers => headers["content-length"] = content_length_value

InOrder ==
  /\ head \in Heads
  /\ state \in {"REQUEST_LINE", "HEADERS", "BODY", "DONE", "ERROR_PARSE"}
  /\ state = "REQUEST_LINE" => pos = 0
  /\ pos \in 0..Len(head.lines)

IInv ==
  /\ InOrder /\ FramedOnce
  /\ Reading => FlagsTell /\ LinesRight /\ HeadersHold
-----------------------------------------------------------------------------
LEMMA Lines ==
  ASSUME InOrder
  PROVE  /\ Len(head.lines) \in Nat /\ DOMAIN head.lines = 1..Len(head.lines)
         /\ MaxHeaderCount \in Nat
  BY RequestHeadAssumption DEF InOrder

LEMMA SameHead ==
  ASSUME head' = head
  PROVE  /\ LinesAcceptable' <=> LinesAcceptable
         /\ \A key : LinesOf(key)' = LinesOf(key)
         /\ \A i : KeysBefore(i)' = KeysBefore(i)
  BY DEF LinesAcceptable, LinesOf, ValuesOf, KeysBefore

LEMMA InitInvariant == Init => IInv
<1> SUFFICES ASSUME Init PROVE IInv
  OBVIOUS
<1>0. head \in Heads /\ pos = 0 /\ state = "REQUEST_LINE"
  BY DEF Init
<1>1. InOrder
  <2>1. head.lines \in Seq([key : STRING, value : STRING])
    BY <1>0, RequestHeadAssumption
  <2>2. Len(head.lines) \in Nat
    BY <2>1
  <2> QED
    BY <1>0, <2>2 DEF InOrder
<1>2. FramedOnce
  BY DEF Init, FramedOnce
<1>3. 1..pos = {} /\ 1..((pos + 1) - 1) = {}
  BY <1>0
<1>4. FlagsTell
  BY <1>3 DEF Init, FlagsTell
<1>5. LinesRight
  BY <1>3 DEF LinesRight
<1>6. HeadersHold
  <2>1. DOMAIN headers = {}
    BY DEF Init
  <2>2. KeysBefore(pos + 1) = {}
    BY <1>3 DEF KeysBefore
  <2> QED
    BY <2>1, <2>2, FS_EmptySet DEF HeadersHold
<1> QED
  BY <1>1, <1>2, <1>4, <1>5, <1>6 DEF IInv

\* A faulty line, a missing host, a framing too many or too few: the head is
\* not acceptable.
LEMMA FaultyLine ==
  ASSUME InOrder, FlagsTell, LinesRight, pos < Len(head.lines), LineFault # 0
  PROVE  ~LinesAcceptable
<1> DEFINE i == pos + 1
<1>1. i \in DOMAIN head.lines /\ Line = head.lines[i] /\ \A j \in 1..pos : j # i /\ j \in DOMAIN head.lines
  BY Lines DEF InOrder, Line
<1>2. CASE Line.key \in {"fold", "bad", "large"}
  BY <1>1, <1>2 DEF LinesAcceptable, LinesOf
<1>3. CASE Line.key = "content-length"
  <2>1. Line.value = "text" \/ (has_content_length /\ content_length_value # Line.value)
    BY <1>3 DEF LineFault
  <2>2. Line.value \in ValuesOf("content-length")
    BY <1>1, <1>3 DEF ValuesOf, LinesOf
  <2>3. CASE Line.value = "text"
    BY <2>2, <2>3 DEF LinesAcceptable
  <2>4. CASE has_content_length /\ content_length_value # Line.value
    <3>1. PICK j \in 1..pos : head.lines[j].key = "content-length"
      BY <2>4 DEF FlagsTell
    <3>2. content_length_value \in ValuesOf("content-length")
      BY <1>1, <3>1 DEF ValuesOf, LinesOf, LinesRight
    <3> QED
      BY <2>2, <2>4, <3>2 DEF LinesAcceptable
  <2> QED
    BY <2>1, <2>3, <2>4
<1>4. CASE Line.key = "transfer-encoding"
  BY <1>1, <1>4 DEF LineFault, LinesAcceptable, ValuesOf, LinesOf
<1>5. CASE Line.key = "host"
  <2>1. PICK j \in 1..pos : head.lines[j].key = "host"
    BY <1>5 DEF LineFault, FlagsTell
  <2>2. {i, j} \subseteq LinesOf("host") /\ i # j
    BY <1>1, <1>5, <2>1 DEF LinesOf
  <2> QED
    BY <2>2 DEF LinesAcceptable
<1>6. CASE Line.key = "expect"
  BY <1>1, <1>6 DEF LineFault, LinesAcceptable, ValuesOf, LinesOf
<1> QED
  BY <1>2, <1>3, <1>4, <1>5, <1>6 DEF LineFault

LEMMA FaultyEnd ==
  ASSUME InOrder, FlagsTell, LinesRight, pos = Len(head.lines)
  PROVE  /\ EndError # 0 <=> ~LinesAcceptable
         /\ has_content_length <=> LinesOf("content-length") # {}
         /\ has_transfer_encoding <=> LinesOf("transfer-encoding") # {}
<1>1. DOMAIN head.lines = 1..pos
  BY Lines
<1>2. has_content_length <=> LinesOf("content-length") # {}
  BY <1>1 DEF FlagsTell, LinesOf
<1>3. has_transfer_encoding <=> LinesOf("transfer-encoding") # {}
  BY <1>1 DEF FlagsTell, LinesOf
<1>4. has_host <=> \E i \in DOMAIN head.lines : LinesOf("host") = {i}
  BY <1>1 DEF FlagsTell, LinesRight, LinesOf
<1>5. /\ \A i \in DOMAIN head.lines : Cardinality(KeysBefore(i)) < MaxHeaderCount
      /\ LinesOf("fold") \cup LinesOf("bad") \cup LinesOf("large") = {}
      /\ \A v, w \in ValuesOf("content-length") : v = w
      /\ "text" \notin ValuesOf("content-length")
      /\ ValuesOf("transfer-encoding") \subseteq Codings
      /\ ValuesOf("expect") \subseteq {"100-continue"}
  BY <1>1 DEF LinesRight, ValuesOf, LinesOf
<1>6. LinesAcceptable <=>
        /\ has_host
        /\ ~has_content_length \/ ~has_transfer_encoding
        /\ head.method = "POST" => has_content_length \/ has_transfer_encoding
  BY <1>2, <1>3, <1>4, <1>5 DEF LinesAcceptable
<1> QED
  BY <1>2, <1>3, <1>6 DEF EndError
-----------------------------------------------------------------------------
(* The actions                                                              *)

\* An error ends the connection.
LEMMA LineRefusedStep ==
  ASSUME IInv, RequestLineRefused
  PROVE  IInv'
<1> DEFINE uri == set_request_uri(head.uri)
<1>1. /\ LineError(uri) # 0 /\ log_error(LineError(uri))
      /\ UNCHANGED <<head, pos>>
      /\ request_uri' # <<>> => head.line = "whole" /\ set_http_method(head.method) = 0 /\ Taken(uri)
  BY DEF RequestLineRefused, Taken
<1>2. state' = "ERROR_PARSE" /\ error_code' # 0 /\ headers'["connection"] = "close"
  BY <1>1 DEF log_error, Set
<1>3. ~(UriTaken' /\ head'.version = "HTTP/1.1")
  BY <1>1 DEF UriTaken, UriRead, LineError, set_http_version
<1>4. FramedOnce'
  BY <1>2, <1>3 DEF FramedOnce
<1>5. InOrder'
  BY <1>1, <1>2 DEF IInv, InOrder
<1> QED
  BY <1>2, <1>4, <1>5 DEF IInv, Reading

LEMMA LineTakenStep ==
  ASSUME IInv, RequestLineTaken
  PROVE  IInv'
<1>1. /\ state = "REQUEST_LINE" /\ state' = "HEADERS"
      /\ UNCHANGED <<head, pos, error_code, headers, framing>>
  BY DEF RequestLineTaken
<1>2. InOrder'
  BY <1>1 DEF IInv, InOrder
<1>3. FramedOnce'
  BY <1>1 DEF IInv, FramedOnce
<1>4. FlagsTell /\ LinesRight /\ HeadersHold
  BY <1>1 DEF IInv, Reading
<1>5. FlagsTell'
  BY <1>1, <1>4 DEF FlagsTell, framing
<1>6. LinesRight'
  BY <1>1, <1>4, SameHead DEF LinesRight, framing
<1>7. HeadersHold'
  BY <1>1, <1>4, SameHead DEF HeadersHold, framing
<1> QED
  BY <1>2, <1>3, <1>5, <1>6, <1>7 DEF IInv

\* A head that is refused at one of its lines, or at its end.
LEMMA Refusal ==
  ASSUME IInv, state = "HEADERS", ~LinesAcceptable, UNCHANGED <<head, pos>>,
         NEW code, code # 0, log_error(code)
  PROVE  IInv'
<1>1. state' = "ERROR_PARSE" /\ error_code' # 0 /\ headers'["connection"] = "close"
  BY DEF log_error, Set
<1>2. ~LinesAcceptable'
  BY SameHead
<1>3. FramedOnce'
  BY <1>1, <1>2 DEF FramedOnce
<1>4. InOrder'
  BY <1>1 DEF IInv, InOrder
<1> QED
  BY <1>1, <1>3, <1>4 DEF IInv, Reading

LEMMA HeaderRefusedStep ==
  ASSUME IInv, HeaderRefused
  PROVE  IInv'
<1>1. /\ state = "HEADERS" /\ pos < Len(head.lines) /\ LineFault # 0
      /\ log_error(LineFault) /\ UNCHANGED <<head, pos>>
  BY DEF HeaderRefused, InHeaders
<1>2. ~LinesAcceptable
  BY <1>1, FaultyLine DEF IInv, Reading
<1> QED
  BY <1>1, <1>2, Refusal

LEMMA TooManyHeadersStep ==
  ASSUME IInv, TooManyHeaders
  PROVE  IInv'
<1>1. /\ state = "HEADERS" /\ pos < Len(head.lines) /\ Full
      /\ log_error(431) /\ UNCHANGED <<head, pos>>
  BY DEF TooManyHeaders, InHeaders
<1>2. pos + 1 \in DOMAIN head.lines
  BY <1>1, Lines DEF IInv, InOrder
<1>3. ~(Cardinality(KeysBefore(pos + 1)) < MaxHeaderCount)
  <2>1. Cardinality(KeysBefore(pos + 1)) \in Nat /\ MaxHeaderCount \in Nat
    BY <1>1, FS_CardinalityType, RequestHeadAssumption DEF IInv, Reading, HeadersHold
  <2> QED
    BY <1>1, <2>1 DEF IInv, Reading, HeadersHold, Full
<1>4. ~LinesAcceptable
  BY <1>2, <1>3 DEF LinesAcceptable
<1> QED
  BY <1>1, <1>4, Refusal

LEMMA HeaderTakenStep ==
  ASSUME IInv, HeaderTaken
  PROVE  IInv'
<1> DEFINE i == pos + 1
<1>1. /\ state = "HEADERS" /\ pos < Len(head.lines) /\ LineFault = 0 /\ ~Full
      /\ NotesLine /\ headers' = Set(headers, Line.key, Line.value)
      /\ pos' = i /\ UNCHANGED <<head, state, error_code>>
  BY DEF HeaderTaken, InHeaders
<1>2. /\ FlagsTell /\ LinesRight /\ HeadersHold /\ InOrder
      /\ Line = head.lines[i] /\ pos \in Nat /\ 1..i = (1..pos) \cup {i} /\ i \notin 1..pos
  BY <1>1, Lines DEF IInv, Reading, Line, InOrder
<1>3. InOrder'
  BY <1>1, <1>2, Lines DEF InOrder
<1>4. FlagsTell'
  BY <1>1, <1>2 DEF FlagsTell, NotesLine
<1>5. LinesRight'
  <2>1. Cardinality(KeysBefore(i)) < MaxHeaderCount
    <3>1. Cardinality(KeysBefore(i)) \in Nat /\ MaxHeaderCount \in Nat
      BY <1>2, FS_CardinalityType, RequestHeadAssumption DEF HeadersHold
    <3> QED
      BY <1>1, <1>2, <3>1 DEF HeadersHold, Full
  <2>2. /\ Line.key \notin {"fold", "bad", "large"}
        /\ Line.key = "content-length" =>
             /\ Line.value # "text" /\ content_length_value' = Line.value
             /\ has_content_length => content_length_value = Line.value
        /\ Line.key # "content-length" => content_length_value' = content_length_value
        /\ Line.key = "transfer-encoding" => Line.value \in Codings
        /\ Line.key = "expect" => Line.value = "100-continue"
        /\ Line.key = "host" => ~has_host
    BY <1>1 DEF LineFault, NotesLine
  <2>3. \A j \in 1..pos : head.lines[j].key = "content-length" => has_content_length
    BY <1>2 DEF FlagsTell
  <2>4. \A j \in 1..pos : head.lines[j].key = "host" => has_host
    BY <1>2 DEF FlagsTell
  <2>5. \A j \in 1..i : KeysBefore(j)' = KeysBefore(j)
    BY <1>1 DEF KeysBefore
  <2> QED
    BY <1>1, <1>2, <2>1, <2>2, <2>3, <2>4, <2>5 DEF LinesRight
<1>6. HeadersHold'
  <2>1. DOMAIN headers' = DOMAIN headers \cup {Line.key}
    BY <1>1 DEF Set
  <2>2. KeysBefore(pos + 1)' = KeysBefore(i) \cup {Line.key}
    <3>1. 1..((pos' + 1) - 1) = (1..pos) \cup {i} /\ 1..(i - 1) = 1..pos
      BY <1>1, <1>2
    <3> QED
      BY <1>1, <1>2, <3>1 DEF KeysBefore
  <2>3. IsFiniteSet(DOMAIN headers')
    BY <1>2, <2>1, FS_AddElement DEF HeadersHold
  <2>4. "content-length" \in DOMAIN headers' => headers'["content-length"] = content_length_value'
    BY <1>1, <1>2 DEF HeadersHold, Set, NotesLine
  <2> QED
    BY <1>2, <2>1, <2>2, <2>3, <2>4 DEF HeadersHold
<1>7. FramedOnce'
  BY <1>1 DEF IInv, FramedOnce
<1> QED
  BY <1>3, <1>4, <1>5, <1>6, <1>7 DEF IInv

LEMMA EndOfHeadersStep ==
  ASSUME IInv, EndOfHeaders
  PROVE  IInv'
<1>1. /\ state = "HEADERS" /\ pos = Len(head.lines) /\ UNCHANGED <<head, pos, framing>>
      /\ FlagsTell /\ LinesRight /\ HeadersHold /\ InOrder
  BY DEF EndOfHeaders, InHeaders, IInv, Reading
<1>2. CASE EndError # 0
  BY <1>1, <1>2, FaultyEnd, Refusal DEF EndOfHeaders
<1>3. CASE EndError = 0
  <2>1. /\ state' = IF has_content_length \/ has_transfer_encoding THEN "BODY" ELSE "DONE"
        /\ UNCHANGED <<error_code, headers>>
    BY <1>3 DEF EndOfHeaders
  <2>2. LinesAcceptable' /\ error_code' = 0
    <3>1. LinesAcceptable /\ error_code = 0
      BY <1>1, <1>3, FaultyEnd DEF IInv, FramedOnce
    <3> QED
      BY <1>1, <2>1, <3>1, SameHead
  <2>3. (state' = "BODY") <=> (LinesOf("content-length") \cup LinesOf("transfer-encoding"))' # {}
    BY <1>1, <2>1, FaultyEnd, SameHead
  <2>4. LinesOf("content-length")' # {} => headers'["content-length"] = content_length_value'
    <3>1. LinesOf("content-length") # {} => "content-length" \in DOMAIN headers
      <4>1. 1..((pos + 1) - 1) = DOMAIN head.lines
        BY <1>1, Lines
      <4> QED
        BY <1>1, <4>1 DEF HeadersHold, LinesOf, KeysBefore
    <3> QED
      BY <1>1, <2>1, <3>1 DEF HeadersHold, LinesOf, framing
  <2>5. FramedOnce'
    BY <2>1, <2>2, <2>3, <2>4 DEF FramedOnce
  <2>6. InOrder'
    BY <1>1, <2>1 DEF InOrder
  <2> QED
    BY <2>1, <2>5, <2>6 DEF IInv, Reading
<1> QED
  BY <1>2, <1>3

LEMMA Stutter ==
  ASSUME IInv, UNCHANGED parser
  PROVE  IInv'
<1>1. /\ UNCHANGED <<head, pos, state, error_code, headers, request_uri>>
      /\ UNCHANGED <<has_host, has_content_length, has_transfer_encoding, content_length_value>>
  BY DEF parser, uris, framing
<1>2. InOrder'
  BY <1>1 DEF IInv, InOrder
<1>3. FramedOnce'
  BY <1>1, SameHead DEF IInv, FramedOnce, UriTaken, UriRead
<1>4. Reading' <=> Reading
  BY <1>1 DEF Reading
<1>5. ASSUME FlagsTell, LinesRight, HeadersHold PROVE FlagsTell' /\ LinesRight' /\ HeadersHold'
  <2>1. FlagsTell'
    BY <1>1, <1>5 DEF FlagsTell
  <2>2. LinesRight'
    BY <1>1, <1>5, SameHead DEF LinesRight
  <2>3. HeadersHold'
    BY <1>1, <1>5, SameHead DEF HeadersHold
  <2> QED
    BY <2>1, <2>2, <2>3
<1> QED
  BY <1>2, <1>3, <1>4, <1>5 DEF IInv

LEMMA StepInvariant ==
  ASSUME IInv, [Next]_vars
  PROVE  IInv'
<1>1. CASE RequestLineRefused
  BY <1>1, LineRefusedStep
<1>2. CASE RequestLineTaken
  BY <1>2, LineTakenStep
<1>3. CASE HeaderRefused
  BY <1>3, HeaderRefusedStep
<1>4. CASE TooManyHeaders
  BY <1>4, TooManyHeadersStep
<1>5. CASE HeaderTaken
  BY <1>5, HeaderTakenStep
<1>6. CASE EndOfHeaders
  BY <1>6, EndOfHeadersStep
<1>7. CASE UNCHANGED parser
  BY <1>7, Stutter
<1> QED
  BY <1>1, <1>2, <1>3, <1>4, <1>5, <1>6, <1>7 DEF Next, Spins, Parsed, vars
-----------------------------------------------------------------------------
(* The inductive invariant: the flags and the map of headers agree with the *)
(* lines parse_headers has consumed.                                        *)
THEOREM Invariance == Spec => []IInv
<1>1. Init => IInv
  BY InitInvariant
<1>2. IInv /\ [Next]_vars => IInv'
  BY StepInvariant
<1> QED
  BY <1>1, <1>2, PTL DEF Spec

(* A head is accepted exactly when its lines agree on one framing, whatever *)
(* lines it has and in whatever order (parse_headers).                      *)
THEOREM FramingCertain == Spec => []FramedOnce
  BY Invariance, PTL DEF IInv

\* A URI that is neither taken nor refused has nothing before its "#".
LEMMA UriEmpty ==
  ASSUME NEW uri \in Seq(STRING), NEW r, r = set_request_uri(uri), r.error = 0, ~Taken(r)
  PROVE  Before("#", uri) = <<>>
<1> DEFINE text == Decode(Before("#", uri))
<1>1. Before("#", uri) \in Seq(STRING)
  BY BeforeIs
<1>2. text = <<>> => Before("#", uri) = <<>>
  BY <1>1, DecodeIs
<1>3. text = <<>>
  <2> SUFFICES ASSUME text # <<>> PROVE FALSE
    OBVIOUS
  <2> HIDE DEF text
  <2>1. text = Decode(Before("#", uri))
    BY DEF text
  <2>2. CASE "^" \in ToSet(uri) \/ Undecodable(Before("#", uri))
    BY <2>2 DEF set_request_uri, Refused
  <2>3. CASE ~("^" \in ToSet(uri) \/ Undecodable(Before("#", uri)))
    <3> DEFINE whole == Join(text, Kept(Segments(text)))
               path == Before("?", whole)
    <3>1. /\ LeadsOutside(text) => r = Refused(400, <<>>)
          /\ ~LeadsOutside(text) /\ (path = <<>> \/ path[1] # "/") => r = Refused(400, After("?", whole))
          /\ ~LeadsOutside(text) /\ ~(path = <<>> \/ path[1] # "/") /\ Len(path) > MaxUriLength
               => r = Refused(414, After("?", whole))
          /\ ~LeadsOutside(text) /\ ~(path = <<>> \/ path[1] # "/") /\ ~(Len(path) > MaxUriLength)
               => r.uri = path
      BY <2>1, <2>3 DEF set_request_uri
    <3> HIDE DEF path, whole
    <3> QED
      BY <3>1 DEF Refused, Taken
  <2> QED
    BY <2>2, <2>3
<1> QED
  BY <1>2, <1>3

\* While a request line or headers are read, the passes are those of the lines
\* that have been consumed.
Counted ==
  /\ head \in Heads /\ pos \in Nat
  /\ Sent # <<>> =>
       /\ passes \in Nat /\ passes <= pos + 2
       /\ state = "REQUEST_LINE" => passes = 0
       /\ state = "HEADERS" => passes = pos + 1

LEMMA PassIs ==
  ASSUME passes \in Nat, Pass
  PROVE  passes' \in Nat /\ passes' <= passes + 1
BY DEF Pass

LEMMA StepCounted ==
  ASSUME IInv, Counted, [Next]_vars
  PROVE  Counted'
<1>1. head' = head /\ pos' \in Nat /\ Len(head.lines) \in Nat /\ pos \in 0..Len(head.lines) /\ pos \in Nat
  BY Lines DEF IInv, InOrder, Next, RequestLineRefused, RequestLineTaken, HeaderRefused, Counted,
     TooManyHeaders, HeaderTaken, EndOfHeaders, InHeaders, Spins, Parsed, vars, parser
<1>2. Sent' = Sent
  BY <1>1 DEF Sent
<1> SUFFICES ASSUME Sent # <<>>
             PROVE  /\ passes' \in Nat /\ passes' <= pos' + 2
                    /\ state' = "REQUEST_LINE" => passes' = 0
                    /\ state' = "HEADERS" => passes' = pos' + 1
  BY <1>1, <1>2 DEF Counted
<1>3. /\ passes \in Nat /\ passes <= pos + 2
      /\ state = "REQUEST_LINE" => passes = 0
      /\ state = "HEADERS" => passes = pos + 1
  BY DEF Counted
<1>4. Pass => passes' \in Nat /\ passes' <= passes + 1
  BY <1>3, PassIs
<1>5. CASE RequestLineRefused
  <2>1. state = "REQUEST_LINE" /\ Pass /\ pos' = pos /\ state' = "ERROR_PARSE"
    BY <1>5 DEF RequestLineRefused, log_error
  <2> QED
    BY <1>1, <1>3, <1>4, <2>1
<1>6. CASE RequestLineTaken
  <2>1. state = "REQUEST_LINE" /\ Pass /\ pos' = pos /\ pos = 0 /\ state' = "HEADERS"
    BY <1>6 DEF RequestLineTaken, IInv, InOrder
  <2>2. passes' = 1
    BY <1>1, <1>3, <2>1 DEF Pass, MostPasses
  <2> QED
    BY <1>1, <2>1, <2>2
<1>7. CASE HeaderRefused \/ TooManyHeaders
  <2>1. state = "HEADERS" /\ Pass /\ pos' = pos /\ state' = "ERROR_PARSE"
    BY <1>7 DEF HeaderRefused, TooManyHeaders, InHeaders, log_error
  <2> QED
    BY <1>1, <1>3, <1>4, <2>1
<1>8. CASE HeaderTaken
  <2>1. state = "HEADERS" /\ Pass /\ pos' = pos + 1 /\ state' = state /\ pos < Len(head.lines)
    BY <1>8 DEF HeaderTaken, InHeaders
  <2>2. passes' = passes + 1
    BY <1>1, <1>3, <2>1 DEF Pass, MostPasses
  <2> QED
    BY <1>1, <1>3, <2>1, <2>2
<1>9. CASE EndOfHeaders
  <2>1. state = "HEADERS" /\ Pass /\ pos' = pos /\ state' \in {"ERROR_PARSE", "BODY", "DONE"}
    BY <1>9 DEF EndOfHeaders, InHeaders, log_error
  <2> QED
    BY <1>1, <1>3, <1>4, <2>1
<1>10. ~Spins
  <2> SUFFICES ASSUME Spins PROVE FALSE
    OBVIOUS
  <2> DEFINE r == set_request_uri(head.uri)
  <2>1. LineError(r) = 0 /\ ~Taken(r)
    BY DEF Spins
  <2>2. r.error = 0
    BY <2>1 DEF LineError
  <2>3. head.uri \in Seq(STRING)
    BY RequestHeadAssumption DEF Counted
  <2>4. Before("#", head.uri) = <<>>
    BY <2>1, <2>2, <2>3, UriEmpty
  <2> QED
    BY <2>4 DEF Sent
<1>11. CASE UNCHANGED vars
  BY <1>3, <1>11 DEF vars, parser
<1> QED
  BY <1>5, <1>6, <1>7, <1>8, <1>9, <1>10, <1>11 DEF Next, Parsed

(* The loops of parse_request and parse_headers end after two passes more   *)
(* than there are header lines, for heads of any length, unless there is    *)
(* nothing before the "#" of the URI.                                       *)
THEOREM AlwaysProgress == Spec => []Progress
<1>1. ASSUME Init PROVE Counted
  <2>1. head \in Heads /\ pos = 0 /\ passes = 0 /\ state = "REQUEST_LINE"
    BY <1>1 DEF Init
  <2> QED
    BY <2>1 DEF Counted
<1>2. IInv /\ Counted /\ [Next]_vars => Counted'
  BY StepCounted
<1>3. Counted => Progress
  BY DEF Counted, Progress
<1> QED
  BY Invariance, <1>1, <1>2, <1>3, PTL DEF Spec
-----------------------------------------------------------------------------
(* The second invariant: what is taken for the URI, the codes and limits.   *)
UriInside ==
  /\ request_uri \in Seq(Chars) /\ Len(request_uri) <= MaxUriLength
  /\ request_uri # <<>> => Inside(request_uri)

TInv == head \in Heads /\ TypeOK /\ IsFiniteSet(DOMAIN headers) /\ UriInside

Codes == {0, 400, 411, 414, 417, 431, 501, 505}

LEMMA Numbers ==
  ASSUME TInv
  PROVE  /\ MaxHeaderCount \in Nat /\ Len(head.lines) \in Nat
         /\ Cardinality(DOMAIN headers) \in Nat
  BY RequestHeadAssumption, FS_CardinalityType DEF TInv

LEMMA InitTyped == Init => TInv
<1> SUFFICES ASSUME Init PROVE TInv
  OBVIOUS
<1>1. /\ head \in Heads /\ pos = 0 /\ state = "REQUEST_LINE" /\ error_code = 0
      /\ request_uri = <<>> /\ DOMAIN headers = {}
      /\ has_host = FALSE /\ has_content_length = FALSE /\ has_transfer_encoding = FALSE
  BY DEF Init
<1>2. MaxUriLength \in Nat /\ MaxHeaderCount \in Nat /\ Len(head.lines) \in Nat
  BY <1>1, RequestHeadAssumption
<1>3. IsFiniteSet(DOMAIN headers) /\ Cardinality(DOMAIN headers) = 0
  BY <1>1, FS_EmptySet
<1>4. Len(request_uri) = 0 /\ request_uri \in Seq(Chars)
  BY <1>1
<1>5. UriInside
  BY <1>1, <1>2, <1>4 DEF UriInside
<1>6. Len(request_uri) <= MaxUriLength /\ pos \in 0..Len(head.lines)
  BY <1>1, <1>2, <1>4
<1>7. Cardinality(DOMAIN headers) <= IF state = "ERROR_PARSE" THEN MaxHeaderCount + 1 ELSE MaxHeaderCount
  BY <1>1, <1>2, <1>3
<1>8. {has_host, has_content_length, has_transfer_encoding} \subseteq BOOLEAN
  BY <1>1
<1>9. TypeOK
  BY <1>1, <1>6, <1>7, <1>8 DEF TypeOK
<1> QED
  BY <1>1, <1>3, <1>5, <1>9 DEF TInv

LEMMA SetCounted ==
  ASSUME NEW map, IsFiniteSet(DOMAIN map), NEW key, NEW value
  PROVE  /\ IsFiniteSet(DOMAIN Set(map, key, value))
         /\ Cardinality(DOMAIN map) \in Nat /\ Cardinality(DOMAIN Set(map, key, value)) \in Nat
         /\ Cardinality(DOMAIN Set(map, key, value)) <= Cardinality(DOMAIN map) + 1
<1>1. DOMAIN Set(map, key, value) = DOMAIN map \cup {key}
  BY DEF Set
<1>2. IsFiniteSet(DOMAIN map \cup {key}) /\ Cardinality(DOMAIN map) \in Nat
      /\ Cardinality(DOMAIN map \cup {key}) \in {Cardinality(DOMAIN map), Cardinality(DOMAIN map) + 1}
  BY FS_AddElement, FS_CardinalityType
<1> QED
  BY <1>1, <1>2

\* An error adds at most one key, "connection", to the map of headers.
LEMMA ErrorTyped ==
  ASSUME TInv, state # "ERROR_PARSE", NEW code \in Codes, log_error(code)
  PROVE  /\ state' = "ERROR_PARSE" /\ error_code' \in Codes
         /\ IsFiniteSet(DOMAIN headers')
         /\ Cardinality(DOMAIN headers') <= MaxHeaderCount + 1
<1>1. state' = "ERROR_PARSE" /\ error_code' = code /\ headers' = Set(headers, "connection", "close")
  BY DEF log_error
<1>2. IsFiniteSet(DOMAIN headers) /\ Cardinality(DOMAIN headers) <= MaxHeaderCount
  BY DEF TInv, TypeOK
<1> QED
  BY <1>1, <1>2, Numbers, SetCounted

LEMMA LineErrors ==
  ASSUME TInv, NEW r, r.error \in {0, 400, 414}
  PROVE  LineError(r) \in Codes
<1>1. set_http_method(head.method) \in {0, 400, 501}
  BY DEF set_http_method
<1>2. set_http_version(head.version) \in {0, 400, 505}
  BY DEF set_http_version
<1> QED
  BY <1>1, <1>2 DEF LineError, Codes

LEMMA FlagsTyped ==
  ASSUME TInv, NotesLine
  PROVE  {has_host', has_content_length', has_transfer_encoding'} \subseteq BOOLEAN
<1>1. /\ has_host' \in BOOLEAN /\ has_content_length' \in BOOLEAN
      /\ has_transfer_encoding' \in BOOLEAN
  BY DEF NotesLine
<1> QED
  BY <1>1

\* The type invariant after a step into the error state.
LEMMA RefusedTyped ==
  ASSUME TInv, state # "ERROR_PARSE", NEW code \in Codes, log_error(code),
         head' = head, pos' = pos, UriInside',
         {has_host', has_content_length', has_transfer_encoding'} \subseteq BOOLEAN
  PROVE  TInv'
<1>1. /\ state' = "ERROR_PARSE" /\ error_code' \in Codes
      /\ IsFiniteSet(DOMAIN headers')
      /\ Cardinality(DOMAIN headers') <= MaxHeaderCount + 1
  BY ErrorTyped
<1>2. TypeOK'
  BY <1>1 DEF TypeOK, TInv, UriInside, Codes
<1> QED
  BY <1>1, <1>2 DEF TInv

LEMMA SameUri ==
  ASSUME UriInside, UNCHANGED uris
  PROVE  UriInside'
  BY DEF UriInside, uris

LEMMA SetUriTyped ==
  ASSUME TInv
  PROVE  LET r == set_request_uri(head.uri)
         IN  /\ r.error \in {0, 400, 414}
             /\ r.uri \in Seq(Chars) /\ Len(r.uri) <= MaxUriLength
             /\ r.uri # <<>> => Inside(r.uri)
<1> DEFINE uri == head.uri
           r == set_request_uri(uri)
<1>1. uri \in Seq(STRING)
  BY RequestHeadAssumption DEF TInv
<1> HIDE DEF uri
<1>2. r = set_request_uri(uri)
  OBVIOUS
<1> HIDE DEF r
<1>3. /\ r.error \in {0, 400, 414}
      /\ r.uri \in Seq(Chars) /\ Len(r.uri) <= MaxUriLength
      /\ r.uri # <<>> => Inside(r.uri)
  BY <1>1, <1>2, UriIs
<1> QED
  BY <1>3 DEF r, uri

LEMMA LineRefusedTyped ==
  ASSUME TInv, RequestLineRefused
  PROVE  TInv'
<1> DEFINE r == set_request_uri(head.uri)
           reached == head.line = "whole" /\ set_http_method(head.method) = 0
<1>1. /\ state = "REQUEST_LINE" /\ log_error(LineError(r))
      /\ request_uri' = IF reached THEN r.uri ELSE <<>>
      /\ UNCHANGED <<head, pos, framing>>
  BY DEF RequestLineRefused
<1>2. /\ r.error \in {0, 400, 414}
      /\ r.uri \in Seq(Chars) /\ Len(r.uri) <= MaxUriLength
      /\ r.uri # <<>> => Inside(r.uri)
  BY SetUriTyped
<1> HIDE DEF r, reached
<1>3. UriInside'
  <2>1. CASE reached
    <3>1. request_uri' = r.uri
      BY <1>1, <2>1
    <3> QED
      BY <1>2, <3>1 DEF UriInside
  <2>2. CASE ~reached
    <3>1. request_uri' = <<>>
      BY <1>1, <2>2
    <3>2. Len(request_uri') = 0 /\ request_uri' \in Seq(Chars)
      BY <3>1
    <3> QED
      BY <3>1, <3>2, RequestHeadAssumption DEF UriInside
  <2> QED
    BY <2>1, <2>2
<1>4. LineError(r) \in Codes
  BY <1>2, LineErrors
<1>5. {has_host', has_content_length', has_transfer_encoding'} \subseteq BOOLEAN
  BY <1>1 DEF TInv, TypeOK, framing
<1> QED
  BY <1>1, <1>3, <1>4, <1>5, RefusedTyped

LEMMA LineTakenTyped ==
  ASSUME TInv, RequestLineTaken
  PROVE  TInv'
<1> DEFINE r == set_request_uri(head.uri)
<1>1. /\ state = "REQUEST_LINE" /\ state' = "HEADERS" /\ request_uri' = r.uri
      /\ UNCHANGED <<head, pos, error_code, headers, framing>>
  BY DEF RequestLineTaken
<1>2. /\ r.uri \in Seq(Chars) /\ Len(r.uri) <= MaxUriLength
      /\ r.uri # <<>> => Inside(r.uri)
  BY SetUriTyped
<1> HIDE DEF r
<1>3. UriInside'
  BY <1>1, <1>2 DEF UriInside
<1>4. TypeOK'
  BY <1>1, <1>2 DEF TypeOK, TInv, framing
<1> QED
  BY <1>1, <1>3, <1>4 DEF TInv

LEMMA HeadersTyped ==
  ASSUME TInv, HeaderRefused \/ TooManyHeaders \/ HeaderTaken
  PROVE  TInv'
<1>1. /\ state = "HEADERS" /\ UNCHANGED <<head, uris>> /\ pos < Len(head.lines)
  BY DEF HeaderRefused, TooManyHeaders, HeaderTaken, InHeaders
<1>2. UriInside'
  BY <1>1, SameUri DEF TInv
<1>3. CASE HeaderRefused
  <2>1. log_error(LineFault) /\ UNCHANGED <<pos, framing>>
    BY <1>3 DEF HeaderRefused
  <2>2. LineFault \in Codes
    BY DEF LineFault, Codes
  <2>3. {has_host', has_content_length', has_transfer_encoding'} \subseteq BOOLEAN
    BY <2>1 DEF TInv, TypeOK, framing
  <2> QED
    BY <1>1, <1>2, <2>1, <2>2, <2>3, RefusedTyped
<1>4. CASE TooManyHeaders
  <2>1. log_error(431) /\ UNCHANGED pos /\ NotesLine
    BY <1>4 DEF TooManyHeaders
  <2>2. 431 \in Codes
    BY DEF Codes
  <2> QED
    BY <1>1, <1>2, <2>1, <2>2, FlagsTyped, RefusedTyped
<1>5. CASE HeaderTaken
  <2>1. /\ NotesLine /\ headers' = Set(headers, Line.key, Line.value)
        /\ pos' = pos + 1 /\ UNCHANGED <<state, error_code>> /\ ~Full
    BY <1>5 DEF HeaderTaken
  <2>2. IsFiniteSet(DOMAIN headers')
        /\ Cardinality(DOMAIN headers') <= Cardinality(DOMAIN headers) + 1
        /\ Cardinality(DOMAIN headers') \in Nat
    BY <2>1, SetCounted DEF TInv
  <2>3. Cardinality(DOMAIN headers') <= MaxHeaderCount
    BY <2>1, <2>2, Numbers DEF Full
  <2>4. pos' \in 0..Len(head.lines)
    BY <1>1, <2>1, Numbers DEF TInv, TypeOK
  <2>5. TypeOK'
    BY <1>1, <1>2, <2>1, <2>3, <2>4, FlagsTyped DEF TypeOK, TInv, UriInside
  <2> QED
    BY <1>1, <1>2, <2>2, <2>5 DEF TInv
<1> QED
  BY <1>3, <1>4, <1>5

LEMMA EndTyped ==
  ASSUME TInv, EndOfHeaders
  PROVE  TInv'
<1>1. /\ state = "HEADERS" /\ UNCHANGED <<head, uris, pos, framing>>
  BY DEF EndOfHeaders, InHeaders
<1>2. UriInside'
  BY <1>1, SameUri DEF TInv
<1>3. {has_host', has_content_length', has_transfer_encoding'} \subseteq BOOLEAN
  BY <1>1 DEF TInv, TypeOK, framing
<1>4. CASE EndError # 0
  <2>1. log_error(EndError)
    BY <1>4 DEF EndOfHeaders
  <2>2. EndError \in Codes
    BY DEF EndError, Codes
  <2> QED
    BY <1>1, <1>2, <1>3, <2>1, <2>2, RefusedTyped
<1>5. CASE EndError = 0
  <2>1. state' \in {"BODY", "DONE"} /\ UNCHANGED <<error_code, headers>>
    BY <1>5 DEF EndOfHeaders
  <2>2. TypeOK'
    BY <1>1, <1>2, <1>3, <2>1 DEF TypeOK, TInv, UriInside
  <2> QED
    BY <1>1, <1>2, <2>1, <2>2 DEF TInv
<1> QED
  BY <1>4, <1>5

LEMMA StutterTyped ==
  ASSUME TInv, UNCHANGED parser
  PROVE  TInv'
  BY DEF TInv, TypeOK, UriInside, parser, uris, framing

LEMMA StepTyped ==
  ASSUME TInv, [Next]_vars
  PROVE  TInv'
<1>1. CASE RequestLineRefused
  BY <1>1, LineRefusedTyped
<1>2. CASE RequestLineTaken
  BY <1>2, LineTakenTyped
<1>3. CASE HeaderRefused \/ TooManyHeaders \/ HeaderTaken
  BY <1>3, HeadersTyped
<1>4. CASE EndOfHeaders
  BY <1>4, EndTyped
<1>5. CASE UNCHANGED parser
  BY <1>5, StutterTyped
<1> QED
  BY <1>1, <1>2, <1>3, <1>4, <1>5 DEF Next, Spins, Parsed, vars

LEMMA TypedThroughout == Spec => []TInv
<1>1. Init => TInv
  BY InitTyped
<1>2. TInv /\ [Next]_vars => TInv'
  BY StepTyped
<1> QED
  BY <1>1, <1>2, PTL DEF Spec

(* The parser's states, codes and limits, for heads of any length: neither  *)
(* the URI nor the map of headers ever exceeds its limit, but for the one   *)
(* key that log_error adds.                                                 *)
THEOREM TypeCorrect == Spec => []TypeOK
  BY TypedThroughout, PTL DEF TInv
-----------------------------------------------------------------------------
(* The third invariant: the URI and the query are what set_request_uri gave *)
(* for the head, once it was called.                                        *)
UriGot ==
  /\ head \in Heads
  /\ UriRead => LET r == set_request_uri(head.uri)
                IN  /\ request_uri = r.uri /\ query_string = r.query
                    /\ r.error # 0 \/ Taken(r)

LEMMA UriGotInit == Init => UriGot
BY DEF Init, UriGot, UriRead

LEMMA UriGotStep ==
  ASSUME UriGot, [Next]_vars
  PROVE  UriGot'
<1> DEFINE r == set_request_uri(head.uri)
           reached == head.line = "whole" /\ set_http_method(head.method) = 0
<1>1. CASE RequestLineRefused
  <2>1. /\ LineError(r) # 0 /\ head' = head
        /\ request_uri' = IF reached THEN r.uri ELSE <<>>
        /\ query_string' = IF reached THEN r.query ELSE <<>>
    BY <1>1 DEF RequestLineRefused
  <2>2. reached => r.error # 0 \/ Taken(r)
    BY <2>1 DEF LineError
  <2> QED
    BY <2>1, <2>2 DEF UriGot, UriRead
<1>2. CASE RequestLineTaken
  <2>1. Taken(r) /\ request_uri' = r.uri /\ query_string' = r.query /\ head' = head
    BY <1>2 DEF RequestLineTaken
  <2> QED
    BY <2>1 DEF UriGot
<1>3. CASE state # "REQUEST_LINE" /\ UNCHANGED <<head, uris>>
  BY <1>3 DEF UriGot, UriRead, uris
<1>4. CASE UNCHANGED parser
  BY <1>4 DEF UriGot, UriRead, parser, uris
<1>5. HeaderRefused \/ TooManyHeaders \/ HeaderTaken \/ EndOfHeaders
        => state # "REQUEST_LINE" /\ UNCHANGED <<head, uris>>
  BY DEF HeaderRefused, TooManyHeaders, HeaderTaken, EndOfHeaders, InHeaders
<1> QED
  BY <1>1, <1>2, <1>3, <1>4, <1>5 DEF Next, Spins, Parsed, vars

LEMMA Meant == ASSUME UriGot PROVE WholeResolved /\ QueryKept
<1> DEFINE uri == head.uri
           r == set_request_uri(uri)
           s == Decode(Before("#", uri))
<1>1. uri \in Seq(STRING)
  BY RequestHeadAssumption DEF UriGot
<1>2. UriRead => request_uri = r.uri /\ query_string = r.query /\ (r.error # 0 \/ r.uri # <<>>)
  BY DEF UriGot, Taken
<1>3. WholeResolved
  <2> SUFFICES ASSUME UriRead
               PROVE  /\ request_uri # <<>> <=>
                           /\ "^" \notin ToSet(uri) /\ ~Undecodable(Before("#", uri))
                           /\ Resolvable(s) /\ Len(Before("?", Resolved(s))) <= MaxUriLength
                      /\ request_uri # <<>> =>
                           request_uri = Before("?", Resolved(s)) /\ query_string = After("?", Resolved(s))
    BY DEF WholeResolved, UriTaken, Readable, Sent
  <2>1. CASE s = <<>>
    <3>1. "^" \in ToSet(uri) \/ Undecodable(Before("#", uri)) \/ r = Refused(0, <<>>)
      BY <2>1 DEF set_request_uri
    <3>2. "^" \in ToSet(uri) \/ Undecodable(Before("#", uri))
      BY <1>2, <3>1 DEF Refused
    <3>3. r.uri = <<>>
      BY <3>2 DEF set_request_uri, Refused
    <3> QED
      BY <1>2, <3>2, <3>3
  <2>2. CASE s # <<>>
    <3>1. r = set_request_uri(uri) /\ s = Decode(Before("#", uri))
      OBVIOUS
    <3> HIDE DEF r, s, uri
    <3> QED
      BY <1>1, <1>2, <2>2, <3>1, WholeIs
  <2> QED
    BY <2>1, <2>2
<1>4. QueryKept
  <2> DEFINE sent == Before("#", uri)
             path == Decode(Before("?", sent))
             query == Decode(After("?", sent))
  <2> SUFFICES ASSUME UriRead, request_uri # <<>>, Count("?", sent) = 1, "%3f" \notin ToSet(sent),
                      path # <<>>, "/" \notin ToSet(query), path[1] = "/",
                      \A n \in Names(path) : n[2] = Len(path) => n \in Downs(path)
               PROVE  query_string = query /\ request_uri = Resolved(path)
    BY DEF QueryKept, UriTaken, Sent
  <2>1. r = set_request_uri(uri) /\ sent = Before("#", uri) /\ path = Decode(Before("?", sent))
        /\ query = Decode(After("?", sent))
    OBVIOUS
  <2>2. r.uri # <<>>
    BY <1>2
  <2> HIDE DEF r, uri, sent, path, query
  <2>3. r.query = query /\ r.uri = Resolved(path)
    BY <1>1, <2>1, <2>2, QueryIs
  <2> QED
    BY <1>2, <2>3
<1> QED
  BY <1>3, <1>4

\* What was got lies inside.
LEMMA GotInside == ASSUME TInv, UriGot PROVE StaysInside
<1> SUFFICES ASSUME UriRead, request_uri # <<>>
             PROVE  /\ request_uri[1] = "/"
                    /\ \A i \in 1..(Len(request_uri) - 1) :
                         ~(request_uri[i] = "/" /\ request_uri[i + 1] = "/")
                    /\ \A u \in Ups(request_uri) : u[2] = Len(request_uri) /\ "?" \in ToSet(Decode(Sent))
  BY DEF StaysInside, UriTaken
<1>1. request_uri \in Seq(Chars) /\ Inside(request_uri)
  BY DEF TInv, UriInside
<1>2. \A u \in Ups(request_uri) : u[2] = Len(request_uri)
  BY <1>1, InsideUps
<1>3. "?" \notin ToSet(Decode(Sent)) => Ups(request_uri) = {}
  <2> DEFINE uri == head.uri
             r == set_request_uri(uri)
             s == Decode(Before("#", uri))
  <2>1. uri \in Seq(STRING)
    BY RequestHeadAssumption DEF UriGot
  <2>2. request_uri = r.uri
    BY DEF UriGot
  <2>3. s # <<>>
    <3>1. s = <<>> => r.uri = <<>>
      BY DEF set_request_uri, Refused
    <3> QED
      BY <2>2, <3>1
  <2>4. r = set_request_uri(uri) /\ s = Decode(Before("#", uri)) /\ s = Decode(Sent)
    BY DEF Sent
  <2> HIDE DEF r, s, uri
  <2> QED
    BY <2>1, <2>2, <2>3, <2>4, PlainNoUps
<1> QED
  BY <1>1, <1>2, <1>3 DEF Inside

\* Once it has been called, set_request_uri has given what there is.
LEMMA UriGotThroughout == Spec => []UriGot
<1>1. Init => UriGot
  BY UriGotInit
<1>2. UriGot /\ [Next]_vars => UriGot'
  BY UriGotStep
<1> QED
  BY <1>1, <1>2, PTL DEF Spec

(* However a URI is encoded and however many ".." it has, the path that is  *)
(* routed has no name "..", but for the last of a text with a "?"           *)
(* (normalize_uri, set_request_uri).                                        *)
THEOREM AlwaysInside == Spec => []StaysInside
  BY TypedThroughout, UriGotThroughout, GotInside, PTL

(* For URIs of any length, with any number of "." and "..", with and        *)
(* without a "?": one is accepted exactly when what its whole text names    *)
(* lies within the root, and path and query are what that resolves to,      *)
(* split at its first "?"; these are the ones that were sent when the query *)
(* has no slash and the path ends in an ordinary name (set_request_uri,     *)
(* normalize_uri).                                                          *)
THEOREM AlwaysResolved == Spec => []UriResolved
<1>1. UriGot => WholeResolved /\ QueryKept
  BY Meant
<1> QED
  BY <1>1, UriGotThroughout, AlwaysInside, PTL DEF UriResolved
=============================================================================
