-------------------------- MODULE RequestBodyProofs --------------------------
(***************************************************************************)
(* Proofs about RequestBody, for messages of any number of chunks and any  *)
(* way to cut them: the safety properties of its runs but for liveness.    *)
(*                                                                         *)
(* What has been used of a message is always a place on the wire: one with *)
(* a Content-Length is used byte by byte; in chunks, the parser is before  *)
(* a size line, in the data of a chunk, or past the last size line.  Those *)
(* are the cases of IInv, and the lemmas about the wire say what a buffer  *)
(* that begins there can hold.  It needs that no recv() ended inside a     *)
(* size line; when one did, only the types are left.                       *)
(***************************************************************************)
EXTENDS RequestBody, Basics, SequenceTheorems

(* Sizes and their sums.                                                    *)

\* The sum of no sizes is 0, and each adds itself.
LEMMA SumsAre ==
  ASSUME NEW sizes \in Seq(1..3)
  PROVE  /\ Len(sizes) \in Nat /\ \A i \in 1..Len(sizes) : sizes[i] \in 1..3
         /\ Sums(sizes) \in [0..Len(sizes) -> Nat] /\ Sums(sizes)[0] = 0
         /\ \A i \in 1..Len(sizes) : Sums(sizes)[i] = Sums(sizes)[i - 1] + sizes[i]
<1> DEFINE N == Len(sizes)
           Step(g) == [i \in 0..N |-> IF i = 0 THEN 0 ELSE g[i - 1] + sizes[i]]
           sum == CHOOSE g : g = Step(g)
           D == [x \in Nat \X (1..N) |-> x[1] + sizes[x[2]]]
<1>1. N \in Nat /\ \A i \in 1..N : sizes[i] \in 1..3
  OBVIOUS
<1>2. PICK f \in [0..N -> Nat] : Follows(f, N, 0, D)
  <2>1. D \in Steps(N, Nat)
    BY <1>1 DEF Steps
  <2> HIDE DEF D, N
  <2> QED
    BY <1>1, <2>1, Recursion
<1>3. ASSUME NEW i \in 1..N PROVE f[i] = f[i - 1] + sizes[i]
  <2>1. f[i - 1] \in Nat /\ f[i] = D[<<f[i - 1], i>>]
    <3> HIDE DEF D, N
    <3>1. i - 1 \in 0..N
      BY <1>1
    <3> QED
      BY <1>2, <3>1 DEF Follows
  <2>2. <<f[i - 1], i>> \in Nat \X (1..N)
    BY <2>1
  <2> QED
    BY <2>1, <2>2
<1>4. f = Step(f)
  BY <1>1, <1>2, <1>3 DEF Follows
<1>5. sum = Step(sum)
  <2> HIDE DEF Step
  <2> QED
    BY <1>4
<1>6. DOMAIN sum = 0..N /\ sum[0] = 0 /\ \A i \in 1..N : sum[i] = sum[i - 1] + sizes[i]
  <2>1. \A i \in 0..N : sum[i] = Step(sum)[i]
    BY <1>5
  <2>2. DOMAIN sum = 0..N
    BY <1>5
  <2> HIDE DEF sum
  <2> QED
    BY <1>1, <2>1, <2>2
<1>7. sum = [i \in 0..N |-> sum[i]]
  BY <1>5
<1> HIDE DEF sum, N, Step
<1>8. sum \in [0..N -> Nat]
  <2>1. sum[0] \in Nat
    BY <1>6
  <2>2. ASSUME NEW i \in 1..N, sum[i - 1] \in Nat PROVE sum[i] \in Nat
    <3>1. sizes[i] \in 1..3 /\ sum[i] = sum[i - 1] + sizes[i]
      BY <1>1, <1>6 DEF N
    <3> QED
      BY <2>2, <3>1
  <2> QED
    BY <1>1, <1>7, <2>1, <2>2, ByRecursion
<1> QED
  BY <1>1, <1>6, <1>8 DEF Sums, sum, Step, N

\* Sums grow: what a size adds is part of the total.
LEMMA SumsGrow ==
  ASSUME NEW sizes \in Seq(1..3)
  PROVE  /\ Total(sizes) \in Nat /\ (Total(sizes) = 0 <=> sizes = <<>>)
         /\ \A i \in 0..Len(sizes) : Sums(sizes)[i] \in Nat /\ Sums(sizes)[i] <= Total(sizes)
<1> DEFINE N == Len(sizes)
           sum == Sums(sizes)
           P == {i \in 0..N : sum[N - i] <= sum[N]}
<1>1. /\ N \in Nat /\ sum \in [0..N -> Nat] /\ sum[0] = 0 /\ sum[N] = Total(sizes)
      /\ \A i \in 1..N : sizes[i] \in 1..3 /\ sum[i] = sum[i - 1] + sizes[i]
  BY SumsAre DEF Total
<1>2. N = 0 <=> sizes = <<>>
  OBVIOUS
<1> HIDE DEF N, sum
<1>3. 0 \in P
  BY <1>1
<1>4. ASSUME NEW i \in 0..(N - 1), i \in P PROVE i + 1 \in P
  <2> DEFINE k == N - i
  <2>1. k \in 1..N /\ N - (i + 1) = k - 1 /\ k - 1 \in 0..N /\ i + 1 \in 0..N
    BY <1>1
  <2>2. sizes[k] \in 1..3 /\ sum[k] = sum[k - 1] + sizes[k] /\ sum[k] <= sum[N]
    BY <1>1, <1>4, <2>1
  <2>3. sum[k - 1] \in Nat /\ sum[N] \in Nat
    BY <1>1, <2>1
  <2>4. sum[k - 1] <= sum[N]
    BY <2>2, <2>3
  <2> QED
    BY <2>1, <2>4
<1>5. 0..N \subseteq P
  <2> HIDE DEF P
  <2> QED
    BY <1>1, <1>3, <1>4, UpTo
<1>6. ASSUME NEW i \in 0..N PROVE sum[i] \in Nat /\ sum[i] <= sum[N]
  <2>1. N - i \in 0..N /\ N - (N - i) = i
    BY <1>1
  <2>2. N - i \in P
    BY <1>5, <2>1
  <2> QED
    BY <1>1, <2>1, <2>2
<1>7. N # 0 => sum[N] # 0
  <2> SUFFICES ASSUME N # 0 PROVE sum[N] # 0
    OBVIOUS
  <2>1. N \in 1..N /\ N - 1 \in 0..N
    BY <1>1
  <2>2. sizes[N] \in 1..3 /\ sum[N] = sum[N - 1] + sizes[N] /\ sum[N - 1] \in Nat
    BY <1>1, <2>1
  <2> QED
    BY <2>2
<1>8. sum[N] \in Nat
  BY <1>1
<1> QED
  BY <1>1, <1>2, <1>6, <1>7, <1>8 DEF N, sum

\* Any text has a value; that of a digit is its own, that of two digits reads
\* them as one number.
LEMMA NumberIs ==
  ASSUME NEW S, NEW s \in Seq(S)
  PROVE  /\ Number(s) \in Nat
         /\ Len(s) = 0 => Number(s) = 0
         /\ Len(s) = 1 => Number(s) = Value(s[1])
         /\ Len(s) = 2 => Number(s) = 2 * Value(s[1]) + Value(s[2])
<1> DEFINE N == Len(s)
           Step(g) == [i \in 0..N |-> IF i = 0 THEN 0 ELSE 2 * g[i - 1] + Value(s[i])]
           number == CHOOSE g : g = Step(g)
           D == [x \in Nat \X (1..N) |-> 2 * x[1] + Value(s[x[2]])]
<1>1. N \in Nat /\ \A d : Value(d) \in {0, 1}
  BY DEF Value
<1>2. PICK f \in [0..N -> Nat] : Follows(f, N, 0, D)
  <2>1. ASSUME NEW x \in Nat \X (1..N) PROVE 2 * x[1] + Value(s[x[2]]) \in Nat
    <3>1. Value(s[x[2]]) \in {0, 1} /\ x[1] \in Nat
      BY <1>1
    <3> QED
      BY <3>1
  <2>2. D \in Steps(N, Nat)
    BY <2>1 DEF Steps
  <2> HIDE DEF D, N
  <2> QED
    BY <1>1, <2>2, Recursion
<1>3. ASSUME NEW i \in 1..N PROVE f[i] = 2 * f[i - 1] + Value(s[i])
  <2>1. f[i - 1] \in Nat /\ f[i] = D[<<f[i - 1], i>>]
    <3> HIDE DEF D, N
    <3>1. i - 1 \in 0..N
      BY <1>1
    <3> QED
      BY <1>2, <3>1 DEF Follows
  <2>2. <<f[i - 1], i>> \in Nat \X (1..N)
    BY <2>1
  <2> QED
    BY <2>1, <2>2
<1>4. f = Step(f)
  BY <1>1, <1>2, <1>3 DEF Follows
<1>5. number = Step(number)
  <2> HIDE DEF Step
  <2> QED
    BY <1>4
<1>6. number = [i \in 0..N |-> number[i]]
  BY <1>5
<1>7. number[0] = 0 /\ \A i \in 1..N : number[i] = 2 * number[i - 1] + Value(s[i])
  <2>1. \A i \in 0..N : number[i] = Step(number)[i]
    BY <1>5
  <2> HIDE DEF number
  <2> QED
    BY <1>1, <2>1
<1>8. number[N] = Number(s)
  BY DEF Number
<1> HIDE DEF number, N, Step
<1>9. number \in [0..N -> Nat]
  <2>1. number[0] \in Nat
    BY <1>7
  <2>2. ASSUME NEW i \in 1..N, number[i - 1] \in Nat PROVE number[i] \in Nat
    <3>1. Value(s[i]) \in {0, 1} /\ number[i] = 2 * number[i - 1] + Value(s[i])
      BY <1>1, <1>7
    <3> QED
      BY <2>2, <3>1
  <2> QED
    BY <1>1, <1>6, <2>1, <2>2, ByRecursion
<1>10. Number(s) \in Nat
  BY <1>1, <1>8, <1>9
<1>11. ASSUME N = 1 PROVE Number(s) = Value(s[1])
  <2>1. number[1] = 2 * number[1 - 1] + Value(s[1])
    BY <1>7, <1>11
  <2>2. number[1 - 1] = 0
    BY <1>7
  <2> QED
    BY <1>1, <1>8, <1>11, <2>1, <2>2
<1>12. ASSUME N = 2 PROVE Number(s) = 2 * Value(s[1]) + Value(s[2])
  <2>1. /\ number[1] = 2 * number[1 - 1] + Value(s[1])
        /\ number[2] = 2 * number[2 - 1] + Value(s[2])
    BY <1>7, <1>12
  <2>2. number[1 - 1] = 0 /\ number[2 - 1] = number[1]
    BY <1>7
  <2> QED
    BY <1>1, <1>8, <1>12, <2>1, <2>2
<1> QED
  BY <1>7, <1>8, <1>10, <1>11, <1>12 DEF N

(* The wire.                                                                *)

Parts == {"header", "size", "data", "crlf", "end", "next"}
Pair == Symbol \X Parts

\* The symbols of a message are symbols.
LEMMA SymbolsAre ==
  /\ "0" \in Symbol /\ "1" \in Symbol /\ "CR" \in Symbol /\ "LF" \in Symbol
  /\ Header \in Symbol /\ NextRequest \in Symbol
  /\ CRLF \in Seq(Symbol) /\ Len(CRLF) = 2 /\ CRLF[1] = "CR" /\ CRLF[2] = "LF"
  /\ Bytes \in Seq(Symbol)
<1>1. "0" \in Symbol /\ "1" \in Symbol /\ "CR" \in Symbol /\ "LF" \in Symbol
      /\ Header \in Symbol /\ NextRequest \in Symbol
  BY DEF Symbol, Digit
<1>2. CRLF \in Seq(Symbol) /\ Len(CRLF) = 2 /\ CRLF[1] = "CR" /\ CRLF[2] = "LF"
  BY <1>1 DEF CRLF
<1>3. Bytes \in Seq(Symbol)
  <2>1. Bytes \in Seq(ToSet(Bytes)) /\ ToSet(Bytes) \subseteq Symbol
    BY RequestBodyAssumption DEF Symbol
  <2> QED
    BY <2>1, SeqMonotonic
<1> QED
  BY <1>1, <1>2, <1>3

\* A size from 0 to 3 has one digit or two, which read as itself.
LEMMA DigitsAre ==
  ASSUME NEW n \in 0..3
  PROVE  /\ Digits(n) \in Seq(Digit) /\ Len(Digits(n)) \in {1, 2}
         /\ \A k \in 1..Len(Digits(n)) : Digits(n)[k] \in Digit
         /\ Number(Digits(n)) = n
<1>1. \/ n = 0 /\ Digits(n) = <<"0">>
      \/ n = 1 /\ Digits(n) = <<"1">>
      \/ n = 2 /\ Digits(n) = <<"1", "0">>
      \/ n = 3 /\ Digits(n) = <<"1", "1">>
  BY DEF Digits
<1>2. "0" \in Digit /\ "1" \in Digit /\ Value("0") = 0 /\ Value("1") = 1
  BY DEF Digit, Value
<1> DEFINE s == Digits(n)
<1>3. CASE n = 0
  <2>1. s = <<"0">>
    BY <1>1, <1>3
  <2>2. s \in Seq(Digit) /\ Len(s) = 1 /\ s[1] = "0"
    BY <1>2, <2>1
  <2>3. Number(s) = Value(s[1])
    BY <2>2, NumberIs
  <2> QED
    BY <1>2, <1>3, <2>2, <2>3
<1>4. CASE n = 1
  <2>1. s = <<"1">>
    BY <1>1, <1>4
  <2>2. s \in Seq(Digit) /\ Len(s) = 1 /\ s[1] = "1"
    BY <1>2, <2>1
  <2>3. Number(s) = Value(s[1])
    BY <2>2, NumberIs
  <2> QED
    BY <1>2, <1>4, <2>2, <2>3
<1>5. CASE n \in {2, 3}
  <2>1. (s = <<"1", "0">> /\ n = 2) \/ (s = <<"1", "1">> /\ n = 3)
    BY <1>1, <1>5
  <2> HIDE DEF s
  <2>2. s \in Seq(Digit) /\ Len(s) = 2 /\ s[1] = "1" /\ ((s[2] = "0" /\ n = 2) \/ (s[2] = "1" /\ n = 3))
    <3>1. CASE s = <<"1", "0">> /\ n = 2
      BY <1>2, <3>1
    <3>2. CASE s = <<"1", "1">> /\ n = 3
      BY <1>2, <3>2
    <3> QED
      BY <2>1, <3>1, <3>2
  <2>3. Number(s) = 2 * Value(s[1]) + Value(s[2])
    BY <2>2, NumberIs
  <2>4. Number(s) = n
    BY <1>2, <2>2, <2>3
  <2>5. \A k \in 1..2 : s[k] \in Digit
    <3>1. \A k \in 1..2 : k = 1 \/ k = 2
      OBVIOUS
    <3>2. s[1] \in Digit /\ s[2] \in Digit
      BY <1>2, <2>2
    <3> QED
      BY <3>1, <3>2
  <2> QED
    BY <2>2, <2>4, <2>5 DEF s
<1> QED
  BY <1>3, <1>4, <1>5

\* Each symbol of a part carries its name.
LEMMA PartIs ==
  ASSUME NEW s \in Seq(Symbol), NEW part \in Parts
  PROVE  /\ Part(s, part) \in Seq(Pair) /\ Len(Part(s, part)) = Len(s) /\ Len(s) \in Nat
         /\ \A k \in 1..Len(s) : Part(s, part)[k] = <<s[k], part>>
<1> DEFINE n == Len(s)
           p == [k \in 1..n |-> <<s[k], part>>]
<1>1. n \in Nat /\ DOMAIN s = 1..n /\ \A k \in 1..n : s[k] \in Symbol
  OBVIOUS
<1>2. Part(s, part) = p
  BY <1>1 DEF Part
<1>3. p \in [1..n -> Pair]
  BY <1>1 DEF Pair
<1>4. \A k \in 1..n : p[k] = <<s[k], part>>
  OBVIOUS
<1> HIDE DEF n, p
<1>5. p \in Seq(Pair) /\ Len(p) = n
  BY <1>1, <1>3, SeqOfLength
<1> QED
  BY <1>1, <1>2, <1>4, <1>5 DEF n

\* After the first p symbols of w: a size line, and a whole chunk.
SizeLine(w, p, n) ==
  /\ \A k \in 1..Len(Digits(n)) : w[p + k] = <<Digits(n)[k], "size">>
  /\ w[p + Len(Digits(n)) + 1] = <<"CR", "size">>
  /\ w[p + Len(Digits(n)) + 2] = <<"LF", "size">>
HasChunk(w, p, m, i) ==
  LET n == m.sizes[i]
      data == p + Len(Digits(n)) + 2
  IN  /\ SizeLine(w, p, n)
      /\ \A k \in 1..n : w[data + k] = <<Bytes[Sums(m.sizes)[i - 1] + k], "data">>
      /\ w[data + n + 1] = <<"CR", "crlf">>
      /\ w[data + n + 2] = <<"LF", "crlf">>

\* What is known of any message.
LEMMA MessageIs ==
  ASSUME NEW m \in Messages
  PROVE  /\ m.sizes \in Seq(1..3) /\ Len(m.sizes) \in Nat
         /\ m.framing \in {"length", "chunked"} /\ m.next \in BOOLEAN
         /\ Total(m.sizes) \in Nat /\ Total(m.sizes) <= Len(Bytes) /\ Len(Bytes) \in Nat
         /\ ReadSize \in Nat /\ ClientMaxBodySize \in Nat
<1>1. m \in Message /\ Total(m.sizes) <= Len(Bytes) /\ ReadSize \in Nat /\ ClientMaxBodySize \in Nat
  BY RequestBodyAssumption
<1>2. m.sizes \in Seq(1..3) /\ m.framing \in {"length", "chunked"} /\ m.next \in BOOLEAN
  BY <1>1 DEF Message
<1>3. Len(Bytes) \in Nat /\ Len(m.sizes) \in Nat
  BY <1>2, SymbolsAre
<1> QED
  BY <1>1, <1>2, <1>3, SumsGrow

\* A size is from 1 to 3, and its bytes are among those of the body.
LEMMA SizeIs ==
  ASSUME NEW m \in Messages, NEW i \in 1..Len(m.sizes)
  PROVE  /\ m.sizes[i] \in 1..3 /\ Sums(m.sizes)[i - 1] \in Nat
         /\ Sums(m.sizes)[i] = Sums(m.sizes)[i - 1] + m.sizes[i]
         /\ Sums(m.sizes)[i] <= Total(m.sizes)
<1>1. m.sizes \in Seq(1..3) /\ Len(m.sizes) \in Nat
  BY MessageIs
<1>2. i \in 0..Len(m.sizes) /\ i - 1 \in 0..Len(m.sizes)
  BY <1>1
<1> QED
  BY <1>1, <1>2, SumsAre, SumsGrow

\* A chunk is laid out as it should be.
LEMMA ChunkIs ==
  ASSUME NEW m \in Messages, NEW i \in 1..Len(m.sizes)
  PROVE  /\ Chunk(m, i) \in Seq(Pair)
         /\ Len(Chunk(m, i)) = Len(Digits(m.sizes[i])) + 2 + m.sizes[i] + 2
         /\ HasChunk(Chunk(m, i), 0, m, i)
<1> DEFINE n == m.sizes[i]
           before == Sums(m.sizes)[i - 1]
           digits == Digits(n)
           d == Len(digits)
           bytes == SubSeq(Bytes, before + 1, before + n)
           a == Part(digits \o CRLF, "size")
           b == Part(bytes, "data")
           c == Part(CRLF, "crlf")
<1>1. n \in 1..3 /\ before \in Nat /\ before + n <= Len(Bytes) /\ Len(Bytes) \in Nat
  <2>1. before + n <= Total(m.sizes) /\ n \in 1..3 /\ before \in Nat
    BY SizeIs
  <2>2. Total(m.sizes) <= Len(Bytes) /\ Len(Bytes) \in Nat /\ Total(m.sizes) \in Nat
    BY MessageIs
  <2> QED
    BY <2>1, <2>2
<1>2. digits \in Seq(Symbol) /\ d \in {1, 2} /\ \A k \in 1..d : digits[k] \in Symbol
  <2>1. digits \in Seq(Digit) /\ d \in {1, 2}
    BY <1>1, DigitsAre
  <2>2. Digit \subseteq Symbol
    BY DEF Symbol
  <2>3. digits \in Seq(Symbol)
    BY <2>1, <2>2, SeqMonotonic
  <2> QED
    BY <2>1, <2>3
<1> HIDE DEF digits
<1>3. /\ digits \o CRLF \in Seq(Symbol) /\ Len(digits \o CRLF) = d + 2
      /\ \A k \in 1..d : (digits \o CRLF)[k] = digits[k]
      /\ (digits \o CRLF)[d + 1] = "CR" /\ (digits \o CRLF)[d + 2] = "LF"
  <2>1. /\ digits \o CRLF \in Seq(Symbol) /\ Len(digits \o CRLF) = Len(digits) + Len(CRLF)
        /\ \A k \in 1..(Len(digits) + Len(CRLF)) :
             (digits \o CRLF)[k] = IF k <= Len(digits) THEN digits[k] ELSE CRLF[k - Len(digits)]
    BY <1>2, SymbolsAre, ConcatProperties
  <2>2. Len(CRLF) = 2 /\ CRLF[1] = "CR" /\ CRLF[2] = "LF"
    BY SymbolsAre
  <2> DEFINE dc == digits \o CRLF
  <2>3. /\ dc \in Seq(Symbol) /\ Len(dc) = d + 2
        /\ \A k \in 1..(d + 2) : dc[k] = IF k <= d THEN digits[k] ELSE CRLF[k - d]
    BY <2>1, <2>2
  <2> HIDE DEF dc, d
  <2>4. dc[d + 1] = CRLF[1] /\ dc[d + 2] = CRLF[2]
    <3>1. d + 1 \in 1..(d + 2) /\ ~(d + 1 <= d) /\ (d + 1) - d = 1
          /\ d + 2 \in 1..(d + 2) /\ ~(d + 2 <= d) /\ (d + 2) - d = 2
      BY <1>2
    <3> QED
      BY <2>3, <3>1
  <2>5. \A k \in 1..d : dc[k] = digits[k]
    BY <1>2, <2>3
  <2> QED
    BY <2>2, <2>3, <2>4, <2>5 DEF dc
<1>4. bytes \in Seq(Symbol) /\ Len(bytes) = n /\ \A k \in 1..n : bytes[k] = Bytes[before + k]
  <2>1. before + 1 \in Int /\ before + n \in Int /\ \A k \in (before + 1)..(before + n) : Bytes[k] \in Symbol
    BY <1>1, SymbolsAre
  <2> HIDE DEF before, n
  <2>2. /\ bytes \in Seq(Symbol)
        /\ Len(bytes) = IF before + 1 <= before + n THEN (before + n) - (before + 1) + 1 ELSE 0
        /\ \A k \in 1..((before + n) - (before + 1) + 1) : bytes[k] = Bytes[(before + 1) + k - 1]
    BY <2>1, SubSeqProperties
  <2>3. (before + n) - (before + 1) + 1 = n /\ before + 1 <= before + n
    BY <1>1
  <2>4. \A k \in 1..n : (before + 1) + k - 1 = before + k
    BY <1>1
  <2> QED
    BY <2>2, <2>3, <2>4
<1>5. /\ a \in Seq(Pair) /\ Len(a) = d + 2 /\ b \in Seq(Pair) /\ Len(b) = n /\ c \in Seq(Pair) /\ Len(c) = 2
      /\ \A k \in 1..d : a[k] = <<digits[k], "size">>
      /\ a[d + 1] = <<"CR", "size">> /\ a[d + 2] = <<"LF", "size">>
      /\ \A k \in 1..n : b[k] = <<Bytes[before + k], "data">>
      /\ c[1] = <<"CR", "crlf">> /\ c[2] = <<"LF", "crlf">>
  <2>1. {"size", "data", "crlf"} \subseteq Parts
    BY DEF Parts
  <2> DEFINE dc == digits \o CRLF
  <2>2. a \in Seq(Pair) /\ Len(a) = d + 2 /\ \A k \in 1..(d + 2) : a[k] = <<dc[k], "size">>
    BY <1>3, <2>1, PartIs
  <2>3. b \in Seq(Pair) /\ Len(b) = n /\ \A k \in 1..n : b[k] = <<bytes[k], "data">>
    BY <1>4, <2>1, PartIs
  <2>4. c \in Seq(Pair) /\ Len(c) = 2 /\ \A k \in 1..2 : c[k] = <<CRLF[k], "crlf">>
    BY <2>1, PartIs, SymbolsAre
  <2>5. d + 1 \in 1..(d + 2) /\ d + 2 \in 1..(d + 2) /\ \A k \in 1..d : k \in 1..(d + 2)
    BY <1>2
  <2> HIDE DEF a, b, c, d, n, bytes, dc
  <2>6. /\ \A k \in 1..d : a[k] = <<digits[k], "size">>
        /\ a[d + 1] = <<"CR", "size">> /\ a[d + 2] = <<"LF", "size">>
    BY <1>3, <2>2, <2>5 DEF dc
  <2>7. \A k \in 1..n : b[k] = <<Bytes[before + k], "data">>
    BY <1>4, <2>3
  <2>8. c[1] = <<"CR", "crlf">> /\ c[2] = <<"LF", "crlf">>
    BY <2>4, SymbolsAre
  <2> QED
    BY <2>2, <2>3, <2>4, <2>6, <2>7, <2>8
<1>6. Chunk(m, i) = (a \o b) \o c
  BY DEF Chunk, digits
<1> HIDE DEF a, b, c, d, n, before
<1> DEFINE ab == a \o b
           w == ab \o c
<1>7. ab \in Seq(Pair) /\ Len(ab) = d + 2 + n
      /\ \A k \in 1..(d + 2 + n) : ab[k] = IF k <= d + 2 THEN a[k] ELSE b[k - (d + 2)]
  <2>1. /\ ab \in Seq(Pair) /\ Len(ab) = Len(a) + Len(b)
        /\ \A k \in 1..(Len(a) + Len(b)) : ab[k] = IF k <= Len(a) THEN a[k] ELSE b[k - Len(a)]
    BY <1>5, ConcatProperties
  <2> HIDE DEF ab
  <2> QED
    BY <1>5, <2>1
<1> HIDE DEF ab
<1>8. w \in Seq(Pair) /\ Len(w) = d + 2 + n + 2
      /\ \A k \in 1..(d + 2 + n + 2) : w[k] = IF k <= d + 2 + n THEN ab[k] ELSE c[k - (d + 2 + n)]
  <2>1. /\ w \in Seq(Pair) /\ Len(w) = Len(ab) + Len(c)
        /\ \A k \in 1..(Len(ab) + Len(c)) : w[k] = IF k <= Len(ab) THEN ab[k] ELSE c[k - Len(ab)]
    BY <1>5, <1>7, ConcatProperties
  <2> HIDE DEF w
  <2> QED
    BY <1>5, <1>7, <2>1
<1> HIDE DEF w
<1>9. /\ \A k \in 1..d : w[k] = a[k]
      /\ w[d + 1] = a[d + 1] /\ w[d + 2] = a[d + 2]
      /\ \A k \in 1..n : w[d + 2 + k] = b[k]
      /\ w[d + 2 + n + 1] = c[1] /\ w[d + 2 + n + 2] = c[2]
  <2>0. d \in Nat /\ n \in Nat
    BY <1>1, <1>2
  <2>1. ASSUME NEW k \in 1..(d + 2) PROVE w[k] = a[k]
    <3>1. k \in 1..(d + 2 + n) /\ k \in 1..(d + 2 + n + 2) /\ k <= d + 2 + n /\ k <= d + 2
      BY <2>0
    <3> QED
      BY <1>7, <1>8, <3>1
  <2>2. ASSUME NEW k \in 1..n PROVE w[d + 2 + k] = b[k]
    <3>1. d + 2 + k \in 1..(d + 2 + n) /\ d + 2 + k \in 1..(d + 2 + n + 2) /\ d + 2 + k <= d + 2 + n
          /\ ~(d + 2 + k <= d + 2) /\ (d + 2 + k) - (d + 2) = k
      BY <2>0
    <3> QED
      BY <1>7, <1>8, <3>1
  <2>3. ASSUME NEW k \in 1..2 PROVE w[d + 2 + n + k] = c[k]
    <3>1. d + 2 + n + k \in 1..(d + 2 + n + 2) /\ ~(d + 2 + n + k <= d + 2 + n)
          /\ (d + 2 + n + k) - (d + 2 + n) = k
      BY <2>0
    <3> QED
      BY <1>8, <3>1
  <2>4. d + 1 \in 1..(d + 2) /\ d + 2 \in 1..(d + 2) /\ 1 \in 1..2 /\ 2 \in 1..2
        /\ \A k \in 1..d : k \in 1..(d + 2)
    BY <2>0
  <2> QED
    BY <2>1, <2>2, <2>3, <2>4
<1>10. HasChunk(w, 0, m, i)
  <2>1. d = Len(Digits(m.sizes[i])) /\ n = m.sizes[i] /\ before = Sums(m.sizes)[i - 1] /\ digits = Digits(m.sizes[i])
    BY DEF d, n, before, digits
  <2>2. 0 + d = d /\ \A k \in 1..d : 0 + k = k
    BY <1>2
  <2>3. SizeLine(w, 0, n)
    <3>1. n = m.sizes[i] /\ d = Len(Digits(n)) /\ digits = Digits(n)
      BY <2>1
    <3> QED
      BY <1>5, <1>9, <2>2, <3>1 DEF SizeLine
  <2> DEFINE data == d + 2
  <2>4. /\ \A k \in 1..n : w[data + k] = <<Bytes[before + k], "data">>
        /\ w[data + n + 1] = <<"CR", "crlf">> /\ w[data + n + 2] = <<"LF", "crlf">>
    BY <1>5, <1>9
  <2>5. data = 0 + Len(Digits(n)) + 2
    BY <1>2, <2>1
  <2> HIDE DEF data
  <2> QED
    BY <2>1, <2>3, <2>4, <2>5 DEF HasChunk
<1> QED
  BY <1>6, <1>8, <1>10 DEF w, ab, d, n, digits

\* Each chunk follows those before it.
LEMMA ChunksAre ==
  ASSUME NEW m \in Messages
  PROVE  /\ Chunks(m) \in [0..Len(m.sizes) -> Seq(Pair)] /\ Chunks(m)[0] = <<>>
         /\ \A i \in 1..Len(m.sizes) : Chunks(m)[i] = Chunks(m)[i - 1] \o Chunk(m, i)
<1> DEFINE N == Len(m.sizes)
           S == Seq(Pair)
           Step(g) == [i \in 0..N |-> IF i = 0 THEN <<>> ELSE g[i - 1] \o Chunk(m, i)]
           chunks == CHOOSE g : g = Step(g)
           D == [x \in S \X (1..N) |-> x[1] \o Chunk(m, x[2])]
           c == <<>>
<1>1. N \in Nat /\ \A i \in 1..N : Chunk(m, i) \in Seq(Pair)
  BY MessageIs, ChunkIs
<1>2. c \in S /\ \A x, y \in S : x \o y \in S
  OBVIOUS
<1> HIDE DEF c
<1>3. PICK f \in [0..N -> S] : Follows(f, N, c, D)
  <2> HIDE DEF S
  <2>1. ASSUME NEW x \in S \X (1..N) PROVE x[1] \o Chunk(m, x[2]) \in S
    <3>1. x[1] \in S /\ Chunk(m, x[2]) \in S
      BY <1>1 DEF S
    <3> QED
      BY <1>2, <3>1
  <2>2. D \in Steps(N, S)
    BY <2>1 DEF Steps
  <2> HIDE DEF D, N
  <2> QED
    BY <1>1, <1>2, <2>2, Recursion
<1>4. ASSUME NEW i \in 1..N PROVE f[i] = f[i - 1] \o Chunk(m, i)
  <2> HIDE DEF S
  <2>1. f[i - 1] \in S /\ f[i] = D[<<f[i - 1], i>>]
    <3> HIDE DEF D, N
    <3>1. i - 1 \in 0..N
      BY <1>1
    <3> QED
      BY <1>3, <3>1 DEF Follows
  <2>2. <<f[i - 1], i>> \in S \X (1..N)
    BY <2>1
  <2> QED
    BY <2>1, <2>2
<1>5. f = Step(f)
  <2>1. f[0] = <<>>
    BY <1>3 DEF Follows, c
  <2> HIDE DEF S
  <2> QED
    BY <1>1, <1>3, <1>4, <2>1
<1>6. chunks = Step(chunks)
  <2> HIDE DEF Step
  <2> QED
    BY <1>5
<1>7. chunks = [i \in 0..N |-> chunks[i]]
  BY <1>6
<1>8. chunks[0] = <<>> /\ \A i \in 1..N : chunks[i] = chunks[i - 1] \o Chunk(m, i)
  <2>1. \A i \in 0..N : chunks[i] = Step(chunks)[i]
    BY <1>6
  <2> HIDE DEF chunks
  <2>2. chunks[0] = <<>>
    <3>1. 0 \in 0..N
      BY <1>1
    <3>2. Step(chunks)[0] = <<>>
      BY <3>1
    <3> QED
      BY <2>1, <3>1, <3>2
  <2>3. ASSUME NEW i \in 1..N PROVE chunks[i] = chunks[i - 1] \o Chunk(m, i)
    <3>1. i \in 0..N /\ i # 0
      BY <1>1
    <3>2. Step(chunks)[i] = chunks[i - 1] \o Chunk(m, i)
      BY <3>1
    <3> QED
      BY <2>1, <3>1, <3>2
  <2> QED
    BY <2>2, <2>3
<1>9. chunks = Chunks(m)
  BY DEF Chunks
<1> HIDE DEF chunks, N, Step, S
<1>10. chunks \in [0..N -> S]
  <2>1. chunks[0] \in S
    BY <1>2, <1>8 DEF c
  <2>2. ASSUME NEW i \in 1..N, chunks[i - 1] \in S PROVE chunks[i] \in S
    <3>1. Chunk(m, i) \in S /\ chunks[i] = chunks[i - 1] \o Chunk(m, i)
      BY <1>1, <1>8 DEF S
    <3> QED
      BY <1>2, <2>2, <3>1
  <2> QED
    BY <1>1, <1>7, <2>1, <2>2, ByRecursion
<1> QED
  BY <1>8, <1>9, <1>10 DEF N, S

\* What is in a chunk is where the chunk is.
LEMMA Shifted ==
  ASSUME NEW m \in Messages, NEW i \in 1..Len(m.sizes), NEW w, NEW p \in Nat,
         \A k \in 1..Len(Chunk(m, i)) : w[p + k] = Chunk(m, i)[k]
  PROVE  HasChunk(w, p, m, i)
<1> DEFINE n == m.sizes[i]
           digits == Digits(n)
           d == Len(digits)
           before == Sums(m.sizes)[i - 1]
           u == Chunk(m, i)
<1>1. n \in 1..3 /\ d \in {1, 2}
  <2>1. n \in 1..3
    BY SizeIs
  <2>2. n \in 0..3
    BY <2>1
  <2> QED
    BY <2>1, <2>2, DigitsAre
<1>2. Len(u) = d + 2 + n + 2 /\ HasChunk(u, 0, m, i)
  BY ChunkIs
<1>3. /\ \A k \in 1..d : u[0 + k] = <<digits[k], "size">>
      /\ u[0 + d + 1] = <<"CR", "size">> /\ u[0 + d + 2] = <<"LF", "size">>
      /\ \A k \in 1..n : u[0 + d + 2 + k] = <<Bytes[before + k], "data">>
      /\ u[0 + d + 2 + n + 1] = <<"CR", "crlf">> /\ u[0 + d + 2 + n + 2] = <<"LF", "crlf">>
  BY <1>2 DEF HasChunk, SizeLine
<1>4. \A k \in 1..(d + 2 + n + 2) : w[p + k] = u[k]
  BY <1>2
<1> HIDE DEF u, n, digits, d, before
<1>5. ASSUME NEW j, NEW x, j \in 1..(d + 2 + n + 2), u[j] = x PROVE w[p + j] = x
  BY <1>4, <1>5
<1>6. \A k \in 1..d : w[p + k] = <<digits[k], "size">>
  <2> SUFFICES ASSUME NEW k \in 1..d PROVE w[p + k] = <<digits[k], "size">>
    OBVIOUS
  <2>1. 0 + k = k /\ k \in 1..(d + 2 + n + 2)
    BY <1>1
  <2> QED
    BY <1>3, <1>5, <2>1
<1>7. w[p + d + 1] = <<"CR", "size">> /\ w[p + d + 2] = <<"LF", "size">>
  <2>1. /\ 0 + d + 1 = d + 1 /\ d + 1 \in 1..(d + 2 + n + 2) /\ p + d + 1 = p + (d + 1)
        /\ 0 + d + 2 = d + 2 /\ d + 2 \in 1..(d + 2 + n + 2) /\ p + d + 2 = p + (d + 2)
    BY <1>1
  <2> QED
    BY <1>3, <1>5, <2>1
<1>8. \A k \in 1..n : w[p + d + 2 + k] = <<Bytes[before + k], "data">>
  <2> SUFFICES ASSUME NEW k \in 1..n PROVE w[p + d + 2 + k] = <<Bytes[before + k], "data">>
    OBVIOUS
  <2>1. 0 + d + 2 + k = d + 2 + k /\ d + 2 + k \in 1..(d + 2 + n + 2) /\ p + d + 2 + k = p + (d + 2 + k)
    BY <1>1
  <2> QED
    BY <1>3, <1>5, <2>1
<1>9. w[p + d + 2 + n + 1] = <<"CR", "crlf">> /\ w[p + d + 2 + n + 2] = <<"LF", "crlf">>
  <2>1. /\ 0 + d + 2 + n + 1 = d + 2 + n + 1 /\ d + 2 + n + 1 \in 1..(d + 2 + n + 2)
        /\ p + d + 2 + n + 1 = p + (d + 2 + n + 1)
        /\ 0 + d + 2 + n + 2 = d + 2 + n + 2 /\ d + 2 + n + 2 \in 1..(d + 2 + n + 2)
        /\ p + d + 2 + n + 2 = p + (d + 2 + n + 2)
    BY <1>1
  <2> QED
    BY <1>3, <1>5, <2>1
<1> QED
  BY <1>6, <1>7, <1>8, <1>9 DEF HasChunk, SizeLine, n, d, digits, before

\* Chunk i is after the first i - 1, also when others follow.
LEMMA Laid ==
  ASSUME NEW m \in Messages, NEW i \in 1..Len(m.sizes)
  PROVE  LET c == Chunks(m)
             u == Chunk(m, i) IN
         /\ Len(c[i - 1]) \in Nat /\ Len(c[i]) = Len(c[i - 1]) + Len(u)
         /\ \A j \in i..Len(m.sizes) :
              /\ Len(c[i]) <= Len(c[j])
              /\ \A k \in 1..Len(u) : c[j][Len(c[i - 1]) + k] = u[k]
<1> DEFINE N == Len(m.sizes)
           c == Chunks(m)
           u == Chunk(m, i)
           Good(j) == /\ Len(c[i]) <= Len(c[j])
                      /\ \A k \in 1..Len(u) : c[j][Len(c[i - 1]) + k] = u[k]
           P == {x \in 0..(N - i) : Good(i + x)}
<1>1. /\ N \in Nat /\ i - 1 \in 0..N /\ i \in 0..N
      /\ \A j \in 0..N : c[j] \in Seq(Pair)
      /\ \A j \in 1..N : c[j] = c[j - 1] \o Chunk(m, j) /\ Chunk(m, j) \in Seq(Pair)
  <2>1. N \in Nat
    BY MessageIs
  <2>2. i - 1 \in 0..N /\ i \in 0..N
    BY <2>1
  <2>3. /\ c \in [0..N -> Seq(Pair)]
        /\ \A j \in 1..N : c[j] = c[j - 1] \o Chunk(m, j)
    BY ChunksAre
  <2>4. \A j \in 1..N : Chunk(m, j) \in Seq(Pair)
    BY ChunkIs
  <2> HIDE DEF c, N
  <2>5. \A j \in 0..N : c[j] \in Seq(Pair)
    BY <2>3
  <2> QED
    BY <2>1, <2>2, <2>3, <2>4, <2>5
<1> HIDE DEF c, N
<1>2. \A j \in 0..N : Len(c[j]) \in Nat
  BY <1>1
<1>3. ASSUME NEW j \in 1..N
      PROVE  /\ Len(c[j]) = Len(c[j - 1]) + Len(Chunk(m, j)) /\ Len(Chunk(m, j)) \in Nat
             /\ \A k \in 1..Len(c[j - 1]) : c[j][k] = c[j - 1][k]
             /\ \A k \in 1..Len(Chunk(m, j)) : c[j][Len(c[j - 1]) + k] = Chunk(m, j)[k]
  <2> DEFINE a == c[j - 1]
             b == Chunk(m, j)
             r == c[j]
  <2>1. j - 1 \in 0..N
    BY <1>1
  <2>2. a \in Seq(Pair) /\ b \in Seq(Pair) /\ r = a \o b
    BY <1>1, <2>1
  <2> HIDE DEF a, b, r
  <2>3. Len(a) \in Nat /\ Len(b) \in Nat
    BY <2>2
  <2>4. /\ Len(r) = Len(a) + Len(b)
        /\ \A k \in 1..(Len(a) + Len(b)) : r[k] = IF k <= Len(a) THEN a[k] ELSE b[k - Len(a)]
    BY <2>2, ConcatProperties
  <2>5. \A k \in 1..Len(a) : r[k] = a[k]
    BY <2>3, <2>4
  <2>6. ASSUME NEW k \in 1..Len(b) PROVE r[Len(a) + k] = b[k]
    <3>1. Len(a) + k \in 1..(Len(a) + Len(b)) /\ ~(Len(a) + k <= Len(a)) /\ (Len(a) + k) - Len(a) = k
      BY <2>3
    <3> QED
      BY <2>4, <3>1
  <2> QED
    BY <2>3, <2>4, <2>5, <2>6 DEF a, b, r
<1>4. i \in 1..N
  BY DEF N
<1>5. 0 \in P
  <2>1. i + 0 = i /\ 0 \in 0..(N - i) /\ Len(c[i]) <= Len(c[i])
    BY <1>1, <1>2, <1>4
  <2> QED
    BY <1>3, <1>4, <2>1
<1>6. ASSUME NEW x \in 0..((N - i) - 1), x \in P PROVE x + 1 \in P
  <2> DEFINE j == i + x + 1
  <2>1. j \in 1..N /\ j - 1 = i + x /\ i + (x + 1) = j /\ x + 1 \in 0..(N - i) /\ j - 1 \in 0..N
    BY <1>1, <1>4
  <2> HIDE DEF j
  <2>2. Good(j - 1)
    BY <1>6, <2>1
  <2>3. Len(c[i]) <= Len(c[j])
    BY <1>1, <1>2, <1>3, <2>1, <2>2
  <2>4. ASSUME NEW k \in 1..Len(u) PROVE c[j][Len(c[i - 1]) + k] = u[k]
    <3>1. Len(c[i - 1]) + k \in 1..Len(c[j - 1])
      <4>1. Len(c[i]) = Len(c[i - 1]) + Len(u) /\ Len(u) \in Nat
        BY <1>3, <1>4
      <4>2. Len(c[i - 1]) \in Nat /\ Len(c[j - 1]) \in Nat
        BY <1>1, <1>2, <2>1
      <4>3. Len(c[i]) <= Len(c[j - 1])
        BY <2>2
      <4> HIDE DEF u
      <4> QED
        BY <4>1, <4>2, <4>3
    <3>2. c[j][Len(c[i - 1]) + k] = c[j - 1][Len(c[i - 1]) + k]
      BY <1>3, <2>1, <3>1
    <3> QED
      BY <2>2, <3>2
  <2> QED
    BY <2>1, <2>3, <2>4
<1>7. 0..(N - i) \subseteq P
  <2>1. N - i \in Nat
    BY <1>1, <1>4
  <2> HIDE DEF P
  <2> QED
    BY <1>5, <1>6, <2>1, UpTo
<1>8. ASSUME NEW j \in i..N PROVE Good(j)
  <2>1. j - i \in 0..(N - i) /\ i + (j - i) = j
    BY <1>1, <1>4
  <2>2. j - i \in P
    BY <1>7, <2>1
  <2> QED
    BY <2>1, <2>2
<1> QED
  BY <1>1, <1>2, <1>3, <1>4, <1>8 DEF c, N

\* Two sequences joined: the first, then the second.
LEMMA Joined ==
  ASSUME NEW S, NEW a \in Seq(S), NEW b \in Seq(S)
  PROVE  LET r == a \o b IN
         /\ r \in Seq(S) /\ Len(a) \in Nat /\ Len(b) \in Nat /\ Len(r) = Len(a) + Len(b)
         /\ \A k \in 1..Len(a) : r[k] = a[k]
         /\ \A k \in 1..Len(b) : r[Len(a) + k] = b[k]
<1> DEFINE r == a \o b
<1>1. /\ r \in Seq(S) /\ Len(r) = Len(a) + Len(b)
      /\ \A k \in 1..(Len(a) + Len(b)) : r[k] = IF k <= Len(a) THEN a[k] ELSE b[k - Len(a)]
  BY ConcatProperties
<1> HIDE DEF r
<1>2. Len(a) \in Nat /\ Len(b) \in Nat
  OBVIOUS
<1>3. \A k \in 1..Len(a) : r[k] = a[k]
  BY <1>1, <1>2
<1>4. ASSUME NEW k \in 1..Len(b) PROVE r[Len(a) + k] = b[k]
  <2>1. Len(a) + k \in 1..(Len(a) + Len(b)) /\ ~(Len(a) + k <= Len(a)) /\ (Len(a) + k) - Len(a) = k
    BY <1>2
  <2> QED
    BY <1>1, <2>1
<1> QED
  BY <1>1, <1>2, <1>3, <1>4 DEF r

\* What follows the body: nothing, or another request.
After(m) == IF m.next THEN <<<<NextRequest, "next">>>> ELSE <<>>
Extra(m) == IF m.next THEN 1 ELSE 0

\* The header comes first, and another request last.
LEMMA EndsAre ==
  ASSUME NEW m \in Messages
  PROVE  /\ <<<<Header, "header">>>> \in Seq(Pair) /\ Len(<<<<Header, "header">>>>) = 1
         /\ After(m) \in Seq(Pair) /\ Len(After(m)) = Extra(m) /\ Extra(m) \in {0, 1}
         /\ m.next => After(m)[1] = <<NextRequest, "next">>
<1>1. <<Header, "header">> \in Pair /\ <<NextRequest, "next">> \in Pair
  BY SymbolsAre DEF Pair, Parts
<1>2. ASSUME NEW x \in Pair PROVE <<x>> \in Seq(Pair) /\ Len(<<x>>) = 1
  OBVIOUS
<1>3. ASSUME m.next PROVE After(m) = <<<<NextRequest, "next">>>> /\ Extra(m) = 1
  BY <1>3 DEF After, Extra
<1>4. ASSUME ~m.next PROVE After(m) = <<>> /\ Extra(m) = 0
  BY <1>4 DEF After, Extra
<1>5. <<>> \in Seq(Pair) /\ Len(<<>>) = 0
  OBVIOUS
<1>6. CASE m.next
  <2>1. Len(After(m)) = 1 /\ After(m) \in Seq(Pair) /\ After(m)[1] = <<NextRequest, "next">>
    BY <1>1, <1>2, <1>3, <1>6
  <2> QED
    BY <1>1, <1>2, <1>3, <1>6, <2>1
<1>7. CASE ~m.next
  BY <1>1, <1>2, <1>4, <1>5, <1>7
<1> QED
  BY <1>6, <1>7

\* A message with a Content-Length: the header and the body.
LEMMA LengthWireIs ==
  ASSUME NEW m \in Messages, m.framing = "length"
  PROVE  LET w == Wire(m)
             T == Total(m.sizes) IN
         /\ w \in Seq(Pair) /\ Len(w) = 1 + T + Extra(m)
         /\ w[1] = <<Header, "header">>
         /\ \A k \in 1..T : w[1 + k] = <<Bytes[k], "data">>
         /\ m.next => w[T + 2] = <<NextRequest, "next">>
<1> DEFINE h == <<<<Header, "header">>>>
           T == Total(m.sizes)
           p == Payload(m)
           b == Part(p, "data")
           z == After(m)
           hb == h \o b
           w == hb \o z
<1>1. /\ h \in Seq(Pair) /\ Len(h) = 1 /\ h[1] = <<Header, "header">> /\ z \in Seq(Pair) /\ Len(z) = Extra(m)
      /\ Extra(m) \in {0, 1} /\ (m.next => z[1] = <<NextRequest, "next">> /\ Extra(m) = 1)
  BY EndsAre DEF Extra
<1>2. T \in Nat /\ T <= Len(Bytes) /\ Len(Bytes) \in Nat /\ Bytes \in Seq(Symbol)
  BY MessageIs, SymbolsAre
<1>3. p \in Seq(Symbol) /\ Len(p) = T /\ \A k \in 1..T : p[k] = Bytes[k]
  <2> HIDE DEF T
  <2>1. \A k \in 1..T : Bytes[k] \in Symbol
    BY <1>2
  <2>2. /\ SubSeq(Bytes, 1, T) \in Seq(Symbol)
        /\ Len(SubSeq(Bytes, 1, T)) = IF 1 <= T THEN T - 1 + 1 ELSE 0
        /\ \A k \in 1..(T - 1 + 1) : SubSeq(Bytes, 1, T)[k] = Bytes[1 + k - 1]
    BY <1>2, <2>1, SubSeqProperties
  <2>3. T - 1 + 1 = T /\ (~(1 <= T) => T = 0) /\ \A k \in 1..T : 1 + k - 1 = k
    BY <1>2
  <2> QED
    BY <2>2, <2>3 DEF Payload, T
<1> HIDE DEF p
<1>4. b \in Seq(Pair) /\ Len(b) = T /\ \A k \in 1..T : b[k] = <<Bytes[k], "data">>
  <2>1. "data" \in Parts
    BY DEF Parts
  <2>2. b \in Seq(Pair) /\ Len(b) = T /\ \A k \in 1..T : b[k] = <<p[k], "data">>
    BY <1>3, <2>1, PartIs
  <2> HIDE DEF b
  <2> QED
    BY <1>3, <2>2
<1>5. Wire(m) = w
  BY DEF Wire, p, After
<1> HIDE DEF b, z, h, T
<1>6. /\ hb \in Seq(Pair) /\ Len(hb) = 1 + T /\ hb[1] = h[1]
      /\ \A k \in 1..T : hb[1 + k] = b[k]
  <2>1. 1 \in 1..Len(h)
    BY <1>1
  <2>2. /\ hb \in Seq(Pair) /\ Len(hb) = Len(h) + Len(b)
        /\ \A k \in 1..Len(h) : hb[k] = h[k]
        /\ \A k \in 1..Len(b) : hb[Len(h) + k] = b[k]
    <3>1. h \in Seq(Pair) /\ b \in Seq(Pair)
      BY <1>1, <1>4
    <3> QED
      BY <3>1, Joined
  <2> HIDE DEF hb
  <2> QED
    BY <1>1, <1>4, <2>1, <2>2
<1> HIDE DEF hb
<1>7. /\ w \in Seq(Pair) /\ Len(w) = 1 + T + Extra(m)
      /\ \A k \in 1..(1 + T) : w[k] = hb[k]
      /\ \A k \in 1..Extra(m) : w[1 + T + k] = z[k]
  <2>2. /\ w \in Seq(Pair) /\ Len(w) = Len(hb) + Len(z)
        /\ \A k \in 1..Len(hb) : w[k] = hb[k]
        /\ \A k \in 1..Len(z) : w[Len(hb) + k] = z[k]
    BY <1>1, <1>6, Joined
  <2> HIDE DEF w
  <2> QED
    BY <1>1, <1>6, <2>2
<1> HIDE DEF w
<1>8. w[1] = <<Header, "header">> /\ \A k \in 1..T : w[1 + k] = <<Bytes[k], "data">>
  <2>1. 1 \in 1..(1 + T) /\ \A k \in 1..T : 1 + k \in 1..(1 + T)
    BY <1>2
  <2> QED
    BY <1>1, <1>4, <1>6, <1>7, <2>1
<1>9. ASSUME m.next PROVE w[T + 2] = <<NextRequest, "next">>
  <2>1. 1 \in 1..Extra(m) /\ 1 + T + 1 = T + 2
    BY <1>1, <1>2, <1>9
  <2> QED
    BY <1>1, <1>7, <1>9, <2>1
<1> QED
  BY <1>5, <1>7, <1>8, <1>9 DEF T

\* The place after which chunk i begins, or the last size line, as chunk N + 1.
Start(m, i) == 1 + Len(Chunks(m)[i - 1])

\* A message in chunks: the header, the chunks one after the other, a size
\* line of 0 and the last CRLF.
LEMMA ChunkedWireIs ==
  ASSUME NEW m \in Messages, m.framing = "chunked"
  PROVE  LET w == Wire(m)
             N == Len(m.sizes)
             S == Start(m, N + 1) IN
         /\ w \in Seq(Pair) /\ Len(w) = S + 5 + Extra(m)
         /\ w[1] = <<Header, "header">> /\ Start(m, 1) = 1
         /\ \A i \in 1..N : /\ HasChunk(w, Start(m, i), m, i)
                            /\ Start(m, i + 1) = Start(m, i) + Len(Digits(m.sizes[i])) + 4 + m.sizes[i]
         /\ \A i \in 1..(N + 1) : Start(m, i) \in Nat /\ 1 <= Start(m, i) /\ Start(m, i) <= S
         /\ SizeLine(w, S, 0)
         /\ w[S + 4] = <<"CR", "end">> /\ w[S + 5] = <<"LF", "end">>
         /\ m.next => w[S + 6] = <<NextRequest, "next">>
<1> DEFINE N == Len(m.sizes)
           h == <<<<Header, "header">>>>
           c == Chunks(m)
           C == Len(c[N])
           S == Start(m, N + 1)
           l == Part(<<"0">> \o CRLF, "size")
           e == Part(CRLF, "end")
           z == After(m)
           x == c[N] \o l
           y == x \o e
           hy == h \o y
           w == hy \o z
<1>0. N \in Nat /\ N + 1 - 1 = N
  BY MessageIs
<1>1. /\ h \in Seq(Pair) /\ Len(h) = 1 /\ h[1] = <<Header, "header">> /\ z \in Seq(Pair) /\ Len(z) = Extra(m)
      /\ Extra(m) \in {0, 1} /\ (m.next => z[1] = <<NextRequest, "next">> /\ Extra(m) = 1)
  BY EndsAre DEF Extra
<1>2. /\ c \in [0..N -> Seq(Pair)] /\ c[0] = <<>>
      /\ \A i \in 1..N : c[i] = c[i - 1] \o Chunk(m, i)
  BY ChunksAre
<1>3. c[N] \in Seq(Pair) /\ C \in Nat /\ S = 1 + C
  <2>1. N \in 0..N
    BY <1>0
  <2>2. c[N] \in Seq(Pair)
    BY <1>2, <2>1
  <2>3. S = 1 + C
    BY <1>0 DEF Start
  <2> QED
    BY <2>2, <2>3
<1>4. Wire(m) = w
  BY DEF Wire, After
<1> HIDE DEF z
<1>5. /\ l \in Seq(Pair) /\ Len(l) = 3 /\ l[1] = <<"0", "size">> /\ l[2] = <<"CR", "size">> /\ l[3] = <<"LF", "size">>
      /\ e \in Seq(Pair) /\ Len(e) = 2 /\ e[1] = <<"CR", "end">> /\ e[2] = <<"LF", "end">>
  <2> DEFINE s == <<"0">> \o CRLF
  <2>2. s \in Seq(Symbol) /\ Len(s) = 3 /\ s[1] = "0" /\ s[2] = "CR" /\ s[3] = "LF"
    <3> DEFINE o == <<"0">>
    <3>1. o \in Seq(Symbol) /\ Len(o) = 1 /\ o[1] = "0"
      BY SymbolsAre
    <3>2. CRLF \in Seq(Symbol) /\ Len(CRLF) = 2 /\ CRLF[1] = "CR" /\ CRLF[2] = "LF"
      BY SymbolsAre
    <3> HIDE DEF o
    <3>3. /\ o \o CRLF \in Seq(Symbol) /\ Len(o \o CRLF) = Len(o) + Len(CRLF)
          /\ \A k \in 1..Len(o) : (o \o CRLF)[k] = o[k]
          /\ \A k \in 1..Len(CRLF) : (o \o CRLF)[Len(o) + k] = CRLF[k]
      <4>1. o \in Seq(Symbol) /\ CRLF \in Seq(Symbol)
        BY <3>1, <3>2
      <4> QED
        BY <4>1, Joined
    <3>4. s = o \o CRLF
      BY DEF o
    <3> HIDE DEF s
    <3>5. 1 \in 1..1 /\ 1 \in 1..2 /\ 2 \in 1..2 /\ 1 + 1 = 2 /\ 1 + 2 = 3
      OBVIOUS
    <3> QED
      BY <3>1, <3>2, <3>3, <3>4, <3>5
  <2>3. "size" \in Parts /\ "end" \in Parts
    BY DEF Parts
  <2> HIDE DEF s
  <2>4. l \in Seq(Pair) /\ Len(l) = 3 /\ \A k \in 1..3 : l[k] = <<s[k], "size">>
    BY <2>2, <2>3, PartIs DEF s
  <2>5. e \in Seq(Pair) /\ Len(e) = 2 /\ \A k \in 1..2 : e[k] = <<CRLF[k], "end">>
    BY <2>3, PartIs, SymbolsAre
  <2> HIDE DEF l, e
  <2>6. e[1] = <<"CR", "end">> /\ e[2] = <<"LF", "end">>
    BY <2>5, SymbolsAre
  <2> QED
    BY <2>2, <2>4, <2>5, <2>6
<1> HIDE DEF l, e, h, c, N
<1>6. /\ x \in Seq(Pair) /\ Len(x) = C + 3
      /\ \A k \in 1..C : x[k] = c[N][k]
      /\ \A k \in 1..3 : x[C + k] = l[k]
  <2>1. c[N] \in Seq(Pair) /\ l \in Seq(Pair)
    BY <1>3, <1>5
  <2>2. /\ x \in Seq(Pair) /\ Len(x) = Len(c[N]) + Len(l)
        /\ \A k \in 1..Len(c[N]) : x[k] = c[N][k]
        /\ \A k \in 1..Len(l) : x[Len(c[N]) + k] = l[k]
    BY <2>1, Joined
  <2> HIDE DEF x
  <2> QED
    BY <1>5, <2>2
<1> HIDE DEF x
<1>7. /\ y \in Seq(Pair) /\ Len(y) = C + 5
      /\ \A k \in 1..(C + 3) : y[k] = x[k]
      /\ \A k \in 1..2 : y[C + 3 + k] = e[k]
  <2>1. /\ y \in Seq(Pair) /\ Len(y) = Len(x) + Len(e)
        /\ \A k \in 1..Len(x) : y[k] = x[k]
        /\ \A k \in 1..Len(e) : y[Len(x) + k] = e[k]
    <3>1. x \in Seq(Pair) /\ e \in Seq(Pair)
      BY <1>5, <1>6
    <3> QED
      BY <3>1, Joined
  <2> HIDE DEF y, C
  <2>2. C + 3 + 2 = C + 5
    BY <1>3
  <2> QED
    BY <1>5, <1>6, <2>1, <2>2
<1> HIDE DEF y
<1>8. /\ hy \in Seq(Pair) /\ Len(hy) = C + 6 /\ hy[1] = h[1]
      /\ \A k \in 1..(C + 5) : hy[1 + k] = y[k]
  <2>1. /\ hy \in Seq(Pair) /\ Len(hy) = Len(h) + Len(y)
        /\ \A k \in 1..Len(h) : hy[k] = h[k]
        /\ \A k \in 1..Len(y) : hy[Len(h) + k] = y[k]
    <3>1. h \in Seq(Pair) /\ y \in Seq(Pair)
      BY <1>1, <1>7
    <3> QED
      BY <3>1, Joined
  <2> HIDE DEF hy, C
  <2>2. 1 + (C + 5) = C + 6 /\ 1 \in 1..1
    BY <1>3
  <2> QED
    BY <1>1, <1>7, <2>1, <2>2
<1> HIDE DEF hy
<1>9. /\ w \in Seq(Pair) /\ Len(w) = C + 6 + Extra(m)
      /\ \A k \in 1..(C + 6) : w[k] = hy[k]
      /\ \A k \in 1..Extra(m) : w[C + 6 + k] = z[k]
  <2>1. /\ w \in Seq(Pair) /\ Len(w) = Len(hy) + Len(z)
        /\ \A k \in 1..Len(hy) : w[k] = hy[k]
        /\ \A k \in 1..Len(z) : w[Len(hy) + k] = z[k]
    <3>1. hy \in Seq(Pair) /\ z \in Seq(Pair)
      BY <1>1, <1>8
    <3> QED
      BY <3>1, Joined
  <2> HIDE DEF w, C
  <2> QED
    BY <1>1, <1>8, <2>1
<1> HIDE DEF w
<1>10. w[1] = <<Header, "header">> /\ \A k \in 1..(C + 5) : w[1 + k] = y[k]
  <2> HIDE DEF C
  <2>1. 1 \in 1..(C + 6) /\ \A k \in 1..(C + 5) : 1 + k \in 1..(C + 6)
    BY <1>3
  <2> QED
    BY <1>1, <1>8, <1>9, <2>1
<1>11. SizeLine(w, S, 0) /\ w[S + 4] = <<"CR", "end">> /\ w[S + 5] = <<"LF", "end">>
  <2> HIDE DEF C, S
  <2>1. ASSUME NEW k \in 1..3 PROVE w[S + k] = l[k]
    <3>1. C + k \in 1..(C + 5) /\ C + k \in 1..(C + 3) /\ S + k = 1 + (C + k)
      BY <1>3
    <3> QED
      BY <1>6, <1>7, <1>10, <3>1
  <2>2. ASSUME NEW k \in 1..2 PROVE w[S + 3 + k] = e[k]
    <3>1. C + 3 + k \in 1..(C + 5) /\ S + 3 + k = 1 + (C + 3 + k)
      BY <1>3
    <3> QED
      BY <1>7, <1>10, <3>1
  <2>3. S + 3 + 1 = S + 4 /\ S + 3 + 2 = S + 5 /\ 1 + 1 = 2 /\ 1 + 2 = 3 /\ S + 1 + 1 = S + 2 /\ S + 1 + 2 = S + 3
        /\ 1 \in 1..2 /\ 2 \in 1..2 /\ 1 \in 1..3 /\ 2 \in 1..3 /\ 3 \in 1..3
    BY <1>3
  <2>4. w[S + 4] = <<"CR", "end">> /\ w[S + 5] = <<"LF", "end">>
    BY <1>5, <2>2, <2>3
  <2>5. w[S + 1] = <<"0", "size">> /\ w[S + 1 + 1] = <<"CR", "size">> /\ w[S + 1 + 2] = <<"LF", "size">>
    BY <1>5, <2>1, <2>3
  <2>6. Digits(0) = <<"0">>
    BY DEF Digits
  <2>7. Len(Digits(0)) = 1 /\ Digits(0)[1] = "0" /\ \A k \in 1..1 : k = 1
    BY <2>6
  <2> QED
    BY <2>4, <2>5, <2>7 DEF SizeLine
<1>12. ASSUME m.next PROVE w[S + 6] = <<NextRequest, "next">>
  <2> HIDE DEF C, S
  <2>1. 1 \in 1..Extra(m) /\ C + 6 + 1 = S + 6
    BY <1>1, <1>3, <1>12
  <2> QED
    BY <1>1, <1>9, <1>12, <2>1
<1>13. \A i \in 1..N : /\ Len(c[i - 1]) \in Nat /\ Len(c[i]) = Len(c[i - 1]) + Len(Chunk(m, i))
                       /\ Len(Chunk(m, i)) = Len(Digits(m.sizes[i])) + 4 + m.sizes[i]
                       /\ Len(c[i]) <= C
                       /\ Len(Digits(m.sizes[i])) \in {1, 2} /\ m.sizes[i] \in 1..3
                       /\ \A k \in 1..Len(Chunk(m, i)) : c[N][Len(c[i - 1]) + k] = Chunk(m, i)[k]
  <2> SUFFICES ASSUME NEW i \in 1..N
               PROVE  /\ Len(c[i - 1]) \in Nat /\ Len(c[i]) = Len(c[i - 1]) + Len(Chunk(m, i))
                      /\ Len(Chunk(m, i)) = Len(Digits(m.sizes[i])) + 4 + m.sizes[i]
                      /\ Len(c[i]) <= C
                      /\ Len(Digits(m.sizes[i])) \in {1, 2} /\ m.sizes[i] \in 1..3
                      /\ \A k \in 1..Len(Chunk(m, i)) : c[N][Len(c[i - 1]) + k] = Chunk(m, i)[k]
    OBVIOUS
  <2>1. i \in 1..Len(m.sizes) /\ N \in i..Len(m.sizes)
    BY <1>0 DEF N
  <2>2. m.sizes[i] \in 1..3
    BY <2>1, SizeIs
  <2>3. m.sizes[i] \in 0..3
    BY <2>2
  <2>4. Len(Digits(m.sizes[i])) \in {1, 2}
    BY <2>3, DigitsAre
  <2>5. Len(Chunk(m, i)) = Len(Digits(m.sizes[i])) + 2 + m.sizes[i] + 2
    BY <2>1, ChunkIs
  <2>6. Len(Chunk(m, i)) = Len(Digits(m.sizes[i])) + 4 + m.sizes[i]
    BY <2>2, <2>4, <2>5
  <2>7. /\ Len(c[i - 1]) \in Nat /\ Len(c[i]) = Len(c[i - 1]) + Len(Chunk(m, i))
        /\ Len(c[i]) <= Len(c[N])
        /\ \A k \in 1..Len(Chunk(m, i)) : c[N][Len(c[i - 1]) + k] = Chunk(m, i)[k]
    BY <2>1, Laid DEF c
  <2> QED
    BY <2>2, <2>4, <2>6, <2>7
<1>14. ASSUME NEW i \in 1..N PROVE HasChunk(w, Start(m, i), m, i)
  <2> DEFINE p == Start(m, i)
             b == Len(c[i - 1])
             u == Chunk(m, i)
  <2>1. p = 1 + b /\ b \in Nat /\ Len(u) \in Nat /\ b + Len(u) <= C
    <3>1. p = 1 + b
      BY DEF Start, c
    <3> HIDE DEF C, p
    <3> QED
      BY <1>13, <3>1
  <2> HIDE DEF p, b
  <2>2. ASSUME NEW k \in 1..Len(u) PROVE w[p + k] = u[k]
    <3> HIDE DEF C
    <3>1. b + k \in 1..C /\ b + k \in 1..(C + 3) /\ b + k \in 1..(C + 5) /\ p + k = 1 + (b + k)
      BY <1>3, <2>1
    <3>2. w[p + k] = c[N][b + k]
      BY <1>6, <1>7, <1>10, <3>1
    <3>3. c[N][b + k] = u[k]
      BY <1>13 DEF b
    <3> QED
      BY <3>2, <3>3
  <2>3. p \in Nat /\ i \in 1..Len(m.sizes)
    BY <2>1 DEF N
  <2> HIDE DEF w
  <2>4. HasChunk(w, p, m, i)
    BY <2>2, <2>3, Shifted
  <2> QED
    BY <2>4 DEF p
<1>15. ASSUME NEW i \in 1..N PROVE Start(m, i + 1) = Start(m, i) + Len(Digits(m.sizes[i])) + 4 + m.sizes[i]
  <2>1. Start(m, i + 1) = 1 + Len(c[i]) /\ Start(m, i) = 1 + Len(c[i - 1])
    <3>1. i + 1 - 1 = i
      BY <1>0
    <3> QED
      BY <3>1 DEF Start, c
  <2>2. /\ Len(c[i - 1]) \in Nat /\ Len(c[i]) = Len(c[i - 1]) + (Len(Digits(m.sizes[i])) + 4 + m.sizes[i])
        /\ Len(Digits(m.sizes[i])) \in {1, 2} /\ m.sizes[i] \in 1..3
    BY <1>13
  <2> DEFINE f == Start(m, i)
             g == Start(m, i + 1)
             d == Len(Digits(m.sizes[i]))
             n == m.sizes[i]
             s == Len(c[i - 1])
             t == Len(c[i])
  <2>3. s \in Nat /\ t = s + (d + 4 + n) /\ d \in {1, 2} /\ n \in 1..3 /\ g = 1 + t /\ f = 1 + s
    BY <2>1, <2>2
  <2> HIDE DEF f, g, d, n, s, t
  <2>4. g = f + d + 4 + n
    BY <2>3
  <2> QED
    BY <2>4 DEF f, g, d, n
<1>16. ASSUME NEW i \in 1..(N + 1) PROVE Start(m, i) \in Nat /\ 1 <= Start(m, i) /\ Start(m, i) <= S
  <2>1. CASE i = N + 1
    <3> HIDE DEF C, S
    <3> QED
      BY <1>3, <2>1 DEF S
  <2>2. CASE i # N + 1
    <3>1. i \in 1..N
      BY <1>0, <2>2
    <3>2. Start(m, i) = 1 + Len(c[i - 1])
      BY DEF Start, c
    <3> HIDE DEF C, S
    <3> QED
      BY <1>3, <1>13, <3>1, <3>2
  <2> QED
    BY <2>1, <2>2
<1>17. Start(m, 1) = 1
  <2>1. 1 - 1 = 0 /\ Len(<<>>) = 0
    OBVIOUS
  <2> QED
    BY <1>2, <2>1 DEF Start, c
<1>18. Len(w) = S + 5 + Extra(m)
  <2> HIDE DEF C, S
  <2> QED
    BY <1>1, <1>3, <1>9
<1> QED
  BY <1>1, <1>4, <1>9, <1>10, <1>11, <1>12, <1>14, <1>15, <1>16, <1>17, <1>18 DEF N, h

(* Parts of a buffer, and what the parser looks for in it.                  *)

\* A part of a sequence is a sequence of what is there.
LEMMA Slice ==
  ASSUME NEW S, NEW s \in Seq(S), NEW p \in Nat, NEW n \in Nat, p + n <= Len(s)
  PROVE  LET r == SubSeq(s, p + 1, p + n) IN
         /\ r \in Seq(S) /\ Len(r) = n
         /\ \A k \in 1..n : r[k] = s[p + k]
<1>1. Len(s) \in Nat /\ \A k \in 1..Len(s) : s[k] \in S
  OBVIOUS
<1>2. p + 1 \in Int /\ p + n \in Int /\ \A k \in (p + 1)..(p + n) : s[k] \in S
  BY <1>1
<1>3. /\ SubSeq(s, p + 1, p + n) \in Seq(S)
      /\ Len(SubSeq(s, p + 1, p + n)) = IF p + 1 <= p + n THEN (p + n) - (p + 1) + 1 ELSE 0
      /\ \A k \in 1..((p + n) - (p + 1) + 1) : SubSeq(s, p + 1, p + n)[k] = s[(p + 1) + k - 1]
  BY <1>2, SubSeqProperties
<1>4. (p + n) - (p + 1) + 1 = n /\ (~(p + 1 <= p + n) => n = 0) /\ \A k \in 1..n : (p + 1) + k - 1 = p + k
  OBVIOUS
<1> QED
  BY <1>3, <1>4

\* The first n, and what is left.
LEMMA Taken ==
  ASSUME NEW S, NEW s \in Seq(S), NEW n \in 0..Len(s)
  PROVE  /\ SubSeq(s, 1, n) \in Seq(S) /\ Len(SubSeq(s, 1, n)) = n
         /\ \A k \in 1..n : SubSeq(s, 1, n)[k] = s[k]
         /\ SubSeq(s, n + 1, Len(s)) \in Seq(S) /\ Len(SubSeq(s, n + 1, Len(s))) = Len(s) - n
         /\ \A k \in 1..(Len(s) - n) : SubSeq(s, n + 1, Len(s))[k] = s[n + k]
<1> DEFINE L == Len(s)
<1>1. L \in Nat
  OBVIOUS
<1>2. /\ SubSeq(s, 1, n) \in Seq(S) /\ Len(SubSeq(s, 1, n)) = n
      /\ \A k \in 1..n : SubSeq(s, 1, n)[k] = s[k]
  <2>1. 0 + 1 = 1 /\ 0 + n = n /\ \A k \in 1..n : 0 + k = k
    OBVIOUS
  <2>2. 0 \in Nat /\ n \in Nat /\ 0 + n <= Len(s)
    OBVIOUS
  <2>3. /\ SubSeq(s, 0 + 1, 0 + n) \in Seq(S) /\ Len(SubSeq(s, 0 + 1, 0 + n)) = n
        /\ \A k \in 1..n : SubSeq(s, 0 + 1, 0 + n)[k] = s[0 + k]
    BY <2>2, Slice
  <2> QED
    BY <2>1, <2>3
<1>3. /\ SubSeq(s, n + 1, L) \in Seq(S) /\ Len(SubSeq(s, n + 1, L)) = L - n
      /\ \A k \in 1..(L - n) : SubSeq(s, n + 1, L)[k] = s[n + k]
  <2> DEFINE q == L - n
  <2>1. q \in Nat /\ n \in Nat /\ n + q = L
    OBVIOUS
  <2>2. n + q <= Len(s)
    BY <2>1
  <2> HIDE DEF q, L
  <2>3. /\ SubSeq(s, n + 1, n + q) \in Seq(S) /\ Len(SubSeq(s, n + 1, n + q)) = q
        /\ \A k \in 1..q : SubSeq(s, n + 1, n + q)[k] = s[n + k]
    BY <2>1, <2>2, Slice
  <2> QED
    BY <2>1, <2>3 DEF q
<1> QED
  BY <1>2, <1>3

\* Two symbols are CRLF when they are CR and LF.
LEMMA IsCRLF ==
  ASSUME NEW b \in Seq(Symbol), NEW i \in 2..Len(b)
  PROVE  (SubSeq(b, i - 1, i) = CRLF) <=> (b[i - 1] = "CR" /\ b[i] = "LF")
<1> DEFINE p == i - 2
           r == SubSeq(b, i - 1, i)
<1>1. p \in Nat /\ p + 2 <= Len(b) /\ p + 1 = i - 1 /\ p + 2 = i
  OBVIOUS
<1>2. r \in Seq(Symbol) /\ Len(r) = 2 /\ \A k \in 1..2 : r[k] = b[p + k]
  <2> HIDE DEF p
  <2>1. /\ SubSeq(b, p + 1, p + 2) \in Seq(Symbol) /\ Len(SubSeq(b, p + 1, p + 2)) = 2
        /\ \A k \in 1..2 : SubSeq(b, p + 1, p + 2)[k] = b[p + k]
    BY <1>1, Slice
  <2> QED
    BY <1>1, <2>1
<1> HIDE DEF r
<1>3. r[1] = b[i - 1] /\ r[2] = b[i]
  <2>1. 1 \in 1..2 /\ 2 \in 1..2
    OBVIOUS
  <2> HIDE DEF p
  <2> QED
    BY <1>1, <1>2, <2>1
<1>4. CRLF \in Seq(Symbol) /\ Len(CRLF) = 2 /\ CRLF[1] = "CR" /\ CRLF[2] = "LF"
  BY SymbolsAre
<1>5. ASSUME r[1] = "CR", r[2] = "LF" PROVE r = CRLF
  <2>1. \A k \in 1..2 : k = 1 \/ k = 2
    OBVIOUS
  <2>2. \A k \in 1..Len(r) : r[k] = CRLF[k]
    BY <1>2, <1>4, <1>5, <2>1
  <2> QED
    BY <1>2, <1>4, <2>2, SeqEqual
<1> QED
  BY <1>3, <1>4, <1>5 DEF r

\* The first two symbols of what is left.
LEMMA StartsWithCRLF ==
  ASSUME NEW b \in Seq(Symbol), Len(b) >= 2
  PROVE  (SubSeq(b, 1, 2) = CRLF) <=> (b[1] = "CR" /\ b[2] = "LF")
<1>1. 2 \in 2..Len(b) /\ 2 - 1 = 1
  OBVIOUS
<1> QED
  BY <1>1, IsCRLF

\* find_line_end finds a place in the buffer; the first CRLF, if there is one.
LEMMA LineEndIs ==
  ASSUME NEW b \in Seq(Symbol), Len(b) >= 1
  PROVE  /\ LineEnd(b) \in 0..Len(b)
         /\ Len(b) = 1 => LineEnd(b) = 0
         /\ \A e \in 2..Len(b) :
              b[e - 1] = "CR" /\ b[e] = "LF" /\ (\A k \in 1..(e - 2) : b[k] # "CR") => LineEnd(b) = e
<1> DEFINE ends == {i \in 2..Len(b) : SubSeq(b, i - 1, i) = CRLF}
<1>0. Len(b) \in Nat /\ ends \subseteq 2..Len(b) /\ ends \subseteq Nat
  OBVIOUS
<1>1. LineEnd(b) = IF ends # {} THEN Min(ends) ELSE Len(b) - 1
  BY DEF LineEnd
<1>2. \A i \in 2..Len(b) : i \in ends <=> (b[i - 1] = "CR" /\ b[i] = "LF")
  BY IsCRLF
<1> HIDE DEF ends
<1>3. ends # {} => Min(ends) \in ends /\ \A k \in ends : Min(ends) <= k
  BY <1>0, LeastByMin
<1>4. LineEnd(b) \in 0..Len(b)
  <2>1. CASE ends = {}
    BY <1>0, <1>1, <2>1
  <2>2. CASE ends # {}
    <3> DEFINE x == Min(ends)
    <3>1. x \in ends /\ LineEnd(b) = x
      BY <1>1, <1>3, <2>2
    <3> HIDE DEF x
    <3>2. x \in 2..Len(b)
      BY <1>0, <3>1
    <3> QED
      BY <1>0, <3>1, <3>2
  <2> QED
    BY <2>1, <2>2
<1>5. ASSUME Len(b) = 1 PROVE LineEnd(b) = 0
  <2>1. ends = {}
    BY <1>0, <1>5
  <2> QED
    BY <1>1, <1>5, <2>1
<1>6. ASSUME NEW e \in 2..Len(b), b[e - 1] = "CR", b[e] = "LF", \A k \in 1..(e - 2) : b[k] # "CR"
      PROVE LineEnd(b) = e
  <2>1. e \in ends
    BY <1>2, <1>6
  <2> DEFINE x == Min(ends)
  <2>2. x \in ends /\ x <= e /\ LineEnd(b) = x
    BY <1>1, <1>3, <2>1
  <2> HIDE DEF x
  <2>3. x \in 2..Len(b) /\ b[x - 1] = "CR"
    BY <1>0, <1>2, <2>2
  <2>4. ~(x - 1 \in 1..(e - 2))
    BY <1>6, <2>3
  <2>5. x = e
    BY <2>2, <2>3, <2>4
  <2> QED
    BY <2>2, <2>5
<1> QED
  BY <1>4, <1>5, <1>6

Ends == {"CR", "LF"}

\* trim gives a text; of a line it gives what is before the line's end.
LEMMA TrimIs ==
  ASSUME NEW s \in Seq(Symbol)
  PROVE  /\ Trim(s) \in Seq(Symbol)
         /\ \A d \in 0..Len(s) :
              (\A k \in 1..d : s[k] \notin Ends) /\ (\A k \in (d + 1)..Len(s) : s[k] \in Ends)
                => Len(Trim(s)) = d /\ \A k \in 1..d : Trim(s)[k] = s[k]
<1> DEFINE kept == {i \in DOMAIN s : s[i] \notin Ends}
           a == Min(kept)
           z == Max(kept)
<1>0. Len(s) \in Nat /\ DOMAIN s = 1..Len(s) /\ kept \subseteq 1..Len(s) /\ kept \subseteq Nat /\ kept \subseteq 0..Len(s)
      /\ \A i \in 1..Len(s) : s[i] \in Symbol
  OBVIOUS
<1>1. Trim(s) = IF kept = {} THEN <<>> ELSE SubSeq(s, a, z)
  BY DEF Trim, Ends
<1>2. \A i \in 1..Len(s) : i \in kept <=> s[i] \notin Ends
  OBVIOUS
<1> HIDE DEF kept
<1>3. ASSUME kept # {} PROVE a \in kept /\ z \in kept /\ \A k \in kept : a <= k /\ k <= z
  <2>1. a \in kept /\ \A k \in kept : a <= k
    BY <1>0, <1>3, LeastByMin
  <2>2. z \in kept /\ \A k \in kept : k <= z
    BY <1>0, <1>3, GreatestNumber
  <2> QED
    BY <2>1, <2>2
<1> HIDE DEF a, z
<1>4. Trim(s) \in Seq(Symbol)
  <2>1. CASE kept = {}
    BY <1>1, <2>1
  <2>2. CASE kept # {}
    <3>0. a \in 1..Len(s) /\ z \in 1..Len(s)
      BY <1>0, <1>3, <2>2
    <3>1. a \in Int /\ z \in Int /\ \A i \in a..z : s[i] \in Symbol
      <4>1. a \in Int /\ z \in Int /\ \A i \in a..z : i \in 1..Len(s)
        BY <1>0, <3>0
      <4> QED
        BY <1>0, <4>1
    <3>2. SubSeq(s, a, z) \in Seq(Symbol)
      BY <3>1, SubSeqProperties
    <3> QED
      BY <1>1, <2>2, <3>2
  <2> QED
    BY <2>1, <2>2
<1>5. ASSUME NEW d \in 0..Len(s), \A k \in 1..d : s[k] \notin Ends,
             \A k \in (d + 1)..Len(s) : s[k] \in Ends
      PROVE  Len(Trim(s)) = d /\ \A k \in 1..d : Trim(s)[k] = s[k]
  <2>1. \A i \in 1..Len(s) : i \in kept <=> i \in 1..d
    <3> SUFFICES ASSUME NEW i \in 1..Len(s) PROVE i \in kept <=> i \in 1..d
      OBVIOUS
    <3>1. i \in 1..d \/ i \in (d + 1)..Len(s)
      BY <1>0
    <3>2. ~(i \in 1..d /\ i \in (d + 1)..Len(s))
      BY <1>0
    <3> QED
      BY <1>2, <1>5, <3>1, <3>2
  <2>2. CASE d = 0
    <3>1. kept = {}
      BY <1>0, <2>1, <2>2
    <3>2. Trim(s) = <<>> /\ Len(<<>>) = 0
      BY <1>1, <3>1
    <3> QED
      BY <2>2, <3>2
  <2>3. CASE d # 0
    <3>1. 1 \in kept /\ d \in kept
      BY <1>0, <2>1, <2>3
    <3>2. kept # {} /\ a \in 1..d /\ z \in 1..d /\ a <= 1 /\ d <= z
      BY <1>0, <1>3, <2>1, <3>1
    <3>3. a = 1 /\ z = d
      BY <3>2
    <3>4. Trim(s) = SubSeq(s, 1, d)
      BY <1>1, <3>2, <3>3
    <3> QED
      BY <3>4, Taken
  <2> QED
    BY <2>2, <2>3
<1> QED
  BY <1>4, <1>5

\* A size line that is there as a whole is found, and read as its size.
LEMMA LineOf ==
  ASSUME NEW b \in Seq(Symbol), NEW n \in 0..3, Len(b) >= Len(Digits(n)) + 2,
         \A k \in 1..Len(Digits(n)) : b[k] = Digits(n)[k],
         b[Len(Digits(n)) + 1] = "CR", b[Len(Digits(n)) + 2] = "LF"
  PROVE  LET size == Trim(SubSeq(b, 1, LineEnd(b))) IN
         /\ LineEnd(b) = Len(Digits(n)) + 2
         /\ \A i \in DOMAIN size : size[i] \in Digit
         /\ Number(size) = n
<1> DEFINE digits == Digits(n)
           d == Len(digits)
           e == d + 2
           s == SubSeq(b, 1, e)
           size == Trim(s)
<1>1. /\ d \in {1, 2} /\ digits \in Seq(Digit) /\ Number(digits) = n
      /\ \A k \in 1..d : digits[k] \in Digit
  BY DigitsAre
<1>2. Len(b) \in Nat /\ e \in 2..Len(b) /\ e \in 0..Len(b) /\ e - 1 = d + 1 /\ e - 2 = d
  BY <1>1
<1>3. \A x \in Digit : x # "CR" /\ x \notin Ends
  BY DEF Digit, Ends
<1>4. /\ Len(b) >= 1 /\ b[e - 1] = "CR" /\ b[e] = "LF" /\ \A k \in 1..(e - 2) : b[k] # "CR"
  BY <1>1, <1>2, <1>3
<1>5. LineEnd(b) = e
  <2> HIDE DEF e
  <2> QED
    BY <1>2, <1>4, LineEndIs
<1>6. s \in Seq(Symbol) /\ Len(s) = e /\ \A k \in 1..e : s[k] = b[k]
  <2> HIDE DEF e
  <2> QED
    BY <1>2, Taken
<1> HIDE DEF s
<1>7. d \in 0..Len(s) /\ (\A k \in 1..d : s[k] = digits[k] /\ s[k] \notin Ends)
      /\ (\A k \in (d + 1)..Len(s) : s[k] \in Ends)
  <2>1. d \in 0..Len(s) /\ (\A k \in 1..d : k \in 1..e)
        /\ (\A k \in (d + 1)..Len(s) : k = d + 1 \/ k = d + 2)
        /\ d + 1 \in 1..e /\ d + 2 \in 1..e
    BY <1>1, <1>6
  <2>2. s[d + 1] \in Ends /\ s[d + 2] \in Ends
    BY <1>6, <2>1 DEF Ends
  <2>3. ASSUME NEW k \in 1..d PROVE s[k] = digits[k] /\ s[k] \notin Ends
    <3>1. s[k] = digits[k]
      BY <1>6, <2>1
    <3> QED
      BY <1>1, <1>3, <3>1
  <2> QED
    BY <2>1, <2>2, <2>3
<1>8. size \in Seq(Symbol) /\ Len(size) = d /\ \A k \in 1..d : size[k] = s[k]
  BY <1>6, <1>7, TrimIs
<1> HIDE DEF size
<1>9. size = digits
  <2>1. Digit \subseteq Symbol
    BY DEF Symbol
  <2>2. digits \in Seq(Symbol)
    BY <1>1, <2>1, SeqMonotonic
  <2>3. Len(size) = Len(digits) /\ \A k \in 1..Len(size) : size[k] = digits[k]
    BY <1>7, <1>8
  <2> QED
    BY <1>8, <2>2, <2>3, SeqEqual
<1>10. DOMAIN size = 1..d
  BY <1>8
<1>11. /\ \A i \in DOMAIN size : size[i] \in Digit
       /\ Number(size) = n
  BY <1>1, <1>9, <1>10
<1> QED
  BY <1>5, <1>11 DEF size, s

\* A line without a digit reads as 0.
LEMMA NoSize ==
  ASSUME NEW b \in Seq(Symbol), Len(b) >= 1,
         \/ Len(b) = 1
         \/ Len(b) >= 2 /\ b[1] = "CR" /\ b[2] = "LF"
  PROVE  LET size == Trim(SubSeq(b, 1, LineEnd(b))) IN
         /\ Len(b) = 1 => LineEnd(b) = 0
         /\ Len(b) >= 2 => LineEnd(b) = 2
         /\ \A i \in DOMAIN size : size[i] \in Digit
         /\ Number(size) = 0
<1> DEFINE e == IF Len(b) = 1 THEN 0 ELSE 2
           s == SubSeq(b, 1, e)
           size == Trim(s)
<1>1. Len(b) \in Nat /\ e \in 0..Len(b) /\ (Len(b) = 1 => e = 0) /\ (Len(b) >= 2 => e = 2) /\ e \in {0, 2}
  <2> DEFINE l == Len(b)
  <2>1. l \in Nat /\ (l = 1 \/ l >= 2)
    OBVIOUS
  <2>2. e = IF l = 1 THEN 0 ELSE 2
    OBVIOUS
  <2> HIDE DEF l, e
  <2>3. e \in 0..l /\ (l = 1 => e = 0) /\ (l >= 2 => e = 2) /\ e \in {0, 2}
    BY <2>1, <2>2
  <2> QED
    BY <2>1, <2>3 DEF l
<1>2. Len(b) = 1 => LineEnd(b) = 0
  BY LineEndIs
<1>3. ASSUME Len(b) >= 2 PROVE LineEnd(b) = 2
  <2>1. 2 \in 2..Len(b) /\ 2 - 1 = 1 /\ 1..(2 - 2) = {}
    BY <1>1, <1>3
  <2>2. b[2 - 1] = "CR" /\ b[2] = "LF" /\ \A k \in 1..(2 - 2) : b[k] # "CR"
    BY <1>3, <2>1
  <2> QED
    BY <2>1, <2>2, LineEndIs
<1>4. LineEnd(b) = e
  BY <1>1, <1>2, <1>3
<1>5. s \in Seq(Symbol) /\ Len(s) = e /\ \A k \in 1..e : s[k] = b[k]
  <2> HIDE DEF e
  <2> QED
    BY <1>1, Taken
<1>6. \A k \in 1..e : s[k] \in Ends
  <2>1. CASE e = 0
    BY <2>1
  <2>2. CASE e = 2
    <3>1. b[1] = "CR" /\ b[2] = "LF"
      BY <1>1, <2>2
    <3>2. \A k \in 1..e : k = 1 \/ k = 2
      BY <2>2
    <3> HIDE DEF e, s
    <3> QED
      BY <1>5, <3>1, <3>2 DEF Ends
  <2> HIDE DEF e, s
  <2> QED
    BY <1>1, <2>1, <2>2
<1> HIDE DEF s, e
<1>7. size \in Seq(Symbol) /\ Len(size) = 0
  <2>1. 0 \in 0..Len(s) /\ (\A k \in 1..0 : s[k] \notin Ends) /\ (\A k \in (0 + 1)..Len(s) : s[k] \in Ends)
    BY <1>1, <1>5, <1>6
  <2> QED
    BY <1>5, <2>1, TrimIs
<1> HIDE DEF size
<1>8. DOMAIN size = {} /\ Number(size) = 0
  <2>1. size \in Seq(Symbol)
    BY <1>7
  <2>2. DOMAIN size = 1..Len(size)
    BY <2>1
  <2>3. Len(size) = 0 => Number(size) = 0
    BY <2>1, NumberIs
  <2> QED
    BY <1>7, <2>2, <2>3
<1> QED
  BY <1>2, <1>3, <1>4, <1>8 DEF size, s

\* What is left of a request with its body is nothing, or the next request.
LEMMA RestIs ==
  ASSUME NEW m \in Messages, NEW w \in Seq(Pair), NEW s \in 0..Len(w), NEW b \in Seq(Symbol), Len(b) <= s,
         \A k \in 1..Len(b) : b[k] = w[s - Len(b) + k][1],
         s - Len(b) = Len(w) - Extra(m), m.next => w[Len(w)] = <<NextRequest, "next">>
  PROVE  b \o Symbols(SubSeq(w, s + 1, Len(w))) = (IF m.next THEN <<NextRequest>> ELSE <<>>)
<1> DEFINE r == SubSeq(w, s + 1, Len(w))
           n == Len(w) - s
           y == Symbols(r)
           x == [k \in 1..n |-> r[k][1]]
           a == b \o y
<1>1. Len(w) \in Nat /\ Len(b) \in Nat /\ n \in Nat /\ s \in Nat
  OBVIOUS
<1>2. r \in Seq(Pair) /\ Len(r) = n /\ \A k \in 1..n : r[k] = w[s + k]
  BY Taken
<1> HIDE DEF r, n
<1>3. \A k \in 1..n : r[k] \in Pair
  BY <1>2
<1>4. y = x
  <2>1. DOMAIN r = 1..n
    BY <1>1, <1>2
  <2> QED
    BY <2>1 DEF Symbols
<1>5. x \in [1..n -> Symbol] /\ \A k \in 1..n : x[k] = r[k][1]
  BY <1>3 DEF Pair
<1> HIDE DEF x
<1>6. y \in Seq(Symbol) /\ Len(y) = n /\ \A k \in 1..n : y[k] = w[s + k][1]
  <2>1. x \in Seq(Symbol) /\ Len(x) = n
    BY <1>1, <1>5, SeqOfLength
  <2> HIDE DEF y
  <2> QED
    BY <1>2, <1>4, <1>5, <2>1
<1> HIDE DEF y
<1>7. /\ a \in Seq(Symbol) /\ Len(a) = Len(b) + n
      /\ \A k \in 1..Len(b) : a[k] = b[k]
      /\ \A k \in 1..n : a[Len(b) + k] = y[k]
  <2>1. b \in Seq(Symbol) /\ y \in Seq(Symbol)
    BY <1>6
  <2>2. /\ a \in Seq(Symbol) /\ Len(a) = Len(b) + Len(y)
        /\ \A k \in 1..Len(b) : a[k] = b[k]
        /\ \A k \in 1..Len(y) : a[Len(b) + k] = y[k]
    BY <2>1, Joined
  <2> HIDE DEF a
  <2> QED
    BY <1>6, <2>2
<1> HIDE DEF a
<1>8. m.next \in BOOLEAN /\ Extra(m) = IF m.next THEN 1 ELSE 0
  BY MessageIs DEF Extra
<1>9. CASE ~m.next
  <2>1. Len(a) = 0
    BY <1>1, <1>7, <1>8, <1>9 DEF n
  <2>2. a = <<>>
    BY <1>7, <2>1
  <2> QED
    BY <1>9, <2>2 DEF a, y, r
<1>10. CASE m.next
  <2>0. Len(a) = Len(b) + n /\ n = Len(w) - s /\ s - Len(b) = Len(w) - 1
    BY <1>7, <1>8, <1>10 DEF n
  <2>1. Len(a) = 1 /\ (Len(b) = 1 \/ (Len(b) = 0 /\ n = 1))
    <3> DEFINE la == Len(a)
               lb == Len(b)
               lw == Len(w)
    <3>1. lb \in Nat /\ lw \in Nat /\ n \in Nat /\ s \in Nat /\ la = lb + n /\ n = lw - s /\ s - lb = lw - 1
      BY <1>1, <2>0
    <3> HIDE DEF la, lb, lw
    <3>2. la = 1 /\ (lb = 1 \/ (lb = 0 /\ n = 1))
      BY <3>1
    <3> QED
      BY <3>2 DEF la, lb
  <2>2. w[Len(w)][1] = NextRequest
    BY <1>10
  <2>3. a[1] = NextRequest
    <3>1. CASE Len(b) = 1
      <4>1. 1 \in 1..Len(b) /\ s - Len(b) + 1 = Len(w)
        BY <1>1, <2>0, <3>1
      <4>2. a[1] = b[1] /\ b[1] = w[s - Len(b) + 1][1]
        BY <1>7, <4>1
      <4> QED
        BY <2>2, <4>1, <4>2
    <3>2. CASE Len(b) = 0 /\ n = 1
      <4>1. 1 \in 1..n /\ Len(b) + 1 = 1 /\ s + 1 = Len(w)
        BY <1>1, <2>0, <3>2
      <4>2. a[1] = y[1] /\ y[1] = w[s + 1][1]
        BY <1>6, <1>7, <4>1
      <4> QED
        BY <2>2, <4>1, <4>2
    <3> QED
      BY <2>1, <3>1, <3>2
  <2>4. a = <<NextRequest>>
    <3>1. <<NextRequest>> \in Seq(Symbol) /\ Len(<<NextRequest>>) = 1 /\ <<NextRequest>>[1] = NextRequest
      BY SymbolsAre
    <3>2. \A k \in 1..Len(a) : a[k] = <<NextRequest>>[k]
      BY <2>1, <2>3, <3>1
    <3> QED
      BY <1>7, <2>1, <3>1, <3>2, SeqEqual
  <2> QED
    BY <1>10, <2>4 DEF a, y, r
<1> QED
  BY <1>9, <1>10

(* What a buffer holds, by the place on the wire where it begins.           *)

\* b is what has arrived of w when s symbols have, and is not used.
Holds(b, w, s) ==
  /\ b \in Seq(Symbol) /\ Len(b) <= s
  /\ \A k \in 1..Len(b) : b[k] = w[s - Len(b) + k][1]

\* The last symbol that arrived and the next are not both in a size line.
Apart(w, s) ==
  s \in 1..(Len(w) - 1) /\ w[s][2] = "size" => w[s + 1][2] # "size"

\* Without its first n symbols it still does.
LEMMA Dropped ==
  ASSUME NEW w, NEW s \in Nat, NEW b, Holds(b, w, s), NEW n \in 0..Len(b)
  PROVE  LET r == SubSeq(b, n + 1, Len(b)) IN
         Holds(r, w, s) /\ Len(r) = Len(b) - n /\ Len(r) \in Nat
<1> DEFINE L == Len(b)
           r == SubSeq(b, n + 1, L)
<1>1. b \in Seq(Symbol) /\ L <= s /\ L \in Nat
  BY DEF Holds
<1>2. r \in Seq(Symbol) /\ Len(r) = L - n /\ \A k \in 1..(L - n) : r[k] = b[n + k]
  BY <1>1, Taken
<1>3. \A k \in 1..L : b[k] = w[s - L + k][1]
  BY DEF Holds
<1> HIDE DEF L, r
<1>4. Len(r) <= s /\ Len(r) \in Nat /\ s - Len(r) = s - L + n
  <2>1. n \in 0..L
    BY DEF L
  <2> QED
    BY <1>1, <1>2, <2>1
<1>5. ASSUME NEW k \in 1..Len(r) PROVE r[k] = w[s - Len(r) + k][1]
  <2>1. n \in 0..L
    BY DEF L
  <2>2. k \in 1..(L - n) /\ n + k \in 1..L /\ s - L + (n + k) = s - Len(r) + k
    BY <1>1, <1>2, <1>4, <2>1
  <2> QED
    BY <1>2, <1>3, <2>2
<1>6. Holds(r, w, s)
  BY <1>2, <1>4, <1>5 DEF Holds
<1> QED
  BY <1>2, <1>4, <1>6 DEF r, L

\* Bytes that come next in the body go on with it.
LEMMA Appended ==
  ASSUME NEW c \in Seq(Symbol), \A k \in 1..Len(c) : c[k] = Bytes[k],
         NEW b \in Seq(Symbol), NEW n \in 0..Len(b), \A k \in 1..n : b[k] = Bytes[Len(c) + k]
  PROVE  LET r == c \o SubSeq(b, 1, n) IN
         r \in Seq(Symbol) /\ Len(r) = Len(c) + n /\ \A k \in 1..(Len(c) + n) : r[k] = Bytes[k]
<1> DEFINE u == SubSeq(b, 1, n)
           L == Len(c)
           r == c \o u
<1>1. u \in Seq(Symbol) /\ Len(u) = n /\ \A k \in 1..n : u[k] = b[k]
  BY Taken
<1> HIDE DEF u
<1>2. /\ r \in Seq(Symbol) /\ Len(r) = L + Len(u) /\ L \in Nat
      /\ \A k \in 1..L : r[k] = c[k]
      /\ \A k \in 1..Len(u) : r[L + k] = u[k]
  <2>1. u \in Seq(Symbol)
    BY <1>1
  <2> QED
    BY <2>1, Joined
<1> HIDE DEF r
<1>3. ASSUME NEW k \in 1..(L + n) PROVE r[k] = Bytes[k]
  <2>1. CASE k <= L
    <3>1. k \in 1..L
      BY <1>2, <2>1
    <3> QED
      BY <1>2, <3>1
  <2>2. CASE ~(k <= L)
    <3> DEFINE j == k - L
    <3>1. j \in 1..n /\ L + j = k
      BY <1>2, <2>2
    <3> HIDE DEF j, L
    <3>2. r[k] = u[j] /\ u[j] = b[j]
      BY <1>1, <1>2, <3>1
    <3>3. b[j] = Bytes[L + j]
      BY <3>1 DEF L
    <3> QED
      BY <3>1, <3>2, <3>3
  <2> QED
    BY <2>1, <2>2
<1> QED
  BY <1>1, <1>2, <1>3 DEF r, u

\* A delivery is symbols of the wire.
LEMMA Arrived ==
  ASSUME NEW w \in Seq(Pair), NEW s \in Nat, NEW n \in Nat, s + n <= Len(w)
  PROVE  LET r == Symbols(SubSeq(w, s + 1, s + n)) IN
         r \in Seq(Symbol) /\ Len(r) = n /\ \A k \in 1..n : r[k] = w[s + k][1]
<1> DEFINE u == SubSeq(w, s + 1, s + n)
           x == [k \in 1..n |-> u[k][1]]
           r == Symbols(u)
<1>1. u \in Seq(Pair) /\ Len(u) = n /\ \A k \in 1..n : u[k] = w[s + k]
  BY Slice
<1> HIDE DEF u
<1>2. \A k \in 1..n : u[k] \in Pair
  BY <1>1
<1>3. DOMAIN u = 1..n
  BY <1>1
<1>4. r = x
  BY <1>3 DEF Symbols
<1>5. x \in [1..n -> Symbol] /\ \A k \in 1..n : x[k] = u[k][1]
  BY <1>2 DEF Pair
<1> HIDE DEF x, r
<1>6. x \in Seq(Symbol) /\ Len(x) = n
  BY <1>5, SeqOfLength
<1> QED
  BY <1>1, <1>4, <1>5, <1>6 DEF r, u

\* The size in a size line; that of the last one is 0.
SizeAt(m, i) == IF i = Len(m.sizes) + 1 THEN 0 ELSE m.sizes[i]

\* Every size line is where it should be, with room after it.
LEMMA LineIs ==
  ASSUME NEW m \in Messages, m.framing = "chunked", NEW i \in 1..(Len(m.sizes) + 1)
  PROVE  /\ SizeAt(m, i) \in 0..3 /\ Start(m, i) \in Nat /\ Start(m, i) >= 1
         /\ SizeLine(Wire(m), Start(m, i), SizeAt(m, i))
         /\ Start(m, i) + Len(Digits(SizeAt(m, i))) + 2 < Len(Wire(m))
         /\ SizeAt(m, i) = 0 <=> i = Len(m.sizes) + 1
<1> DEFINE N == Len(m.sizes)
           w == Wire(m)
           S == Start(m, N + 1)
           p == Start(m, i)
           L == Len(w)
           x == Extra(m)
<1>1. N \in Nat /\ x \in {0, 1}
  BY MessageIs, EndsAre
<1>2. L = S + 5 + x /\ SizeLine(w, S, 0)
  BY ChunkedWireIs
<1>3. \A j \in 1..(N + 1) : Start(m, j) \in Nat /\ 1 <= Start(m, j) /\ Start(m, j) <= S
  BY ChunkedWireIs
<1>4. p \in Nat /\ 1 <= p /\ S \in Nat
  <2>1. N + 1 \in 1..(N + 1) /\ i \in 1..(N + 1)
    BY <1>1
  <2> QED
    BY <1>3, <2>1
<1>5. CASE i = N + 1
  <2>1. SizeAt(m, i) = 0 /\ p = S
    BY <1>5 DEF SizeAt
  <2>2. Len(Digits(0)) = 1
    BY DEF Digits
  <2>3. p + Len(Digits(0)) + 2 < L
    <3> DEFINE d == Len(Digits(0))
    <3>1. d = 1 /\ p = S /\ L = S + 5 + x /\ S \in Nat /\ x \in {0, 1}
      BY <1>1, <1>2, <1>4, <2>1, <2>2
    <3> HIDE DEF p, S, L, x, d
    <3>2. p + d + 2 < L
      BY <3>1
    <3> QED
      BY <3>2 DEF d
  <2>4. SizeLine(w, p, 0)
    BY <1>2, <2>1
  <2> QED
    BY <1>4, <1>5, <2>1, <2>3, <2>4
<1>6. CASE i # N + 1
  <2> DEFINE n == m.sizes[i]
             d == Len(Digits(n))
             q == Start(m, i + 1)
  <2>1. i \in 1..N /\ i + 1 \in 1..(N + 1)
    BY <1>1, <1>6
  <2>2. n \in 1..3
    BY <2>1, SizeIs
  <2>3. n \in 0..3 /\ SizeAt(m, i) = n
    BY <1>6, <2>2 DEF SizeAt
  <2>4. d \in {1, 2}
    BY <2>3, DigitsAre
  <2>5. HasChunk(w, p, m, i) /\ q = p + d + 4 + n
    BY <2>1, ChunkedWireIs
  <2>6. q <= S /\ q \in Nat
    BY <1>3, <2>1
  <2>7. p + d + 2 < L
    <3> HIDE DEF p, S, L, x, n, d, q
    <3> QED
      BY <1>1, <1>2, <1>4, <2>2, <2>4, <2>5, <2>6
  <2>8. SizeLine(w, p, n)
    BY <2>5 DEF HasChunk
  <2> QED
    BY <1>4, <1>6, <2>2, <2>3, <2>7, <2>8
<1> QED
  BY <1>5, <1>6

\* Before a size line, a buffer that does not end inside it has all of it.
LEMMA LineHere ==
  ASSUME NEW m \in Messages, m.framing = "chunked", NEW i \in 1..(Len(m.sizes) + 1),
         NEW s \in 0..Len(Wire(m)), NEW b, Holds(b, Wire(m), s), b # <<>>,
         s - Len(b) = Start(m, i), Apart(Wire(m), s)
  PROVE  LET d == Len(Digits(SizeAt(m, i)))
             size == Trim(SubSeq(b, 1, LineEnd(b))) IN
         /\ d + 2 \in 1..Len(b) /\ LineEnd(b) = d + 2
         /\ \A k \in DOMAIN size : size[k] \in Digit
         /\ Number(size) = SizeAt(m, i)
<1> DEFINE w == Wire(m)
           n == SizeAt(m, i)
           digits == Digits(n)
           d == Len(digits)
           p == Start(m, i)
           l == Len(b)
           L == Len(w)
<1>1. n \in 0..3 /\ p \in Nat /\ p >= 1 /\ SizeLine(w, p, n) /\ p + d + 2 < L
  BY LineIs
<1>2. d \in {1, 2} /\ \A k \in 1..d : digits[k] \in Digit
  BY <1>1, DigitsAre
<1>3. /\ \A k \in 1..d : w[p + k] = <<digits[k], "size">>
      /\ w[p + d + 1] = <<"CR", "size">> /\ w[p + d + 2] = <<"LF", "size">>
  BY <1>1 DEF SizeLine
<1>4. b \in Seq(Symbol) /\ l <= s /\ l \in Nat /\ s \in 0..L /\ \A k \in 1..l : b[k] = w[s - l + k][1]
  BY DEF Holds
<1>5. l >= 1 /\ s = p + l
  <2>1. l # 0
    BY <1>4
  <2>2. s - l = p
    OBVIOUS
  <2> HIDE DEF l, p, L
  <2> QED
    BY <1>4, <2>1, <2>2
<1>6. L \in Nat
  BY ChunkedWireIs
<1> HIDE DEF n, digits, d, p, l, L
<1>7. ASSUME NEW k \in 1..(d + 2) PROVE w[p + k][2] = "size"
  <2>1. k \in 1..d \/ k = d + 1 \/ k = d + 2
    BY <1>2
  <2>2. CASE k \in 1..d
    BY <1>3, <2>2
  <2>3. CASE k = d + 1
    <3>1. p + k = p + d + 1
      BY <1>1, <1>2, <2>3
    <3> QED
      BY <1>3, <3>1
  <2>4. CASE k = d + 2
    <3>1. p + k = p + d + 2
      BY <1>1, <1>2, <2>4
    <3> QED
      BY <1>3, <3>1
  <2> QED
    BY <2>1, <2>2, <2>3, <2>4
<1>8. l >= d + 2
  <2> SUFFICES ASSUME ~(l >= d + 2) PROVE FALSE
    OBVIOUS
  <2>1. l \in 1..(d + 2) /\ l + 1 \in 1..(d + 2) /\ p + (l + 1) = s + 1 /\ s \in 1..(L - 1)
    BY <1>1, <1>2, <1>4, <1>5, <1>6
  <2>2. w[p + l][2] = "size" /\ w[p + (l + 1)][2] = "size"
    BY <1>7, <2>1
  <2>3. w[s][2] = "size" /\ w[s + 1][2] = "size"
    BY <1>5, <2>1, <2>2
  <2> QED
    BY <2>1, <2>3 DEF Apart, L
<1>9. \A k \in 1..l : b[k] = w[p + k][1]
  <2>1. s - l = p
    BY <1>1, <1>4, <1>5
  <2> QED
    BY <1>4, <2>1
<1>10. ASSUME NEW k \in 1..d PROVE b[k] = digits[k]
  <2>1. k \in 1..l
    BY <1>2, <1>4, <1>8
  <2> QED
    BY <1>3, <1>9, <2>1
<1>11. b[d + 1] = "CR" /\ b[d + 2] = "LF"
  <2>1. d + 1 \in 1..l /\ d + 2 \in 1..l /\ p + (d + 1) = p + d + 1 /\ p + (d + 2) = p + d + 2
    BY <1>1, <1>2, <1>4, <1>8
  <2>2. b[d + 1] = w[p + d + 1][1] /\ b[d + 2] = w[p + d + 2][1]
    BY <1>9, <2>1
  <2> QED
    BY <1>3, <2>2
<1>12. d + 2 \in 1..l
  BY <1>2, <1>4, <1>8
<1>13. d = Len(Digits(n)) /\ l = Len(b) /\ digits = Digits(n)
  BY DEF d, l, digits
<1>14. /\ LineEnd(b) = d + 2
       /\ \A k \in DOMAIN Trim(SubSeq(b, 1, LineEnd(b))) : Trim(SubSeq(b, 1, LineEnd(b)))[k] \in Digit
       /\ Number(Trim(SubSeq(b, 1, LineEnd(b)))) = n
  <2>1. /\ Len(b) >= Len(Digits(n)) + 2
        /\ \A k \in 1..Len(Digits(n)) : b[k] = Digits(n)[k]
        /\ b[Len(Digits(n)) + 1] = "CR" /\ b[Len(Digits(n)) + 2] = "LF"
    BY <1>8, <1>10, <1>11, <1>13
  <2> HIDE DEF w
  <2> QED
    BY <1>1, <1>4, <1>13, <2>1, LineOf
<1> QED
  BY <1>12, <1>14 DEF d, l, n, digits

\* Past the last size line there are the last CRLF and the next request; the
\* parser finds only lines without a digit.
LEMMA PastHere ==
  ASSUME NEW m \in Messages, m.framing = "chunked",
         NEW s \in 0..Len(Wire(m)), NEW b, Holds(b, Wire(m), s), b # <<>>,
         s - Len(b) \in {Start(m, Len(m.sizes) + 1) + 3, Start(m, Len(m.sizes) + 1) + 5}
  PROVE  LET size == Trim(SubSeq(b, 1, LineEnd(b))) IN
         /\ \/ Len(b) = 1 /\ LineEnd(b) = 0
            \/ Len(b) = 2 /\ LineEnd(b) = 2
            \/ Len(b) = 3 /\ LineEnd(b) = 2 /\ s - Len(b) = Start(m, Len(m.sizes) + 1) + 3
         /\ \A k \in DOMAIN size : size[k] \in Digit
         /\ Number(size) = 0
<1> DEFINE w == Wire(m)
           S == Start(m, Len(m.sizes) + 1)
           l == Len(b)
           L == Len(w)
           x == Extra(m)
<1>1. x \in {0, 1} /\ L = S + 5 + x /\ w[S + 4] = <<"CR", "end">> /\ w[S + 5] = <<"LF", "end">>
  BY EndsAre, ChunkedWireIs
<1>2. S \in Nat
  <2>1. Len(m.sizes) + 1 \in 1..(Len(m.sizes) + 1)
    <3>1. Len(m.sizes) \in Nat
      BY MessageIs
    <3> QED
      BY <3>1
  <2> QED
    BY <2>1, LineIs
<1>3. b \in Seq(Symbol) /\ l <= s /\ l \in Nat /\ s \in 0..L /\ \A k \in 1..l : b[k] = w[s - l + k][1]
  BY DEF Holds
<1>4. s - l \in {S + 3, S + 5} /\ l >= 1
  <2>1. l # 0
    BY <1>3
  <2>2. s - l \in {S + 3, S + 5}
    OBVIOUS
  <2> HIDE DEF l, S
  <2> QED
    BY <1>3, <2>1, <2>2
<1> HIDE DEF S, L, l, x
<1>5. l = 1 \/ (s - l = S + 3 /\ (l = 2 \/ l = 3))
  BY <1>1, <1>2, <1>3, <1>4
<1>6. ASSUME l # 1 PROVE l >= 2 /\ b[1] = "CR" /\ b[2] = "LF"
  <2>1. l >= 2 /\ 1 \in 1..l /\ 2 \in 1..l /\ s - l + 1 = S + 4 /\ s - l + 2 = S + 5
    BY <1>2, <1>3, <1>5, <1>6
  <2>2. b[1] = w[S + 4][1] /\ b[2] = w[S + 5][1]
    BY <1>3, <2>1
  <2> QED
    BY <1>1, <2>1, <2>2
<1>7. Len(b) >= 1 /\ (Len(b) = 1 \/ (Len(b) >= 2 /\ b[1] = "CR" /\ b[2] = "LF"))
  BY <1>4, <1>6 DEF l
<1>8. /\ (Len(b) = 1 => LineEnd(b) = 0) /\ (Len(b) >= 2 => LineEnd(b) = 2)
      /\ \A i \in DOMAIN Trim(SubSeq(b, 1, LineEnd(b))) : Trim(SubSeq(b, 1, LineEnd(b)))[i] \in Digit
      /\ Number(Trim(SubSeq(b, 1, LineEnd(b)))) = 0
  BY <1>3, <1>7, NoSize
<1>9. \/ Len(b) = 1 /\ LineEnd(b) = 0
      \/ Len(b) = 2 /\ LineEnd(b) = 2
      \/ Len(b) = 3 /\ LineEnd(b) = 2 /\ s - Len(b) = S + 3
  <2>1. CASE l = 1
    BY <1>8, <2>1 DEF l
  <2>2. CASE s - l = S + 3 /\ (l = 2 \/ l = 3)
    <3>1. l >= 2
      BY <2>2
    <3>2. LineEnd(b) = 2
      BY <1>8, <3>1 DEF l
    <3> QED
      BY <2>2, <3>2 DEF l
  <2> QED
    BY <1>5, <2>1, <2>2
<1> QED
  BY <1>8, <1>9 DEF S

\* In the data of a chunk, the buffer begins with what is missing of it, and
\* then CRLF.
LEMMA DataHere ==
  ASSUME NEW m \in Messages, m.framing = "chunked", NEW i \in 1..Len(m.sizes),
         NEW s \in 0..Len(Wire(m)), NEW b, Holds(b, Wire(m), s), NEW r \in 0..m.sizes[i],
         s - Len(b) = Start(m, i) + Len(Digits(m.sizes[i])) + 2 + r
  PROVE  /\ \A k \in 1..(m.sizes[i] - r) :
              k <= Len(b) => b[k] = Bytes[Sums(m.sizes)[i - 1] + r + k]
         /\ Len(b) >= m.sizes[i] - r + 2 =>
              b[m.sizes[i] - r + 1] = "CR" /\ b[m.sizes[i] - r + 2] = "LF"
         /\ Start(m, i) + Len(Digits(m.sizes[i])) + 2 + m.sizes[i] + 2 = Start(m, i + 1)
<1> DEFINE w == Wire(m)
           n == m.sizes[i]
           d == Len(Digits(n))
           p == Start(m, i)
           q == Start(m, i + 1)
           before == Sums(m.sizes)[i - 1]
           data == p + d + 2
           l == Len(b)
<1>1. HasChunk(w, p, m, i) /\ q = p + d + 4 + n
  BY ChunkedWireIs
<1>2. n \in 1..3 /\ before \in Nat
  BY SizeIs
<1>3. d \in {1, 2} /\ p \in Nat
  <2>1. n \in 0..3
    BY <1>2
  <2>2. i \in 1..(Len(m.sizes) + 1)
    <3>1. Len(m.sizes) \in Nat
      BY MessageIs
    <3> QED
      BY <3>1
  <2>3. d \in {1, 2}
    BY <2>1, DigitsAre
  <2>4. p \in Nat
    BY <2>2, LineIs
  <2> QED
    BY <2>3, <2>4
<1>4. /\ \A k \in 1..n : w[data + k] = <<Bytes[before + k], "data">>
      /\ w[data + n + 1] = <<"CR", "crlf">> /\ w[data + n + 2] = <<"LF", "crlf">>
  BY <1>1 DEF HasChunk
<1>5. l \in Nat /\ s \in Nat /\ (\A k \in 1..l : b[k] = w[s - l + k][1]) /\ s - l = data + r /\ r \in 0..n
  <2>1. b \in Seq(Symbol) /\ \A k \in 1..l : b[k] = w[s - l + k][1]
    BY DEF Holds
  <2>2. s - l = data + r /\ r \in 0..n /\ s \in Nat
    OBVIOUS
  <2> QED
    BY <2>1, <2>2
<1> HIDE DEF n, d, p, q, before, l
<1>6. data \in Nat
  BY <1>3
<1> HIDE DEF data
<1>7. ASSUME NEW k \in 1..(n - r), k <= l PROVE b[k] = Bytes[before + r + k]
  <2>0. l \in Nat /\ s - l = data + r /\ r \in 0..n /\ s \in Nat
    BY <1>5
  <2>1. k \in 1..l /\ s - l + k = data + (r + k) /\ r + k \in 1..n /\ before + (r + k) = before + r + k
    BY <1>2, <1>6, <1>7, <2>0
  <2>2. b[k] = w[data + (r + k)][1]
    BY <1>5, <2>1
  <2>3. w[data + (r + k)] = <<Bytes[before + (r + k)], "data">>
    BY <1>4, <2>1
  <2> QED
    BY <2>1, <2>2, <2>3
<1>8. ASSUME l >= n - r + 2 PROVE b[n - r + 1] = "CR" /\ b[n - r + 2] = "LF"
  <2>1. /\ n - r + 1 \in 1..l /\ s - l + (n - r + 1) = data + n + 1
        /\ n - r + 2 \in 1..l /\ s - l + (n - r + 2) = data + n + 2
    BY <1>2, <1>5, <1>6, <1>8
  <2>2. b[n - r + 1] = w[data + n + 1][1] /\ b[n - r + 2] = w[data + n + 2][1]
    BY <1>5, <2>1
  <2> QED
    BY <1>4, <2>2
<1>9. p + d + 2 + n + 2 = q
  <2>1. q = p + d + 4 + n
    BY <1>1
  <2> QED
    BY <1>2, <1>3, <2>1
<1> QED
  BY <1>7, <1>8, <1>9 DEF n, d, p, q, before, l

(* The invariant.                                                           *)

\* The parser has used this much of what has arrived.
Used == sent - Len(request_buffer)

\* The body is the first n bytes of the one that was sent.
BodyIs(n) == n <= Total(msg.sizes) /\ Len(body) = n /\ \A k \in 1..n : body[k] = Bytes[k]

\* Before the headers nothing has arrived; the parser works on a request
\* that is neither complete nor wrong.
InPhase ==
  /\ state = "none" => /\ pc = "recv" /\ sent = 0
                       /\ request_buffer = <<>> /\ body = <<>> /\ ~reading_chunk_data
  /\ state # "none" => sent >= 1
  /\ pc \in {"parse_request", "parse_body"} => state = "BODY"
  /\ pc = "recv" => state \in {"none", "BODY"}
  /\ ~reading_chunk_data => current_chunk_read = 0

\* With a Content-Length, all that is used after the header is the body; the
\* limit has been checked once part of it is there and more comes.
ByLength ==
  msg.framing = "length" /\ state # "none" =>
    /\ Used = 1 + Len(body) /\ BodyIs(Len(body))
    /\ state = "DONE" => Len(body) = Total(msg.sizes)
    /\ state = "ERROR_PARSE" => msg.sizes = <<>>
    /\ state = "BODY" /\ body # <<>> =>
         /\ content_length_value = Total(msg.sizes)
         /\ pc \in {"parse_request", "parse_body"} => Total(msg.sizes) <= ClientMaxBodySize

\* In chunks, the parser is before a size line, or in the data of a chunk, or
\* past the last size line and then never done.
BeforeLine(i) ==
  ~reading_chunk_data /\ Used = Start(msg, i) /\ BodyIs(Sums(msg.sizes)[i - 1])
InData(i) ==
  /\ reading_chunk_data /\ current_chunk_size = msg.sizes[i]
  /\ Used = Start(msg, i) + Len(Digits(msg.sizes[i])) + 2 + current_chunk_read
  /\ BodyIs(Sums(msg.sizes)[i - 1] + current_chunk_read)
PastLine ==
  LET S == Start(msg, Len(msg.sizes) + 1) IN
  /\ ~reading_chunk_data /\ request_buffer # <<>>
  /\ Used \in {S + 3, S + 5}
  /\ BodyIs(Total(msg.sizes))

ByChunks ==
  msg.framing = "chunked" /\ state # "none" /\ ~cut =>
    /\ Apart(Wire(msg), sent)
    /\ state = "BODY" => \/ \E i \in 1..(Len(msg.sizes) + 1) : BeforeLine(i)
                         \/ \E i \in 1..Len(msg.sizes) : InData(i)
                         \/ PastLine
    /\ state = "DONE" => /\ Used = Start(msg, Len(msg.sizes) + 1) + 5
                         /\ BodyIs(Total(msg.sizes))
    /\ state # "ERROR_PARSE"

IInv ==
  TypeOK /\ InPhase /\ Holds(request_buffer, Wire(msg), sent) /\ ByLength /\ ByChunks

\* A message on the wire is a sequence that is not empty.
LEMMA WireIs ==
  ASSUME NEW m \in Messages
  PROVE  Wire(m) \in Seq(Pair) /\ Len(Wire(m)) \in Nat /\ Len(Wire(m)) >= 1
<1> DEFINE w == Wire(m)
           L == Len(w)
           T == Total(m.sizes)
           S == Start(m, Len(m.sizes) + 1)
           x == Extra(m)
<1>1. m.framing \in {"length", "chunked"} /\ T \in Nat /\ x \in {0, 1}
  BY MessageIs, EndsAre
<1>2. CASE m.framing = "length"
  <2>1. w \in Seq(Pair) /\ L = 1 + T + x
    BY <1>2, LengthWireIs
  <2> HIDE DEF L, T, x
  <2>2. L \in Nat /\ L >= 1
    BY <1>1, <2>1
  <2> QED
    BY <2>1, <2>2 DEF L
<1>3. CASE m.framing = "chunked"
  <2>1. w \in Seq(Pair) /\ L = S + 5 + x
    BY <1>3, ChunkedWireIs
  <2>2. Len(m.sizes) + 1 \in 1..(Len(m.sizes) + 1)
    <3>1. Len(m.sizes) \in Nat
      BY MessageIs
    <3> QED
      BY <3>1
  <2>3. S \in Nat
    BY <1>3, <2>2, LineIs
  <2> HIDE DEF L, S, x
  <2>4. L \in Nat /\ L >= 1
    BY <1>1, <2>1, <2>3
  <2> QED
    BY <2>1, <2>4 DEF L
<1> QED
  BY <1>1, <1>2, <1>3

\* The invariant holds before anything arrives.
LEMMA Begins ==
  ASSUME Init
  PROVE  IInv
<1>1. msg \in Messages /\ sent = 0 /\ request_buffer = <<>> /\ state = "none" /\ body = <<>>
  BY DEF Init
<1>2. Len(Wire(msg)) \in Nat
  BY <1>1, WireIs
<1>3. Total(msg.sizes) \in Nat
  BY <1>1, MessageIs
<1>4. <<>> \in Seq(Symbol) /\ Len(<<>>) = 0
  OBVIOUS
<1>5. TypeOK
  <2>1. sent \in 0..Len(Wire(msg)) /\ Len(body) + Len(request_buffer) <= sent
        /\ Len(body) <= Total(msg.sizes)
    BY <1>1, <1>2, <1>3, <1>4
  <2>2. /\ reading_chunk_data \in BOOLEAN /\ cut \in BOOLEAN /\ clean \in BOOLEAN
        /\ pc = "recv"
    BY DEF Init
  <2>3. current_chunk_size \in Nat /\ current_chunk_read \in 0..current_chunk_size /\ content_length_value \in Nat
    BY DEF Init
  <2>4. request_buffer \in Seq(Symbol) /\ body \in Seq(Symbol)
    BY <1>1, <1>4
  <2> QED
    BY <1>1, <2>1, <2>2, <2>3, <2>4 DEF TypeOK
<1>6. InPhase
  BY DEF Init, InPhase
<1>7. Holds(request_buffer, Wire(msg), sent)
  BY <1>1, <1>4 DEF Holds
<1> QED
  BY <1>1, <1>5, <1>6, <1>7 DEF IInv, ByLength, ByChunks

\* What a delivery does to the history.
LEMMA Delivered ==
  ASSUME TypeOK, NEW n \in 1..ReadSize, Deliver(n)
  PROVE  /\ sent' = sent + n /\ sent + n \in 0..Len(Wire(msg))
         /\ n \in Nat /\ n >= 1 /\ sent \in Nat
         /\ cut' \in BOOLEAN /\ clean' \in BOOLEAN
         /\ ~cut' => ~cut /\ Apart(Wire(msg), sent + n)
<1> DEFINE w == Wire(msg)
           inside == w[sent + n][2] = "size" /\ sent + n < Len(w) /\ w[sent + n + 1][2] = "size"
<1>1. msg \in Messages /\ sent \in 0..Len(w) /\ cut \in BOOLEAN /\ clean \in BOOLEAN
  BY DEF TypeOK
<1>2. Len(w) \in Nat /\ ReadSize \in Nat
  BY <1>1, WireIs, MessageIs
<1>3. sent' = sent + n /\ sent + n <= Len(w) /\ cut' = (cut \/ inside)
  BY DEF Deliver
<1>4. clean' \in BOOLEAN
  BY <1>1 DEF Deliver
<1>5. cut' \in BOOLEAN
  BY <1>3
<1>6. sent + n \in 0..Len(w) /\ n \in Nat /\ n >= 1 /\ sent \in Nat
  BY <1>1, <1>2, <1>3
<1>7. ASSUME ~cut' PROVE ~cut /\ Apart(w, sent + n)
  <2>1. ~cut /\ ~inside
    BY <1>3, <1>7
  <2>2. sent + n \in 1..(Len(w) - 1) => sent + n < Len(w)
    BY <1>2, <1>6
  <2> QED
    BY <2>1, <2>2 DEF Apart
<1> QED
  BY <1>3, <1>4, <1>5, <1>6, <1>7

\* The first delivery: the headers are used, and what came with them is left.
LEMMA KeptByRecvHeaders ==
  ASSUME IInv, NEW n \in 1..ReadSize, RecvHeaders(n)
  PROVE  IInv'
<1> DEFINE w == Wire(msg)
           d == Symbols(SubSeq(w, sent + 1, sent + n))
           T == Total(msg.sizes)
<1>1. TypeOK /\ InPhase
  BY DEF IInv
<1>2. msg \in Messages
  BY <1>1 DEF TypeOK
<1>3. w \in Seq(Pair) /\ Len(w) \in Nat /\ T \in Nat /\ T <= Len(Bytes) /\ Len(Bytes) \in Nat
  BY <1>2, WireIs, MessageIs
<1>4. state = "none" /\ pc = "recv" /\ sent = 0 /\ body = <<>> /\ ~reading_chunk_data
  BY <1>1 DEF RecvHeaders, InPhase
<1>5. Deliver(n)
  BY DEF RecvHeaders
<1>6. /\ sent' = sent + n /\ sent + n \in 0..Len(w) /\ n \in Nat /\ n >= 1
      /\ cut' \in BOOLEAN /\ clean' \in BOOLEAN
      /\ ~cut' => ~cut /\ Apart(w, sent + n)
  BY <1>1, <1>5, Delivered
<1>7. sent + n = n /\ sent' = n /\ n \in 0..Len(w)
  BY <1>4, <1>6
<1>8. request_buffer' = Tail(d)
  BY DEF RecvHeaders, Received
<1>9. d \in Seq(Symbol) /\ Len(d) = n /\ \A k \in 1..n : d[k] = w[k][1]
  <2>1. sent \in Nat /\ sent + n <= Len(w) /\ \A k \in 1..n : sent + k = k
    BY <1>3, <1>4, <1>6
  <2>2. d \in Seq(Symbol) /\ Len(d) = n /\ \A k \in 1..n : d[k] = w[sent + k][1]
    BY <1>3, <1>6, <2>1, Arrived
  <2> QED
    BY <2>1, <2>2
<1> HIDE DEF d, w, T
<1>10. /\ request_buffer' \in Seq(Symbol) /\ Len(request_buffer') = n - 1
       /\ \A k \in 1..(n - 1) : request_buffer'[k] = w[1 + k][1]
  <2>1. d # <<>>
    BY <1>6, <1>9
  <2>2. Tail(d) \in Seq(Symbol) /\ Len(Tail(d)) = Len(d) - 1 /\ \A k \in 1..(Len(d) - 1) : Tail(d)[k] = d[k + 1]
    BY <1>9, <2>1
  <2>3. ASSUME NEW k \in 1..(n - 1) PROVE request_buffer'[k] = w[1 + k][1]
    <3>1. k + 1 \in 1..n /\ k + 1 = 1 + k /\ k \in 1..(Len(d) - 1)
      BY <1>6, <1>9
    <3>2. Tail(d)[k] = d[k + 1] /\ d[k + 1] = w[k + 1][1]
      BY <1>9, <2>2, <3>1
    <3> QED
      BY <1>8, <3>1, <3>2
  <2>4. Len(Tail(d)) = n - 1
    BY <1>9, <2>2
  <2> QED
    BY <1>8, <2>2, <2>3, <2>4
<1>11. /\ msg' = msg /\ body' = body /\ state' = "BODY"
       /\ pc' \in {"recv", "parse_request"}
       /\ reading_chunk_data' = reading_chunk_data /\ current_chunk_size' = current_chunk_size
       /\ current_chunk_read' = current_chunk_read /\ content_length_value' = content_length_value
  BY DEF RecvHeaders, chunk
<1>12. Len(<<>>) = 0 /\ body' = <<>>
  BY <1>4, <1>11
<1>13. Wire(msg)' = w
  BY <1>11 DEF w
<1>14. TypeOK'
  <2>1. sent' \in 0..Len(Wire(msg'))
    BY <1>7, <1>11 DEF w
  <2>2. Len(body') + Len(request_buffer') <= sent'
    BY <1>6, <1>7, <1>10, <1>12
  <2>3. msg'.framing = "length" => Len(body') <= Total(msg'.sizes)
    <3>1. Len(body') <= T
      BY <1>3, <1>12
    <3> QED
      BY <1>11, <3>1 DEF T
  <2> QED
    BY <1>1, <1>6, <1>10, <1>11, <2>1, <2>2, <2>3 DEF TypeOK
<1>15. InPhase'
  BY <1>1, <1>6, <1>7, <1>11 DEF InPhase
<1>16. Holds(request_buffer', w, n) /\ n - Len(request_buffer') = 1
  <2>1. n - Len(request_buffer') = 1 /\ Len(request_buffer') <= n
    BY <1>6, <1>10
  <2>2. \A k \in 1..Len(request_buffer') : request_buffer'[k] = w[n - Len(request_buffer') + k][1]
    BY <1>10, <2>1
  <2> QED
    BY <1>10, <2>1, <2>2 DEF Holds
<1>17. Used' = 1
  BY <1>7, <1>16 DEF Used
<1>18. BodyIs(0)'
  <2>1. 0 <= T /\ Len(body') = 0 /\ 1..0 = {}
    BY <1>3, <1>12
  <2> QED
    BY <1>11, <2>1 DEF BodyIs, T
<1>19. ByLength'
  <2>1. Used' = 1 + Len(body') /\ Len(body') = 0
    BY <1>12, <1>17
  <2> QED
    BY <1>11, <1>12, <1>18, <2>1 DEF ByLength
<1>20. ByChunks'
  <2> SUFFICES ASSUME msg.framing = "chunked", ~cut'
               PROVE  Apart(w, n) /\ \E i \in 1..(Len(msg'.sizes) + 1) : BeforeLine(i)'
    BY <1>7, <1>11, <1>13 DEF ByChunks
  <2>1. Apart(w, n)
    BY <1>6, <1>7
  <2>2. 1 \in 1..(Len(msg'.sizes) + 1) /\ 1 - 1 = 0
    <3>1. Len(msg.sizes) \in Nat
      BY <1>2, MessageIs
    <3> QED
      BY <1>11, <3>1
  <2>3. Start(msg, 1) = 1
    BY <1>2, ChunkedWireIs
  <2>4. Sums(msg.sizes)[0] = 0
    <3>1. msg.sizes \in Seq(1..3)
      BY <1>2, MessageIs
    <3> QED
      BY <3>1, SumsAre
  <2>5. BeforeLine(1)'
    <3>1. Start(msg', 1) = 1 /\ Sums(msg'.sizes)[1 - 1] = 0
      BY <1>11, <2>2, <2>3, <2>4
    <3> QED
      BY <1>4, <1>11, <1>17, <1>18, <3>1 DEF BeforeLine
  <2> QED
    BY <2>1, <2>2, <2>5
<1> QED
  BY <1>7, <1>13, <1>14, <1>15, <1>16, <1>19, <1>20 DEF IInv

\* More of the body arrives: what is used stays the same.
LEMMA KeptByRecvBody ==
  ASSUME IInv, NEW n \in 1..ReadSize, RecvBody(n)
  PROVE  IInv'
<1> DEFINE w == Wire(msg)
           b == request_buffer
           d == Symbols(SubSeq(w, sent + 1, sent + n))
<1>1. TypeOK /\ InPhase /\ Holds(b, w, sent) /\ ByLength /\ ByChunks
  BY DEF IInv
<1>2. msg \in Messages /\ sent \in 0..Len(w) /\ Len(body) + Len(b) <= sent
  BY <1>1 DEF TypeOK
<1>3. w \in Seq(Pair) /\ Len(w) \in Nat
  BY <1>2, WireIs
<1>4. state = "BODY" /\ pc = "recv" /\ ~OverLimit /\ Deliver(n)
  BY DEF RecvBody
<1>5. /\ sent' = sent + n /\ sent + n \in 0..Len(w) /\ n \in Nat /\ n >= 1 /\ sent \in Nat
      /\ cut' \in BOOLEAN /\ clean' \in BOOLEAN
      /\ ~cut' => ~cut /\ Apart(w, sent + n)
  BY <1>1, <1>4, Delivered
<1>6. d \in Seq(Symbol) /\ Len(d) = n /\ \A k \in 1..n : d[k] = w[sent + k][1]
  <2>1. sent + n <= Len(w)
    BY <1>5
  <2> QED
    BY <1>3, <1>5, <2>1, Arrived
<1>7. request_buffer' = b \o d
  BY DEF RecvBody, Received
<1>8. b \in Seq(Symbol) /\ Len(b) \in Nat /\ Len(b) <= sent /\ \A k \in 1..Len(b) : b[k] = w[sent - Len(b) + k][1]
  BY <1>1 DEF Holds
<1> HIDE DEF d, w
<1>9. /\ request_buffer' \in Seq(Symbol) /\ Len(request_buffer') = Len(b) + n
      /\ \A k \in 1..Len(b) : request_buffer'[k] = b[k]
      /\ \A k \in 1..n : request_buffer'[Len(b) + k] = d[k]
  <2>1. b \in Seq(Symbol) /\ d \in Seq(Symbol)
    BY <1>6, <1>8
  <2>2. /\ b \o d \in Seq(Symbol) /\ Len(b \o d) = Len(b) + Len(d)
        /\ \A k \in 1..Len(b) : (b \o d)[k] = b[k]
        /\ \A k \in 1..Len(d) : (b \o d)[Len(b) + k] = d[k]
    BY <2>1, Joined
  <2> QED
    BY <1>6, <1>7, <2>2
<1>10. /\ msg' = msg /\ body' = body /\ state' = "BODY" /\ pc' = "parse_body"
       /\ reading_chunk_data' = reading_chunk_data /\ current_chunk_size' = current_chunk_size
       /\ current_chunk_read' = current_chunk_read /\ content_length_value' = content_length_value
  BY <1>4 DEF RecvBody, parser, chunk
<1>11. Wire(msg)' = w
  BY <1>10 DEF w
<1>12. sent + n - Len(request_buffer') = sent - Len(b)
  BY <1>5, <1>8, <1>9
<1>13. Holds(request_buffer', w, sent + n)
  <2>1. Len(request_buffer') <= sent + n
    BY <1>5, <1>8, <1>9
  <2>2. ASSUME NEW k \in 1..Len(request_buffer') PROVE request_buffer'[k] = w[sent - Len(b) + k][1]
    <3>1. CASE k \in 1..Len(b)
      BY <1>8, <1>9, <3>1
    <3>2. CASE ~(k \in 1..Len(b))
      <4> DEFINE j == k - Len(b)
      <4>1. j \in 1..n /\ Len(b) + j = k /\ sent + j = sent - Len(b) + k
        BY <1>5, <1>8, <1>9, <3>2
      <4> HIDE DEF j
      <4>2. request_buffer'[k] = d[j] /\ d[j] = w[sent + j][1]
        BY <1>6, <1>9, <4>1
      <4> QED
        BY <4>1, <4>2
    <3> QED
      BY <3>1, <3>2
  <2>3. \A k \in 1..Len(request_buffer') : request_buffer'[k] = w[sent + n - Len(request_buffer') + k][1]
    BY <1>12, <2>2
  <2>4. request_buffer' \in Seq(Symbol)
    BY <1>9
  <2> DEFINE t == sent + n
             v == request_buffer'
  <2>5. v \in Seq(Symbol) /\ Len(v) <= t /\ \A k \in 1..Len(v) : v[k] = w[t - Len(v) + k][1]
    <3>1. sent \in Nat /\ n \in Nat
      BY <1>5
    <3> QED
      BY <2>1, <2>3, <2>4, <3>1
  <2> HIDE DEF t, v
  <2>6. Holds(v, w, t)
    BY <2>5 DEF Holds
  <2> QED
    BY <2>6 DEF t, v
<1>14. Used' = Used
  BY <1>5, <1>12 DEF Used
<1>15. TypeOK'
  <2>1. sent' \in 0..Len(Wire(msg'))
    BY <1>5, <1>10 DEF w
  <2>2. Len(body') + Len(request_buffer') <= sent'
    <3>1. Len(body) \in Nat
      BY <1>1 DEF TypeOK
    <3>2. Len(body') = Len(body)
      BY <1>10
    <3> QED
      BY <1>2, <1>5, <1>8, <1>9, <3>1, <3>2
  <2> QED
    BY <1>1, <1>5, <1>9, <1>10, <2>1, <2>2 DEF TypeOK
<1>16. InPhase'
  BY <1>1, <1>5, <1>10 DEF InPhase
<1>17. \A k : BodyIs(k)' <=> BodyIs(k)
  BY <1>10 DEF BodyIs
<1>18. ByLength'
  <2> SUFFICES ASSUME msg.framing = "length"
               PROVE  /\ Used' = 1 + Len(body') /\ BodyIs(Len(body))'
                      /\ body' # <<>> => /\ content_length_value' = Total(msg'.sizes)
                                         /\ Total(msg'.sizes) <= ClientMaxBodySize
    BY <1>10 DEF ByLength
  <2>1. Used = 1 + Len(body) /\ BodyIs(Len(body)) /\ (body # <<>> => content_length_value = Total(msg.sizes))
    BY <1>1, <1>4 DEF ByLength
  <2>2. ~(content_length_value > ClientMaxBodySize)
    BY <1>4 DEF OverLimit, HasContentLength
  <2>3. content_length_value <= ClientMaxBodySize
    <3>1. content_length_value \in Nat /\ ClientMaxBodySize \in Nat
      BY <1>1, <1>2, MessageIs DEF TypeOK
    <3> QED
      BY <2>2, <3>1
  <2>4. BodyIs(Len(body))'
    BY <1>10, <2>1 DEF BodyIs
  <2> QED
    BY <1>10, <1>14, <2>1, <2>3, <2>4
<1>19. ByChunks'
  <2> SUFFICES ASSUME msg.framing = "chunked", ~cut'
               PROVE  /\ Apart(w, sent + n)
                      /\ \/ \E i \in 1..(Len(msg'.sizes) + 1) : BeforeLine(i)'
                         \/ \E i \in 1..Len(msg'.sizes) : InData(i)'
                         \/ PastLine'
    BY <1>5, <1>10, <1>11 DEF ByChunks
  <2>1. \/ \E i \in 1..(Len(msg.sizes) + 1) : BeforeLine(i)
        \/ \E i \in 1..Len(msg.sizes) : InData(i)
        \/ PastLine
    BY <1>1, <1>4, <1>5 DEF ByChunks
  <2>2. ASSUME NEW i \in 1..(Len(msg.sizes) + 1), BeforeLine(i) PROVE BeforeLine(i)'
    BY <1>10, <1>14, <1>17, <2>2 DEF BeforeLine
  <2>3. ASSUME NEW i \in 1..Len(msg.sizes), InData(i) PROVE InData(i)'
    BY <1>10, <1>14, <1>17, <2>3 DEF InData
  <2>4. ASSUME PastLine PROVE PastLine'
    <3>1. request_buffer' # <<>>
      BY <1>5, <1>8, <1>9
    <3> QED
      BY <1>10, <1>14, <1>17, <2>4, <3>1 DEF PastLine
  <2> QED
    BY <1>5, <1>10, <2>1, <2>2, <2>3, <2>4
<1> QED
  BY <1>5, <1>11, <1>13, <1>15, <1>16, <1>18, <1>19 DEF IInv

\* A step that only returns to the loop, or that ends the connection, changes
\* nothing else.
LEMMA KeptByReturn ==
  ASSUME IInv, UNCHANGED <<msg, sent, request_buffer, parser, cut, clean>>, state = "BODY",
         \/ pc' \in {"recv", "413"}
         \/ pc \in {"parse_request", "parse_body"} /\ pc' \in {"recv", "parse_request"}
  PROVE  IInv'
<1>1. TypeOK /\ InPhase /\ Holds(request_buffer, Wire(msg), sent) /\ ByLength /\ ByChunks
  BY DEF IInv
<1>2. /\ msg' = msg /\ sent' = sent /\ request_buffer' = request_buffer /\ body' = body /\ state' = state
      /\ reading_chunk_data' = reading_chunk_data /\ current_chunk_size' = current_chunk_size
      /\ current_chunk_read' = current_chunk_read /\ content_length_value' = content_length_value
      /\ cut' = cut /\ clean' = clean
  BY DEF parser, chunk
<1>3. TypeOK'
  BY <1>1, <1>2 DEF TypeOK
<1>4. InPhase'
  BY <1>1, <1>2 DEF InPhase
<1>5. Holds(request_buffer, Wire(msg), sent)'
  BY <1>1, <1>2 DEF Holds
<1>6. ByLength'
  BY <1>1, <1>2 DEF ByLength, BodyIs, Used
<1>7. ByChunks'
  <2>1. \A i : (BeforeLine(i)' <=> BeforeLine(i)) /\ (InData(i)' <=> InData(i))
    BY <1>2 DEF BeforeLine, InData, BodyIs, Used
  <2>2. PastLine' <=> PastLine
    BY <1>2 DEF PastLine, BodyIs, Used
  <2>3. BodyIs(Total(msg.sizes))' <=> BodyIs(Total(msg.sizes))
    BY <1>2 DEF BodyIs
  <2> QED
    BY <1>1, <1>2, <2>1, <2>2, <2>3 DEF ByChunks, Used, Apart
<1> QED
  BY <1>3, <1>4, <1>5, <1>6, <1>7 DEF IInv

\* What a step of the parser leaves alone, and what then still holds whatever
\* it does: it uses n more symbols of the buffer, and puts those that it adds
\* to the body there.
LEMMA TypeKept ==
  ASSUME IInv, state = "BODY",
         UNCHANGED <<msg, sent, cut, clean>>,
         Holds(request_buffer', Wire(msg), sent),
         body' \in Seq(Symbol), Len(body') + Len(request_buffer') <= sent,
         msg.framing = "length" => Len(body') <= Total(msg.sizes),
         state' \in {"BODY", "DONE", "ERROR_PARSE"},
         reading_chunk_data' \in BOOLEAN,
         current_chunk_size' \in Nat, current_chunk_read' \in 0..current_chunk_size',
         ~reading_chunk_data' => current_chunk_read' = 0,
         content_length_value' \in Nat,
         IF state' = "BODY" THEN pc' \in {"recv", "parse_request", "parse_body"} ELSE pc' = "answered"
  PROVE  TypeOK' /\ InPhase' /\ Holds(request_buffer, Wire(msg), sent)'
<1>1. TypeOK /\ InPhase
  BY DEF IInv
<1>2. request_buffer' \in Seq(Symbol)
  BY DEF Holds
<1>3. pc' \in {"recv", "parse_request", "parse_body", "answered"}
  OBVIOUS
<1>4. TypeOK'
  BY <1>1, <1>2, <1>3 DEF TypeOK
<1>5. InPhase'
  BY <1>1 DEF InPhase
<1>6. Holds(request_buffer, Wire(msg), sent)'
  BY DEF Holds
<1> QED
  BY <1>4, <1>5, <1>6

\* Content-Length: what is still missing is the body's next bytes.
LEMMA KeptByParseLength ==
  ASSUME IInv, ParseLength
  PROVE  IInv'
<1> DEFINE w == Wire(msg)
           b == request_buffer
           l == Len(b)
           c == Len(body)
           T == Total(msg.sizes)
           n == IF l < T - c THEN l ELSE T - c
           r == SubSeq(b, n + 1, l)
<1>1. TypeOK /\ InPhase /\ Holds(b, w, sent) /\ ByLength
  BY DEF IInv
<1>2. msg \in Messages /\ sent \in 0..Len(w) /\ body \in Seq(Symbol)
  BY <1>1 DEF TypeOK
<1>3. msg.framing = "length" /\ state = "BODY" /\ T > 0
      /\ pc \in {"parse_request", "parse_body"}
  BY <1>1 DEF ParseLength, Parsing, InPhase
<1>4. /\ body' = body \o SubSeq(b, 1, n) /\ request_buffer' = r
      /\ content_length_value' = T
      /\ state' = (IF Len(body') = T THEN "DONE" ELSE "BODY")
      /\ Return(state', request_buffer')
      /\ UNCHANGED <<msg, sent, chunk, cut, clean>>
  BY DEF ParseLength
<1>5. w \in Seq(Pair) /\ Len(w) \in Nat /\ Len(w) = 1 + T + Extra(msg) /\ \A k \in 1..T : w[1 + k] = <<Bytes[k], "data">>
  BY <1>2, <1>3, WireIs, LengthWireIs
<1>6. T \in Nat /\ T <= Len(Bytes) /\ Len(Bytes) \in Nat
  BY <1>2, MessageIs
<1>7. Used = 1 + c /\ BodyIs(c)
  BY <1>1, <1>3 DEF ByLength
<1>8. c <= T /\ c \in Nat /\ \A k \in 1..c : body[k] = Bytes[k]
  BY <1>2, <1>7 DEF BodyIs
<1>9. b \in Seq(Symbol) /\ l \in Nat /\ l <= sent /\ sent \in Nat /\ \A k \in 1..l : b[k] = w[sent - l + k][1]
  BY <1>1, <1>2, <1>5 DEF Holds
<1>10. sent - l = 1 + c
  BY <1>7 DEF Used
<1>11. n \in 0..l /\ n \in Nat /\ n <= T - c /\ (n = l \/ n = T - c)
  <2> HIDE DEF l, T, c
  <2> QED
    BY <1>6, <1>8, <1>9
<1>12. \A k \in 1..n : b[k] = Bytes[c + k]
  <2> HIDE DEF l, T, c, n, w
  <2> SUFFICES ASSUME NEW k \in 1..n PROVE b[k] = Bytes[c + k]
    OBVIOUS
  <2>1. k \in 1..l /\ c + k \in 1..T /\ sent - l + k = 1 + (c + k)
    BY <1>6, <1>8, <1>9, <1>10, <1>11
  <2>2. b[k] = w[1 + (c + k)][1] /\ w[1 + (c + k)] = <<Bytes[c + k], "data">>
    BY <1>5, <1>9, <2>1
  <2> QED
    BY <2>2
<1>13. body' \in Seq(Symbol) /\ Len(body') = c + n /\ \A k \in 1..(c + n) : body'[k] = Bytes[k]
  <2>1. n \in 0..Len(b) /\ \A k \in 1..n : b[k] = Bytes[Len(body) + k]
    BY <1>11, <1>12
  <2> HIDE DEF n
  <2> QED
    BY <1>2, <1>4, <1>8, <1>9, <2>1, Appended
<1>14. Holds(r, w, sent) /\ Len(r) = l - n /\ Len(r) \in Nat
  <2>1. n \in 0..Len(b) /\ Len(b) \in Nat
    BY <1>9, <1>11
  <2>2. sent \in Nat /\ Holds(b, w, sent)
    BY <1>1, <1>9
  <2> HIDE DEF n
  <2> QED
    BY <2>1, <2>2, Dropped
<1> HIDE DEF n, r, l, c, T, w
<1>15. sent - Len(r) = 1 + (c + n) /\ c + n <= T /\ (c + n) + Len(r) <= sent /\ c + n \in Nat /\ Len(r) \in Nat
  BY <1>6, <1>8, <1>9, <1>10, <1>11, <1>14
<1>16. msg' = msg /\ sent' = sent /\ cut' = cut /\ clean' = clean
       /\ reading_chunk_data' = reading_chunk_data /\ current_chunk_size' = current_chunk_size
       /\ current_chunk_read' = current_chunk_read
  BY <1>4 DEF chunk
<1>17. state' \in {"BODY", "DONE"} /\ (state' = "DONE" <=> c + n = T)
  BY <1>4, <1>13
<1>18. ASSUME state' = "BODY" PROVE r = <<>> /\ pc' = "recv"
  <2>1. Len(r) = 0
    BY <1>6, <1>8, <1>9, <1>11, <1>14, <1>17, <1>18
  <2>2. r = <<>>
    BY <1>14, <2>1 DEF Holds
  <2> QED
    BY <1>4, <1>18, <2>2 DEF Return
<1>19. state' = "DONE" => pc' = "answered"
  BY <1>4 DEF Return
<1>20. TypeOK' /\ InPhase' /\ Holds(request_buffer, Wire(msg), sent)'
  <2>1. /\ Holds(request_buffer', Wire(msg), sent)
        /\ Len(body') + Len(request_buffer') <= sent
        /\ msg.framing = "length" => Len(body') <= Total(msg.sizes)
    BY <1>4, <1>13, <1>14, <1>15 DEF w, T
  <2>2. /\ reading_chunk_data' \in BOOLEAN
        /\ current_chunk_size' \in Nat /\ current_chunk_read' \in 0..current_chunk_size'
    BY <1>1, <1>16 DEF TypeOK
  <2>3. IF state' = "BODY" THEN pc' \in {"recv", "parse_request", "parse_body"} ELSE pc' = "answered"
    BY <1>17, <1>18, <1>19
  <2>4. ~reading_chunk_data' => current_chunk_read' = 0
    BY <1>1, <1>16 DEF InPhase
  <2> QED
    BY <1>3, <1>4, <1>6, <1>13, <1>16, <1>17, <2>1, <2>2, <2>3, <2>4, TypeKept
<1>21. ByLength'
  <2>1. Used' = 1 + Len(body')
    BY <1>4, <1>13, <1>15, <1>16 DEF Used
  <2>2. BodyIs(Len(body))'
    <3>1. Len(body') <= T /\ \A k \in 1..Len(body') : body'[k] = Bytes[k]
      BY <1>13, <1>15
    <3> QED
      BY <1>16, <3>1 DEF BodyIs, T
  <2>3. state' = "DONE" => Len(body') = Total(msg'.sizes)
    BY <1>13, <1>16, <1>17 DEF T
  <2>4. content_length_value' = Total(msg'.sizes)
    BY <1>4, <1>16 DEF T
  <2>5. state' = "BODY" => pc' \notin {"parse_request", "parse_body"}
    BY <1>18
  <2>6. state' # "ERROR_PARSE"
    BY <1>17
  <2> QED
    BY <2>1, <2>2, <2>3, <2>4, <2>5, <2>6 DEF ByLength
<1>22. ByChunks'
  BY <1>3, <1>16 DEF ByChunks
<1> QED
  BY <1>20, <1>21, <1>22 DEF IInv

\* Content-Length: 0 is wrong at once.
LEMMA KeptByParseZeroLength ==
  ASSUME IInv, ParseZeroLength
  PROVE  IInv'
<1>1. TypeOK /\ InPhase /\ Holds(request_buffer, Wire(msg), sent) /\ ByLength
  BY DEF IInv
<1>2. /\ msg.framing = "length" /\ Total(msg.sizes) = 0 /\ state = "BODY"
  BY <1>1 DEF ParseZeroLength, Parsing, InPhase
<1>3. /\ state' = "ERROR_PARSE" /\ Return(state', request_buffer)
      /\ msg' = msg /\ sent' = sent /\ request_buffer' = request_buffer /\ body' = body
      /\ reading_chunk_data' = reading_chunk_data /\ current_chunk_size' = current_chunk_size
      /\ current_chunk_read' = current_chunk_read /\ content_length_value' = content_length_value
      /\ cut' = cut /\ clean' = clean
  BY DEF ParseZeroLength, chunk
<1>4. pc' = "answered"
  BY <1>3 DEF Return
<1>5. msg.sizes = <<>>
  <2>1. msg \in Messages
    BY <1>1 DEF TypeOK
  <2>2. msg.sizes \in Seq(1..3)
    BY <2>1, MessageIs
  <2> QED
    BY <1>2, <2>2, SumsGrow
<1>6. TypeOK' /\ InPhase' /\ Holds(request_buffer, Wire(msg), sent)'
  <2>1. /\ body' \in Seq(Symbol) /\ Len(body') + Len(request_buffer') <= sent
        /\ msg.framing = "length" => Len(body') <= Total(msg.sizes)
    BY <1>1, <1>3 DEF TypeOK
  <2>2. /\ reading_chunk_data' \in BOOLEAN /\ content_length_value' \in Nat
        /\ current_chunk_size' \in Nat /\ current_chunk_read' \in 0..current_chunk_size'
        /\ ~reading_chunk_data' => current_chunk_read' = 0
    BY <1>1, <1>3 DEF TypeOK, InPhase
  <2>3. Holds(request_buffer', Wire(msg), sent)
    BY <1>1, <1>3
  <2>4. IF state' = "BODY" THEN pc' \in {"recv", "parse_request", "parse_body"} ELSE pc' = "answered"
    BY <1>3, <1>4
  <2> QED
    BY <1>2, <1>3, <2>1, <2>2, <2>3, <2>4, TypeKept
<1>7. ByLength'
  <2>1. Used = 1 + Len(body) /\ BodyIs(Len(body))
    BY <1>1, <1>2 DEF ByLength
  <2>2. Used' = 1 + Len(body') /\ BodyIs(Len(body))'
    BY <1>3, <2>1 DEF Used, BodyIs
  <2> QED
    BY <1>3, <1>5, <2>2 DEF ByLength
<1>8. ByChunks'
  BY <1>2, <1>3 DEF ByChunks
<1> QED
  BY <1>6, <1>7, <1>8 DEF IInv

\* A chunk's data is the body's next bytes, and CRLF follows it.
LEMMA KeptByParseChunkData ==
  ASSUME IInv, ParseChunkData
  PROVE  IInv'
<1> DEFINE w == Wire(msg)
           b == request_buffer
           l == Len(b)
           c == Len(body)
           size == current_chunk_size
           read == current_chunk_read
           n == IF l < size - read THEN l ELSE size - read
           rest == SubSeq(b, n + 1, l)
           N == Len(msg.sizes)
           complete == n = size - read
           Wait == /\ ~complete \/ Len(rest) < 2
                   /\ request_buffer' = rest /\ current_chunk_read' = read + n
                   /\ Return("BODY", rest)
                   /\ UNCHANGED <<state, reading_chunk_data, current_chunk_size>>
           Wrong == /\ complete /\ Len(rest) >= 2 /\ SubSeq(rest, 1, 2) # CRLF
                    /\ request_buffer' = rest /\ current_chunk_read' = read + n
                    /\ state' = "ERROR_PARSE" /\ Return(state', rest)
                    /\ UNCHANGED <<reading_chunk_data, current_chunk_size>>
           Whole == /\ complete /\ Len(rest) >= 2 /\ SubSeq(rest, 1, 2) = CRLF
                    /\ request_buffer' = SubSeq(rest, 3, Len(rest))
                    /\ current_chunk_read' = 0 /\ current_chunk_size' = 0 /\ reading_chunk_data' = FALSE
                    /\ UNCHANGED <<state, pc>>
<1>1. TypeOK /\ InPhase /\ Holds(b, w, sent) /\ ByChunks
  BY DEF IInv
<1>2. /\ msg \in Messages /\ sent \in 0..Len(w) /\ body \in Seq(Symbol) /\ c + l <= sent
      /\ size \in Nat /\ read \in 0..size
  BY <1>1 DEF TypeOK
<1>3. /\ msg.framing = "chunked" /\ state = "BODY" /\ reading_chunk_data
      /\ pc \in {"parse_request", "parse_body"}
  BY <1>1 DEF ParseChunkData, Parsing, InPhase
<1>4. /\ body' = body \o SubSeq(b, 1, n) /\ msg' = msg /\ sent' = sent /\ cut' = cut /\ clean' = clean
      /\ content_length_value' = content_length_value
  BY DEF ParseChunkData
<1>5. Wait \/ Wrong \/ Whole
  BY DEF ParseChunkData
<1>6. b \in Seq(Symbol) /\ l \in Nat /\ l <= sent /\ sent \in Nat /\ Len(w) \in Nat /\ c \in Nat
  <2>1. Len(w) \in Nat
    BY <1>2, WireIs
  <2> QED
    BY <1>1, <1>2, <2>1 DEF Holds
<1>7. /\ n \in 0..l /\ n \in Nat /\ n <= size - read /\ (n = l \/ n = size - read)
      /\ size \in Nat /\ read \in Nat /\ read + n <= size
  <2> HIDE DEF l
  <2> QED
    BY <1>2, <1>6
<1>8. body' \in Seq(Symbol) /\ Len(body') = c + n
  <2> DEFINE u == SubSeq(b, 1, n)
  <2>1. u \in Seq(Symbol) /\ Len(u) = n
    <3>1. n \in 0..Len(b)
      BY <1>7
    <3> HIDE DEF n
    <3> QED
      BY <1>6, <3>1, Taken
  <2> HIDE DEF u
  <2>2. body \in Seq(Symbol) /\ u \in Seq(Symbol)
    BY <1>2, <2>1
  <2>3. body \o u \in Seq(Symbol) /\ Len(body \o u) = Len(body) + Len(u)
    BY <2>2, Joined
  <2> QED
    BY <1>4, <2>1, <2>3 DEF u
<1>9. Holds(rest, w, sent) /\ Len(rest) = l - n /\ Len(rest) \in Nat /\ rest \in Seq(Symbol)
  <2>1. n \in 0..Len(b) /\ Len(b) \in Nat
    BY <1>6, <1>7
  <2>2. sent \in Nat /\ Holds(b, w, sent)
    BY <1>1, <1>6
  <2> HIDE DEF n
  <2>3. Holds(rest, w, sent) /\ Len(rest) = l - n /\ Len(rest) \in Nat
    BY <2>1, <2>2, Dropped
  <2> QED
    BY <2>3 DEF Holds
<1>10. (c + n) + Len(rest) <= sent
  <2> HIDE DEF l, c, n, rest
  <2> QED
    BY <1>2, <1>6, <1>7, <1>9
<1>11. ASSUME NEW i \in 1..N, ~cut, InData(i)
       PROVE  LET z == msg.sizes[i]
                  d == Len(Digits(z))
                  p == Start(msg, i)
                  before == Sums(msg.sizes)[i - 1] IN
              /\ size = z /\ sent - l = p + d + 2 + read
              /\ z \in 1..3 /\ d \in {1, 2} /\ p \in Nat /\ before \in Nat
              /\ c = before + read /\ before + z <= Total(msg.sizes)
              /\ before + z = Sums(msg.sizes)[i]
              /\ \A k \in 1..(c + n) : body'[k] = Bytes[k]
              /\ complete /\ Len(rest) >= 2 => SubSeq(rest, 1, 2) = CRLF
              /\ p + d + 2 + z + 2 = Start(msg, i + 1)
  <2> DEFINE z == msg.sizes[i]
             d == Len(Digits(z))
             p == Start(msg, i)
             before == Sums(msg.sizes)[i - 1]
             T == Total(msg.sizes)
  <2>1. size = z /\ sent - l = p + d + 2 + read /\ c = before + read /\ \A k \in 1..c : body[k] = Bytes[k]
    BY <1>11 DEF InData, BodyIs, Used
  <2>2. z \in 1..3 /\ before \in Nat /\ Sums(msg.sizes)[i] = before + z /\ Sums(msg.sizes)[i] <= T
    BY <1>2, SizeIs
  <2>3. d \in {1, 2} /\ p \in Nat
    <3>1. z \in 0..3
      BY <2>2
    <3>2. i \in 1..(N + 1)
      <4>1. N \in Nat
        BY <1>2, MessageIs
      <4> QED
        BY <4>1
    <3>3. d \in {1, 2}
      BY <3>1, DigitsAre
    <3>4. p \in Nat
      BY <1>2, <1>3, <3>2, LineIs
    <3> QED
      BY <3>3, <3>4
  <2>4. read \in 0..z
    BY <1>2, <2>1
  <2>5. /\ \A k \in 1..(z - read) : k <= l => b[k] = Bytes[before + read + k]
        /\ l >= z - read + 2 => b[z - read + 1] = "CR" /\ b[z - read + 2] = "LF"
        /\ p + d + 2 + z + 2 = Start(msg, i + 1)
    BY <1>1, <1>2, <1>3, <2>1, <2>4, DataHere
  <2> HIDE DEF z, d, p, before, T, l, c
  <2>6. \A k \in 1..n : b[k] = Bytes[c + k]
    <3> HIDE DEF n
    <3> SUFFICES ASSUME NEW k \in 1..n PROVE b[k] = Bytes[c + k]
      OBVIOUS
    <3>1. k \in 1..(z - read) /\ k <= l
      BY <1>6, <1>7, <2>1, <2>2
    <3>2. b[k] = Bytes[before + read + k]
      BY <2>5, <3>1
    <3> QED
      BY <2>1, <3>2
  <2>7. \A k \in 1..(c + n) : body'[k] = Bytes[k]
    <3>1. /\ n \in 0..Len(b) /\ \A k \in 1..n : b[k] = Bytes[Len(body) + k]
          /\ \A k \in 1..Len(body) : body[k] = Bytes[k]
      BY <1>7, <2>1, <2>6 DEF l, c
    <3> HIDE DEF n
    <3>2. \A k \in 1..(Len(body) + n) : body'[k] = Bytes[k]
      BY <1>2, <1>4, <1>6, <3>1, Appended
    <3> QED
      BY <3>2 DEF c
  <2>8. ASSUME complete, Len(rest) >= 2 PROVE SubSeq(rest, 1, 2) = CRLF
    <3>1. n = z - read /\ l >= z - read + 2
      <4>1. n = size - read /\ Len(rest) >= 2
        BY <2>8
      <4> HIDE DEF n, rest
      <4> QED
        BY <1>6, <1>7, <1>9, <2>1, <2>2, <4>1
    <3>2. b[n + 1] = "CR" /\ b[n + 2] = "LF"
      BY <2>5, <3>1
    <3>3. rest[1] = b[n + 1] /\ rest[2] = b[n + 2]
      <4>1. n \in 0..Len(b)
        BY <1>7 DEF l
      <4>2. \A k \in 1..(l - n) : rest[k] = b[n + k]
        <5> HIDE DEF n
        <5> QED
          BY <1>6, <4>1, Taken DEF l
      <4>3. 1 \in 1..(l - n) /\ 2 \in 1..(l - n)
        <5> HIDE DEF n
        <5> QED
          BY <1>6, <1>7, <2>2, <3>1
      <4> HIDE DEF n, rest
      <4> QED
        BY <4>2, <4>3
    <3>4. rest[1] = "CR" /\ rest[2] = "LF"
      BY <3>2, <3>3
    <3> HIDE DEF rest
    <3> QED
      BY <1>9, <2>8, <3>4, StartsWithCRLF
  <2>9. before + z = Sums(msg.sizes)[i] /\ before + z <= T
    BY <2>2
  <2> QED
    BY <2>1, <2>2, <2>3, <2>5, <2>7, <2>8, <2>9 DEF z, d, p, before, T
<1>12. ASSUME ~cut PROVE \E i \in 1..N : InData(i)
  BY <1>1, <1>3, <1>12 DEF ByChunks, BeforeLine, PastLine
<1>13. ASSUME ~cut PROVE Apart(w, sent)
  BY <1>1, <1>3, <1>13 DEF ByChunks
<1>14. Wire(msg)' = w /\ Wire(msg') = w
  BY <1>4
<1>15. ByLength'
  BY <1>3, <1>4 DEF ByLength
<1> HIDE DEF w, l, c, n, rest, N, complete
<1>16. content_length_value' \in Nat
  BY <1>1, <1>4 DEF TypeOK
<1>17. CASE Wait
  <2>1. TypeOK' /\ InPhase' /\ Holds(request_buffer, Wire(msg), sent)'
    <3>1. Holds(request_buffer', Wire(msg), sent) /\ Len(body') + Len(request_buffer') <= sent
      BY <1>8, <1>9, <1>10, <1>17 DEF w
    <3>2. reading_chunk_data' \in BOOLEAN /\ current_chunk_size' \in Nat /\ current_chunk_read' \in 0..current_chunk_size'
      BY <1>1, <1>2, <1>7, <1>17 DEF TypeOK
    <3>3. state' = "BODY" /\ pc' \in {"recv", "parse_request", "parse_body"}
      BY <1>3, <1>17 DEF Return
    <3>4. reading_chunk_data'
      BY <1>3, <1>17
    <3> QED
      BY <1>3, <1>4, <1>8, <1>16, <3>1, <3>2, <3>3, <3>4, TypeKept
  <2>2. ByChunks'
    <3> SUFFICES ASSUME ~cut PROVE \E i \in 1..Len(msg'.sizes) : InData(i)'
      BY <1>3, <1>4, <1>13, <1>14, <1>17 DEF ByChunks
    <3>1. PICK i \in 1..N : InData(i)
      BY <1>12
    <3> DEFINE z == msg.sizes[i]
               d == Len(Digits(z))
               p == Start(msg, i)
               before == Sums(msg.sizes)[i - 1]
               T == Total(msg.sizes)
    <3>2. /\ size = z /\ sent - l = p + d + 2 + read
          /\ z \in 1..3 /\ d \in {1, 2} /\ p \in Nat /\ before \in Nat
          /\ c = before + read /\ before + z <= T
          /\ \A k \in 1..(c + n) : body'[k] = Bytes[k]
      BY <1>11, <3>1
    <3>3. T \in Nat
      BY <1>2, MessageIs
    <3> HIDE DEF z, d, p, before, T
    <3>4. Used' = p + d + 2 + (read + n)
      <4>1. Used' = sent - Len(rest)
        BY <1>4, <1>17 DEF Used
      <4>2. size = z /\ sent - l = p + d + 2 + read /\ z \in 1..3 /\ d \in {1, 2} /\ p \in Nat
        BY <3>2
      <4> QED
        BY <1>6, <1>7, <1>9, <4>1, <4>2
    <3>5. c + n = before + (read + n) /\ c + n <= T
      <4>1. size = z /\ z \in 1..3 /\ before \in Nat /\ c = before + read /\ before + z <= T
        BY <3>2
      <4> QED
        BY <1>6, <1>7, <3>3, <4>1
    <3>6. Len(body') = before + (read + n) /\ before + (read + n) <= T
          /\ \A k \in 1..(before + (read + n)) : body'[k] = Bytes[k]
      BY <1>8, <3>2, <3>5
    <3>7. /\ current_chunk_read' = read + n /\ current_chunk_size' = size /\ reading_chunk_data'
      BY <1>3, <1>17
    <3>8. /\ msg'.sizes[i] = z /\ Start(msg', i) = p /\ Sums(msg'.sizes)[i - 1] = before
      BY <1>4 DEF z, p, before
    <3>9. InData(i)'
      <4>1. BodyIs(Sums(msg.sizes)[i - 1] + current_chunk_read)'
        <5>1. Sums(msg'.sizes)[i - 1] + current_chunk_read' = before + (read + n) /\ Total(msg'.sizes) = T
          BY <1>4, <3>7 DEF before, T
        <5> QED
          BY <3>6, <5>1 DEF BodyIs
      <4>2. current_chunk_size' = msg'.sizes[i]
        BY <3>2, <3>7, <3>8
      <4>3. Used' = Start(msg', i) + Len(Digits(msg'.sizes[i])) + 2 + current_chunk_read'
        BY <3>4, <3>7, <3>8 DEF d
      <4> QED
        BY <3>7, <4>1, <4>2, <4>3 DEF InData
    <3>10. i \in 1..Len(msg'.sizes)
      BY <1>4 DEF N
    <3> QED
      BY <3>9, <3>10
  <2> QED
    BY <1>15, <2>1, <2>2 DEF IInv
<1>18. CASE Wrong
  <2>1. TypeOK' /\ InPhase' /\ Holds(request_buffer, Wire(msg), sent)'
    <3>1. Holds(request_buffer', Wire(msg), sent) /\ Len(body') + Len(request_buffer') <= sent
      BY <1>8, <1>9, <1>10, <1>18 DEF w
    <3>2. reading_chunk_data' \in BOOLEAN /\ current_chunk_size' \in Nat /\ current_chunk_read' \in 0..current_chunk_size'
      BY <1>1, <1>2, <1>7, <1>18 DEF TypeOK
    <3>3. state' = "ERROR_PARSE" /\ pc' = "answered"
      BY <1>18 DEF Return
    <3>4. reading_chunk_data'
      BY <1>3, <1>18
    <3> QED
      BY <1>3, <1>4, <1>8, <1>16, <3>1, <3>2, <3>3, <3>4, TypeKept
  <2>2. cut
    <3> SUFFICES ASSUME ~cut PROVE FALSE
      BY <1>1 DEF TypeOK
    <3>1. PICK i \in 1..N : InData(i)
      BY <1>12
    <3>2. complete /\ Len(rest) >= 2 => SubSeq(rest, 1, 2) = CRLF
      BY <1>11, <3>1
    <3> QED
      BY <1>18, <3>2
  <2>3. ByChunks'
    BY <1>4, <2>2 DEF ByChunks
  <2> QED
    BY <1>15, <2>1, <2>3 DEF IInv
<1>19. CASE Whole
  <2> DEFINE left == SubSeq(rest, 3, Len(rest))
  <2>1. Holds(left, w, sent) /\ Len(left) = Len(rest) - 2 /\ Len(left) \in Nat
    <3>1. 2 \in 0..Len(rest) /\ 2 + 1 = 3 /\ sent \in Nat /\ Holds(rest, w, sent)
      BY <1>6, <1>9, <1>19
    <3>2. Holds(SubSeq(rest, 2 + 1, Len(rest)), w, sent) /\ Len(SubSeq(rest, 2 + 1, Len(rest))) = Len(rest) - 2
          /\ Len(SubSeq(rest, 2 + 1, Len(rest))) \in Nat
      BY <3>1, Dropped
    <3> QED
      BY <3>1, <3>2
  <2> HIDE DEF left
  <2>2. request_buffer' = left
    BY <1>19 DEF left
  <2>3. TypeOK' /\ InPhase' /\ Holds(request_buffer, Wire(msg), sent)'
    <3>1. Len(body') + Len(left) <= sent
      BY <1>6, <1>7, <1>8, <1>9, <1>10, <2>1
    <3>2. Holds(request_buffer', Wire(msg), sent) /\ Len(body') + Len(request_buffer') <= sent
      BY <2>1, <2>2, <3>1 DEF w
    <3>3. reading_chunk_data' \in BOOLEAN /\ current_chunk_size' \in Nat /\ current_chunk_read' \in 0..current_chunk_size'
      <4>1. reading_chunk_data' \in BOOLEAN
        BY <1>19
      <4>2. current_chunk_size' = 0 /\ current_chunk_read' = 0
        BY <1>19
      <4>3. current_chunk_size' \in Nat /\ current_chunk_read' \in 0..current_chunk_size'
        BY <4>2
      <4> QED
        BY <4>1, <4>3
    <3>4. state' = "BODY" /\ pc' \in {"recv", "parse_request", "parse_body"}
      BY <1>3, <1>19
    <3>5. current_chunk_read' = 0
      BY <1>19
    <3> QED
      BY <1>3, <1>4, <1>8, <1>16, <3>2, <3>3, <3>4, <3>5, TypeKept
  <2>4. ByChunks'
    <3> SUFFICES ASSUME ~cut PROVE \E i \in 1..(Len(msg'.sizes) + 1) : BeforeLine(i)'
      BY <1>3, <1>4, <1>13, <1>14, <1>19 DEF ByChunks
    <3>1. PICK i \in 1..N : InData(i)
      BY <1>12
    <3> DEFINE z == msg.sizes[i]
               d == Len(Digits(z))
               p == Start(msg, i)
               q == Start(msg, i + 1)
               before == Sums(msg.sizes)[i - 1]
               sum == Sums(msg.sizes)[i]
               T == Total(msg.sizes)
    <3>2. /\ size = z /\ sent - l = p + d + 2 + read
          /\ z \in 1..3 /\ d \in {1, 2} /\ p \in Nat /\ before \in Nat
          /\ c = before + read /\ before + z <= T /\ before + z = sum
          /\ p + d + 2 + z + 2 = q
      BY <1>11, <3>1
    <3>3. \A k \in 1..(c + n) : body'[k] = Bytes[k]
      BY <1>11, <3>1
    <3>4. n = size - read
      BY <1>19 DEF complete
    <3> HIDE DEF z, d, p, q, before, sum, T
    <3>5. Used' = q
      <4>1. Used' = sent - Len(left)
        BY <1>4, <2>2 DEF Used
      <4> QED
        BY <1>6, <1>7, <1>9, <2>1, <3>2, <3>4, <4>1
    <3>6. c + n = sum /\ sum <= T
      BY <1>6, <1>7, <3>2, <3>4
    <3>7. Len(body') = sum /\ sum <= T /\ \A k \in 1..sum : body'[k] = Bytes[k]
      BY <1>8, <3>3, <3>6
    <3>8. i + 1 \in 1..(Len(msg'.sizes) + 1) /\ i + 1 - 1 = i
      <4>1. N \in Nat
        BY <1>2, MessageIs DEF N
      <4>2. i + 1 \in 1..(N + 1) /\ i + 1 - 1 = i
        BY <4>1
      <4> QED
        BY <1>4, <4>2 DEF N
    <3>9. BeforeLine(i + 1)'
      <4>1. BodyIs(Sums(msg.sizes)[i + 1 - 1])'
        <5>1. Sums(msg'.sizes)[i + 1 - 1] = sum /\ Total(msg'.sizes) = T
          BY <1>4, <3>8 DEF sum, T
        <5> QED
          BY <3>7, <5>1 DEF BodyIs
      <4>2. Used' = Start(msg', i + 1)
        BY <1>4, <3>5 DEF q
      <4>3. ~reading_chunk_data'
        BY <1>19
      <4> QED
        BY <4>1, <4>2, <4>3 DEF BeforeLine
    <3> QED
      BY <3>8, <3>9
  <2> QED
    BY <1>15, <2>3, <2>4 DEF IInv
<1> QED
  BY <1>5, <1>17, <1>18, <1>19

\* With nothing in the buffer the parser returns.
LEMMA KeptByParseNothing ==
  ASSUME IInv, ParseNothing
  PROVE  IInv'
<1>1. state = "BODY"
  BY DEF ParseNothing, Parsing, IInv, InPhase
<1>2. UNCHANGED <<msg, sent, request_buffer, parser, cut, clean>> /\ pc' = "recv"
  BY DEF ParseNothing, Return
<1> QED
  BY <1>1, <1>2, KeptByReturn

\* A size line is read whole, and starts a chunk or ends the body; past the
\* last one, no line starts or ends anything.
LEMMA KeptByParseChunkSize ==
  ASSUME IInv, ParseChunkSize
  PROVE  IInv'
<1> DEFINE w == Wire(msg)
           b == request_buffer
           l == Len(b)
           e == LineEnd(b)
           size == Trim(SubSeq(b, 1, e))
           rest == SubSeq(b, e + 1, l)
           valid == \A i \in DOMAIN size : size[i] \in Digit
           N == Len(msg.sizes)
           S == Start(msg, N + 1)
           Incomplete == e = l /\ Return("BODY", b) /\ UNCHANGED <<request_buffer, state, chunk>>
           Wrong == /\ e # l /\ ~valid /\ state' = "ERROR_PARSE"
                    /\ Return(state', b) /\ UNCHANGED <<request_buffer, chunk>>
           Begun == /\ e # l /\ valid /\ Number(size) # 0
                    /\ request_buffer' = rest /\ current_chunk_size' = Number(size)
                    /\ current_chunk_read' = 0 /\ reading_chunk_data' = TRUE
                    /\ UNCHANGED <<state, pc>>
           Ended == /\ e # l /\ valid /\ Number(size) = 0
                    /\ current_chunk_size' = 0
                    /\ state' = IF Len(rest) < 2 THEN "BODY"
                                ELSE IF SubSeq(rest, 1, 2) = CRLF THEN "DONE" ELSE "ERROR_PARSE"
                    /\ request_buffer' = IF state' = "DONE" THEN SubSeq(rest, 3, Len(rest)) ELSE rest
                    /\ Return(state', request_buffer')
                    /\ UNCHANGED <<reading_chunk_data, current_chunk_read>>
<1>1. TypeOK /\ InPhase /\ Holds(b, w, sent) /\ ByChunks
  BY DEF IInv
<1>2. /\ msg \in Messages /\ sent \in 0..Len(w) /\ body \in Seq(Symbol) /\ Len(body) + l <= sent
      /\ current_chunk_size \in Nat /\ current_chunk_read \in 0..current_chunk_size
      /\ content_length_value \in Nat /\ reading_chunk_data \in BOOLEAN /\ cut \in BOOLEAN
  BY <1>1 DEF TypeOK
<1>3. /\ msg.framing = "chunked" /\ state = "BODY" /\ ~reading_chunk_data /\ b # <<>>
      /\ pc \in {"parse_request", "parse_body"}
  BY <1>1 DEF ParseChunkSize, Parsing, InPhase
<1>4. /\ msg' = msg /\ sent' = sent /\ cut' = cut /\ clean' = clean /\ body' = body
      /\ content_length_value' = content_length_value
  BY DEF ParseChunkSize
<1>5. Incomplete \/ Wrong \/ Begun \/ Ended
  BY DEF ParseChunkSize
<1>6. b \in Seq(Symbol) /\ l \in Nat /\ l >= 1 /\ l <= sent /\ sent \in Nat /\ Len(w) \in Nat /\ Len(body) \in Nat
  <2>1. Len(w) \in Nat /\ b \in Seq(Symbol) /\ l <= sent
    BY <1>1, <1>2, WireIs DEF Holds
  <2>2. l \in Nat /\ l # 0
    BY <1>3, <2>1
  <2> HIDE DEF l
  <2> QED
    BY <1>2, <2>1, <2>2
<1>7. e \in 0..l
  BY <1>6, LineEndIs
<1>8. size \in Seq(Symbol)
  <2>1. SubSeq(b, 1, e) \in Seq(Symbol)
    <3>1. e \in 0..Len(b)
      BY <1>7
    <3> HIDE DEF e
    <3> QED
      BY <1>6, <3>1, Taken
  <2> QED
    BY <2>1, TrimIs
<1>9. Number(size) \in Nat
  BY <1>8, NumberIs
<1>10. Holds(rest, w, sent) /\ Len(rest) = l - e /\ Len(rest) \in Nat /\ rest \in Seq(Symbol)
       /\ \A k \in 1..(l - e) : rest[k] = b[e + k]
  <2>1. e \in 0..Len(b) /\ sent \in Nat /\ Holds(b, w, sent) /\ Len(b) \in Nat
    BY <1>1, <1>6, <1>7
  <2> HIDE DEF e
  <2>2. Holds(rest, w, sent) /\ Len(rest) = l - e /\ Len(rest) \in Nat
    BY <2>1, Dropped
  <2>3. \A k \in 1..(l - e) : rest[k] = b[e + k]
    BY <1>6, <2>1, Taken
  <2> QED
    BY <2>2, <2>3 DEF Holds
<1>11. ASSUME ~cut PROVE Apart(w, sent) /\ (PastLine \/ \E i \in 1..(N + 1) : BeforeLine(i))
  BY <1>1, <1>3, <1>11 DEF ByChunks, InData
<1>12. ASSUME NEW i \in 1..(N + 1), ~cut, BeforeLine(i)
       PROVE  LET d == Len(Digits(SizeAt(msg, i))) IN
              d + 2 \in 1..l /\ e = d + 2 /\ valid /\ Number(size) = SizeAt(msg, i)
  <2>1. Apart(w, sent) /\ sent - l = Start(msg, i)
    BY <1>11, <1>12 DEF BeforeLine, Used
  <2> QED
    BY <1>1, <1>2, <1>3, <2>1, LineHere
<1>13. ASSUME PastLine
       PROVE  /\ \/ l = 1 /\ e = 0
                 \/ l = 2 /\ e = 2
                 \/ l = 3 /\ e = 2 /\ sent - l = S + 3
              /\ valid /\ Number(size) = 0
  <2>1. sent - l \in {S + 3, S + 5}
    BY <1>13 DEF PastLine, Used
  <2> QED
    BY <1>1, <1>2, <1>3, <2>1, PastHere
<1>14. Wire(msg)' = w /\ Wire(msg') = w
  BY <1>4
<1>15. ByLength'
  BY <1>3, <1>4 DEF ByLength
<1>16. /\ body' \in Seq(Symbol) /\ content_length_value' \in Nat
       /\ msg.framing = "length" => Len(body') <= Total(msg.sizes)
  BY <1>2, <1>3, <1>4
<1>17. N \in Nat /\ S \in Nat /\ N + 1 \in 1..(N + 1)
  <2>1. N \in Nat
    BY <1>2, MessageIs
  <2>2. N + 1 \in 1..(N + 1)
    BY <2>1
  <2> QED
    BY <1>2, <1>3, <2>1, <2>2, LineIs
<1> HIDE DEF w, l, e, size, rest, valid, N, S
<1>18. CASE Incomplete
  <2>1. UNCHANGED <<msg, sent, request_buffer, parser, cut, clean>>
    BY <1>4, <1>18 DEF parser
  <2>2. pc' \in {"recv", "parse_request"}
    BY <1>18 DEF Return
  <2> QED
    BY <1>3, <2>1, <2>2, KeptByReturn
<1>19. CASE Wrong
  <2>1. cut
    <3> SUFFICES ASSUME ~cut PROVE FALSE
      BY <1>2
    <3>1. CASE PastLine
      BY <1>13, <1>19, <3>1
    <3>2. ASSUME NEW i \in 1..(N + 1), BeforeLine(i) PROVE FALSE
      BY <1>12, <1>19, <3>2
    <3> QED
      BY <1>11, <3>1, <3>2
  <2>2. TypeOK' /\ InPhase' /\ Holds(request_buffer, Wire(msg), sent)'
    <3>1. Holds(request_buffer', Wire(msg), sent) /\ Len(body') + Len(request_buffer') <= sent
      BY <1>1, <1>2, <1>4, <1>19 DEF w, l
    <3>2. reading_chunk_data' \in BOOLEAN /\ current_chunk_size' \in Nat /\ current_chunk_read' \in 0..current_chunk_size'
      BY <1>2, <1>19 DEF chunk
    <3>3. state' = "ERROR_PARSE" /\ pc' = "answered"
      BY <1>19 DEF Return
    <3>4. current_chunk_read' = 0
      BY <1>1, <1>3, <1>19 DEF chunk, InPhase
    <3> QED
      BY <1>3, <1>4, <1>16, <3>1, <3>2, <3>3, <3>4, TypeKept
  <2>3. ByChunks'
    BY <1>4, <2>1 DEF ByChunks
  <2> QED
    BY <1>15, <2>2, <2>3 DEF IInv
<1>20. CASE Begun
  <2>1. TypeOK' /\ InPhase' /\ Holds(request_buffer, Wire(msg), sent)'
    <3>1. Len(body') + Len(request_buffer') <= sent
      <4>1. Len(body) + Len(rest) <= sent
        BY <1>2, <1>6, <1>7, <1>10
      <4> QED
        BY <1>4, <1>20, <4>1
    <3>2. Holds(request_buffer', Wire(msg), sent)
      BY <1>10, <1>20 DEF w
    <3>3. reading_chunk_data' \in BOOLEAN /\ current_chunk_size' \in Nat /\ current_chunk_read' \in 0..current_chunk_size'
      <4>1. reading_chunk_data' \in BOOLEAN
        BY <1>20
      <4>2. current_chunk_size' \in Nat /\ current_chunk_read' = 0
        BY <1>9, <1>20
      <4>3. current_chunk_read' \in 0..current_chunk_size'
        BY <4>2
      <4> QED
        BY <4>1, <4>2, <4>3
    <3>4. state' = "BODY" /\ pc' \in {"recv", "parse_request", "parse_body"}
      BY <1>3, <1>20
    <3>5. current_chunk_read' = 0
      BY <1>20
    <3> QED
      BY <1>3, <1>4, <1>16, <3>1, <3>2, <3>3, <3>4, <3>5, TypeKept
  <2>2. ByChunks'
    <3> SUFFICES ASSUME ~cut PROVE \E i \in 1..Len(msg'.sizes) : InData(i)'
      BY <1>3, <1>4, <1>11, <1>14, <1>20 DEF ByChunks
    <3>1. PICK i \in 1..(N + 1) : BeforeLine(i)
      BY <1>11, <1>13, <1>20
    <3> DEFINE z == SizeAt(msg, i)
               d == Len(Digits(z))
               p == Start(msg, i)
    <3>2. d + 2 \in 1..l /\ e = d + 2 /\ Number(size) = z
      BY <1>12, <3>1
    <3>3. z \in 0..3 /\ p \in Nat /\ (z = 0 <=> i = N + 1)
      BY <1>2, <1>3, LineIs DEF N
    <3>4. i \in 1..N
      BY <1>17, <1>20, <3>2, <3>3
    <3>5. z = msg.sizes[i]
      BY <1>17, <3>4 DEF SizeAt, N
    <3>6. d \in {1, 2}
      BY <3>3, DigitsAre
    <3>7. sent - l = p /\ BodyIs(Sums(msg.sizes)[i - 1])
      BY <3>1 DEF BeforeLine, Used, l
    <3>8. Sums(msg.sizes)[i - 1] \in Nat
      BY <1>2, <3>4, SizeIs DEF N
    <3> HIDE DEF z, d, p
    <3>9. Used' = p + d + 2 + 0
      <4>1. Used' = sent - Len(rest)
        BY <1>4, <1>20 DEF Used
      <4> QED
        BY <1>6, <1>7, <1>10, <3>2, <3>3, <3>6, <3>7, <4>1
    <3>10. InData(i)'
      <4>1. /\ reading_chunk_data' /\ current_chunk_size' = z /\ current_chunk_read' = 0
        BY <1>20, <3>2
      <4>2. current_chunk_size' = msg'.sizes[i]
        BY <1>4, <3>5, <4>1
      <4>3. Used' = Start(msg', i) + Len(Digits(msg'.sizes[i])) + 2 + current_chunk_read'
        BY <1>4, <3>5, <3>9, <4>1 DEF p, d
      <4>4. Sums(msg'.sizes)[i - 1] + current_chunk_read' = Sums(msg.sizes)[i - 1]
        BY <1>4, <3>8, <4>1
      <4>5. BodyIs(Sums(msg.sizes)[i - 1] + current_chunk_read)'
        BY <1>4, <3>7, <4>4 DEF BodyIs
      <4> QED
        BY <4>1, <4>2, <4>3, <4>5 DEF InData
    <3> QED
      BY <1>4, <3>4, <3>10 DEF N
  <2> QED
    BY <1>15, <2>1, <2>2 DEF IInv
<1>21. CASE Ended
  <2> DEFINE left == SubSeq(rest, 3, Len(rest))
  <2>1. ASSUME Len(rest) >= 2 PROVE Holds(left, w, sent) /\ Len(left) = Len(rest) - 2 /\ Len(left) \in Nat
    <3>1. 2 \in 0..Len(rest) /\ 2 + 1 = 3 /\ sent \in Nat /\ Holds(rest, w, sent)
      BY <1>6, <1>10, <2>1
    <3>2. Holds(SubSeq(rest, 2 + 1, Len(rest)), w, sent) /\ Len(SubSeq(rest, 2 + 1, Len(rest))) = Len(rest) - 2
          /\ Len(SubSeq(rest, 2 + 1, Len(rest))) \in Nat
      BY <3>1, Dropped
    <3> QED
      BY <3>1, <3>2
  <2> HIDE DEF left
  <2>2. request_buffer' = IF state' = "DONE" THEN left ELSE rest
    BY <1>21 DEF left
  <2>3. state' = "DONE" => Len(rest) >= 2 /\ SubSeq(rest, 1, 2) = CRLF
    <3>1. ~(Len(rest) < 2) => Len(rest) >= 2
      BY <1>10
    <3> QED
      BY <1>21, <3>1
  <2>4. state' \in {"BODY", "DONE", "ERROR_PARSE"} /\ (state' = "BODY" => Len(rest) < 2)
        /\ (state' = "ERROR_PARSE" => Len(rest) >= 2 /\ SubSeq(rest, 1, 2) # CRLF)
    <3>1. ~(Len(rest) < 2) => Len(rest) >= 2
      BY <1>10
    <3> QED
      BY <1>21, <3>1
  <2>5. TypeOK' /\ InPhase' /\ Holds(request_buffer, Wire(msg), sent)'
    <3>1. Len(body') + Len(request_buffer') <= sent /\ Holds(request_buffer', Wire(msg), sent)
      <4>1. Len(body) + Len(rest) <= sent
        BY <1>2, <1>6, <1>7, <1>10
      <4>2. CASE state' = "DONE"
        <5>1. Len(body) + Len(left) <= sent
          BY <1>6, <1>10, <2>1, <2>3, <4>1, <4>2
        <5> QED
          BY <1>4, <2>1, <2>2, <2>3, <4>2, <5>1 DEF w
      <4>3. CASE state' # "DONE"
        BY <1>4, <1>10, <2>2, <4>1, <4>3 DEF w
      <4> QED
        BY <4>2, <4>3
    <3>2. current_chunk_size' = 0 /\ current_chunk_read' = 0
      BY <1>1, <1>3, <1>21 DEF InPhase
    <3>3. reading_chunk_data' \in BOOLEAN /\ current_chunk_size' \in Nat /\ current_chunk_read' \in 0..current_chunk_size'
      <4>1. reading_chunk_data' \in BOOLEAN
        BY <1>2, <1>21
      <4>2. current_chunk_size' \in Nat /\ current_chunk_read' \in 0..current_chunk_size'
        BY <3>2
      <4> QED
        BY <4>1, <4>2
    <3>4. IF state' = "BODY" THEN pc' \in {"recv", "parse_request", "parse_body"} ELSE pc' = "answered"
      BY <1>21, <2>4 DEF Return
    <3> QED
      BY <1>3, <1>4, <1>16, <2>4, <3>1, <3>2, <3>3, <3>4, TypeKept
  <2>6. ASSUME ~cut, PastLine PROVE state' = "BODY" /\ PastLine'
    <3>1. (l = 1 /\ e = 0) \/ (l = 3 /\ e = 2 /\ sent - l = S + 3)
      BY <1>13, <1>21, <2>6
    <3>2. Len(rest) = 1
      BY <1>10, <3>1
    <3>3. state' = "BODY" /\ request_buffer' = rest
      BY <1>21, <2>2, <3>2
    <3>4. sent - l \in {S + 3, S + 5} /\ BodyIs(Total(msg.sizes))
      BY <2>6 DEF PastLine, Used, l, S, N
    <3>5. sent - Len(rest) \in {S + 3, S + 5}
      BY <1>6, <1>17, <3>1, <3>2, <3>4
    <3>6. rest # <<>>
      BY <1>10, <3>2
    <3>7. BodyIs(Total(msg.sizes))'
      BY <1>4, <3>4 DEF BodyIs
    <3>8. Used' \in {S + 3, S + 5}
      BY <1>4, <3>3, <3>5 DEF Used
    <3>9. ~reading_chunk_data'
      BY <1>3, <1>21
    <3> QED
      BY <1>4, <3>3, <3>6, <3>7, <3>8, <3>9 DEF PastLine, S, N
  <2>7. ASSUME ~cut, NEW i \in 1..(N + 1), BeforeLine(i)
        PROVE  /\ state' = "BODY" => PastLine'
               /\ state' = "DONE" => Used' = S + 5
               /\ BodyIs(Total(msg.sizes))'
               /\ state' # "ERROR_PARSE"
    <3> DEFINE z == SizeAt(msg, i)
               d == Len(Digits(z))
               p == Start(msg, i)
    <3>1. d + 2 \in 1..l /\ e = d + 2 /\ Number(size) = z
      BY <1>12, <2>7
    <3>2. (z = 0 <=> i = N + 1)
      BY <1>2, <1>3, LineIs DEF N
    <3>3. i = N + 1 /\ z = 0 /\ p = S
      BY <1>21, <3>1, <3>2 DEF S
    <3>4. d = 1
      <4>1. Len(Digits(0)) = 1
        BY DEF Digits
      <4> QED
        BY <3>3, <4>1
    <3>5. sent - l = S /\ BodyIs(Sums(msg.sizes)[i - 1])
      BY <2>7, <3>3 DEF BeforeLine, Used, l
    <3>6. BodyIs(Total(msg.sizes))'
      <4>1. i - 1 = N
        BY <1>17, <3>3
      <4>2. BodyIs(Total(msg.sizes))
        BY <3>5, <4>1 DEF Total, N
      <4> QED
        BY <1>4, <4>2 DEF BodyIs
    <3>7. e = 3 /\ l > 3
      <4>1. e = 3 /\ e # l
        BY <1>21, <3>1, <3>4
      <4> QED
        BY <1>6, <1>7, <4>1
    <3> HIDE DEF z, d, p
    <3>8. sent - Len(rest) = S + 3 /\ Len(rest) >= 1
      BY <1>6, <1>10, <1>17, <3>5, <3>7
    <3>9. ASSUME state' = "BODY" PROVE PastLine'
      <4>1. request_buffer' = rest /\ rest # <<>>
        BY <1>10, <2>2, <3>8, <3>9
      <4>2. Used' = S + 3
        BY <1>4, <3>8, <4>1 DEF Used
      <4>3. ~reading_chunk_data'
        BY <1>3, <1>21
      <4> QED
        BY <1>4, <3>6, <4>1, <4>2, <4>3 DEF PastLine, S, N
    <3>10. ASSUME state' = "DONE" PROVE Used' = S + 5
      <4>1. request_buffer' = left /\ Len(left) = Len(rest) - 2
        BY <2>1, <2>2, <2>3, <3>10
      <4>2. sent - Len(left) = S + 5
        BY <1>6, <1>10, <1>17, <3>8, <4>1
      <4> QED
        BY <1>4, <4>1, <4>2 DEF Used
    <3>11. state' # "ERROR_PARSE"
      <4> SUFFICES ASSUME Len(rest) >= 2 PROVE SubSeq(rest, 1, 2) = CRLF
        BY <2>4
      <4>1. w[S + 4] = <<"CR", "end">> /\ w[S + 5] = <<"LF", "end">>
        BY <1>2, <1>3, ChunkedWireIs DEF w, S, N
      <4>2. \A k \in 1..Len(rest) : rest[k] = w[sent - Len(rest) + k][1]
        BY <1>10 DEF Holds
      <4>3. 1 \in 1..Len(rest) /\ 2 \in 1..Len(rest) /\ sent - Len(rest) + 1 = S + 4 /\ sent - Len(rest) + 2 = S + 5
        BY <1>6, <1>10, <1>17, <3>8
      <4>4. rest[1] = "CR" /\ rest[2] = "LF"
        BY <4>1, <4>2, <4>3
      <4> QED
        BY <1>10, <4>4, StartsWithCRLF
    <3> QED
      BY <3>6, <3>9, <3>10, <3>11
  <2>8. ByChunks'
    <3> SUFFICES ASSUME ~cut
                 PROVE  /\ state' = "BODY" => PastLine'
                        /\ state' = "DONE" => Used' = S + 5 /\ BodyIs(Total(msg.sizes))'
                        /\ state' # "ERROR_PARSE"
      BY <1>3, <1>4, <1>11, <1>14 DEF ByChunks, S, N
    <3>1. CASE PastLine
      BY <2>6, <3>1
    <3>2. ASSUME NEW i \in 1..(N + 1), BeforeLine(i)
          PROVE  /\ state' = "BODY" => PastLine'
                 /\ state' = "DONE" => Used' = S + 5 /\ BodyIs(Total(msg.sizes))'
                 /\ state' # "ERROR_PARSE"
      BY <2>7, <3>2
    <3> QED
      BY <1>11, <3>1, <3>2
  <2> QED
    BY <1>15, <2>5, <2>8 DEF IInv
<1> QED
  BY <1>5, <1>18, <1>19, <1>20, <1>21

\* Every step keeps the invariant.
LEMMA Kept ==
  ASSUME IInv, [Next]_vars
  PROVE  IInv'
<1>1. CASE UNCHANGED vars
  <2>1. /\ msg' = msg /\ sent' = sent /\ request_buffer' = request_buffer /\ body' = body /\ state' = state
        /\ reading_chunk_data' = reading_chunk_data /\ current_chunk_size' = current_chunk_size
        /\ current_chunk_read' = current_chunk_read /\ content_length_value' = content_length_value
        /\ cut' = cut /\ clean' = clean /\ pc' = pc
    BY <1>1 DEF vars, parser, chunk
  <2>2. TypeOK' /\ InPhase' /\ ByLength'
    BY <2>1 DEF IInv, TypeOK, InPhase, ByLength, BodyIs, Used
  <2>3. Holds(request_buffer, Wire(msg), sent)'
    BY <2>1 DEF IInv, Holds
  <2>4. ByChunks'
    BY <2>1 DEF IInv, ByChunks, BeforeLine, InData, PastLine, BodyIs, Used, Apart
  <2> QED
    BY <2>2, <2>3, <2>4 DEF IInv
<1>2. CASE TooLarge
  <2>1. state = "BODY"
    BY <1>2 DEF TooLarge, OverLimit, HasContentLength, IInv, InPhase
  <2>2. UNCHANGED <<msg, sent, request_buffer, parser, cut, clean>> /\ pc' = "413"
    BY <1>2 DEF TooLarge
  <2> QED
    BY <2>1, <2>2, KeptByReturn
<1>3. ASSUME NEW n \in 1..ReadSize, RecvHeaders(n) PROVE IInv'
  BY <1>3, KeptByRecvHeaders
<1>4. ASSUME NEW n \in 1..ReadSize, RecvBody(n) PROVE IInv'
  BY <1>4, KeptByRecvBody
<1>5. CASE ParseLength
  BY <1>5, KeptByParseLength
<1>6. CASE ParseZeroLength
  BY <1>6, KeptByParseZeroLength
<1>7. CASE ParseChunkData
  BY <1>7, KeptByParseChunkData
<1>8. CASE ParseNothing
  BY <1>8, KeptByParseNothing
<1>9. CASE ParseChunkSize
  BY <1>9, KeptByParseChunkSize
<1> QED
  BY <1>1, <1>2, <1>3, <1>4, <1>5, <1>6, <1>7, <1>8, <1>9 DEF Next, Read, Parse

\* The invariant holds in every reachable state, for messages of any length
\* and any way to cut them.
THEOREM Invariance == Spec => []IInv
<1>1. Init => IInv
  BY Begins
<1>2. IInv /\ [Next]_vars => IInv'
  BY Kept
<1> QED
  BY <1>1, <1>2, PTL DEF Spec

\* Type correctness.
THEOREM TypeCorrect == Spec => []TypeOK
<1>1. IInv => TypeOK
  BY DEF IInv
<1> QED
  BY <1>1, Invariance, PTL

\* Bytes that are those of the body are a prefix of it; n of all n are all.
LEMMA PrefixIs ==
  ASSUME NEW m \in Messages, NEW b \in Seq(Symbol), Len(b) <= Total(m.sizes),
         \A k \in 1..Len(b) : b[k] = Bytes[k]
  PROVE  IsPrefix(b, Payload(m)) /\ (Len(b) = Total(m.sizes) => b = Payload(m))
<1> DEFINE T == Total(m.sizes)
           p == Payload(m)
           l == Len(b)
           q == SubSeq(p, 1, l)
<1>1. T \in Nat /\ T <= Len(Bytes) /\ Len(Bytes) \in Nat /\ Bytes \in Seq(Symbol) /\ l \in Nat /\ l <= T
  BY MessageIs, SymbolsAre
<1>2. p \in Seq(Symbol) /\ Len(p) = T /\ \A k \in 1..T : p[k] = Bytes[k]
  <2>1. T \in 0..Len(Bytes)
    BY <1>1
  <2> HIDE DEF T
  <2> QED
    BY <1>1, <2>1, Taken DEF Payload, T
<1> HIDE DEF p, T
<1>3. q \in Seq(Symbol) /\ Len(q) = l /\ \A k \in 1..l : q[k] = p[k]
  <2>1. l \in 0..Len(p)
    BY <1>1, <1>2
  <2> HIDE DEF l
  <2> QED
    BY <1>2, <2>1, Taken
<1>4. SubSeq(b, 1, l) = b
  <2> DEFINE u == SubSeq(b, 1, l)
  <2>1. l \in 0..Len(b)
    BY <1>1
  <2>2. u \in Seq(Symbol) /\ Len(u) = l /\ \A k \in 1..l : u[k] = b[k]
    BY <2>1, Taken
  <2> HIDE DEF u
  <2>3. Len(u) = Len(b) /\ \A k \in 1..Len(u) : u[k] = b[k]
    BY <2>2
  <2>4. u = b
    BY <2>2, <2>3, SeqEqual
  <2> QED
    BY <2>4 DEF u
<1> HIDE DEF q
<1>5. q = b
  <2>1. \A k \in 1..l : k \in 1..T
    BY <1>1
  <2>2. Len(q) = Len(b) /\ \A k \in 1..Len(q) : q[k] = b[k]
    BY <1>2, <1>3, <2>1
  <2> QED
    BY <1>3, <2>2, SeqEqual
<1>6. IsPrefix(b, p)
  BY <1>1, <1>2, <1>4, <1>5 DEF IsPrefix, q
<1>7. ASSUME l = T PROVE b = p
  <2>1. Len(b) = Len(p) /\ \A k \in 1..Len(b) : b[k] = p[k]
    BY <1>2, <1>7
  <2> QED
    BY <1>2, <2>1, SeqEqual
<1> QED
  BY <1>6, <1>7 DEF p, T

\* Unless a recv() ends inside a size line, what the parser takes for the body
\* is the body, and it finds no error but a Content-Length of 0.
THEOREM BodyIsPrefixHolds == Spec => []BodyIsPrefix
<1>1. ASSUME IInv PROVE BodyIsPrefix
  <2> SUFFICES ASSUME ~cut
               PROVE  /\ IsPrefix(body, Payload(msg))
                      /\ state = "ERROR_PARSE" => msg.framing = "length" /\ msg.sizes = <<>>
    BY DEF BodyIsPrefix
  <2>1. TypeOK /\ InPhase /\ ByLength /\ ByChunks
    BY <1>1 DEF IInv
  <2>2. /\ msg \in Messages /\ body \in Seq(Symbol)
        /\ state \in {"none", "BODY", "DONE", "ERROR_PARSE"}
    BY <2>1 DEF TypeOK
  <2>3. msg.framing \in {"length", "chunked"} /\ Total(msg.sizes) \in Nat
    BY <2>2, MessageIs
  <2>4. /\ Len(body) <= Total(msg.sizes) /\ \A k \in 1..Len(body) : body[k] = Bytes[k]
    <3>1. CASE state = "none"
      <4>1. Len(body) = 0
        BY <2>1, <3>1 DEF InPhase
      <4> QED
        BY <2>3, <4>1
    <3>2. CASE state # "none" /\ msg.framing = "length"
      BY <2>1, <3>2 DEF ByLength, BodyIs
    <3>3. CASE state # "none" /\ msg.framing = "chunked"
      BY <2>1, <2>2, <3>3 DEF ByChunks, BeforeLine, InData, PastLine, BodyIs
    <3> QED
      BY <2>3, <3>1, <3>2, <3>3
  <2>5. IsPrefix(body, Payload(msg))
    BY <2>2, <2>4, PrefixIs
  <2>6. state = "ERROR_PARSE" => msg.framing = "length" /\ msg.sizes = <<>>
    BY <2>1, <2>3 DEF ByLength, ByChunks
  <2> QED
    BY <2>5, <2>6
<1> QED
  BY <1>1, Invariance, PTL

\* A complete request has its whole body, and leaves the next one alone.
THEOREM DoneIsWholeHolds == Spec => []DoneIsWhole
<1>1. ASSUME IInv PROVE DoneIsWhole
  <2> DEFINE w == Wire(msg)
             b == request_buffer
             T == Total(msg.sizes)
             S == Start(msg, Len(msg.sizes) + 1)
             x == Extra(msg)
  <2> SUFFICES ASSUME state = "DONE", ~cut
               PROVE  /\ body = Payload(msg)
                      /\ b \o Symbols(SubSeq(w, sent + 1, Len(w))) = (IF msg.next THEN <<NextRequest>> ELSE <<>>)
    BY DEF DoneIsWhole
  <2>1. TypeOK /\ ByLength /\ ByChunks /\ Holds(b, w, sent)
    BY <1>1 DEF IInv
  <2>2. msg \in Messages /\ body \in Seq(Symbol) /\ sent \in 0..Len(w)
    BY <2>1 DEF TypeOK
  <2>3. msg.framing \in {"length", "chunked"} /\ T \in Nat /\ msg.next \in BOOLEAN /\ (msg.next => x = 1)
    BY <2>2, MessageIs DEF Extra
  <2>4. /\ Len(body) = T /\ \A k \in 1..T : body[k] = Bytes[k]
        /\ sent - Len(b) = Len(w) - x /\ (msg.next => w[Len(w)] = <<NextRequest, "next">>)
    <3>0. x \in {0, 1}
      BY <2>2, EndsAre
    <3>1. CASE msg.framing = "length"
      <4>1. sent - Len(b) = 1 + Len(body) /\ BodyIs(Len(body)) /\ Len(body) = T
        BY <2>1, <3>1 DEF ByLength, Used
      <4>2. Len(w) = 1 + T + x /\ (msg.next => w[T + 2] = <<NextRequest, "next">>)
        BY <2>2, <3>1, LengthWireIs
      <4> HIDE DEF w, T, x
      <4>3. sent - Len(b) = Len(w) - x
        BY <2>3, <3>0, <4>1, <4>2
      <4>4. x = 1 => Len(w) = T + 2
        BY <2>3, <4>2
      <4>5. msg.next => w[Len(w)] = <<NextRequest, "next">>
        BY <2>3, <4>2, <4>4
      <4>6. \A k \in 1..T : body[k] = Bytes[k]
        BY <4>1 DEF BodyIs
      <4> QED
        BY <4>1, <4>3, <4>5, <4>6
    <3>2. CASE msg.framing = "chunked"
      <4>1. sent - Len(b) = S + 5 /\ BodyIs(T)
        BY <2>1, <3>2 DEF ByChunks, Used
      <4>2. Len(w) = S + 5 + x /\ (msg.next => w[S + 6] = <<NextRequest, "next">>)
        BY <2>2, <3>2, ChunkedWireIs
      <4>3. S \in Nat
        <5>1. Len(msg.sizes) + 1 \in 1..(Len(msg.sizes) + 1)
          <6>1. Len(msg.sizes) \in Nat
            BY <2>2, MessageIs
          <6> QED
            BY <6>1
        <5> QED
          BY <2>2, <3>2, <5>1, LineIs
      <4>7. Len(body) = T /\ \A k \in 1..T : body[k] = Bytes[k]
        BY <4>1 DEF BodyIs
      <4> HIDE DEF w, T, x, S
      <4>4. sent - Len(b) = Len(w) - x
        BY <3>0, <4>1, <4>2, <4>3
      <4>5. x = 1 => Len(w) = S + 6
        BY <4>2, <4>3
      <4>6. msg.next => w[Len(w)] = <<NextRequest, "next">>
        BY <2>3, <4>2, <4>5
      <4> QED
        BY <4>4, <4>6, <4>7
    <3> QED
      BY <2>3, <3>1, <3>2
  <2>5. body = Payload(msg)
    <3>1. Len(body) <= T
      BY <2>3, <2>4
    <3> QED
      BY <2>2, <2>4, <3>1, PrefixIs
  <2>6. w \in Seq(Pair)
    BY <2>2, WireIs
  <2>7. b \in Seq(Symbol) /\ Len(b) <= sent /\ \A k \in 1..Len(b) : b[k] = w[sent - Len(b) + k][1]
    BY <2>1 DEF Holds
  <2>8. b \o Symbols(SubSeq(w, sent + 1, Len(w))) = (IF msg.next THEN <<NextRequest>> ELSE <<>>)
    <3>1. sent - Len(b) = Len(w) - Extra(msg) /\ (msg.next => w[Len(w)] = <<NextRequest, "next">>)
      BY <2>4
    <3> HIDE DEF w
    <3>2. sent \in 0..Len(w)
      BY <2>2 DEF w
    <3> QED
      BY <2>2, <2>6, <2>7, <3>1, <3>2, RestIs
  <2> QED
    BY <2>5, <2>8
<1> QED
  BY <1>1, Invariance, PTL

\* A body over client_max_body_size is completed only by the first delivery.
THEOREM LimitAfterOneReadHolds == Spec => LimitAfterOneRead
<1> DEFINE P == state' = "DONE" /\ state = "BODY" /\ msg.framing = "length"
                  /\ Total(msg.sizes) > ClientMaxBodySize => body = <<>>
<1>1. ASSUME IInv, Next PROVE P
  <2> SUFFICES ASSUME state' = "DONE", state = "BODY", msg.framing = "length",
                      Total(msg.sizes) > ClientMaxBodySize, body # <<>>
               PROVE  FALSE
    OBVIOUS
  <2>1. ParseLength
    <3>1. state' # state
      OBVIOUS
    <3>2. ~TooLarge
      BY <3>1 DEF TooLarge, parser
    <3>3. ASSUME NEW n \in 1..ReadSize, RecvHeaders(n) \/ RecvBody(n) PROVE FALSE
      BY <3>1, <3>3 DEF RecvHeaders, RecvBody, parser
    <3>4. ~ParseZeroLength /\ ~ParseChunkData /\ ~ParseNothing /\ ~ParseChunkSize
      BY DEF ParseZeroLength, ParseChunkData, ParseNothing, ParseChunkSize, Parsing
    <3> QED
      BY <1>1, <3>2, <3>3, <3>4 DEF Next, Read, Parse
  <2>2. Total(msg.sizes) <= ClientMaxBodySize
    BY <1>1, <2>1 DEF ParseLength, Parsing, IInv, ByLength
  <2>3. Total(msg.sizes) \in Nat /\ ClientMaxBodySize \in Nat
    BY <1>1, MessageIs DEF IInv, TypeOK
  <2> QED
    BY <2>2, <2>3
<1>2. IInv /\ [Next]_vars => [P]_vars
  BY <1>1
<1> QED
  BY <1>2, Invariance, PTL DEF Spec, LimitAfterOneRead
=============================================================================
