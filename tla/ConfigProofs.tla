---------------------------- MODULE ConfigProofs ----------------------------
(* Proofs about Config, for any files, numbers and sizes: that the parser   *)
(* stays within its tokens and leaves ports that are ports, that each       *)
(* socket that listens answers for all the blocks of its own address, that  *)
(* what is loaded is what the file says, block by block, and that no word   *)
(* of a loaded file has been cut but a size before its unit.                *)
EXTENDS Config, Basics, SequenceTheorems, FiniteSetTheorems

(* What the loops of the tokenizer and of StartServer leave.                *)

\* The loop: it begins with nothing and takes the elements at T one by one.
Taken(first, s, T) ==
  /\ first[0] = <<>>
  /\ \A n \in 1..Len(s) : first[n] = IF n \in T THEN Append(first[n - 1], s[n]) ELSE first[n - 1]

\* Selected is what the loop has at its end.
LEMMA SelectedTakes ==
  ASSUME NEW S, NEW s \in Seq(S), NEW T
  PROVE  \E first \in [0..Len(s) -> Seq(S)] :
           Taken(first, s, T) /\ Selected(s, T) = first[Len(s)]
<1> DEFINE N == Len(s)
           Step(g) == [n \in 0..N |-> IF n = 0 THEN <<>>
                                      ELSE IF n \in T THEN Append(g[n - 1], s[n]) ELSE g[n - 1]]
           first == CHOOSE g : g = Step(g)
           D == [x \in Seq(S) \X (1..N) |-> IF x[2] \in T THEN Append(x[1], s[x[2]]) ELSE x[1]]
<1>1. N \in Nat /\ \A n \in 1..N : s[n] \in S
  OBVIOUS
<1>2. PICK f \in [0..N -> Seq(S)] : Follows(f, N, <<>>, D)
  <2>1. D \in Steps(N, Seq(S))
    <3>1. ASSUME NEW x \in Seq(S) \X (1..N) PROVE D[x] \in Seq(S)
      <4>1. x[1] \in Seq(S) /\ s[x[2]] \in S
        BY <1>1
      <4>2. Append(x[1], s[x[2]]) \in Seq(S)
        BY <4>1
      <4> QED
        BY <4>1, <4>2
    <3> QED
      BY <3>1 DEF Steps
  <2>2. <<>> \in Seq(S)
    OBVIOUS
  <2> HIDE DEF D, N
  <2> QED
    BY <1>1, <2>1, <2>2, Recursion
<1>3. ASSUME NEW n \in 1..N
      PROVE  f[n] = IF n \in T THEN Append(f[n - 1], s[n]) ELSE f[n - 1]
  <2>1. f[n - 1] \in Seq(S) /\ f[n] = D[<<f[n - 1], n>>]
    <3> HIDE DEF D, N
    <3>1. n - 1 \in 0..N
      BY <1>1
    <3> QED
      BY <1>2, <3>1 DEF Follows
  <2>2. <<f[n - 1], n>> \in Seq(S) \X (1..N)
    BY <2>1
  <2> QED
    BY <2>1, <2>2
<1>4. f = Step(f)
  <2>1. f[0] = <<>>
    BY <1>2 DEF Follows
  <2>2. ASSUME NEW n \in 0..N PROVE f[n] = Step(f)[n]
    <3>1. n = 0 \/ n \in 1..N
      BY <1>1
    <3> HIDE DEF D, N
    <3> QED
      BY <1>3, <2>1, <3>1
  <2> HIDE DEF D, N
  <2> QED
    BY <2>2
<1>5. first = Step(first)
  <2> HIDE DEF Step
  <2> QED
    BY <1>4
<1>6. first[0] = <<>> /\ \A n \in 1..N : first[n] = IF n \in T THEN Append(first[n - 1], s[n]) ELSE first[n - 1]
  <2>1. \A n \in 0..N : first[n] = Step(first)[n]
    BY <1>5
  <2> HIDE DEF first
  <2> QED
    BY <1>1, <2>1
<1>7. first = [n \in 0..N |-> first[n]]
  <2> HIDE DEF first
  <2> QED
    BY <1>5
<1>8. \A n \in 1..N : first[n - 1] \in Seq(S) => first[n] \in Seq(S)
  <2> HIDE DEF first
  <2> TAKE n \in 1..N
  <2> HAVE first[n - 1] \in Seq(S)
  <2>1. Append(first[n - 1], s[n]) \in Seq(S)
    BY <1>1
  <2> QED
    BY <1>6, <2>1
<1>9. first \in [0..N -> Seq(S)]
  <2>1. first[0] \in Seq(S)
    <3> HIDE DEF first
    <3> QED
      BY <1>6
  <2> HIDE DEF first, N
  <2> QED
    BY <1>1, <1>7, <1>8, <2>1, ByRecursion
<1>10. Selected(s, T) = first[N]
  BY DEF Selected
<1> HIDE DEF first
<1> QED
  BY <1>6, <1>9, <1>10 DEF Taken

\* What is selected of a sequence is a sequence of its elements.
LEMMA SelectedIs ==
  ASSUME NEW S, NEW s \in Seq(S), NEW T
  PROVE  Selected(s, T) \in Seq(S)
<1>1. PICK first \in [0..Len(s) -> Seq(S)] : Selected(s, T) = first[Len(s)]
  BY SelectedTakes
<1> QED
  BY <1>1

Ascending(r) == \A n \in 1..(Len(r) - 1) : r[n] < r[n + 1]

\* Selected places are all of them, in ascending order.
LEMMA PlacesSelected ==
  ASSUME NEW N \in Nat, NEW T, T \subseteq 1..N, NEW r, r = Selected([k \in 1..N |-> k], T)
  PROVE  r \in Seq(1..N) /\ ToSet(r) = T /\ Ascending(r)
<1> DEFINE s == [k \in 1..N |-> k]
<1>1. s \in Seq(1..N) /\ Len(s) = N /\ \A n \in 1..N : s[n] = n
  BY SeqOfLength
<1> HIDE DEF s
<1>2. PICK first \in [0..N -> Seq(1..N)] : Taken(first, s, T) /\ Selected(s, T) = first[N]
  <2>1. \E first \in [0..Len(s) -> Seq(1..N)] : Taken(first, s, T) /\ Selected(s, T) = first[Len(s)]
    <3>1. s \in Seq(1..N)
      BY <1>1
    <3> QED
      BY ONLY <3>1, SelectedTakes
  <2> QED
    BY <1>1, <2>1
<1> DEFINE P == {n \in 0..N : ToSet(first[n]) = T \cap (1..n) /\ Ascending(first[n])}
<1>3. 0 \in P
  BY <1>2 DEF Taken, ToSet, Ascending
<1>4. ASSUME NEW n \in 0..(N - 1), n \in P PROVE n + 1 \in P
  <2> DEFINE q == first[n]
  <2>1. q \in Seq(1..N) /\ ToSet(q) = T \cap (1..n) /\ Ascending(q)
    BY <1>4
  <2>2. n + 1 \in 1..N /\ n + 1 \in 0..N /\ (n + 1) - 1 = n
    OBVIOUS
  <2>3. first[n + 1] = IF n + 1 \in T THEN Append(q, n + 1) ELSE q
    BY <1>1, <1>2, <2>2 DEF Taken
  <2> HIDE DEF q
  <2>4. CASE n + 1 \notin T
    <3>1. ASSUME NEW i \in T PROVE i \in 1..(n + 1) <=> i \in 1..n
      <4>1. i \in 1..N /\ i # n + 1
        BY <2>4
      <4> QED
        BY <4>1
    <3>3. T \cap (1..(n + 1)) = T \cap (1..n)
      BY <3>1
    <3> QED
      BY <2>1, <2>2, <2>3, <2>4, <3>3
  <2>5. CASE n + 1 \in T
    <3> DEFINE t == Append(q, n + 1)
    <3>1. /\ Len(q) \in Nat /\ Len(t) = Len(q) + 1 /\ t[Len(q) + 1] = n + 1
          /\ \A i \in 1..Len(q) : t[i] = q[i] /\ q[i] \in 1..N
      <4>1. q \in Seq(1..N) /\ n + 1 \in 1..N
        BY <2>1, <2>2
      <4>2. /\ Len(q) \in Nat /\ \A i \in 1..Len(q) : q[i] \in 1..N
        BY ONLY <4>1
      <4>3. Len(t) = Len(q) + 1 /\ t[Len(q) + 1] = n + 1 /\ \A i \in 1..Len(q) : t[i] = q[i]
        BY ONLY <4>1, <4>2
      <4> QED
        BY ONLY <4>2, <4>3
    <3>2. DOMAIN t = 1..(Len(q) + 1) /\ DOMAIN q = 1..Len(q)
      BY <2>1, <2>2
    <3> HIDE DEF t
    <3>3. ToSet(t) = ToSet(q) \cup {n + 1}
      <4>1. 1..(Len(q) + 1) = (1..Len(q)) \cup {Len(q) + 1}
        <5>1. Len(q) \in Nat
          BY <3>1
        <5> QED
          BY ONLY <5>1
      <4>2. ToSet(t) = {t[i] : i \in 1..Len(q)} \cup {t[Len(q) + 1]}
        BY <3>2, <4>1 DEF ToSet
      <4>3. {t[i] : i \in 1..Len(q)} = {q[i] : i \in 1..Len(q)}
        BY <3>1
      <4> QED
        BY <3>1, <3>2, <4>2, <4>3 DEF ToSet
    <3>4. ToSet(t) = T \cap (1..(n + 1))
      <4>1. ASSUME NEW i PROVE (i \in T /\ i \in 1..n) \/ i = n + 1 <=> i \in T /\ i \in 1..(n + 1)
        <5>1. i \in 1..(n + 1) <=> i \in 1..n \/ i = n + 1
          BY ONLY n \in 0..(N - 1), <1>2
        <5> QED
          BY ONLY <2>5, <5>1
      <4> QED
        BY <2>1, <3>3, <4>1
    <3>5. Ascending(t)
      <4> SUFFICES ASSUME NEW i \in 1..(Len(t) - 1) PROVE t[i] < t[i + 1]
        BY DEF Ascending
      <4>1. CASE i = Len(q)
        <5>1. q[i] \in ToSet(q)
          <6>1. i \in DOMAIN q
            BY <3>1, <3>2, <4>1
          <6> QED
            BY <6>1 DEF ToSet
        <5>2. q[i] \in 1..n
          BY <2>1, <5>1
        <5> QED
          BY <3>1, <4>1, <5>2
      <4>2. CASE i # Len(q)
        <5>1. i \in 1..(Len(q) - 1) /\ i \in 1..Len(q) /\ i + 1 \in 1..Len(q)
          BY <3>1, <4>2
        <5> QED
          BY <2>1, <3>1, <5>1 DEF Ascending
      <4> QED
        BY <4>1, <4>2
    <3>6. first[n + 1] = t
      BY <2>3, <2>5 DEF t
    <3> QED
      BY <2>2, <3>4, <3>5, <3>6
  <2> QED
    BY <2>4, <2>5
<1> HIDE DEF P
<1>5. 0..N \subseteq P
  BY <1>3, <1>4, UpTo
<1>6. N \in P /\ r = first[N]
  BY <1>2, <1>5 DEF s
<1>7. T \cap (1..N) = T
  OBVIOUS
<1> QED
  BY <1>2, <1>6, <1>7 DEF P

(* The tokens of a file.                                                    *)
Types == Directives \cup {"MUL", "NUMBER", "STRING", "END"}
Text0 == STRING \cup {""}

\* The tokens of a file with no negative number.
Tape(tokens) ==
  /\ tokens \in Seq([type : Types, value : Text0])
  /\ Len(tokens) >= 1 /\ tokens[Len(tokens)].type = "END"
  /\ \A i \in 1..Len(tokens) :
       tokens[i].type = "NUMBER" =>
         tokens[i].value \in DOMAIN Numbers /\ Numbers[tokens[i].value] \in Nat

\* What is shown of a file is a sequence of words.
LEMMA ShownIs ==
  ASSUME NEW input \in Files
  PROVE  Shown(SanitizeInput(input)) \in Seq(STRING)
<1>1. input \in Seq(Seq(STRING))
  BY ConfigAssumption
<1>2. FlattenSeq(input) \in Seq(STRING)
  BY <1>1, FlattenSeqIs
<1> QED
  BY <1>2, SelectedIs DEF SanitizeInput, Shown

\* A word is of a type, of NUMBER only when it is one.
LEMMA TokenTypeIs ==
  ASSUME NEW word
  PROVE  TokenType(word) \in Types /\ (TokenType(word) = "NUMBER" => word \in DOMAIN Numbers)
BY DEF TokenType, Types, Directives

\* tokenize gives tokens that end with END, and numbers that are numbers.
LEMMA TokensAre ==
  ASSUME NEW input \in Files, ~Negative(input)
  PROVE  Tape(tokenize(input))
<1> DEFINE words == Shown(SanitizeInput(input))
           token(i) == [type |-> TokenType(words[i]), value |-> words[i]]
           tokens == [i \in DOMAIN words |-> token(i)]
           end == [type |-> "END", value |-> ""]
           S == [type : Types, value : Text0]
<1>1. words \in Seq(STRING)
  BY ShownIs
<1>2. \A i \in DOMAIN words : words[i] \in DOMAIN Numbers => Numbers[words[i]] \in Nat
  <2> SUFFICES ASSUME NEW i \in DOMAIN words, words[i] \in DOMAIN Numbers
               PROVE  Numbers[words[i]] \in Nat
    OBVIOUS
  <2> HIDE DEF words
  <2>1. words[i] \in ToSet(words)
    BY DEF ToSet
  <2>2. ~ (Numbers[words[i]] < 0)
    BY <2>1 DEF Negative, words
  <2>3. Numbers[words[i]] \in Int
    BY ConfigAssumption
  <2> QED
    BY <2>2, <2>3
<1>3. tokenize(input) = Append(tokens, end)
  BY DEF tokenize
<1> HIDE DEF words
<1>4. DOMAIN words = 1..Len(words) /\ Len(words) \in Nat
  BY <1>1
<1>5. \A i \in DOMAIN words : token(i) \in S
  <2> TAKE i \in DOMAIN words
  <2>1. words[i] \in Text0
    <3>1. words[i] \in STRING
      BY <1>1, <1>4
    <3> QED
      BY <3>1 DEF Text0
  <2>2. TokenType(words[i]) \in Types
    BY TokenTypeIs
  <2> QED
    BY <2>1, <2>2
<1>6. tokens \in Seq(S) /\ Len(tokens) = Len(words)
  <2> HIDE DEF S, token
  <2>1. tokens \in [1..Len(words) -> S]
    BY <1>4, <1>5
  <2> HIDE DEF tokens
  <2> QED
    BY <1>4, <2>1, SeqOfLength
<1>7. end \in S
  BY DEF Types, Text0
<1> DEFINE all == Append(tokens, end)
<1>8. all \in Seq(S) /\ Len(all) = Len(words) + 1 /\ all[Len(words) + 1] = end
      /\ \A i \in 1..Len(words) : all[i] = tokens[i]
  <2> HIDE DEF tokens, end, S
  <2> QED
    BY <1>6, <1>7
<1>9. \A i \in 1..Len(words) : tokens[i].type = TokenType(words[i]) /\ tokens[i].value = words[i]
  BY <1>4
<1> HIDE DEF tokens, all
<1>10. all[Len(words) + 1].type = "END" /\ Len(all) = Len(words) + 1
  <2>1. all[Len(words) + 1] = end /\ Len(all) = Len(words) + 1
    BY <1>8
  <2>2. end.type = "END"
    OBVIOUS
  <2> HIDE DEF end
  <2> QED
    BY <2>1, <2>2
<1>11. ASSUME NEW i \in 1..Len(all), all[i].type = "NUMBER"
       PROVE  all[i].value \in DOMAIN Numbers /\ Numbers[all[i].value] \in Nat
  <2>1. i \in 1..Len(words)
    <3>1. i # Len(words) + 1
      BY <1>10, <1>11
    <3> QED
      BY <1>4, <1>10, <3>1
  <2>2. all[i].value = words[i] /\ TokenType(words[i]) = "NUMBER"
    BY <1>8, <1>9, <1>11, <2>1
  <2>3. words[i] \in DOMAIN Numbers
    BY <2>2, TokenTypeIs
  <2> QED
    BY <1>2, <1>4, <2>1, <2>2, <2>3
<1>12. Len(all) >= 1 /\ all[Len(all)].type = "END"
  BY <1>4, <1>10
<1>13. Tape(all)
  BY <1>8, <1>11, <1>12 DEF Tape, S
<1> QED
  BY <1>3, <1>13 DEF all

(* The consumes of the directives.                                          *)
Blocks == {"servers", "server", "location", "cgi"}
Consume == [type : {"STRING", "NUMBER", "MUL", ";", "{"}, times : {"one", "maybe", "many"}]

\* A consume of a type.
LEMMA ConsumeIs ==
  ASSUME NEW type \in {"STRING", "NUMBER", "MUL", ";", "{"}
  PROVE  One(type) \in Consume /\ Maybe(type) \in Consume /\ Many(type) \in Consume
BY DEF One, Maybe, Many, Consume

\* Up to three of them.
LEMMA ConsumesInOrder ==
  ASSUME NEW S, NEW x \in S, NEW y \in S, NEW z \in S
  PROVE  <<>> \in Seq(S) /\ <<x>> \in Seq(S) /\ <<x, y>> \in Seq(S) /\ <<x, y, z>> \in Seq(S)
OBVIOUS

\* The directives of a location.
LEMMA InLocationIs ==
  /\ DOMAIN InLocation \subseteq Directives
  /\ \A d \in DOMAIN InLocation : InLocation[d] \in Seq(Consume)
<1>1. /\ <<One("NUMBER"), One("STRING"), One(";")>> \in Seq(Consume)
      /\ <<Many("STRING"), One(";")>> \in Seq(Consume)
      /\ <<Maybe("NUMBER"), One("STRING"), One(";")>> \in Seq(Consume)
      /\ <<One("NUMBER"), Many("STRING"), One(";")>> \in Seq(Consume)
      /\ <<>> \in Seq(Consume)
      /\ <<One("STRING"), One(";")>> \in Seq(Consume)
  BY ConsumeIs, ConsumesInOrder
<1>2. DOMAIN InLocation \subseteq Directives
  BY DEF InLocation, Directives
<1>3. ASSUME NEW d \in DOMAIN InLocation PROVE InLocation[d] \in Seq(Consume)
  BY <1>1, Zenon DEF InLocation
<1> QED
  BY <1>2, <1>3

\* The directives of a server.
LEMMA InServerIs ==
  /\ DOMAIN Consumes = Blocks
  /\ DOMAIN Consumes["server"] \subseteq Directives
  /\ \A d \in DOMAIN Consumes["server"] : Consumes["server"][d] \in Seq(Consume)
  /\ Consumes["server"]["listen"] = <<One("NUMBER"), One(";")>>
<1>1. /\ <<One("NUMBER"), One(";")>> \in Seq(Consume)
      /\ <<One("STRING"), Many("STRING"), One(";")>> \in Seq(Consume)
      /\ <<Many("NUMBER"), One("STRING"), One(";")>> \in Seq(Consume)
      /\ <<One("STRING"), One("{")>> \in Seq(Consume)
      /\ <<One("NUMBER"), One("MUL"), One(";")>> \in Seq(Consume)
      /\ <<>> \in Seq(Consume)
  BY ConsumeIs, ConsumesInOrder
<1> DEFINE r == [listen |-> <<One("NUMBER"), One(";")>>,
                 server_name |-> <<One("STRING"), Many("STRING"), One(";")>>,
                 error_page |-> <<Many("NUMBER"), One("STRING"), One(";")>>,
                 location |-> <<One("STRING"), One("{")>>,
                 client_max_body_size |-> <<One("NUMBER"), One("MUL"), One(";")>>]
<1>6. Consumes["server"] = With(r, "}", <<>>)
  BY DEF Consumes
<1>7. /\ DOMAIN r = {"listen", "server_name", "error_page", "location", "client_max_body_size"}
      /\ r["listen"] = <<One("NUMBER"), One(";")>>
  OBVIOUS
<1>8. \A d \in DOMAIN r : r[d] \in Seq(Consume)
  <2> SUFFICES /\ r["listen"] \in Seq(Consume) /\ r["server_name"] \in Seq(Consume)
               /\ r["error_page"] \in Seq(Consume) /\ r["location"] \in Seq(Consume)
               /\ r["client_max_body_size"] \in Seq(Consume)
    <3> HIDE DEF r
    <3> QED
      BY <1>7
  <2> QED
    BY <1>1
<1> HIDE DEF r
<1>2. DOMAIN Consumes["server"] \subseteq Directives
  BY <1>6, <1>7 DEF Directives, With
<1>3. ASSUME NEW d \in DOMAIN Consumes["server"] PROVE Consumes["server"][d] \in Seq(Consume)
  BY <1>1, <1>6, <1>8 DEF With
<1>4. Consumes["server"]["listen"] = <<One("NUMBER"), One(";")>>
  BY <1>6, <1>7 DEF With
<1>5. DOMAIN Consumes = Blocks
  BY DEF Consumes, Blocks
<1> QED
  BY <1>2, <1>3, <1>4, <1>5

\* All directives.
LEMMA ConsumesAre ==
  ASSUME NEW block \in Blocks, NEW d \in DOMAIN Consumes[block]
  PROVE  d \in Directives /\ Consumes[block][d] \in Seq(Consume)
<1>1. CASE block = "server"
  BY <1>1, InServerIs
<1>2. CASE block = "servers"
  <2>1. <<One("{")>> \in Seq(Consume)
    BY ConsumeIs, ConsumesInOrder
  <2>2. DOMAIN Consumes["servers"] = {"server"} /\ Consumes["servers"]["server"] = <<One("{")>>
    BY DEF Consumes
  <2>3. d = "server" /\ Consumes[block][d] = <<One("{")>>
    BY <1>2, <2>2
  <2>4. "server" \in Directives
    BY DEF Directives
  <2> QED
    BY <2>1, <2>3, <2>4
<1>3. CASE block = "location"
  BY <1>3, InLocationIs DEF Consumes
<1>4. CASE block = "cgi"
  <2>1. <<One("STRING"), One(";")>> \in Seq(Consume)
    BY ConsumeIs, ConsumesInOrder
  <2>2. Consumes["cgi"] = With(InLocation, "cgi_path", <<One("STRING"), One(";")>>)
    BY DEF Consumes
  <2>3. "cgi_path" \in Directives
    BY DEF Directives
  <2> QED
    BY <1>4, <2>1, <2>2, <2>3, InLocationIs DEF With
<1> QED
  BY <1>1, <1>2, <1>3, <1>4 DEF Blocks

(* The blocks that have been read.                                          *)

\* A server with a port, and servers that have one.
HasPort(server) == "port" \in DOMAIN server /\ server.port \in 0..UINT16_MAX
Ported(s) ==
  \E N \in Nat :
    /\ s = [k \in 1..N |-> s[k]]
    /\ \A k \in 1..N : HasPort(s[k])

\* Such a function is a sequence.
LEMMA IsSequence ==
  ASSUME NEW s, NEW N \in Nat, s = [k \in 1..N |-> s[k]]
  PROVE  \E S : s \in Seq(S) /\ Len(s) = N /\ DOMAIN s = 1..N
<1> DEFINE S == {s[k] : k \in 1..N}
<1>1. s \in [1..N -> S] /\ DOMAIN s = 1..N
  OBVIOUS
<1> HIDE DEF S
<1>2. s \in Seq(S) /\ Len(s) = N
  BY <1>1, SeqOfLength
<1> QED
  BY <1>1, <1>2

\* There is a port to begin with.
LEMMA NewServerPorted ==
  ASSUME NEW s, Ported(s)
  PROVE  Ported(Append(s, NewServer))
<1> DEFINE t == Append(s, NewServer)
<1>1. PICK N \in Nat : /\ s = [k \in 1..N |-> s[k]]
                       /\ \A k \in 1..N : HasPort(s[k])
  BY DEF Ported
<1>2. PICK S : s \in Seq(S) /\ Len(s) = N
  BY <1>1, IsSequence
<1>3. /\ t \in Seq(S \cup {NewServer}) /\ Len(t) = N + 1 /\ t[N + 1] = NewServer
      /\ \A k \in 1..N : t[k] = s[k]
  <2> HIDE DEF NewServer
  <2> QED
    BY <1>2
<1>4. HasPort(NewServer)
  <2>1. "port" \in DOMAIN NewServer /\ NewServer.port = 80
    BY DEF NewServer
  <2>2. 80 \in 0..UINT16_MAX
    BY DEF UINT16_MAX
  <2> QED
    BY <2>1, <2>2 DEF HasPort
<1> HIDE DEF t
<1>5. t = [k \in 1..(N + 1) |-> t[k]]
  BY <1>3
<1>6. ASSUME NEW k \in 1..(N + 1) PROVE HasPort(t[k])
  <2>1. CASE k = N + 1
    BY <1>3, <1>4, <2>1
  <2>2. CASE k # N + 1
    <3>1. k \in 1..N
      BY <2>2
    <3>2. t[k] = s[k]
      BY <1>3, <3>1
    <3> QED
      BY <1>1, <3>1, <3>2
  <2> QED
    BY <2>1, <2>2
<1>7. Ported(t)
  BY <1>5, <1>6 DEF Ported
<1> QED
  BY <1>7 DEF t

\* A block changed in another field, or given a port.
LEMMA ChangedPorted ==
  ASSUME NEW s, Ported(s), NEW new,
         HasPort(Last(s)) => HasPort(new)
  PROVE  Ported([s EXCEPT ![Len(s)] = new])
<1> DEFINE t == [s EXCEPT ![Len(s)] = new]
<1>1. PICK N \in Nat : /\ s = [k \in 1..N |-> s[k]]
                       /\ \A k \in 1..N : HasPort(s[k])
  BY DEF Ported
<1>2. Len(s) = N /\ DOMAIN s = 1..N
  BY <1>1, IsSequence
<1>3. t = [k \in 1..N |-> IF k = N THEN new ELSE s[k]]
  BY <1>2
<1> HIDE DEF t
<1>4. t = [k \in 1..N |-> t[k]]
  BY <1>3
<1>5. ASSUME NEW k \in 1..N PROVE HasPort(t[k])
  <2>1. CASE k = N
    <3>1. t[k] = new /\ Last(s) = s[k]
      BY <1>2, <1>3, <2>1 DEF Last
    <3> QED
      BY <1>1, <3>1
  <2>2. CASE k # N
    <3>1. t[k] = s[k]
      BY <1>3, <2>2
    <3> QED
      BY <1>1, <3>1
  <2> QED
    BY <2>1, <2>2
<1>6. Ported(t)
  BY <1>4, <1>5 DEF Ported
<1> QED
  BY <1>6 DEF t

\* There are at most as many addresses as blocks.
LEMMA AddressesCounted ==
  ASSUME NEW n \in Nat, NEW port, DOMAIN port = 1..n
  PROVE  LET T == {port[k] : k \in 1..n} IN IsFiniteSet(T) /\ Cardinality(T) \in 0..n
<1> DEFINE T == {port[k] : k \in 1..n}
           f == [k \in 1..n |-> port[k]]
<1>1. f \in Surjection(1..n, T)
  BY DEF Surjection
<1>2. IsFiniteSet(1..n) /\ Cardinality(1..n) = n
  BY FS_Interval
<1> HIDE DEF f, T
<1>3. IsFiniteSet(T) /\ Cardinality(T) <= Cardinality(1..n)
  BY <1>1, <1>2, FS_Surjection
<1>4. Cardinality(T) \in Nat
  BY <1>3, FS_CardinalityType
<1> QED
  BY <1>2, <1>3, <1>4 DEF T

\* Another field of a server can be changed.
LEMMA FieldChanged ==
  ASSUME NEW server, HasPort(server), NEW field, field # "port", NEW new
  PROVE  HasPort([server EXCEPT ![field] = new])
<1> DEFINE s == [server EXCEPT ![field] = new]
<1>1. DOMAIN s = DOMAIN server /\ ("port" \in DOMAIN server => s["port"] = server["port"])
  OBVIOUS
<1> HIDE DEF s
<1>2. HasPort(s)
  BY <1>1 DEF HasPort
<1> QED
  BY <1>2 DEF s
-----------------------------------------------------------------------------
(* The inductive invariant.                                                 *)
Parsing == {"start"} \cup Blocks

\* The first value of a listen directive that has consumed it.
PortRead ==
  Len(values) >= 1 /\ values[1] \in DOMAIN Numbers /\ Numbers[values[1]] \in Nat

TokensRead ==
  /\ phase = "start" => _tokens = <<>>
  /\ phase \in Blocks => Tape(_tokens)

DirectiveRead ==
  /\ expected \in Seq(Consume) /\ values \in Seq(Text0)
  /\ phase = "server" /\ directive = "listen" =>
       \/ expected = <<One("NUMBER"), One(";")>> /\ values = <<>>
       \/ expected \in {<<One(";")>>, <<>>} /\ PortRead

ServersRead ==
  /\ Ported(_servers) /\ Ported(servers)
  /\ phase \in Parsing => servers = <<>>

\* The sockets that listen are the first descriptors, and there are at most
\* as many of them as of addresses that have been tried.
SocketsOpened ==
  /\ phase \in Parsing \cup {"loaded"} => attempts = {} /\ DOMAIN _listen_fds = {}
  /\ IsFiniteSet(attempts)
  /\ \E n \in 0..Len(servers) :
       DOMAIN _listen_fds = 1..n /\ n + Cardinality(attempts) <= Len(servers)
  /\ \A s \in DOMAIN _listen_fds : _listen_fds[s] \notin attempts

IInv == TypeOK /\ TokensRead /\ DirectiveRead /\ ServersRead /\ SocketsOpened /\ AddressesServed

\* While the file is parsed, nothing listens.
LEMMA NothingListens ==
  ASSUME IInv, phase \in Parsing, phase' \in Parsing \cup {"loaded"}, UNCHANGED <<servers, sockets>>
  PROVE  SocketsOpened' /\ AddressesServed'
<1>1. phase \notin {"running"} /\ phase' \notin {"running"}
  BY DEF Parsing, Blocks
<1>2. UNCHANGED <<servers, attempts, _socket_configs, _listen_fds>>
  BY DEF sockets
<1>3. attempts = {} /\ DOMAIN _listen_fds = {}
  BY DEF IInv, SocketsOpened
<1>4. SocketsOpened'
  BY <1>2, <1>3 DEF IInv, SocketsOpened
<1>5. AddressesServed'
  BY <1>1, <1>2 DEF IInv, AddressesServed
<1> QED
  BY <1>4, <1>5

\* An exception leaves everything as it is.
LEMMA ThrowKeeps ==
  ASSUME IInv, phase \in Parsing, Throw
  PROVE  IInv'
<1>1. phase' = "loaded" /\ UNCHANGED <<loaded, parser, servers, sockets>>
  BY DEF Throw
<1>2. UNCHANGED <<_tokens, _index, directive, expected, values, _servers, servers>>
  BY <1>1 DEF parser, reading
<1>3. SocketsOpened' /\ AddressesServed'
  BY <1>1, NothingListens
<1>4. TypeOK'
  <2>1. UNCHANGED <<attempts, _socket_configs, _listen_fds>>
    BY <1>1 DEF sockets
  <2> QED
    BY <1>1, <1>2, <2>1 DEF IInv, TypeOK
<1>5. phase' \notin Parsing
  BY <1>1 DEF Parsing, Blocks
<1>6. TokensRead'
  BY <1>1, <1>5 DEF TokensRead, Parsing
<1>7. DirectiveRead'
  BY <1>1, <1>2 DEF IInv, DirectiveRead
<1>8. ServersRead'
  BY <1>2, <1>5 DEF IInv, ServersRead
<1> QED
  BY <1>3, <1>4, <1>6, <1>7, <1>8 DEF IInv

\* A directive that has been read changes the blocks.
LEMMA ReadKeeps ==
  ASSUME IInv, phase \in Blocks, phase' \in Blocks, directive' = "",
         UNCHANGED <<_index, expected, values>>, Constant, Ported(_servers')
  PROVE  IInv'
<1>1. UNCHANGED <<loaded, _tokens, servers, sockets>>
  BY DEF Constant
<1>2. SocketsOpened' /\ AddressesServed'
  BY <1>1, NothingListens DEF Parsing
<1>3. servers = <<>> /\ servers' = <<>>
  BY <1>1 DEF IInv, ServersRead, Parsing
<1>4. \A k \in DOMAIN _servers' : _servers'[k].port \in 0..UINT16_MAX
  <2>1. PICK t : t = _servers'
    OBVIOUS
  <2>2. PICK N \in Nat : t = [k \in 1..N |-> t[k]] /\ \A k \in 1..N : HasPort(t[k])
    BY <2>1 DEF Ported
  <2>3. \A k \in DOMAIN t : HasPort(t[k])
    BY <2>2
  <2>4. \A k \in DOMAIN t : t[k].port \in 0..UINT16_MAX
    BY ONLY <2>3 DEF HasPort
  <2> QED
    BY <2>1, <2>4
<1>5. TypeOK'
  <2>1. UNCHANGED <<attempts, _socket_configs, _listen_fds>>
    BY <1>1 DEF sockets
  <2>2. phase' \in DOMAIN Consumes
    BY InServerIs
  <2> QED
    BY <1>1, <1>3, <1>4, <2>1, <2>2 DEF IInv, TypeOK
<1>6. phase \notin {"start"} /\ phase' \notin {"start"}
  BY DEF Blocks
<1>7. TokensRead'
  BY <1>1, <1>6 DEF IInv, TokensRead
<1>8. DirectiveRead'
  BY DEF IInv, DirectiveRead
<1>9. ServersRead'
  BY <1>1, <1>3 DEF IInv, ServersRead
<1> QED
  BY <1>2, <1>5, <1>7, <1>8, <1>9 DEF IInv

\* The token to be looked at is not END when it is one that is consumed.
LEMMA TokenIs ==
  ASSUME IInv, phase \in Blocks
  PROVE  /\ Len(_tokens) \in Nat /\ _tokens # <<>> /\ _index \in 1..Len(_tokens)
         /\ Token.type # "END" => _index + 1 \in 1..Len(_tokens)
         /\ Token.value \in Text0
         /\ Token.type = "NUMBER" => Token.value \in DOMAIN Numbers /\ Numbers[Token.value] \in Nat
<1> DEFINE S == [type : Types, value : Text0]
<1>1. Tape(_tokens)
  BY DEF IInv, TokensRead
<1>2. _tokens \in Seq(S) /\ Len(_tokens) \in Nat /\ Len(_tokens) >= 1
  BY <1>1 DEF Tape
<1>3. _tokens # <<>>
  BY <1>2
<1>4. _index \in 1..Len(_tokens)
  BY <1>3 DEF IInv, TypeOK
<1>5. Token \in S
  <2> HIDE DEF S
  <2> QED
    BY <1>2, <1>4 DEF Token
<1>6. Token.value \in Text0
  BY <1>5
<1>7. Token.type = "NUMBER" => Token.value \in DOMAIN Numbers /\ Numbers[Token.value] \in Nat
  BY <1>1, <1>4 DEF Tape, Token
<1>8. ASSUME Token.type # "END" PROVE _index + 1 \in 1..Len(_tokens)
  <2>1. _tokens[Len(_tokens)].type = "END"
    BY <1>1 DEF Tape
  <2>2. _index # Len(_tokens)
    BY <1>8, <2>1 DEF Token
  <2> QED
    BY <1>2, <1>4, <2>2
<1> QED
  BY <1>2, <1>3, <1>4, <1>6, <1>7, <1>8

\* The parser goes on, with the block as it is.
LEMMA MovesKeep ==
  ASSUME IInv, phase \in Blocks, UNCHANGED <<phase, _servers>>, Constant,
         _index' \in 1..Len(_tokens), directive' \in Directives \cup {""}, DirectiveRead'
  PROVE  IInv'
<1>1. UNCHANGED <<loaded, _tokens, servers, sockets>>
  BY DEF Constant
<1>2. SocketsOpened' /\ AddressesServed'
  BY <1>1, NothingListens DEF Parsing
<1>3. _tokens # <<>>
  BY TokenIs
<1>4. UNCHANGED <<attempts, _socket_configs, _listen_fds>>
  BY <1>1 DEF sockets
<1>5. TypeOK'
  BY <1>1, <1>3, <1>4 DEF IInv, TypeOK
<1>6. TokensRead'
  BY <1>1 DEF IInv, TokensRead
<1>7. ServersRead'
  BY <1>1 DEF IInv, ServersRead
<1> QED
  BY <1>2, <1>5, <1>6, <1>7 DEF IInv

\* The directive is known, and the list of its consumes is that of the block.
LEMMA DirectiveKeeps ==
  ASSUME IInv, Directive
  PROVE  IInv'
<1>1. phase \in Blocks /\ Token.type \in DOMAIN Consumes[phase]
  BY InServerIs DEF Directive, InBlock
<1>2. /\ directive' = Token.type /\ expected' = Consumes[phase][Token.type] /\ values' = <<>>
      /\ _index' = _index + 1 /\ UNCHANGED <<phase, _servers>> /\ Constant
  BY DEF Directive
<1>3. Token.type \in Directives /\ expected' \in Seq(Consume)
  BY <1>1, <1>2, ConsumesAre
<1>4. Token.type # "END"
  BY <1>3 DEF Directives
<1>5. _index' \in 1..Len(_tokens)
  BY <1>1, <1>2, <1>4, TokenIs
<1>6. phase' = "server" /\ directive' = "listen" => expected' = <<One("NUMBER"), One(";")>>
  BY <1>2, InServerIs
<1>7. values' \in Seq(Text0)
  BY <1>2
<1>8. DirectiveRead'
  BY <1>2, <1>3, <1>6, <1>7 DEF DirectiveRead
<1> QED
  BY <1>1, <1>2, <1>3, <1>5, <1>8, MovesKeep

\* What is awaited, and what is left after it.
LEMMA AwaitedIs ==
  ASSUME IInv, expected # <<>>
  PROVE  Awaited \in Consume /\ Tail(expected) \in Seq(Consume)
<1>1. expected \in Seq(Consume)
  BY DEF IInv, DirectiveRead
<1> QED
  BY <1>1 DEF Awaited

\* What is left of the consumes of listen.
LEMMA OfListen ==
  /\ Head(<<One("NUMBER"), One(";")>>) = One("NUMBER") /\ Tail(<<One("NUMBER"), One(";")>>) = <<One(";")>>
  /\ Head(<<One(";")>>) = One(";") /\ Tail(<<One(";")>>) = <<>>
  /\ \A type : One(type).type = type /\ One(type).times = "one"
<1>1. \A type : One(type).type = type /\ One(type).times = "one"
  BY DEF One
<1>2. ASSUME NEW x, NEW y PROVE Head(<<x, y>>) = x /\ Tail(<<x, y>>) = <<y>> /\ Head(<<y>>) = y /\ Tail(<<y>>) = <<>>
  OBVIOUS
<1> QED
  BY <1>1, <1>2

\* A token that is awaited is consumed.
LEMMA ConsumeKeeps ==
  ASSUME IInv, consume
  PROVE  IInv'
<1>1. phase \in Blocks /\ expected # <<>> /\ Token.type = Awaited.type
  BY InServerIs DEF consume, InBlock
<1>2. /\ _index' = _index + 1
      /\ values' = IF Token.type \in {";", "{"} THEN values ELSE Append(values, Token.value)
      /\ expected' = IF Awaited.times = "many" THEN expected ELSE Tail(expected)
      /\ UNCHANGED <<phase, directive, _servers>> /\ Constant
  BY DEF consume
<1>3. Awaited \in Consume /\ Tail(expected) \in Seq(Consume)
  BY <1>1, AwaitedIs
<1>4. Token.type # "END"
  BY <1>1, <1>3 DEF Consume
<1>5. _index' \in 1..Len(_tokens)
  BY <1>1, <1>2, <1>4, TokenIs
<1>6. expected \in Seq(Consume) /\ values \in Seq(Text0)
  BY DEF IInv, DirectiveRead
<1>7. expected' \in Seq(Consume)
  BY <1>2, <1>3, <1>6
<1>8. values' \in Seq(Text0)
  <2>1. Token.value \in Text0
    BY <1>1, TokenIs
  <2>2. Append(values, Token.value) \in Seq(Text0)
    BY <1>6, <2>1
  <2> QED
    BY <1>2, <1>6, <2>2
<1>9. ASSUME phase = "server", directive = "listen"
      PROVE  expected' \in {<<One(";")>>, <<>>} /\ PortRead'
  <2>1. CASE expected = <<One("NUMBER"), One(";")>> /\ values = <<>>
    <3>1. Awaited = One("NUMBER") /\ Tail(expected) = <<One(";")>>
      BY <2>1, OfListen DEF Awaited
    <3>2. Token.type = "NUMBER" /\ Awaited.times # "many"
      BY <1>1, <3>1, OfListen
    <3>3. expected' = <<One(";")>> /\ values' = Append(<<>>, Token.value)
      BY <1>2, <2>1, <3>1, <3>2
    <3>4. Token.value \in DOMAIN Numbers /\ Numbers[Token.value] \in Nat
      BY <1>1, <3>2, TokenIs
    <3>5. Len(values') >= 1 /\ values'[1] = Token.value
      <4>1. ASSUME NEW x PROVE Len(Append(<<>>, x)) >= 1 /\ Append(<<>>, x)[1] = x
        OBVIOUS
      <4> QED
        BY ONLY <3>3, <4>1
    <3> QED
      BY <3>3, <3>4, <3>5 DEF PortRead
  <2>2. CASE expected \in {<<One(";")>>, <<>>} /\ PortRead
    <3>1. expected = <<One(";")>>
      BY <1>1, <2>2
    <3>2. Awaited = One(";") /\ Tail(expected) = <<>>
      BY <3>1, OfListen DEF Awaited
    <3>3. Token.type = ";" /\ Awaited.times # "many"
      BY <1>1, <3>2, OfListen
    <3>4. expected' = <<>> /\ values' = values
      BY <1>2, <3>2, <3>3
    <3> QED
      BY <2>2, <3>4 DEF PortRead
  <2> QED
    BY <1>9, <2>1, <2>2 DEF IInv, DirectiveRead
<1>10. DirectiveRead'
  BY <1>2, <1>7, <1>8, <1>9 DEF DirectiveRead
<1>11. directive' \in Directives \cup {""}
  BY <1>2 DEF IInv, TypeOK
<1> QED
  BY <1>1, <1>2, <1>5, <1>10, <1>11, MovesKeep

\* A repeated or optional token that is not there is passed over.
LEMMA GoOnKeeps ==
  ASSUME IInv, GoOn
  PROVE  IInv'
<1>1. phase \in Blocks /\ expected # <<>> /\ Awaited.times # "one"
  BY InServerIs DEF GoOn, InBlock
<1>2. expected' = Tail(expected) /\ UNCHANGED <<phase, _index, directive, values, _servers>> /\ Constant
  BY DEF GoOn
<1>3. expected' \in Seq(Consume)
  BY <1>1, <1>2, AwaitedIs
<1>4. ~ (phase = "server" /\ directive = "listen")
  <2> SUFFICES ASSUME phase = "server", directive = "listen" PROVE FALSE
    OBVIOUS
  <2>1. expected = <<One("NUMBER"), One(";")>> \/ expected \in {<<One(";")>>, <<>>}
    BY DEF IInv, DirectiveRead
  <2>2. Awaited = One("NUMBER") \/ Awaited = One(";")
    BY <1>1, <2>1, OfListen DEF Awaited
  <2> QED
    BY <1>1, <2>2, OfListen
<1>5. DirectiveRead'
  BY <1>2, <1>3, <1>4 DEF IInv, DirectiveRead
<1>6. _index' \in 1..Len(_tokens) /\ directive' \in Directives \cup {""}
  <2>1. _index \in 1..Len(_tokens)
    BY <1>1, TokenIs
  <2> QED
    BY <1>2, <2>1 DEF IInv, TypeOK
<1> QED
  BY <1>1, <1>2, <1>5, <1>6, MovesKeep

\* The directives that leave the servers as they are.
LEMMA ServersAsTheyWere ==
  ASSUME IInv, NEW block \in SUBSET Blocks, NEW d, Read(block, d), phase' \in Blocks, UNCHANGED _servers
  PROVE  IInv'
<1>1. phase \in Blocks /\ directive' = "" /\ UNCHANGED <<_index, expected, values>> /\ Constant
  BY DEF Read
<1>2. Ported(_servers')
  BY DEF IInv, ServersRead
<1> QED
  BY <1>1, <1>2, ReadKeeps

\* Those that change the last server.
LEMMA ServerChanged ==
  ASSUME IInv, NEW block \in SUBSET Blocks, NEW d, Read(block, d), phase' \in Blocks,
         NEW new, Becomes(new), HasPort(Current) => HasPort(new)
  PROVE  IInv'
<1>1. phase \in Blocks /\ directive' = "" /\ UNCHANGED <<_index, expected, values>> /\ Constant
  BY DEF Read
<1>2. Ported(_servers')
  <2>1. Ported(_servers)
    BY DEF IInv, ServersRead
  <2>2. Ported([_servers EXCEPT ![Len(_servers)] = new])
    BY <2>1, ChangedPorted DEF Current
  <2> QED
    BY <2>2 DEF Becomes
<1> QED
  BY <1>1, <1>2, ReadKeeps

\* The port of a listen directive is one of 16 bits.
LEMMA ListenKeeps ==
  ASSUME IInv, parseListenDirective
  PROVE  IInv'
<1> DEFINE port == IF Number(1) > UINT16_MAX THEN UINT16_MAX ELSE Number(1)
           new == [Current EXCEPT !.host = "0.0.0.0", !.port = port]
<1>1. Read({"server"}, "listen") /\ phase' = phase /\ Becomes(new)
  BY DEF parseListenDirective, InServer
<1>2. phase = "server" /\ directive = "listen" /\ expected = <<>>
  BY <1>1 DEF Read
<1>3. PortRead
  BY <1>2 DEF IInv, DirectiveRead
<1>4. Number(1) \in Nat
  BY <1>3 DEF PortRead, Number
<1>5. UINT16_MAX \in Nat
  BY DEF UINT16_MAX
<1>6. port \in 0..UINT16_MAX
  BY <1>4, <1>5
<1> HIDE DEF port
<1>7. HasPort(Current) => HasPort(new)
  BY <1>6 DEF HasPort
<1> HIDE DEF new
<1>8. {"server"} \in SUBSET Blocks /\ phase' \in Blocks
  BY <1>1, <1>2 DEF Blocks
<1> QED
  BY <1>1, <1>7, <1>8, ServerChanged

\* The other directives of a server.
LEMMA ServerKeeps ==
  ASSUME IInv,
         \/ parseServerNameDirective \/ parseErrorPageDirective
         \/ parseClientMaxBodySizeDirective \/ EndOfLocation
  PROVE  IInv'
<1>1. {"server"} \in SUBSET Blocks /\ Locations \in SUBSET Blocks
  BY DEF Blocks, Locations
<1>2. ASSUME NEW d, InServer(d) PROVE Read({"server"}, d) /\ phase' \in Blocks
  BY <1>2 DEF InServer, Read, Blocks
<1>3. CASE parseServerNameDirective
  <2> DEFINE new == [Current EXCEPT !.serverNames = values]
  <2>1. HasPort(Current) => HasPort(new)
    BY FieldChanged
  <2>2. InServer("server_name") /\ Becomes(new)
    BY <1>3 DEF parseServerNameDirective
  <2> HIDE DEF new
  <2> QED
    BY <1>1, <1>2, <2>1, <2>2, ServerChanged
<1>4. CASE parseErrorPageDirective
  <2> DEFINE new == [Current EXCEPT !.errorPages =
                       WithAll(@, {Short(Number(k)) : k \in 1..(Len(values) - 1)}, Last(values))]
  <2>1. HasPort(Current) => HasPort(new)
    BY FieldChanged
  <2>2. InServer("error_page") /\ Becomes(new)
    BY <1>4 DEF parseErrorPageDirective
  <2> HIDE DEF new
  <2> QED
    BY <1>1, <1>2, <2>1, <2>2, ServerChanged
<1>5. CASE parseClientMaxBodySizeDirective
  <2> DEFINE new == [Current EXCEPT !.clientMaxBodySize = Number(1) * Sizes[Value(2)]]
  <2>1. HasPort(Current) => HasPort(new)
    BY FieldChanged
  <2>2. InServer("client_max_body_size") /\ Becomes(new)
    BY <1>5 DEF parseClientMaxBodySizeDirective
  <2> HIDE DEF new
  <2> QED
    BY <1>1, <1>2, <2>1, <2>2, ServerChanged
<1>6. CASE EndOfLocation
  <2> DEFINE new == [Current EXCEPT !.locations = Append(@, location)]
  <2>1. HasPort(Current) => HasPort(new)
    BY FieldChanged
  <2>2. Read(Locations, "}") /\ Becomes(new) /\ phase' \in Blocks
    BY <1>6 DEF EndOfLocation, Blocks
  <2> HIDE DEF new
  <2> QED
    BY <1>1, <2>1, <2>2, ServerChanged
<1> QED
  BY <1>3, <1>4, <1>5, <1>6

\* The directives of locations, and the ends of servers.
LEMMA LocationKeeps ==
  ASSUME IInv,
         \/ EndOfServer \/ LocationBlock \/ Root \/ Index \/ Autoindex \/ AllowedMethods
         \/ IgnoredErrorPage \/ parseUploadStoreDirective \/ parseRedirectDirective
         \/ parseReturnDirective \/ parseCgiDirective \/ CgiPath
  PROVE  IInv'
<1>1. {"server"} \in SUBSET Blocks /\ Locations \in SUBSET Blocks /\ {"cgi"} \in SUBSET Blocks
  BY DEF Blocks, Locations
<1>2. ASSUME NEW d, NEW new, Sets(d, new)
      PROVE  Read(Locations, d) /\ UNCHANGED _servers /\ phase' \in Blocks
  BY <1>2 DEF Sets, Blocks
<1>3. \E d : \/ Read(Locations, d) \/ Read({"server"}, d) \/ Read({"cgi"}, d)
  <2>1. CASE EndOfServer \/ LocationBlock
    BY <2>1 DEF EndOfServer, LocationBlock
  <2>2. CASE parseCgiDirective \/ CgiPath
    BY <2>2 DEF parseCgiDirective, CgiPath
  <2>3. CASE \/ Root \/ Index \/ Autoindex \/ AllowedMethods \/ IgnoredErrorPage
             \/ parseUploadStoreDirective \/ parseRedirectDirective \/ parseReturnDirective
    BY <1>2, <2>3 DEF Root, Index, Autoindex, AllowedMethods, IgnoredErrorPage,
         parseUploadStoreDirective, parseRedirectDirective, parseReturnDirective
  <2> QED
    BY <2>1, <2>2, <2>3
<1>4. UNCHANGED _servers /\ phase' \in Blocks
  <2>1. CASE EndOfServer \/ LocationBlock
    BY <2>1 DEF EndOfServer, LocationBlock, Blocks
  <2>2. CASE parseCgiDirective
    BY <2>2 DEF parseCgiDirective, Blocks
  <2>3. CASE CgiPath
    BY <2>3 DEF CgiPath, Read, Blocks
  <2>4. CASE \/ Root \/ Index \/ Autoindex \/ AllowedMethods \/ IgnoredErrorPage
             \/ parseUploadStoreDirective \/ parseRedirectDirective \/ parseReturnDirective
    BY <1>2, <2>4 DEF Root, Index, Autoindex, AllowedMethods, IgnoredErrorPage,
         parseUploadStoreDirective, parseRedirectDirective, parseReturnDirective
  <2> QED
    BY <2>1, <2>2, <2>3, <2>4
<1> QED
  BY <1>1, <1>3, <1>4, ServersAsTheyWere

\* The block of a server.
LEMMA ServerBlockKeeps ==
  ASSUME IInv, ServerBlock
  PROVE  IInv'
<1>1. /\ phase \in Blocks /\ directive' = "" /\ UNCHANGED <<_index, expected, values>> /\ Constant
      /\ phase' \in Blocks /\ _servers' = Append(_servers, NewServer)
  BY DEF ServerBlock, Read, Blocks
<1>2. Ported(_servers')
  BY <1>1, NewServerPorted DEF IInv, ServersRead
<1> QED
  BY <1>1, <1>2, ReadKeeps

\* Every step of the parser.
LEMMA ParserKeeps ==
  ASSUME IInv, ParserStep
  PROVE  IInv'
<1>1. CASE UnknownDirective \/ UnexpectedToken \/ NeitherOnNorOff
  <2>1. phase \in Parsing /\ Throw
    BY <1>1, InServerIs DEF UnknownDirective, UnexpectedToken, NeitherOnNorOff, InBlock,
         Parsing, Blocks, Locations
  <2> QED
    BY <2>1, ThrowKeeps
<1>2. CASE Directive \/ consume \/ GoOn
  BY <1>2, DirectiveKeeps, ConsumeKeeps, GoOnKeeps
<1> QED
  BY <1>1, <1>2, ServerBlockKeeps, ListenKeeps, ServerKeeps, LocationKeeps DEF ParserStep
-----------------------------------------------------------------------------
(* Before and after parsing.                                                *)

\* Nothing is a sequence of servers.
LEMMA NoServers == Ported(<<>>) /\ Len(<<>>) = 0
<1>1. <<>> = [k \in 1..0 |-> <<>>[k]]
  OBVIOUS
<1> QED
  BY <1>1 DEF Ported

\* The empty sequence.
LEMMA Nothing ==
  ASSUME NEW s, s = <<>>
  PROVE  DOMAIN s = {} /\ Len(s) = 0 /\ 0..0 = {0} /\ 1..0 = {} /\ \A S : s \in Seq(S)
<1>1. DOMAIN <<>> = {}
  OBVIOUS
<1> QED
  BY <1>1

\* At first there are no servers, tokens or sockets.
LEMMA InitHolds ==
  ASSUME Init
  PROVE  IInv
<1>1. /\ phase = "start" /\ loaded = FALSE /\ _tokens = <<>> /\ _index = 1 /\ directive = ""
      /\ expected = <<>> /\ values = <<>> /\ _servers = <<>> /\ servers = <<>> /\ attempts = {}
  BY DEF Init
<1>2. DOMAIN _listen_fds = {} /\ DOMAIN _socket_configs = {}
  BY DEF Init
<1>3. TypeOK
  <2>1. \A k \in DOMAIN _servers : _servers[k].port \in 0..UINT16_MAX
    <3>1. DOMAIN _servers = {}
      BY <1>1, Nothing
    <3> QED
      BY ONLY <3>1
  <2>2. _index \in 1..(IF _tokens = <<>> THEN 1 ELSE Len(_tokens))
    <3>1. _tokens = <<>> /\ _index = 1
      BY <1>1
    <3>2. 1 \in 1..1
      OBVIOUS
    <3> QED
      BY ONLY <3>1, <3>2
  <2> QED
    BY <1>1, <1>2, <2>1, <2>2 DEF TypeOK
<1>4. TokensRead
  BY <1>1 DEF TokensRead, Blocks
<1>5. DirectiveRead
  <2>1. expected \in Seq(Consume) /\ values \in Seq(Text0)
    BY <1>1, Nothing
  <2> QED
    BY <1>1, <2>1 DEF DirectiveRead
<1>6. ServersRead
  BY <1>1, NoServers DEF ServersRead
<1>7. SocketsOpened
  <2>1. IsFiniteSet({}) /\ Cardinality({}) = 0
    BY FS_EmptySet
  <2>2. Len(servers) = 0 /\ 1..0 = {}
    BY <1>1, Nothing
  <2>3. 0 \in 0..Len(servers)
    BY <2>2
  <2>5. DOMAIN _listen_fds = 1..0
    BY ONLY <1>2, <2>2
  <2>6. Cardinality(attempts) = 0
    BY <1>1, <2>1
  <2>4. DOMAIN _listen_fds = 1..0 /\ 0 + Cardinality(attempts) <= Len(servers)
    BY <2>2, <2>5, <2>6
  <2> QED
    BY <1>1, <1>2, <2>1, <2>3, <2>4 DEF SocketsOpened
<1>8. AddressesServed
  BY <1>1, <1>2 DEF AddressesServed
<1> QED
  BY <1>3, <1>4, <1>5, <1>6, <1>7, <1>8 DEF IInv

\* main ends at once, or there are tokens.
LEMMA StartKeeps ==
  ASSUME IInv, Unopened \/ Tokenized, file \in Files
  PROVE  IInv'
<1>1. /\ phase = "start" /\ phase' \in {"exited", "servers"}
      /\ UNCHANGED <<loaded, _index, directive, expected, values, _servers, servers,
                      attempts, _socket_configs, _listen_fds>>
  BY DEF Unopened, Tokenized, parser, reading, sockets
<1>2. phase' = "servers" => ~Negative(file) /\ _tokens' = tokenize(file)
  BY DEF Unopened, Tokenized
<1>3. phase' = "exited" => _tokens' = _tokens
  BY DEF Unopened, Tokenized, parser
<1>4. phase' = "servers" => Tape(_tokens')
  BY <1>2, TokensAre
<1>5. _tokens = <<>> /\ _index = 1 /\ servers = <<>> /\ attempts = {} /\ DOMAIN _listen_fds = {}
  <2>1. _tokens = <<>>
    BY <1>1 DEF IInv, TokensRead
  <2>2. _index \in 1..1
    BY <2>1 DEF IInv, TypeOK
  <2>3. phase \in Parsing
    BY <1>1 DEF Parsing
  <2>4. servers = <<>>
    BY <2>3 DEF IInv, ServersRead
  <2>5. attempts = {} /\ DOMAIN _listen_fds = {}
    BY <2>3 DEF IInv, SocketsOpened
  <2> QED
    BY <2>1, <2>2, <2>4, <2>5
<1>6. TypeOK'
  <2>1. _index' \in 1..(IF _tokens' = <<>> THEN 1 ELSE Len(_tokens'))
    <3>1. CASE phase' = "exited"
      BY <1>1, <1>3, <1>5, <3>1
    <3>2. CASE phase' = "servers"
      <4>1. Len(_tokens') \in Nat /\ Len(_tokens') >= 1
        BY <1>4, <3>2 DEF Tape
      <4> QED
        BY <1>1, <1>5, <4>1
    <3> QED
      BY <1>1, <3>1, <3>2
  <2>2. phase' \in DOMAIN Consumes \cup {"start", "loaded", "listening", "running", "exited"}
    BY <1>1, InServerIs DEF Blocks
  <2> QED
    BY <1>1, <2>1, <2>2 DEF IInv, TypeOK
<1>7. TokensRead'
  BY <1>1, <1>4 DEF TokensRead, Blocks
<1>8. DirectiveRead'
  BY <1>1 DEF IInv, DirectiveRead
<1>9. ServersRead'
  BY <1>1, <1>5 DEF IInv, ServersRead
<1>10. SocketsOpened'
  BY <1>1, <1>5 DEF IInv, SocketsOpened
<1>11. AddressesServed'
  BY <1>1, <1>5 DEF AddressesServed
<1> QED
  BY <1>6, <1>7, <1>8, <1>9, <1>10, <1>11 DEF IInv

\* The blocks that were read become those of the server.
LEMMA LoadKeeps ==
  ASSUME IInv, loadConfig
  PROVE  IInv'
<1>1. /\ phase = "servers" /\ phase' = "loaded" /\ servers' = _servers /\ loaded' = TRUE
      /\ UNCHANGED <<_tokens, _index, directive, expected, values, _servers,
                      attempts, _socket_configs, _listen_fds>>
  BY DEF loadConfig, parser, reading, sockets
<1>2. phase \in Parsing /\ phase' \notin Parsing /\ phase' \notin Blocks
  BY <1>1 DEF Parsing, Blocks
<1>3. attempts = {} /\ DOMAIN _listen_fds = {}
  BY <1>2 DEF IInv, SocketsOpened
<1>4. TypeOK'
  BY <1>1 DEF IInv, TypeOK
<1>5. TokensRead'
  BY <1>1, <1>2 DEF TokensRead
<1>6. DirectiveRead'
  BY <1>1 DEF IInv, DirectiveRead
<1>7. ServersRead'
  BY <1>1, <1>2 DEF IInv, ServersRead
<1>8. SocketsOpened'
  <2>1. IsFiniteSet({}) /\ Cardinality({}) = 0
    BY FS_EmptySet
  <2>2. Len(servers') \in Nat
    <3>1. Ported(_servers)
      BY DEF IInv, ServersRead
    <3>2. \A s : Ported(s) => Len(s) \in Nat
      BY IsSequence DEF Ported
    <3> QED
      BY <1>1, <3>1, <3>2
  <2>3. 0 \in 0..Len(servers') /\ 1..0 = {}
    BY <2>2
  <2>4. DOMAIN _listen_fds' = 1..0 /\ 0 + Cardinality(attempts') <= Len(servers')
    BY <1>1, <1>3, <2>1, <2>2, <2>3
  <2> QED
    BY <1>1, <1>3, <2>1, <2>3, <2>4 DEF SocketsOpened
<1>9. AddressesServed'
  BY <1>1, <1>3 DEF AddressesServed
<1> QED
  BY <1>4, <1>5, <1>6, <1>7, <1>8, <1>9 DEF IInv

\* The servers, as listening finds them.
LEMMA ServersAre ==
  ASSUME IInv
  PROVE  /\ Len(servers) \in Nat /\ DOMAIN servers = 1..Len(servers)
         /\ \A k \in 1..Len(servers) : servers[k].port \in 0..UINT16_MAX
<1>1. PICK N \in Nat : servers = [k \in 1..N |-> servers[k]] /\ \A k \in 1..N : HasPort(servers[k])
  BY DEF IInv, ServersRead, Ported
<1>2. Len(servers) = N /\ DOMAIN servers = 1..N
  BY <1>1, IsSequence
<1>3. \A k \in 1..N : servers[k].port \in 0..UINT16_MAX
  BY ONLY <1>1 DEF HasPort
<1> QED
  BY <1>2, <1>3

\* There are at most as many addresses to listen on as blocks.
LEMMA StartServerKeeps ==
  ASSUME IInv, StartServer
  PROVE  IInv'
<1>1. /\ phase = "loaded" /\ phase' = "listening"
      /\ attempts' = {servers[k].port : k \in DOMAIN servers}
      /\ UNCHANGED <<loaded, _tokens, _index, directive, expected, values, _servers, servers,
                      _socket_configs, _listen_fds>>
  BY DEF StartServer, parser, reading
<1>2. phase' \notin Parsing /\ phase' \notin Blocks
  BY <1>1 DEF Parsing, Blocks
<1>3. DOMAIN _listen_fds = {}
  BY <1>1 DEF IInv, SocketsOpened
<1>4. attempts' \subseteq 0..UINT16_MAX
  BY <1>1, ServersAre
<1>5. TypeOK'
  BY <1>1, <1>4 DEF IInv, TypeOK
<1>6. TokensRead'
  BY <1>1, <1>2 DEF TokensRead
<1>7. DirectiveRead'
  BY <1>1 DEF IInv, DirectiveRead
<1>8. ServersRead'
  BY <1>1, <1>2 DEF IInv, ServersRead
<1>9. SocketsOpened'
  <2> DEFINE port == [k \in 1..Len(servers) |-> servers[k].port]
             T == {port[k] : k \in 1..Len(servers)}
  <2>1. Len(servers) \in Nat /\ DOMAIN servers = 1..Len(servers)
    BY ServersAre
  <2>2. DOMAIN port = 1..Len(servers)
    OBVIOUS
  <2>3. attempts' = T
    BY <1>1, <2>1
  <2> HIDE DEF port
  <2>4. IsFiniteSet(T) /\ Cardinality(T) \in 0..Len(servers)
    BY <2>1, <2>2, AddressesCounted
  <2> HIDE DEF T
  <2>5. 0 \in 0..Len(servers) /\ 1..0 = {} /\ Cardinality(T) <= Len(servers) /\ 0 + Cardinality(T) <= Len(servers)
    BY <2>1, <2>4
  <2>6. DOMAIN _listen_fds' = 1..0 /\ 0 \in 0..Len(servers') /\ 0 + Cardinality(attempts') <= Len(servers')
    BY <1>1, <1>3, <2>3, <2>5
  <2>7. phase' \notin Parsing \cup {"loaded"}
    BY <1>1, <1>2
  <2> QED
    BY <1>1, <1>3, <2>3, <2>4, <2>6, <2>7 DEF SocketsOpened
<1>10. AddressesServed'
  BY <1>1, <1>3 DEF AddressesServed
<1> QED
  BY <1>5, <1>6, <1>7, <1>8, <1>9, <1>10 DEF IInv

(* Listening.                                                               *)

\* The next descriptor is the one after those that listen.
LEMMA SocketIs ==
  ASSUME NEW n \in Nat, DOMAIN _listen_fds = 1..n, Len(servers) \in Nat, n <= Len(servers)
  PROVE  Socket = n + 1
<1>1. n + 1 \in 1..(Len(servers) + 1) /\ n + 1 \notin 1..n /\ \A lower \in 1..((n + 1) - 1) : lower \in 1..n
  OBVIOUS
<1>2. ASSUME NEW s \in 1..(Len(servers) + 1), s \notin 1..n, \A lower \in 1..(s - 1) : lower \in 1..n
      PROVE  s = n + 1
  <2>1. s > n
    BY <1>2
  <2>2. ~ (s > n + 1)
    <3> SUFFICES ASSUME s > n + 1 PROVE FALSE
      OBVIOUS
    <3>1. n + 1 \in 1..(s - 1)
      OBVIOUS
    <3> QED
      BY <1>2, <3>1
  <2> QED
    BY <2>1, <2>2
<1>3. Socket = CHOOSE s \in 1..(Len(servers) + 1) : s \notin 1..n /\ \A lower \in 1..(s - 1) : lower \in 1..n
  BY DEF Socket
<1>4. \E s \in 1..(Len(servers) + 1) : s \notin 1..n /\ \A lower \in 1..(s - 1) : lower \in 1..n
  BY <1>1
<1> QED
  BY <1>2, <1>3, <1>4

\* What an attempt begins with.
LEMMA AttemptIs ==
  ASSUME IInv, NEW port \in attempts, Attempt(port)
  PROVE  /\ UNCHANGED <<loaded, _tokens, _index, directive, expected, values, _servers, servers, phase>>
         /\ phase = "listening" /\ attempts' = attempts \ {port} /\ IsFiniteSet(attempts')
         /\ \E n \in Nat : /\ DOMAIN _listen_fds = 1..n /\ Socket = n + 1
                           /\ n + 1 \in 0..Len(servers)
                           /\ n + 1 + Cardinality(attempts') <= Len(servers)
<1>1. /\ UNCHANGED <<loaded, _tokens, _index, directive, expected, values, _servers, servers, phase>>
      /\ phase = "listening" /\ attempts' = attempts \ {port}
  BY DEF Attempt, parser, reading
<1>2. PICK n \in 0..Len(servers) :
        DOMAIN _listen_fds = 1..n /\ n + Cardinality(attempts) <= Len(servers)
  BY DEF IInv, SocketsOpened
<1>3. IsFiniteSet(attempts)
  BY DEF IInv, SocketsOpened
<1>4. IsFiniteSet(attempts') /\ Cardinality(attempts') = Cardinality(attempts) - 1
  BY <1>1, <1>3, FS_RemoveElement
<1>5. Cardinality(attempts) \in Nat /\ Cardinality(attempts') \in Nat
  BY <1>3, <1>4, FS_CardinalityType
<1>6. Len(servers) \in Nat
  BY ServersAre
<1>7. n \in Nat /\ n <= Len(servers)
  BY <1>2, <1>6
<1>8. Socket = n + 1
  BY <1>2, <1>6, <1>7, SocketIs
<1>9. n + 1 \in 0..Len(servers) /\ n + 1 + Cardinality(attempts') <= Len(servers)
  BY <1>2, <1>4, <1>5, <1>6, <1>7
<1> QED
  BY <1>1, <1>2, <1>4, <1>7, <1>8, <1>9

\* What does not depend on the sockets stays as it is during an attempt.
LEMMA AttemptKeeps ==
  ASSUME IInv, NEW port \in attempts, Attempt(port), SocketsOpened', AddressesServed',
         DOMAIN _listen_fds' \subseteq DOMAIN _socket_configs'
  PROVE  IInv'
<1>1. /\ UNCHANGED <<loaded, _tokens, _index, directive, expected, values, _servers, servers, phase>>
      /\ attempts' \subseteq attempts
  BY AttemptIs
<1>2. TypeOK'
  BY <1>1 DEF IInv, TypeOK
<1>3. TokensRead'
  BY <1>1 DEF IInv, TokensRead
<1>4. DirectiveRead'
  BY <1>1 DEF IInv, DirectiveRead, PortRead
<1>5. ServersRead'
  BY <1>1 DEF IInv, ServersRead
<1> QED
  BY <1>2, <1>3, <1>4, <1>5 DEF IInv

\* A socket that listens is served as the property says.
Served(s) ==
  /\ ToSet(_socket_configs[s]) = {k \in DOMAIN servers : servers[k].port = _listen_fds[s]}
  /\ Ascending(_socket_configs[s])
  /\ \A other \in DOMAIN _listen_fds \ {s} : _listen_fds[other] # _listen_fds[s]

\* The property, by socket.
LEMMA AllServed ==
  AddressesServed <=>
    (\A s \in DOMAIN _listen_fds : Served(s)) /\ (phase = "running" => _listen_fds # << >>)
BY DEF AddressesServed, Served, Ascending

\* The blocks of an address are all of them, in the order of the file.
LEMMA GroupIs ==
  ASSUME IInv, NEW port
  PROVE  /\ ToSet(addressGroups(port)) = {k \in DOMAIN servers : servers[k].port = port}
         /\ Ascending(addressGroups(port))
<1> DEFINE T == {k \in DOMAIN servers : servers[k].port = port}
<1>1. Len(servers) \in Nat /\ DOMAIN servers = 1..Len(servers)
  BY ServersAre
<1>2. addressGroups(port) = Selected([k \in 1..Len(servers) |-> k], T)
  BY <1>1 DEF addressGroups
<1>3. T \subseteq 1..Len(servers)
  BY <1>1
<1> HIDE DEF T
<1>4. ToSet(addressGroups(port)) = T /\ Ascending(addressGroups(port))
  BY <1>1, <1>2, <1>3, PlacesSelected
<1> QED
  BY <1>4 DEF T

\* Whatever fails, the sockets that listen are served as before.
LEMMA FailureKeeps ==
  ASSUME IInv, NEW port \in attempts, NoSocket(port) \/ ListenFails(port)
  PROVE  IInv'
<1>1. Attempt(port) /\ UNCHANGED _listen_fds
  BY DEF NoSocket, ListenFails
<1>2. PICK n \in Nat : /\ DOMAIN _listen_fds = 1..n /\ Socket = n + 1
                       /\ n + 1 \in 0..Len(servers)
                       /\ n + 1 + Cardinality(attempts') <= Len(servers)
  BY <1>1, AttemptIs
<1>3. UNCHANGED <<servers, phase>> /\ phase = "listening" /\ attempts' = attempts \ {port} /\ IsFiniteSet(attempts')
  BY <1>1, AttemptIs
<1>4. Cardinality(attempts') \in Nat /\ Len(servers) \in Nat
  BY <1>3, FS_CardinalityType, ServersAre
<1>5. DOMAIN _socket_configs \subseteq DOMAIN _socket_configs'
      /\ \A s \in 1..n : s \in DOMAIN _socket_configs => _socket_configs'[s] = _socket_configs[s]
  <2>1. CASE NoSocket(port)
    BY <2>1 DEF NoSocket
  <2>2. CASE ListenFails(port)
    <3>1. _socket_configs' = With(_socket_configs, n + 1, addressGroups(port))
      BY <1>2, <2>2 DEF ListenFails, Notes
    <3>2. \A s \in 1..n : s # n + 1
      OBVIOUS
    <3> QED
      BY <3>1, <3>2 DEF With
  <2> QED
    BY <2>1, <2>2
<1>6. DOMAIN _listen_fds \subseteq DOMAIN _socket_configs
  BY DEF IInv, TypeOK
<1>7. SocketsOpened'
  <2>1. n \in 0..Len(servers') /\ n + Cardinality(attempts') <= Len(servers')
    BY <1>2, <1>3, <1>4
  <2>2. phase' \notin Parsing \cup {"loaded"}
    BY <1>3 DEF Parsing, Blocks
  <2>3. \A s \in DOMAIN _listen_fds' : _listen_fds'[s] \notin attempts'
    BY <1>1, <1>3 DEF IInv, SocketsOpened
  <2> QED
    BY <1>1, <1>2, <1>3, <2>1, <2>2, <2>3 DEF SocketsOpened
<1>8. AddressesServed'
  <2>1. \A s \in DOMAIN _listen_fds : Served(s)
    BY AllServed DEF IInv
  <2>2. \A s \in DOMAIN _listen_fds' : Served(s)'
    BY <1>1, <1>2, <1>3, <1>5, <1>6, <2>1 DEF Served
  <2>3. phase' # "running"
    BY <1>3
  <2>4. AddressesServed' <=>
          (\A s \in DOMAIN _listen_fds' : Served(s)') /\ (phase' = "running" => _listen_fds' # << >>)
    BY DEF AddressesServed, Served, Ascending
  <2> QED
    BY <2>2, <2>3, <2>4
<1> QED
  BY <1>1, <1>5, <1>6, <1>7, <1>8, AttemptKeeps

\* A new socket has an address of its own, and its blocks.
LEMMA ListenKeepsSockets ==
  ASSUME IInv, NEW port \in attempts, listenOnAddr(port)
  PROVE  IInv'
<1>1. Attempt(port)
  BY DEF listenOnAddr
<1>2. PICK n \in Nat : /\ DOMAIN _listen_fds = 1..n /\ Socket = n + 1
                       /\ n + 1 \in 0..Len(servers)
                       /\ n + 1 + Cardinality(attempts') <= Len(servers)
  BY <1>1, AttemptIs
<1>3. UNCHANGED <<servers, phase>> /\ phase = "listening" /\ attempts' = attempts \ {port} /\ IsFiniteSet(attempts')
  BY <1>1, AttemptIs
<1>4. /\ _socket_configs' = With(_socket_configs, n + 1, addressGroups(port))
      /\ _listen_fds' = With(_listen_fds, n + 1, port)
  BY <1>2 DEF listenOnAddr, Notes
<1>5. DOMAIN _listen_fds' = 1..(n + 1)
  <2>1. (1..n) \cup {n + 1} = 1..(n + 1)
    OBVIOUS
  <2> QED
    BY <1>2, <1>4, <2>1 DEF With
<1>6. /\ _listen_fds'[n + 1] = port /\ _socket_configs'[n + 1] = addressGroups(port)
      /\ \A s \in 1..n : s # n + 1 /\ _listen_fds'[s] = _listen_fds[s]
  <2>1. \A s \in 1..n : s # n + 1
    OBVIOUS
  <2> QED
    BY <1>2, <1>4, <2>1 DEF With
<1>7. DOMAIN _listen_fds \subseteq DOMAIN _socket_configs
  BY DEF IInv, TypeOK
<1>8. /\ DOMAIN _listen_fds' \subseteq DOMAIN _socket_configs'
      /\ \A s \in 1..n : _socket_configs'[s] = _socket_configs[s]
  <2>1. DOMAIN _socket_configs' = DOMAIN _socket_configs \cup {n + 1}
        /\ DOMAIN _listen_fds' = DOMAIN _listen_fds \cup {n + 1}
    BY <1>4 DEF With
  <2>2. \A s \in 1..n : s # n + 1 /\ s \in DOMAIN _socket_configs
    BY <1>2, <1>6, <1>7
  <2> QED
    BY <1>4, <1>7, <2>1, <2>2 DEF With
<1>9. \A s \in 1..(n + 1) : s = n + 1 \/ s \in 1..n
  OBVIOUS
<1>10. \A s \in 1..n : _listen_fds[s] \notin attempts
  BY <1>2 DEF IInv, SocketsOpened
<1>11. SocketsOpened'
  <2>1. n + 1 \in 0..Len(servers') /\ n + 1 + Cardinality(attempts') <= Len(servers')
    BY <1>2, <1>3
  <2>2. phase' \notin Parsing \cup {"loaded"}
    BY <1>3 DEF Parsing, Blocks
  <2>3. \A s \in DOMAIN _listen_fds' : _listen_fds'[s] \notin attempts'
    BY <1>3, <1>5, <1>6, <1>9, <1>10
  <2> QED
    BY <1>3, <1>5, <2>1, <2>2, <2>3 DEF SocketsOpened
<1>12. ASSUME NEW s \in DOMAIN _listen_fds' PROVE Served(s)'
  <2>1. CASE s \in 1..n
    <3>1. Served(s)
      BY <1>2, <2>1, AllServed DEF IInv
    <3>2. \A other \in DOMAIN _listen_fds' \ {s} : _listen_fds'[other] # _listen_fds'[s]
      <4> TAKE other \in DOMAIN _listen_fds' \ {s}
      <4>1. CASE other = n + 1
        <5>1. _listen_fds'[other] = port /\ _listen_fds[s] # port
          BY <1>6, <1>10, <2>1, <4>1
        <5> QED
          BY <1>6, <2>1, <5>1
      <4>2. CASE other \in 1..n
        BY <1>2, <1>6, <2>1, <3>1, <4>2 DEF Served
      <4> QED
        BY <1>5, <1>9, <4>1, <4>2
    <3>3. _socket_configs'[s] = _socket_configs[s] /\ _listen_fds'[s] = _listen_fds[s]
      BY <1>6, <1>8, <2>1
    <3> QED
      BY <1>3, <3>1, <3>2, <3>3 DEF Served
  <2>2. CASE s = n + 1
    <3>1. /\ ToSet(_socket_configs'[s]) = {k \in DOMAIN servers' : servers'[k].port = _listen_fds'[s]}
          /\ Ascending(_socket_configs'[s])
      BY <1>3, <1>6, <2>2, GroupIs
    <3>2. \A other \in DOMAIN _listen_fds' \ {s} : _listen_fds'[other] # _listen_fds'[s]
      BY <1>5, <1>6, <1>9, <1>10, <2>2
    <3> QED
      BY <3>1, <3>2 DEF Served
  <2> QED
    BY <1>5, <1>9, <2>1, <2>2
<1>13. AddressesServed'
  <2>1. phase' # "running"
    BY <1>3
  <2>2. AddressesServed' <=>
          (\A s \in DOMAIN _listen_fds' : Served(s)') /\ (phase' = "running" => _listen_fds' # << >>)
    BY DEF AddressesServed, Served, Ascending
  <2> QED
    BY <1>12, <2>1, <2>2
<1> QED
  BY <1>1, <1>8, <1>11, <1>13, AttemptKeeps

\* The loop runs only with a socket that listens.
LEMMA RunKeeps ==
  ASSUME IInv, runEventLoop
  PROVE  IInv'
<1>1. /\ phase = "listening" /\ phase' \in {"exited", "running"}
      /\ phase' = "running" => DOMAIN _listen_fds # {}
      /\ UNCHANGED <<loaded, _tokens, _index, directive, expected, values, _servers, servers,
                      attempts, _socket_configs, _listen_fds>>
  BY DEF runEventLoop, parser, reading, sockets
<1>2. phase' \notin Parsing \cup {"loaded"}
  BY <1>1 DEF Parsing, Blocks
<1>3. phase' \notin Blocks /\ phase' # "start" /\ phase' # "server"
  BY <1>1, <1>2 DEF Parsing, Blocks
<1>4. TypeOK'
  BY <1>1 DEF IInv, TypeOK
<1>5. TokensRead'
  BY <1>3 DEF TokensRead
<1>6. DirectiveRead'
  BY <1>1, <1>3 DEF IInv, DirectiveRead
<1>7. ServersRead'
  BY <1>1, <1>2 DEF IInv, ServersRead
<1>8. SocketsOpened'
  BY <1>1, <1>2 DEF IInv, SocketsOpened
<1>9. AddressesServed'
  <2>1. phase' = "running" => _listen_fds' # << >>
    BY <1>1, Nothing
  <2> QED
    BY <1>1, <2>1 DEF IInv, AddressesServed
<1> QED
  BY <1>4, <1>5, <1>6, <1>7, <1>8, <1>9 DEF IInv

\* Steps that change nothing.
LEMMA StutterKeeps ==
  ASSUME IInv, UNCHANGED vars
  PROVE  IInv'
<1>1. UNCHANGED <<phase, loaded, _tokens, _index, directive, expected, values, _servers, servers,
                   attempts, _socket_configs, _listen_fds>>
  BY DEF vars, parser, reading, sockets
<1>2. TypeOK'
  BY <1>1 DEF IInv, TypeOK
<1>3. TokensRead' /\ DirectiveRead' /\ ServersRead'
  BY <1>1 DEF IInv, TokensRead, DirectiveRead, PortRead, ServersRead
<1>4. SocketsOpened' /\ AddressesServed'
  BY <1>1 DEF IInv, SocketsOpened, AddressesServed
<1> QED
  BY <1>2, <1>3, <1>4 DEF IInv

\* The file is not changed.
LEMMA FileStays == Spec => [](file \in Files)
<1>1. Init => file \in Files
  BY DEF Init
<1>2. file \in Files /\ [Next]_vars => (file \in Files)'
  <2> SUFFICES ASSUME [Next]_vars PROVE file' = file
    OBVIOUS
  <2>1. CASE ParserStep
    <3>1. \A block, d : Read(block, d) => file' = file
      BY DEF Read, Constant
    <3>2. \A d, new : Sets(d, new) => file' = file
      BY <3>1 DEF Sets
    <3>3. \A d : InServer(d) => file' = file
      BY <3>1 DEF InServer
    <3>4. CASE Directive \/ UnknownDirective \/ consume \/ GoOn \/ UnexpectedToken \/ NeitherOnNorOff
      BY <3>4 DEF Directive, UnknownDirective, consume, GoOn, UnexpectedToken, NeitherOnNorOff,
           Throw, Constant
    <3>5. CASE \/ parseListenDirective \/ parseServerNameDirective \/ parseErrorPageDirective
               \/ parseClientMaxBodySizeDirective
      BY <3>3, <3>5 DEF parseListenDirective, parseServerNameDirective, parseErrorPageDirective,
           parseClientMaxBodySizeDirective
    <3>6. CASE \/ ServerBlock \/ EndOfServer \/ LocationBlock \/ parseCgiDirective \/ CgiPath
               \/ EndOfLocation
      BY <3>1, <3>6 DEF ServerBlock, EndOfServer, LocationBlock, parseCgiDirective, CgiPath,
           EndOfLocation
    <3>7. CASE \/ Root \/ Index \/ Autoindex \/ AllowedMethods \/ IgnoredErrorPage
               \/ parseUploadStoreDirective \/ parseRedirectDirective \/ parseReturnDirective
      BY <3>2, <3>7 DEF Root, Index, Autoindex, AllowedMethods, IgnoredErrorPage,
           parseUploadStoreDirective, parseRedirectDirective, parseReturnDirective
    <3> QED
      BY <2>1, <3>4, <3>5, <3>6, <3>7 DEF ParserStep
  <2>2. CASE Unopened \/ Tokenized \/ NegativeNumber \/ loadConfig \/ StartServer \/ runEventLoop
    BY <2>2 DEF Unopened, Tokenized, NegativeNumber, Throw, loadConfig, StartServer, runEventLoop
  <2>3. CASE \E port \in attempts : NoSocket(port) \/ ListenFails(port) \/ listenOnAddr(port)
    BY <2>3 DEF NoSocket, ListenFails, listenOnAddr, Attempt
  <2>4. CASE UNCHANGED vars
    BY <2>4 DEF vars
  <2> QED
    BY <2>1, <2>2, <2>3, <2>4 DEF Next
<1> QED
  BY <1>1, <1>2, PTL DEF Spec

(* The statements of a kind, by their places.                               *)

\* How many there are.
LEMMA PlacesCounted ==
  ASSUME NEW N \in Nat, NEW T, T \subseteq 1..N
  PROVE  /\ IsFiniteSet(T) /\ Cardinality(T) \in Nat
         /\ T = {} <=> Cardinality(T) = 0
         /\ \A n : n \notin T => Cardinality(T \cup {n}) = Cardinality(T) + 1
<1>1. IsFiniteSet(1..N)
  BY FS_Interval
<1>2. IsFiniteSet(T)
  BY <1>1, FS_Subset
<1>3. Cardinality(T) \in Nat
  BY <1>2, FS_CardinalityType
<1>4. T = {} <=> Cardinality(T) = 0
  BY <1>2, FS_EmptySet
<1>5. ASSUME NEW n, n \notin T PROVE Cardinality(T \cup {n}) = Cardinality(T) + 1
  BY <1>2, <1>5, FS_AddElement
<1> QED
  BY <1>2, <1>3, <1>4, <1>5

\* A greatest place that is added is the last, and leaves the others in order.
LEMMA NthAdded ==
  ASSUME NEW N \in Nat, NEW T, T \subseteq 1..N, NEW n \in Nat, \A i \in T : i < n
  PROVE  /\ Cardinality(T \cup {n}) = Cardinality(T) + 1
         /\ \A m \in 1..Cardinality(T) : Nth(T \cup {n}, m) = Nth(T, m)
         /\ Nth(T \cup {n}, Cardinality(T) + 1) = n
         /\ LastOf(T \cup {n}) = n
<1> DEFINE U == T \cup {n}
           BelowIn(S, i) == {j \in S : j < i}
<1>0. n \notin T
  <2>1. ~(n < n)
    OBVIOUS
  <2> QED
    BY <2>1
<1>1. n \notin T /\ Cardinality(T) \in Nat /\ Cardinality(U) = Cardinality(T) + 1
  BY <1>0, PlacesCounted
<1>2. ASSUME NEW i \in T PROVE BelowIn(U, i) = BelowIn(T, i)
  <2>1. i < n /\ i \in Nat
    OBVIOUS
  <2>2. ~(n < i)
    BY <2>1
  <2> QED
    BY <2>2
<1>3. BelowIn(U, n) = T
  <2>1. ~(n < n)
    OBVIOUS
  <2> QED
    BY <2>1
<1>4. ASSUME NEW m \in 1..Cardinality(T) PROVE Nth(U, m) = Nth(T, m)
  <2>1. \A i : i \in U /\ Cardinality(BelowIn(U, i)) = m - 1 <=>
               i \in T /\ Cardinality(BelowIn(T, i)) = m - 1
    <3> SUFFICES ASSUME NEW i \in U
                 PROVE  Cardinality(BelowIn(U, i)) = m - 1 <=>
                          i \in T /\ Cardinality(BelowIn(T, i)) = m - 1
      BY <1>2 DEF U
    <3>1. CASE i \in T
      BY <1>2, <3>1
    <3>2. CASE i = n
      <4>1. Cardinality(BelowIn(U, i)) = Cardinality(T)
        BY <1>3, <3>2
      <4>2. Cardinality(T) # m - 1
        BY <1>1
      <4> HIDE DEF BelowIn
      <4> QED
        BY <1>1, <3>2, <4>1, <4>2
    <3> QED
      BY <3>1, <3>2
  <2> HIDE DEF U
  <2>2. Nth(U, m) = CHOOSE i : i \in U /\ Cardinality(BelowIn(U, i)) = m - 1
    BY DEF Nth
  <2>3. Nth(T, m) = CHOOSE i : i \in T /\ Cardinality(BelowIn(T, i)) = m - 1
    BY DEF Nth
  <2> QED
    BY <2>1, <2>2, <2>3
<1>5. Nth(U, Cardinality(T) + 1) = n
  <2> DEFINE M == Cardinality(T) + 1
  <2>1. n \in U /\ Cardinality({j \in U : j < n}) = M - 1
    <3>1. Cardinality({j \in U : j < n}) = Cardinality(T)
      BY <1>3
    <3> QED
      BY <1>1, <3>1
  <2>2. ASSUME NEW i \in U, Cardinality({j \in U : j < i}) = M - 1 PROVE i = n
    <3> SUFFICES ASSUME i \in T PROVE FALSE
      OBVIOUS
    <3>1. Cardinality(BelowIn(T, i)) = Cardinality(T)
      <4>1. BelowIn(U, i) = BelowIn(T, i)
        BY <1>2
      <4>2. Cardinality(BelowIn(U, i)) = M - 1
        BY <2>2
      <4> HIDE DEF U, BelowIn
      <4> QED
        BY <1>1, <4>1, <4>2
    <3>2. i \notin BelowIn(T, i) /\ BelowIn(T, i) \subseteq 1..N /\ BelowIn(T, i) \cup {i} \subseteq T
      <4>1. i \in Nat /\ ~(i < i)
        OBVIOUS
      <4> QED
        BY <4>1
    <3>3. Cardinality(BelowIn(T, i) \cup {i}) = Cardinality(T) + 1
      <4> HIDE DEF BelowIn
      <4> QED
        BY <3>1, <3>2, PlacesCounted
    <3>4. Cardinality(BelowIn(T, i) \cup {i}) <= Cardinality(T)
      <4> HIDE DEF BelowIn
      <4>1. IsFiniteSet(T)
        BY PlacesCounted
      <4> QED
        BY <3>2, <4>1, FS_Subset
    <3> QED
      BY <1>1, <3>3, <3>4
  <2> HIDE DEF U, M
  <2>3. Nth(U, M) = CHOOSE i \in U : Cardinality({j \in U : j < i}) = M - 1
    BY DEF Nth
  <2>4. Nth(U, M) = n
    BY <2>1, <2>2, <2>3
  <2> QED
    BY <2>4 DEF M
<1>6. LastOf(U) = n
  BY <1>1, <1>5 DEF LastOf
<1> QED
  BY <1>1, <1>4, <1>5, <1>6

\* The greatest place is the last.
LEMMA LastIsGreatest ==
  ASSUME NEW N \in Nat, NEW T, T \subseteq 1..N, T # {}
  PROVE  LastOf(T) \in T /\ \A i \in T : i <= LastOf(T)
<1> DEFINE g == Max(T)
<1>1. g \in T /\ \A i \in T : i <= g
  <2>1. T \subseteq 0..N
    OBVIOUS
  <2> QED
    BY <2>1, GreatestNumber
<1> HIDE DEF g
<1>2. LastOf((T \ {g}) \cup {g}) = g
  <2>1. T \ {g} \subseteq 1..N /\ g \in Nat /\ \A i \in T \ {g} : i < g
    BY <1>1
  <2> QED
    BY <2>1, NthAdded
<1>3. (T \ {g}) \cup {g} = T
  BY <1>1
<1> QED
  BY <1>1, <1>2, <1>3

\* The places are counted from the first.
LEMMA NthIs ==
  ASSUME NEW N \in Nat, NEW T, T \subseteq 1..N, NEW m \in 1..Cardinality(T)
  PROVE  /\ Nth(T, m) \in T /\ (m < Cardinality(T) => Nth(T, m) < LastOf(T))
         /\ m = Cardinality(T) => Nth(T, m) = LastOf(T)
<1> DEFINE U(n) == T \cap (1..n)
           Ranked(i, k) == Cardinality({j \in T : j < i}) = k - 1
           R == {n \in 0..N : \A k \in 1..Cardinality(U(n)) : \E i \in T : Ranked(i, k)}
<1>1. 0 \in R
  <2>1. U(0) = {}
    OBVIOUS
  <2>2. Cardinality(U(0)) = 0
    BY <2>1, PlacesCounted
  <2> QED
    BY <2>2
<1>2. ASSUME NEW n \in 0..(N - 1), n \in R PROVE n + 1 \in R
  <2>1. n + 1 \in 0..N /\ n \in Nat
    OBVIOUS
  <2>2. CASE n + 1 \notin T
    <3>1. \A i \in T : i \in 1..(n + 1) <=> i \in 1..n
      BY <2>2
    <3>2. U(n + 1) = U(n)
      BY <3>1
    <3> HIDE DEF U, Ranked
    <3> QED
      BY <1>2, <2>1, <3>2
  <2>3. CASE n + 1 \in T
    <3>1. U(n + 1) = U(n) \cup {n + 1} /\ U(n) \subseteq 1..N /\ n + 1 \notin U(n)
      <4>1. \A i \in T : i \in 1..(n + 1) <=> i \in 1..n \/ i = n + 1
        OBVIOUS
      <4>2. n + 1 \notin 1..n
        BY <2>1
      <4> QED
        BY <2>3, <4>1, <4>2
    <3>2. {j \in T : j < n + 1} = U(n)
      <4>1. \A i \in T : i < n + 1 <=> i \in 1..n
        OBVIOUS
      <4> QED
        BY <4>1
    <3> HIDE DEF U
    <3>3. Cardinality(U(n + 1)) = Cardinality(U(n)) + 1 /\ Cardinality(U(n)) \in Nat
      BY <3>1, PlacesCounted
    <3>4. ASSUME NEW k \in 1..Cardinality(U(n + 1)) PROVE \E i \in T : Ranked(i, k)
      <4>1. CASE k = Cardinality(U(n)) + 1
        <5>1. Cardinality({j \in T : j < n + 1}) = Cardinality(U(n))
          BY <3>2
        <5>2. Ranked(n + 1, k)
          BY <3>3, <4>1, <5>1
        <5> QED
          BY <2>3, <5>2
      <4>2. CASE k # Cardinality(U(n)) + 1
        <5>1. k \in 1..Cardinality(U(n))
          BY <3>3, <4>2
        <5> HIDE DEF Ranked
        <5> QED
          BY <1>2, <5>1
      <4> QED
        BY <4>1, <4>2
    <3> HIDE DEF Ranked
    <3> QED
      BY <2>1, <3>4
  <2> QED
    BY <2>2, <2>3
<1>3. N \in R
  <2> HIDE DEF R
  <2>1. 0..N \subseteq R
    BY <1>1, <1>2, UpTo
  <2> QED
    BY <2>1
<1>4. U(N) = T
  OBVIOUS
<1> HIDE DEF U
<1>5. \E i \in T : Ranked(i, m)
  <2> HIDE DEF Ranked
  <2> QED
    BY <1>3, <1>4
<1>6. Nth(T, m) \in T /\ Ranked(Nth(T, m), m)
  <2>1. Nth(T, m) = CHOOSE i \in T : Ranked(i, m)
    BY DEF Nth
  <2> HIDE DEF Ranked
  <2> QED
    BY <1>5, <2>1
<1>7. T # {}
  BY <1>6
<1> DEFINE l == LastOf(T)
           B == {j \in T : j < l}
<1>8. Nth(T, m) <= l /\ l \in T
  <2> HIDE DEF l
  <2> QED
    BY <1>6, <1>7, LastIsGreatest DEF l
<1>9. ASSUME m < Cardinality(T), Nth(T, m) = l PROVE FALSE
  <2>1. Cardinality(B) = m - 1
    BY <1>6, <1>9
  <2>2. T = B \cup {l} /\ l \notin B /\ B \subseteq 1..N
    <3>1. \A i \in T : i <= l
      BY <1>7, LastIsGreatest
    <3> HIDE DEF l
    <3>2. l \in 1..N
      BY <1>8
    <3>3. ~(l < l) /\ \A i \in T : i < l \/ i = l
      BY <3>1, <3>2
    <3> QED
      BY <1>8, <3>3
  <2> HIDE DEF B, l
  <2>3. Cardinality(T) = Cardinality(B) + 1
    BY <2>2, PlacesCounted
  <2>4. Cardinality(T) \in Nat
    BY PlacesCounted
  <2> QED
    BY <1>9, <2>1, <2>3, <2>4
<1>10. m = Cardinality(T) => Nth(T, m) = LastOf(T)
  BY DEF LastOf
<1>11. Nth(T, m) \in Nat /\ l \in Nat
  <2> HIDE DEF l
  <2>1. T \subseteq Nat
    OBVIOUS
  <2> QED
    BY <1>6, <1>8, <2>1
<1> QED
  BY <1>6, <1>8, <1>9, <1>10, <1>11

(* The text: its words, the depth of its braces, its statements.            *)

\* Its words are its tokens but END, by their places.
LEMMA WordsAre ==
  ASSUME Tape(_tokens)
  PROVE  /\ Len(Words) \in Nat /\ Len(Words) = Len(_tokens) - 1 /\ DOMAIN Words = 1..Len(Words)
         /\ Words \in Seq([type : Types, value : Text0])
         /\ \A i \in 1..Len(Words) : Words[i] = _tokens[i] /\ Words[i].type \in Types
         /\ Ends \subseteq 1..Len(Words) /\ Starts \subseteq 1..(Len(Words) + 1)
         /\ Statements \subseteq 1..Len(Words)
<1> DEFINE S == [type : Types, value : Text0]
<1>1. _tokens \in Seq(S) /\ Len(_tokens) >= 1
  BY DEF Tape
<1>2. _tokens # <<>>
  BY <1>1
<1> HIDE DEF S
<1>3. /\ Words \in Seq(S) /\ Len(Words) = Len(_tokens) - 1 /\ Len(_tokens) \in Nat
      /\ \A i \in 1..(Len(_tokens) - 1) : Words[i] = _tokens[i]
  BY <1>1, <1>2, FrontIs DEF Words
<1>4. Len(Words) \in Nat /\ DOMAIN Words = 1..Len(Words)
  BY <1>1, <1>3
<1>5. \A i \in 1..Len(Words) : Words[i] \in S
  BY <1>3
<1>6. \A i \in 1..Len(Words) : Words[i].type \in Types
  BY <1>5 DEF S
<1>7. Ends \subseteq 1..Len(Words)
  BY <1>4 DEF Ends
<1>8. Starts \subseteq 1..(Len(Words) + 1)
  <2>1. \A i \in Ends : i + 1 \in 1..(Len(Words) + 1)
    BY <1>4, <1>7
  <2>2. 1 \in 1..(Len(Words) + 1)
    BY <1>4
  <2> QED
    BY <2>1, <2>2 DEF Starts
<1>9. Statements \subseteq 1..Len(Words)
  <2> SUFFICES ASSUME NEW i \in Starts, NEW e \in Ends, i <= e PROVE i \in 1..Len(Words)
    BY DEF Statements
  <2> QED
    BY <1>4, <1>7, <1>8
<1> QED
  BY <1>3, <1>4, <1>6, <1>7, <1>8, <1>9 DEF S

\* By how much a word changes the depth.
Brace(type) == IF type = "{" THEN 1 ELSE IF type = "}" THEN -1 ELSE 0

\* Braces are counted word by word.
LEMMA CountGrows ==
  ASSUME Tape(_tokens), NEW type
  PROVE  /\ \A i \in 1..(Len(Words) + 1) : Count(type, i) \in Nat
         /\ Count(type, 1) = 0
         /\ \A i \in 1..Len(Words) :
              /\ Words[i].type = type => Count(type, i + 1) = Count(type, i) + 1
              /\ Words[i].type # type => Count(type, i + 1) = Count(type, i)
<1> DEFINE N == Len(Words)
           C(i) == {k \in 1..(i - 1) : Words[k].type = type}
<1>1. N \in Nat
  BY WordsAre
<1> HIDE DEF N
<1>2. ASSUME NEW i \in 1..(N + 1) PROVE C(i) \subseteq 1..N /\ Cardinality(C(i)) \in Nat
  <2>1. C(i) \subseteq 1..N
    BY <1>1
  <2> HIDE DEF C
  <2> QED
    BY <1>1, <2>1, PlacesCounted
<1>3. Cardinality(C(1)) = 0
  <2>1. C(1) = {}
    OBVIOUS
  <2> QED
    BY <1>1, <2>1, PlacesCounted
<1>4. ASSUME NEW i \in 1..N
      PROVE  /\ Words[i].type = type => Cardinality(C(i + 1)) = Cardinality(C(i)) + 1
             /\ Words[i].type # type => Cardinality(C(i + 1)) = Cardinality(C(i))
  <2>0. i \in 1..(N + 1)
    BY <1>1
  <2>1. CASE Words[i].type = type
    <3>1. C(i + 1) = C(i) \cup {i}
      <4>1. \A k : k \in 1..((i + 1) - 1) <=> k \in 1..(i - 1) \/ k = i
        BY <1>1
      <4> QED
        BY <2>1, <4>1
    <3>2. i \notin C(i)
      BY <1>1
    <3> HIDE DEF C
    <3>3. Cardinality(C(i + 1)) = Cardinality(C(i)) + 1
      BY <1>1, <1>2, <2>0, <3>1, <3>2, PlacesCounted
    <3> QED
      BY <2>1, <3>3
  <2>2. CASE Words[i].type # type
    <3>1. C(i + 1) = C(i)
      <4>1. \A k : k \in 1..((i + 1) - 1) <=> k \in 1..(i - 1) \/ k = i
        BY <1>1
      <4> QED
        BY <2>2, <4>1
    <3> HIDE DEF C
    <3> QED
      BY <1>2, <2>0, <2>2, <3>1
  <2> QED
    BY <2>1, <2>2
<1> QED
  BY <1>2, <1>3, <1>4 DEF Count, N

\* How the depth grows from a word to the next, and that it starts at 0.
LEMMA DepthGrows ==
  ASSUME Tape(_tokens)
  PROVE  /\ Depth(1) = 0 /\ \A i \in 1..(Len(Words) + 1) : Depth(i) \in Int
         /\ \A i \in 1..Len(Words) : Depth(i + 1) = Depth(i) + Brace(Words[i].type)
<1> DEFINE N == Len(Words)
<1>1. N \in Nat
  BY WordsAre
<1> HIDE DEF N
<1> DEFINE open(i) == Count("{", i)
           close(i) == Count("}", i)
<1>2. \A i \in 1..(N + 1) : open(i) \in Nat /\ close(i) \in Nat
  BY CountGrows DEF N
<1>3. open(1) = 0 /\ close(1) = 0
  BY CountGrows
<1>4. ASSUME NEW i \in 1..N
      PROVE  /\ Words[i].type = "{" => open(i + 1) = open(i) + 1
             /\ Words[i].type # "{" => open(i + 1) = open(i)
             /\ Words[i].type = "}" => close(i + 1) = close(i) + 1
             /\ Words[i].type # "}" => close(i + 1) = close(i)
  BY CountGrows DEF N
<1>8. \A i : Depth(i) = open(i) - close(i)
  BY DEF Depth
<1> HIDE DEF open, close
<1>5. Depth(1) = 0
  BY <1>3, <1>8
<1>6. \A i \in 1..(N + 1) : Depth(i) \in Int
  BY <1>2, <1>8
<1>7. ASSUME NEW i \in 1..N PROVE Depth(i + 1) = Depth(i) + Brace(Words[i].type)
  <2>1. i \in 1..(N + 1)
    BY <1>1
  <2>2. open(i) \in Nat /\ close(i) \in Nat
    BY <1>2, <2>1
  <2>3. Depth(i + 1) = open(i + 1) - close(i + 1) /\ Depth(i) = open(i) - close(i)
    BY <1>8
  <2>4. CASE Words[i].type = "{"
    <3>1. open(i + 1) = open(i) + 1 /\ close(i + 1) = close(i) /\ Brace(Words[i].type) = 1
      BY <1>4, <2>2, <2>4 DEF Brace
    <3> QED
      BY <2>2, <2>3, <3>1
  <2>5. CASE Words[i].type = "}"
    <3>1. open(i + 1) = open(i) /\ close(i + 1) = close(i) + 1 /\ Brace(Words[i].type) = -1
      BY <1>4, <2>2, <2>5 DEF Brace
    <3> QED
      BY <2>2, <2>3, <3>1
  <2>6. CASE Words[i].type \notin {"{", "}"}
    <3>1. open(i + 1) = open(i) /\ close(i + 1) = close(i) /\ Brace(Words[i].type) = 0
      BY <1>4, <2>2, <2>6 DEF Brace
    <3> QED
      BY <2>2, <2>3, <3>1
  <2> QED
    BY <2>4, <2>5, <2>6
<1> QED
  BY <1>5, <1>6, <1>7 DEF N

\* From n to e is one statement.
OneStatement(n, e) ==
  n \in Starts /\ e \in Ends /\ n <= e /\ \A p \in n..(e - 1) : p \notin Ends

\* Where it ends, and that it is the next one after those before it.
LEMMA StatementIs ==
  ASSUME Tape(_tokens), NEW n, NEW e, OneStatement(n, e)
  PROVE  /\ n \in Statements /\ End(n) = e /\ e + 1 \in Starts
         /\ \A i \in Starts : i < e + 1 <=> i < n \/ i = n
         /\ \A i \in Statements : i < e + 1 <=> i < n \/ i = n
         /\ \A i \in Statements : i < n => End(i) < n
         /\ Before(e + 1) = n
<1>1. n \in Nat /\ e \in Nat /\ Ends \subseteq Nat /\ Starts \subseteq Nat
  BY WordsAre DEF OneStatement
<1>2. n \in Statements
  BY DEF OneStatement, Statements
<1>3. ASSUME NEW i \in Ends, i >= n PROVE i >= e
  <2> SUFFICES ASSUME i < e PROVE FALSE
    BY <1>1
  <2>1. i \in n..(e - 1)
    BY <1>1, <1>3
  <2> QED
    BY <2>1 DEF OneStatement
<1>4. End(n) = e
  <2>1. \A j \in Ends : n <= j /\ (\A k \in Ends : k >= n => k >= j) => j = e
    BY <1>1, <1>3 DEF OneStatement
  <2>2. e \in Ends /\ n <= e
    BY DEF OneStatement
  <2> QED
    BY <1>3, <2>1, <2>2 DEF End
<1>5. e + 1 \in Starts
  BY DEF OneStatement, Starts
<1>6. ASSUME NEW i \in Starts PROVE i < e + 1 <=> i < n \/ i = n
  <2>1. ASSUME i < e + 1, i > n PROVE FALSE
    <3>1. i # 1
      BY <1>1, <2>1 DEF OneStatement, Starts
    <3>2. PICK k \in Ends : i = k + 1
      BY <3>1 DEF Starts
    <3>3. k \in n..(e - 1)
      BY <1>1, <2>1, <3>2
    <3> QED
      BY <3>3 DEF OneStatement
  <2>2. i \in Nat /\ n <= e
    BY <1>1 DEF OneStatement
  <2> QED
    BY <1>1, <2>1, <2>2
<1>7. Statements \subseteq Starts
  BY DEF Statements
<1>8. ASSUME NEW i \in Statements, i < n PROVE End(i) \in Ends /\ End(i) < n
  <2>1. n # 1 /\ i \in Nat /\ i >= 1
    <3>1. i \in 1..Len(Words)
      BY WordsAre
    <3> QED
      BY <1>1, <1>8, <3>1
  <2>2. PICK k \in Ends : n = k + 1
    BY <2>1 DEF OneStatement, Starts
  <2> DEFINE T == {j \in Ends : i <= j}
  <2>3. k \in T
    BY <1>1, <1>8, <2>1, <2>2
  <2>4. T \subseteq Nat /\ T # {}
    BY <1>1, <2>3
  <2>5. PICK m \in T : \A j \in T : m <= j
    BY <2>4, LeastNumber
  <2>6. \E j \in Ends : i <= j /\ \A p \in Ends : p >= i => p >= j
    <3>1. \A p \in Ends : p >= i => p >= m
      <4> TAKE p \in Ends
      <4> HAVE p >= i
      <4>1. p \in T
        BY <1>1, <2>1
      <4> QED
        BY <1>1, <2>5, <4>1
    <3> QED
      BY <2>5, <3>1
  <2>7. End(i) \in Ends /\ i <= End(i) /\ \A p \in Ends : p >= i => p >= End(i)
    BY <2>6 DEF End
  <2>8. k >= End(i)
    BY <1>1, <2>1, <2>3, <2>7
  <2>9. End(i) \in Nat /\ k \in Nat
    BY <1>1, <2>7
  <2> HIDE DEF T
  <2>10. End(i) < n
    BY <2>2, <2>8, <2>9
  <2> QED
    BY <2>7, <2>10
<1>9. Before(e + 1) = n
  <2>1. ASSUME NEW j \in Statements, End(j) = (e + 1) - 1 PROVE j = n
    <3>1. j \in Nat /\ j <= e
      <4>1. \E k \in Ends : j <= k
        BY DEF Statements
      <4>2. j \in Nat
        BY <1>1, <1>7
      <4> DEFINE T == {k \in Ends : j <= k}
      <4>3. T \subseteq Nat /\ T # {}
        BY <1>1, <4>1
      <4>4. PICK m \in T : \A k \in T : m <= k
        BY <4>3, LeastNumber
      <4>5. \A p \in Ends : p >= j => p >= m
        <5> TAKE p \in Ends
        <5> HAVE p >= j
        <5>1. p \in T
          BY <1>1, <4>2
        <5> QED
          BY <1>1, <4>4, <5>1
      <4>6. j <= End(j)
        BY <4>4, <4>5 DEF End
      <4> QED
        BY <1>1, <2>1, <4>2, <4>6
    <3>2. j < e + 1
      BY <1>1, <3>1
    <3>3. ~(j < n)
      BY <1>1, <1>8, <2>1 DEF OneStatement
    <3> QED
      BY <1>6, <1>7, <3>2, <3>3
  <2>2. End(n) = (e + 1) - 1
    BY <1>1, <1>4
  <2> QED
    BY <1>2, <2>1, <2>2 DEF Before
<1> QED
  BY <1>2, <1>4, <1>5, <1>6, <1>7, <1>8, <1>9

\* A place that no statement begins at and no word ends after is the end.
LEMMA NoStatement ==
  ASSUME Tape(_tokens), Legal, NEW n \in Starts
  PROVE  n \in Statements \/ n = Len(Words) + 1
<1>1. /\ Len(Words) \in Nat /\ n \in 1..(Len(Words) + 1)
      /\ Words = <<>> => Len(Words) = 0
  BY WordsAre
<1>2. CASE Words = <<>>
  BY <1>1, <1>2
<1>3. CASE Words # <<>> /\ n # Len(Words) + 1
  <2>1. Len(Words) \in Ends /\ n <= Len(Words)
    BY <1>1, <1>3 DEF Legal
  <2> QED
    BY <2>1 DEF Statements
<1> QED
  BY <1>2, <1>3

(* What a list of consumes accepts: the tokens from a to b fit it.          *)

\* Consume c takes the tokens from a to before z.
Spans(c, a, z) ==
  /\ a <= z /\ \A p \in a..(z - 1) : _tokens[p].type = c.type
  /\ c.times = "one" => z = a + 1
  /\ c.times = "maybe" => z <= a + 1

Fits(E, a, b) ==
  \E f \in [1..(Len(E) + 1) -> Int] :
    /\ f[1] = a /\ f[Len(E) + 1] = b + 1
    /\ \A k \in 1..Len(E) : Spans(E[k], f[k], f[k + 1])

\* What may be left out is followed by one token of another type, and only
\* the last one ends a statement.
Proper(E) ==
  /\ E \in Seq(Consume)
  /\ \A k \in 1..Len(E) :
       /\ E[k].times # "one" =>
            k + 1 \in 1..Len(E) /\ E[k + 1].times = "one" /\ E[k + 1].type # E[k].type
       /\ E[k].type \in {";", "{"} <=> k = Len(E)

\* What is left of such a list is one.
LEMMA TailProper ==
  ASSUME NEW E, Proper(E), E # <<>>
  PROVE  /\ Proper(Tail(E)) /\ Head(E) \in Consume
         /\ Len(E) \in Nat /\ Len(E) >= 1 /\ Len(Tail(E)) = Len(E) - 1
         /\ Head(E) = E[1] /\ \A k \in 1..(Len(E) - 1) : Tail(E)[k] = E[k + 1]
<1> DEFINE T == Tail(E)
<1>1. E \in Seq(Consume)
  BY DEF Proper
<1> HIDE DEF Consume
<1>2. /\ T \in Seq(Consume) /\ Len(E) \in Nat /\ Len(E) >= 1 /\ Len(T) = Len(E) - 1
      /\ \A k \in 1..(Len(E) - 1) : T[k] = E[k + 1]
  BY <1>1
<1>3. Head(E) = E[1] /\ Head(E) \in Consume
  BY <1>1
<1> HIDE DEF T
<1>4. ASSUME NEW k \in 1..Len(T)
      PROVE  /\ T[k].times # "one" =>
                  k + 1 \in 1..Len(T) /\ T[k + 1].times = "one" /\ T[k + 1].type # T[k].type
             /\ T[k].type \in {";", "{"} <=> k = Len(T)
  <2>1. k + 1 \in 1..Len(E) /\ T[k] = E[k + 1] /\ (k + 1 = Len(E) <=> k = Len(T))
    BY <1>2
  <2>2. E[k + 1].type \in {";", "{"} <=> k + 1 = Len(E)
    BY <2>1 DEF Proper
  <2>3. ASSUME E[k + 1].times # "one"
        PROVE  /\ (k + 1) + 1 \in 1..Len(E) /\ E[(k + 1) + 1].times = "one"
               /\ E[(k + 1) + 1].type # E[k + 1].type
    BY <2>1, <2>3 DEF Proper
  <2>4. ASSUME (k + 1) + 1 \in 1..Len(E) PROVE k + 1 \in 1..Len(T) /\ T[k + 1] = E[(k + 1) + 1]
    <3>1. k + 1 \in 1..(Len(E) - 1)
      BY <1>2, <2>4
    <3> QED
      BY <1>2, <3>1
  <2> QED
    BY <2>1, <2>2, <2>3, <2>4
<1>5. Proper(T)
  BY <1>2, <1>4 DEF Proper
<1> QED
  BY <1>2, <1>3, <1>5 DEF T

\* A list with nothing accepts nothing.
LEMMA FitsEmpty ==
  ASSUME NEW a \in Int, NEW b \in Int
  PROVE  Fits(<<>>, a, b) <=> b = a - 1
<1>1. ASSUME Fits(<<>>, a, b) PROVE b = a - 1
  <2>1. PICK f \in [1..(Len(<<>>) + 1) -> Int] : f[1] = a /\ f[Len(<<>>) + 1] = b + 1
    BY <1>1 DEF Fits
  <2>2. Len(<<>>) + 1 = 1
    OBVIOUS
  <2> QED
    BY <2>1, <2>2
<1>2. ASSUME b = a - 1 PROVE Fits(<<>>, a, b)
  <2> DEFINE f == [k \in 1..(Len(<<>>) + 1) |-> a]
  <2>1. f \in [1..(Len(<<>>) + 1) -> Int] /\ f[1] = a /\ f[Len(<<>>) + 1] = b + 1
    BY <1>2
  <2>2. 1..Len(<<>>) = {}
    OBVIOUS
  <2> HIDE DEF f
  <2> QED
    BY <2>1, <2>2 DEF Fits
<1> QED
  BY <1>1, <1>2

\* The first consume, and the others.
LEMMA FitsFirst ==
  ASSUME NEW E, Proper(E), E # <<>>, NEW a \in Int, NEW b \in Int
  PROVE  Fits(E, a, b) <=> \E z \in Int : Spans(Head(E), a, z) /\ Fits(Tail(E), z, b)
<1> DEFINE T == Tail(E)
           N == Len(E)
<1>1. /\ N \in Nat /\ N >= 1 /\ Len(T) = N - 1 /\ Head(E) = E[1]
      /\ \A k \in 1..(N - 1) : T[k] = E[k + 1]
  BY TailProper
<1> HIDE DEF T, N
<1>2. ASSUME Fits(E, a, b) PROVE \E z \in Int : Spans(Head(E), a, z) /\ Fits(T, z, b)
  <2>1. PICK f \in [1..(N + 1) -> Int] :
          f[1] = a /\ f[N + 1] = b + 1 /\ \A k \in 1..N : Spans(E[k], f[k], f[k + 1])
    BY <1>2 DEF Fits, N
  <2> DEFINE g == [k \in 1..(Len(T) + 1) |-> f[k + 1]]
  <2>2. g \in [1..(Len(T) + 1) -> Int] /\ g[1] = f[2] /\ g[Len(T) + 1] = b + 1
    BY <1>1, <2>1
  <2>3. ASSUME NEW k \in 1..Len(T) PROVE Spans(T[k], g[k], g[k + 1])
    <3>1. k + 1 \in 1..N /\ g[k] = f[k + 1] /\ g[k + 1] = f[(k + 1) + 1] /\ T[k] = E[k + 1]
      BY <1>1
    <3>2. Spans(E[k + 1], f[k + 1], f[(k + 1) + 1])
      BY <2>1, <3>1
    <3> QED
      BY <3>1, <3>2
  <2> HIDE DEF g
  <2>4. Fits(T, g[1], b)
    BY <2>2, <2>3 DEF Fits
  <2>5. Spans(E[1], f[1], f[1 + 1]) /\ f[1 + 1] \in Int
    BY <1>1, <2>1
  <2>6. Spans(Head(E), a, f[2]) /\ f[2] \in Int
    BY <1>1, <2>1, <2>5
  <2> QED
    BY <2>2, <2>4, <2>6
<1>3. ASSUME NEW z \in Int, Spans(Head(E), a, z), Fits(T, z, b) PROVE Fits(E, a, b)
  <2>1. PICK g \in [1..(Len(T) + 1) -> Int] :
          g[1] = z /\ g[Len(T) + 1] = b + 1 /\ \A k \in 1..Len(T) : Spans(T[k], g[k], g[k + 1])
    BY <1>3 DEF Fits
  <2> DEFINE f == [k \in 1..(N + 1) |-> IF k = 1 THEN a ELSE g[k - 1]]
  <2>2. f[1] = a /\ f[N + 1] = b + 1 /\ f \in [1..(N + 1) -> Int]
    <3>1. \A k \in 1..(N + 1) : k # 1 => k - 1 \in 1..(Len(T) + 1)
      BY <1>1
    <3>2. (N + 1) - 1 = Len(T) + 1 /\ N + 1 # 1 /\ 1 \in 1..(N + 1) /\ N + 1 \in 1..(N + 1)
      BY <1>1
    <3> QED
      BY <2>1, <3>1, <3>2
  <2>3. ASSUME NEW k \in 1..N PROVE Spans(E[k], f[k], f[k + 1])
    <3>1. CASE k = 1
      <4>1. f[k] = a /\ f[k + 1] = g[1]
        BY <1>1, <3>1
      <4> HIDE DEF f
      <4> QED
        BY <1>1, <1>3, <2>1, <3>1, <4>1
    <3>2. CASE k # 1
      <4>1. f[k] = g[k - 1] /\ f[k + 1] = g[(k - 1) + 1] /\ k - 1 \in 1..Len(T) /\ k - 1 \in 1..(N - 1)
        BY <1>1, <3>2
      <4>2. T[k - 1] = E[(k - 1) + 1] /\ (k - 1) + 1 = k
        BY <1>1, <4>1
      <4>3. Spans(T[k - 1], g[k - 1], g[(k - 1) + 1])
        BY <2>1, <4>1
      <4> HIDE DEF f
      <4> QED
        BY <4>1, <4>2, <4>3
    <3> QED
      BY <3>1, <3>2
  <2> HIDE DEF f
  <2> QED
    BY <2>2, <2>3 DEF Fits, N
<1> QED
  BY <1>2, <1>3 DEF T

\* One token that must be there.
LEMMA FitsOne ==
  ASSUME NEW E, Proper(E), E # <<>>, NEW a \in Int, NEW b \in Int, Head(E).times = "one"
  PROVE  Fits(E, a, b) <=> _tokens[a].type = Head(E).type /\ Fits(Tail(E), a + 1, b)
<1>1. \A z \in Int : Spans(Head(E), a, z) <=> z = a + 1 /\ _tokens[a].type = Head(E).type
  <2> TAKE z \in Int
  <2>1. CASE z = a + 1
    <3>1. \A p : p \in a..(z - 1) <=> p = a
      BY <2>1
    <3> QED
      BY <2>1, <3>1 DEF Spans
  <2> QED
    BY <2>1 DEF Spans
<1> QED
  BY <1>1, FitsFirst

\* A token that may be left out, and is not there.
LEMMA FitsNot ==
  ASSUME NEW E, Proper(E), E # <<>>, NEW a \in Int, NEW b \in Int,
         Head(E).times # "one", _tokens[a].type # Head(E).type
  PROVE  Fits(E, a, b) <=> Fits(Tail(E), a, b)
<1>1. ASSUME NEW z \in Int PROVE Spans(Head(E), a, z) <=> z = a
  <2>1. ASSUME Spans(Head(E), a, z), z # a PROVE FALSE
    <3>1. a \in a..(z - 1)
      BY <2>1 DEF Spans
    <3> QED
      BY <2>1, <3>1 DEF Spans
  <2>2. ASSUME z = a PROVE Spans(Head(E), a, z)
    BY <2>2 DEF Spans
  <2> QED
    BY <2>1, <2>2
<1> QED
  BY <1>1, FitsFirst

\* What follows is another token, if the first is there.
LEMMA FollowsOther ==
  ASSUME NEW E, Proper(E), E # <<>>, NEW a \in Int, NEW b \in Int,
         Head(E).times # "one", _tokens[a].type = Head(E).type
  PROVE  ~Fits(Tail(E), a, b)
<1>1. /\ Proper(Tail(E)) /\ Len(E) \in Nat /\ Len(Tail(E)) = Len(E) - 1 /\ Head(E) = E[1]
      /\ \A k \in 1..(Len(E) - 1) : Tail(E)[k] = E[k + 1]
  BY TailProper
<1>2. 1 \in 1..Len(E)
  BY TailProper
<1>3. 1 + 1 \in 1..Len(E) /\ E[1 + 1].times = "one" /\ E[1 + 1].type # E[1].type
  <2>1. E[1].times # "one"
    BY <1>1
  <2> QED
    BY <1>1, <1>2, <2>1 DEF Proper
<1>4. Len(Tail(E)) >= 1 /\ 1 \in 1..(Len(E) - 1) /\ Tail(E)[1] = E[1 + 1]
  BY <1>1, <1>3
<1>5. Tail(E) # <<>>
  <2>1. \A s : Len(s) >= 1 => s # <<>>
    <3>1. Len(<<>>) = 0
      OBVIOUS
    <3> QED
      BY <3>1
  <2> QED
    BY <1>4, <2>1
<1>6. Head(Tail(E)) = Tail(E)[1]
  BY <1>1, <1>5, TailProper
<1>7. Head(Tail(E)).times = "one" /\ _tokens[a].type # Head(Tail(E)).type
  BY <1>1, <1>3, <1>4, <1>6
<1> QED
  BY <1>1, <1>5, <1>7, FitsOne

\* One of many.
LEMMA FitsMany ==
  ASSUME NEW E, Proper(E), E # <<>>, NEW a \in Int, NEW b \in Int,
         Head(E).times = "many", _tokens[a].type = Head(E).type
  PROVE  Fits(E, a, b) <=> Fits(E, a + 1, b)
<1>1. ASSUME NEW z \in Int, Spans(Head(E), a, z), Fits(Tail(E), z, b)
      PROVE  Spans(Head(E), a + 1, z)
  <2>1. z # a
    BY <1>1, FollowsOther
  <2>2. a + 1 <= z /\ \A p \in (a + 1)..(z - 1) : p \in a..(z - 1)
    BY <1>1, <2>1 DEF Spans
  <2> QED
    BY <1>1, <2>2 DEF Spans
<1>2. ASSUME NEW z \in Int, Spans(Head(E), a + 1, z)
      PROVE  Spans(Head(E), a, z)
  <2>1. a <= z /\ \A p \in a..(z - 1) : p = a \/ p \in (a + 1)..(z - 1)
    BY <1>2 DEF Spans
  <2> QED
    BY <1>2, <2>1 DEF Spans
<1>3. Fits(E, a, b) <=> \E z \in Int : Spans(Head(E), a, z) /\ Fits(Tail(E), z, b)
  BY FitsFirst
<1>4. Fits(E, a + 1, b) <=> \E z \in Int : Spans(Head(E), a + 1, z) /\ Fits(Tail(E), z, b)
  BY FitsFirst
<1> QED
  BY <1>1, <1>2, <1>3, <1>4

\* One that may be there, and is.
LEMMA FitsMaybe ==
  ASSUME NEW E, Proper(E), E # <<>>, NEW a \in Int, NEW b \in Int,
         Head(E).times = "maybe", _tokens[a].type = Head(E).type
  PROVE  Fits(E, a, b) <=> Fits(Tail(E), a + 1, b)
<1>1. ASSUME NEW z \in Int, Spans(Head(E), a, z), Fits(Tail(E), z, b)
      PROVE  z = a + 1
  <2>1. z # a
    BY <1>1, FollowsOther
  <2> QED
    BY <1>1, <2>1 DEF Spans
<1>2. Spans(Head(E), a, a + 1)
  <2>1. \A p : p \in a..((a + 1) - 1) <=> p = a
    OBVIOUS
  <2> QED
    BY <2>1 DEF Spans
<1>3. a + 1 \in Int
  OBVIOUS
<1> QED
  BY <1>1, <1>2, <1>3, FitsFirst

(* The lists of consumes, and what they accept.                             *)

\* The lists of the directives, block by block.
LEMMA ListsAre ==
  /\ DOMAIN Consumes = Blocks
  /\ DOMAIN Consumes["servers"] = {"server"}
  /\ Consumes["servers"]["server"] = <<One("{")>>
  /\ DOMAIN Consumes["server"] =
       {"listen", "server_name", "error_page", "location", "client_max_body_size", "}"}
  /\ Consumes["server"]["listen"] = <<One("NUMBER"), One(";")>>
  /\ Consumes["server"]["server_name"] = <<One("STRING"), Many("STRING"), One(";")>>
  /\ Consumes["server"]["error_page"] = <<Many("NUMBER"), One("STRING"), One(";")>>
  /\ Consumes["server"]["location"] = <<One("STRING"), One("{")>>
  /\ Consumes["server"]["client_max_body_size"] = <<One("NUMBER"), One("MUL"), One(";")>>
  /\ Consumes["server"]["}"] = <<>>
<1> DEFINE r == [listen |-> <<One("NUMBER"), One(";")>>,
                 server_name |-> <<One("STRING"), Many("STRING"), One(";")>>,
                 error_page |-> <<Many("NUMBER"), One("STRING"), One(";")>>,
                 location |-> <<One("STRING"), One("{")>>,
                 client_max_body_size |-> <<One("NUMBER"), One("MUL"), One(";")>>]
<1>1. Consumes["server"] = With(r, "}", <<>>)
  BY DEF Consumes
<1>2. DOMAIN Consumes = Blocks
  BY DEF Consumes, Blocks
<1>3. DOMAIN Consumes["servers"] = {"server"} /\ Consumes["servers"]["server"] = <<One("{")>>
  BY DEF Consumes
<1>4. DOMAIN r = {"listen", "server_name", "error_page", "location", "client_max_body_size"}
  OBVIOUS
<1>5. /\ r["listen"] = <<One("NUMBER"), One(";")>>
      /\ r["server_name"] = <<One("STRING"), Many("STRING"), One(";")>>
      /\ r["error_page"] = <<Many("NUMBER"), One("STRING"), One(";")>>
      /\ r["location"] = <<One("STRING"), One("{")>>
      /\ r["client_max_body_size"] = <<One("NUMBER"), One("MUL"), One(";")>>
  OBVIOUS
<1> HIDE DEF r
<1>6. DOMAIN Consumes["server"] = DOMAIN r \cup {"}"}
  BY <1>1 DEF With
<1>7. \A d \in DOMAIN r \cup {"}"} :
        Consumes["server"][d] = IF d = "}" THEN <<>> ELSE r[d]
  BY <1>1 DEF With
<1>8. /\ Consumes["server"]["listen"] = r["listen"]
      /\ Consumes["server"]["server_name"] = r["server_name"]
      /\ Consumes["server"]["error_page"] = r["error_page"]
      /\ Consumes["server"]["location"] = r["location"]
      /\ Consumes["server"]["client_max_body_size"] = r["client_max_body_size"]
      /\ Consumes["server"]["}"] = <<>>
  BY <1>4, <1>7
<1> QED
  BY <1>2, <1>3, <1>4, <1>5, <1>6, <1>8

Plain == {"root", "autoindex", "index", "cgi", "upload_store"}

\* The lists of a location.
LEMMA LocationListsAre ==
  /\ DOMAIN Consumes["location"] =
       Plain \cup {"error_page", "allowed_methods", "redirect", "return", "}"}
  /\ DOMAIN Consumes["cgi"] = DOMAIN Consumes["location"] \cup {"cgi_path"}
  /\ \A d \in DOMAIN Consumes["location"] : Consumes["cgi"][d] = Consumes["location"][d]
  /\ Consumes["cgi"]["cgi_path"] = <<One("STRING"), One(";")>>
  /\ \A d \in Plain : Consumes["location"][d] = <<One("STRING"), One(";")>>
  /\ Consumes["location"]["error_page"] = <<One("NUMBER"), One("STRING"), One(";")>>
  /\ Consumes["location"]["allowed_methods"] = <<Many("STRING"), One(";")>>
  /\ Consumes["location"]["redirect"] = <<Maybe("NUMBER"), One("STRING"), One(";")>>
  /\ Consumes["location"]["return"] = <<One("NUMBER"), Many("STRING"), One(";")>>
  /\ Consumes["location"]["}"] = <<>>
<1>1. Consumes["location"] = InLocation
  BY DEF Consumes
<1>2. Consumes["cgi"] = With(InLocation, "cgi_path", <<One("STRING"), One(";")>>)
  BY DEF Consumes
<1>3. DOMAIN InLocation = Plain \cup {"error_page", "allowed_methods", "redirect", "return", "}"}
  BY DEF InLocation, Plain
<1>4. /\ \A d \in Plain : InLocation[d] = <<One("STRING"), One(";")>>
      /\ InLocation["error_page"] = <<One("NUMBER"), One("STRING"), One(";")>>
      /\ InLocation["allowed_methods"] = <<Many("STRING"), One(";")>>
      /\ InLocation["redirect"] = <<Maybe("NUMBER"), One("STRING"), One(";")>>
      /\ InLocation["return"] = <<One("NUMBER"), Many("STRING"), One(";")>>
      /\ InLocation["}"] = <<>>
  BY DEF InLocation, Plain
<1> HIDE DEF InLocation
<1>5. DOMAIN Consumes["cgi"] = DOMAIN InLocation \cup {"cgi_path"}
  BY <1>2 DEF With
<1>6. \A d \in DOMAIN InLocation \cup {"cgi_path"} :
        Consumes["cgi"][d] = IF d = "cgi_path" THEN <<One("STRING"), One(";")>> ELSE InLocation[d]
  BY <1>2 DEF With
<1>7. "cgi_path" \notin DOMAIN InLocation
  BY <1>3 DEF Plain
<1>8. Consumes["cgi"]["cgi_path"] = <<One("STRING"), One(";")>>
  BY <1>6
<1>9. \A d \in DOMAIN InLocation : Consumes["cgi"][d] = InLocation[d]
  BY <1>6, <1>7
<1> QED
  BY <1>1, <1>3, <1>4, <1>5, <1>8, <1>9

\* Up to three consumes, element by element.
LEMMA ListLooks ==
  ASSUME NEW S, NEW x \in S, NEW y \in S, NEW z \in S
  PROVE  /\ Len(<<>>) = 0
         /\ Len(<<x>>) = 1 /\ <<x>>[1] = x /\ Head(<<x>>) = x /\ Tail(<<x>>) = <<>>
         /\ <<x>> # <<>>
         /\ Len(<<x, y>>) = 2 /\ <<x, y>>[1] = x /\ <<x, y>>[2] = y
         /\ Head(<<x, y>>) = x /\ Tail(<<x, y>>) = <<y>> /\ <<x, y>> # <<>>
         /\ Len(<<x, y, z>>) = 3 /\ <<x, y, z>>[1] = x /\ <<x, y, z>>[2] = y /\ <<x, y, z>>[3] = z
         /\ Head(<<x, y, z>>) = x /\ Tail(<<x, y, z>>) = <<y, z>> /\ <<x, y, z>> # <<>>
OBVIOUS

\* Which lists are proper.
Ending(c) == c \in Consume /\ c.type \in {";", "{"} /\ c.times = "one"
Inner(c) == c \in Consume /\ c.type \notin {";", "{"}

\* Lists of up to three consumes are proper when their tokens tell them apart.
LEMMA ListsProper ==
  /\ Proper(<<>>)
  /\ \A x \in Consume : Ending(x) => Proper(<<x>>)
  /\ \A x, y \in Consume :
       Inner(x) /\ Ending(y) => Proper(<<x, y>>)
  /\ \A x, y, z \in Consume :
       Inner(x) /\ Inner(y) /\ Ending(z) /\ (x.times # "one" => y.times = "one" /\ x.type # y.type) =>
         Proper(<<x, y, z>>)
<1> USE DEF Ending, Inner
<1>1. Proper(<<>>)
  <2>1. <<>> \in Seq(Consume) /\ 1..Len(<<>>) = {}
    OBVIOUS
  <2> QED
    BY <2>1 DEF Proper
<1>2. ASSUME NEW x \in Consume, Ending(x) PROVE Proper(<<x>>)
  <2>1. <<x>> \in Seq(Consume) /\ Len(<<x>>) = 1 /\ <<x>>[1] = x
    BY ConsumesInOrder
  <2>2. \A k \in 1..1 : k = 1
    OBVIOUS
  <2> QED
    BY <1>2, <2>1, <2>2 DEF Proper
<1>3. ASSUME NEW x \in Consume, NEW y \in Consume, Inner(x), Ending(y) PROVE Proper(<<x, y>>)
  <2> DEFINE E == <<x, y>>
  <2>1. E \in Seq(Consume) /\ Len(E) = 2 /\ E[1] = x /\ E[2] = y
    BY ConsumesInOrder
  <2> HIDE DEF E
  <2>2. \A k \in 1..2 : k = 1 \/ k = 2
    OBVIOUS
  <2>3. 1 + 1 = 2 /\ 1 \in 1..2 /\ 2 \in 1..2 /\ 1 # 2
    OBVIOUS
  <2>4. x.type # y.type
    BY <1>3
  <2>5. \A k \in 1..Len(E) :
          /\ E[k].times # "one" =>
               k + 1 \in 1..Len(E) /\ E[k + 1].times = "one" /\ E[k + 1].type # E[k].type
          /\ E[k].type \in {";", "{"} <=> k = Len(E)
    BY <1>3, <2>1, <2>2, <2>3, <2>4
  <2>6. Proper(E)
    BY <2>1, <2>5 DEF Proper
  <2> QED
    BY <2>6 DEF E
<1>4. ASSUME NEW x \in Consume, NEW y \in Consume, NEW z \in Consume, Inner(x), Inner(y), Ending(z),
             x.times # "one" => y.times = "one" /\ x.type # y.type
      PROVE  Proper(<<x, y, z>>)
  <2> DEFINE E == <<x, y, z>>
  <2>1. E \in Seq(Consume) /\ Len(E) = 3 /\ E[1] = x /\ E[2] = y /\ E[3] = z
    BY ConsumesInOrder
  <2> HIDE DEF E
  <2>2. \A k \in 1..3 : k = 1 \/ k = 2 \/ k = 3
    OBVIOUS
  <2>3. 1 + 1 = 2 /\ 2 + 1 = 3 /\ 1 \in 1..3 /\ 2 \in 1..3 /\ 3 \in 1..3 /\ 1 # 3 /\ 2 # 3
    OBVIOUS
  <2>4. y.type # z.type
    BY <1>4
  <2>5. ASSUME NEW k \in 1..3
        PROVE  /\ E[k].times # "one" =>
                    k + 1 \in 1..3 /\ E[k + 1].times = "one" /\ E[k + 1].type # E[k].type
               /\ E[k].type \in {";", "{"} <=> k = 3
    <3>1. CASE k = 1
      BY <1>4, <2>1, <2>3, <3>1
    <3>2. CASE k = 2
      BY <1>4, <2>1, <2>3, <2>4, <3>2
    <3>3. CASE k = 3
      BY <1>4, <2>1, <2>3, <3>3
    <3> QED
      BY <2>2, <3>1, <3>2, <3>3
  <2>6. Proper(E)
    BY <2>1, <2>5 DEF Proper
  <2> QED
    BY <2>6 DEF E
<1> QED
  BY <1>1, <1>2, <1>3, <1>4

\* All of them are, and only a closing brace has nothing after it.
LEMMA AllProper ==
  ASSUME NEW block \in Blocks, NEW d \in DOMAIN Consumes[block]
  PROVE  Proper(Consumes[block][d]) /\ (Consumes[block][d] = <<>> <=> d = "}")
<1>1. /\ One(";") \in Consume /\ One("{") \in Consume /\ One("NUMBER") \in Consume
      /\ One("STRING") \in Consume /\ One("MUL") \in Consume /\ Many("STRING") \in Consume
      /\ Many("NUMBER") \in Consume /\ Maybe("NUMBER") \in Consume
  BY ConsumeIs
<1>2. /\ Ending(One(";")) /\ Ending(One("{")) /\ Inner(One("NUMBER")) /\ Inner(One("STRING"))
      /\ Inner(One("MUL")) /\ Inner(Many("STRING")) /\ Inner(Many("NUMBER")) /\ Inner(Maybe("NUMBER"))
  BY <1>1 DEF Ending, Inner, One, Many, Maybe
<1>3. /\ One("NUMBER").times = "one" /\ One("STRING").times = "one" /\ One(";").times = "one"
      /\ One("NUMBER").type = "NUMBER" /\ One("STRING").type = "STRING"
      /\ Many("NUMBER").type = "NUMBER" /\ Maybe("NUMBER").type = "NUMBER"
  BY DEF One, Many, Maybe
<1> DEFINE Good(E) == Proper(E) /\ E # <<>>
<1>4. /\ Good(<<One("{")>>)
      /\ Good(<<One("NUMBER"), One(";")>>)
      /\ Good(<<One("STRING"), One("{")>>)
      /\ Good(<<One("STRING"), One(";")>>)
      /\ Good(<<Many("STRING"), One(";")>>)
  BY <1>1, <1>2, ListsProper, ListLooks
<1>5. /\ Good(<<One("NUMBER"), One("MUL"), One(";")>>)
      /\ Good(<<One("STRING"), Many("STRING"), One(";")>>)
      /\ Good(<<Many("NUMBER"), One("STRING"), One(";")>>)
      /\ Good(<<One("NUMBER"), One("STRING"), One(";")>>)
      /\ Good(<<Maybe("NUMBER"), One("STRING"), One(";")>>)
      /\ Good(<<One("NUMBER"), Many("STRING"), One(";")>>)
  <2>1. "NUMBER" # "STRING"
    OBVIOUS
  <2> QED
    BY <1>1, <1>2, <1>3, <2>1, ListsProper, ListLooks
<1>6. Proper(<<>>)
  BY ListsProper
<1> DEFINE Right(E) == Proper(E) /\ (E = <<>> <=> d = "}")
<1> HIDE DEF Good
<1>7. \A E : Good(E) /\ d # "}" => Right(E)
  BY DEF Good
<1> HIDE DEF Right
<1>8. Right(<<>>) <=> d = "}"
  BY <1>6 DEF Right
<1>9. CASE block = "servers"
  <2>1. d = "server"
    BY <1>9, ListsAre
  <2> QED
    BY <1>4, <1>7, <1>9, <2>1, ListsAre DEF Right
<1>10. CASE block = "server"
  <2>1. d \in {"listen", "server_name", "error_page", "location", "client_max_body_size", "}"}
    BY <1>10, ListsAre
  <2>2. Right(Consumes["server"][d])
    BY <1>4, <1>5, <1>7, <1>8, <2>1, ListsAre
  <2> QED
    BY <1>10, <2>2 DEF Right
<1>11. CASE block \in {"location", "cgi"}
  <2>1. CASE d = "cgi_path"
    BY <1>4, <1>7, <1>11, <2>1, LocationListsAre DEF Right, Plain
  <2>2. CASE d # "cgi_path"
    <3>1. d \in DOMAIN Consumes["location"] /\ Consumes[block][d] = Consumes["location"][d]
      BY <1>11, <2>2, LocationListsAre
    <3>2. d \in Plain \cup {"error_page", "allowed_methods", "redirect", "return", "}"}
      BY <3>1, LocationListsAre
    <3>3. CASE d \in Plain
      <4>1. d # "}"
        BY <3>3 DEF Plain
      <4> QED
        BY <1>4, <1>7, <3>1, <3>3, <4>1, LocationListsAre DEF Right
    <3>4. CASE d \in {"error_page", "allowed_methods", "redirect", "return", "}"}
      <4>1. Right(Consumes["location"][d])
        BY <1>4, <1>5, <1>7, <1>8, <3>4, LocationListsAre
      <4> QED
        BY <3>1, <4>1 DEF Right
    <3> QED
      BY <3>2, <3>3, <3>4
  <2> QED
    BY <2>1, <2>2
<1> QED
  BY <1>9, <1>10, <1>11 DEF Blocks

\* What lists of tokens that must be there accept.
LEMMA OneFits ==
  ASSUME NEW z \in Consume, z.times = "one", NEW a \in Int, NEW b \in Int, Proper(<<z>>)
  PROVE  Fits(<<z>>, a, b) <=> b = a /\ _tokens[a].type = z.type
<1> DEFINE E == <<z>>
<1>1. E # <<>> /\ Head(E) = z /\ Tail(E) = <<>> /\ Proper(E)
  BY ListLooks
<1> HIDE DEF E
<1>2. Fits(E, a, b) <=> _tokens[a].type = z.type /\ Fits(<<>>, a + 1, b)
  BY <1>1, FitsOne
<1>3. Fits(<<>>, a + 1, b) <=> b = (a + 1) - 1
  BY FitsEmpty
<1> QED
  BY <1>2, <1>3 DEF E

\* A list of two tokens.
LEMMA TwoFit ==
  ASSUME NEW y \in Consume, NEW z \in Consume, y.times = "one", z.times = "one",
         NEW a \in Int, NEW b \in Int, Proper(<<y, z>>)
  PROVE  Fits(<<y, z>>, a, b) <=>
           b = a + 1 /\ _tokens[a].type = y.type /\ _tokens[a + 1].type = z.type
<1> DEFINE E == <<y, z>>
           T == <<z>>
<1>1. E # <<>> /\ Head(E) = y /\ Tail(E) = T /\ Proper(E)
  BY ListLooks
<1> HIDE DEF E
<1>2. Proper(T)
  <2> HIDE DEF T
  <2> QED
    BY <1>1, TailProper
<1>3. Fits(T, a + 1, b) <=> b = a + 1 /\ _tokens[a + 1].type = z.type
  BY <1>2, OneFits
<1> HIDE DEF T
<1>4. Fits(E, a, b) <=> _tokens[a].type = y.type /\ Fits(T, a + 1, b)
  BY <1>1, FitsOne
<1> QED
  BY <1>3, <1>4 DEF E

\* A list of three tokens.
LEMMA ThreeFit ==
  ASSUME NEW x \in Consume, NEW y \in Consume, NEW z \in Consume,
         x.times = "one", y.times = "one", z.times = "one",
         NEW a \in Int, NEW b \in Int, Proper(<<x, y, z>>)
  PROVE  Fits(<<x, y, z>>, a, b) <=>
           /\ b = a + 2 /\ _tokens[a].type = x.type /\ _tokens[a + 1].type = y.type
           /\ _tokens[a + 2].type = z.type
<1> DEFINE E == <<x, y, z>>
           T == <<y, z>>
<1>1. E # <<>> /\ Head(E) = x /\ Tail(E) = T /\ Proper(E)
  BY ListLooks
<1> HIDE DEF E
<1>2. Proper(T)
  <2> HIDE DEF T
  <2> QED
    BY <1>1, TailProper
<1>3. Fits(T, a + 1, b) <=>
        b = (a + 1) + 1 /\ _tokens[a + 1].type = y.type /\ _tokens[(a + 1) + 1].type = z.type
  BY <1>2, TwoFit
<1> HIDE DEF T
<1>4. Fits(E, a, b) <=> _tokens[a].type = x.type /\ Fits(T, a + 1, b)
  BY <1>1, FitsOne
<1>5. (a + 1) + 1 = a + 2
  OBVIOUS
<1> QED
  BY <1>3, <1>4, <1>5 DEF E

\* Tokens from a to before z are of a type.
Run(type, a, z) == a <= z /\ \A p \in a..(z - 1) : _tokens[p].type = type

\* A consume that takes as many tokens as there are of its type.
LEMMA SpansMany ==
  ASSUME NEW y, y.times = "many", NEW c, NEW e
  PROVE  Spans(y, c, e) <=> Run(y.type, c, e)
BY DEF Spans, Run

\* The words from a to b, by their types.
RunThen(x, a, b, y) == Run(x, a, b) /\ _tokens[b].type = y
WordRunThen(x, a, y, b, z) == _tokens[a].type = x /\ RunThen(y, a + 1, b, z)
RunThenTwo(x, a, b, y, z) == Run(x, a, b - 1) /\ _tokens[b - 1].type = y /\ _tokens[b].type = z

\* What lists with any number of tokens of a type accept.
LEMMA ManyFit ==
  ASSUME NEW y \in Consume, NEW z \in Consume, NEW a \in Int, NEW b \in Int,
         Proper(<<y, z>>), y.times = "many", z.times = "one"
  PROVE  Fits(<<y, z>>, a, b) <=> RunThen(y.type, a, b, z.type)
<1> DEFINE E == <<y, z>>
           T == <<z>>
<1>1. E # <<>> /\ Head(E) = y /\ Tail(E) = T /\ Proper(E)
  BY ListLooks
<1> HIDE DEF E
<1>2. Proper(T)
  <2> HIDE DEF T
  <2> QED
    BY <1>1, TailProper
<1>3. \A e \in Int : Fits(T, e, b) <=> b = e /\ _tokens[e].type = z.type
  BY <1>2, OneFits
<1> HIDE DEF T
<1>4. Fits(E, a, b) <=> \E e \in Int : Spans(y, a, e) /\ Fits(T, e, b)
  BY <1>1, FitsFirst
<1>5. \A e \in Int : Spans(y, a, e) <=> Run(y.type, a, e)
  BY SpansMany
<1> QED
  BY <1>3, <1>4, <1>5 DEF E, RunThen

\* A token, a run, a token.
LEMMA OneManyFit ==
  ASSUME NEW x \in Consume, NEW y \in Consume, NEW z \in Consume, NEW a \in Int, NEW b \in Int,
         Proper(<<x, y, z>>), x.times = "one", y.times = "many", z.times = "one"
  PROVE  Fits(<<x, y, z>>, a, b) <=>
           _tokens[a].type = x.type /\ RunThen(y.type, a + 1, b, z.type)
<1> DEFINE E == <<x, y, z>>
           T == <<y, z>>
<1>1. E # <<>> /\ Head(E) = x /\ Tail(E) = T /\ Proper(E)
  BY ListLooks
<1> HIDE DEF E
<1>2. Proper(T)
  <2> HIDE DEF T
  <2> QED
    BY <1>1, TailProper
<1>3. a + 1 \in Int
  OBVIOUS
<1>4. Fits(T, a + 1, b) <=> RunThen(y.type, a + 1, b, z.type)
  BY <1>2, <1>3, ManyFit
<1> HIDE DEF T
<1>5. Fits(E, a, b) <=> _tokens[a].type = x.type /\ Fits(T, a + 1, b)
  BY <1>1, FitsOne
<1> QED
  BY <1>4, <1>5 DEF E

\* A run, and two tokens.
LEMMA ManyTwoFit ==
  ASSUME NEW x \in Consume, NEW y \in Consume, NEW z \in Consume, NEW a \in Int, NEW b \in Int,
         Proper(<<x, y, z>>), x.times = "many", y.times = "one", z.times = "one"
  PROVE  Fits(<<x, y, z>>, a, b) <=> RunThenTwo(x.type, a, b, y.type, z.type)
<1> DEFINE E == <<x, y, z>>
           T == <<y, z>>
<1>1. E # <<>> /\ Head(E) = x /\ Tail(E) = T /\ Proper(E)
  BY ListLooks
<1> HIDE DEF E
<1>2. Proper(T)
  <2> HIDE DEF T
  <2> QED
    BY <1>1, TailProper
<1>3. \A e \in Int : Fits(T, e, b) <=>
                       b = e + 1 /\ _tokens[e].type = y.type /\ _tokens[e + 1].type = z.type
  BY <1>2, TwoFit
<1> HIDE DEF T
<1>4. Fits(E, a, b) <=> \E e \in Int : Spans(x, a, e) /\ Fits(T, e, b)
  BY <1>1, FitsFirst
<1>5. \A e \in Int : Spans(x, a, e) <=> Run(x.type, a, e)
  BY SpansMany
<1>6. \A e \in Int : b = e + 1 <=> e = b - 1
  OBVIOUS
<1>7. b - 1 \in Int /\ (b - 1) + 1 = b
  OBVIOUS
<1>8. Fits(E, a, b) <=>
        Run(x.type, a, b - 1) /\ _tokens[b - 1].type = y.type /\ _tokens[(b - 1) + 1].type = z.type
  BY <1>3, <1>4, <1>5, <1>6, <1>7
<1> QED
  BY <1>7, <1>8 DEF E, RunThenTwo

\* What a list that begins with a token that may be left out accepts.
LEMMA MaybeFits ==
  ASSUME NEW x \in Consume, NEW y \in Consume, NEW z \in Consume, NEW a \in Int, NEW b \in Int,
         Proper(<<x, y, z>>), x.times = "maybe", y.times = "one", z.times = "one"
  PROVE  Fits(<<x, y, z>>, a, b) <=>
           \/ b = a + 1 /\ _tokens[a].type = y.type /\ _tokens[a + 1].type = z.type
           \/ /\ b = a + 2 /\ _tokens[a].type = x.type /\ _tokens[a + 1].type = y.type
              /\ _tokens[a + 2].type = z.type
<1> DEFINE E == <<x, y, z>>
           T == <<y, z>>
<1>1. E # <<>> /\ Head(E) = x /\ Tail(E) = T /\ Proper(E)
  BY ListLooks
<1>0. Len(E) = 3 /\ E[1] = x /\ E[2] = y
  BY ListLooks
<1> HIDE DEF E
<1>2. Proper(T)
  <2> HIDE DEF T
  <2> QED
    BY <1>1, TailProper
<1>3. \A e \in Int : Fits(T, e, b) <=>
                       b = e + 1 /\ _tokens[e].type = y.type /\ _tokens[e + 1].type = z.type
  BY <1>2, TwoFit
<1> HIDE DEF T
<1>4. x.type # y.type
  <2>1. 1 \in 1..3 /\ 1 + 1 = 2
    OBVIOUS
  <2>2. 1 \in 1..Len(E) /\ E[1].times # "one"
    BY <1>0, <2>1
  <2>3. E[1 + 1].type # E[1].type
    BY <1>1, <2>2 DEF Proper
  <2> QED
    BY <1>0, <2>1, <2>3
<1>5. CASE _tokens[a].type = x.type
  <2>1. Fits(E, a, b) <=> Fits(T, a + 1, b)
    BY <1>1, <1>5, FitsMaybe
  <2>2. Fits(T, a + 1, b) <=>
          b = (a + 1) + 1 /\ _tokens[a + 1].type = y.type /\ _tokens[(a + 1) + 1].type = z.type
    BY <1>3
  <2>3. (a + 1) + 1 = a + 2
    OBVIOUS
  <2> QED
    BY <1>4, <1>5, <2>1, <2>2, <2>3 DEF E
<1>6. CASE _tokens[a].type # x.type
  <2>1. Fits(E, a, b) <=> Fits(T, a, b)
    BY <1>1, <1>6, FitsNot
  <2> QED
    BY <1>3, <1>6, <2>1 DEF E
<1> QED
  BY <1>5, <1>6

\* The shape of a statement, place by place.
LEMMA ShapeIs ==
  ASSUME Tape(_tokens), NEW n, NEW e, OneStatement(n, e)
  PROVE  /\ n \in 1..Len(Words) /\ e \in 1..Len(Words) /\ n <= e
         /\ Shape(n) \in Seq(Types) /\ Len(Shape(n)) = e - n + 1
         /\ \A k \in 1..(e - n + 1) : Shape(n)[k] = _tokens[n + k - 1].type
         /\ Words[n].type = _tokens[n].type /\ Shape(n)[1] = Words[n].type
<1> DEFINE N == Len(Words)
<1>1. /\ N \in Nat /\ n \in 1..N /\ e \in 1..N /\ n <= e /\ End(n) = e
      /\ \A i \in 1..N : Words[i] = _tokens[i] /\ Words[i].type \in Types
  BY WordsAre, StatementIs DEF OneStatement
<1>2. Shape(n) = [k \in 1..(e - n + 1) |-> Words[n + k - 1].type]
  BY <1>1 DEF Shape
<1> HIDE DEF N
<1>3. \A k \in 1..(e - n + 1) : n + k - 1 \in 1..N
  BY <1>1
<1>4. e - n + 1 \in Nat /\ 1 \in 1..(e - n + 1) /\ n + 1 - 1 = n
  BY <1>1
<1>5. Shape(n) \in [1..(e - n + 1) -> Types]
  BY <1>1, <1>2, <1>3
<1>6. Shape(n) \in Seq(Types) /\ Len(Shape(n)) = e - n + 1
  BY <1>4, <1>5, SeqOfLength
<1>7. \A k \in 1..(e - n + 1) : Shape(n)[k] = _tokens[n + k - 1].type
  BY <1>1, <1>2, <1>3
<1> QED
  BY <1>1, <1>4, <1>6, <1>7 DEF N

\* A statement of a fixed shape.
LEMMA FixedShape ==
  ASSUME Tape(_tokens), NEW n, NEW e, OneStatement(n, e), NEW t \in Seq(Types)
  PROVE  Shape(n) = t <=>
           e - n + 1 = Len(t) /\ \A k \in 1..Len(t) : _tokens[n + k - 1].type = t[k]
<1> DEFINE s == Shape(n)
<1>1. s \in Seq(Types) /\ Len(s) = e - n + 1 /\ \A k \in 1..(e - n + 1) : s[k] = _tokens[n + k - 1].type
  BY ShapeIs
<1> HIDE DEF s
<1>2. ASSUME e - n + 1 = Len(t), \A k \in 1..Len(t) : _tokens[n + k - 1].type = t[k] PROVE s = t
  <2>1. Len(s) = Len(t) /\ \A k \in 1..Len(t) : s[k] = t[k]
    BY <1>1, <1>2
  <2> QED
    BY <1>1, <2>1, SameSeq
<1> QED
  BY <1>1, <1>2 DEF s

\* Up to four types.
LEMMA FixedShapes ==
  ASSUME Tape(_tokens), NEW n, NEW e, OneStatement(n, e),
         NEW d \in Types, NEW x \in Types, NEW y \in Types, NEW z \in Types
  PROVE  /\ Shape(n) = <<d>> <=> e = n /\ _tokens[n].type = d
         /\ Shape(n) = <<d, x>> <=> e = n + 1 /\ _tokens[n].type = d /\ _tokens[n + 1].type = x
         /\ Shape(n) = <<d, x, y>> <=>
              /\ e = n + 2 /\ _tokens[n].type = d /\ _tokens[n + 1].type = x
              /\ _tokens[n + 2].type = y
         /\ Shape(n) = <<d, x, y, z>> <=>
              /\ e = n + 3 /\ _tokens[n].type = d /\ _tokens[n + 1].type = x
              /\ _tokens[n + 2].type = y /\ _tokens[n + 3].type = z
<1>1. /\ <<d>> \in Seq(Types) /\ Len(<<d>>) = 1 /\ <<d>>[1] = d
      /\ <<d, x>> \in Seq(Types) /\ Len(<<d, x>>) = 2 /\ <<d, x>>[1] = d /\ <<d, x>>[2] = x
      /\ <<d, x, y>> \in Seq(Types) /\ Len(<<d, x, y>>) = 3
      /\ <<d, x, y>>[1] = d /\ <<d, x, y>>[2] = x /\ <<d, x, y>>[3] = y
      /\ <<d, x, y, z>> \in Seq(Types) /\ Len(<<d, x, y, z>>) = 4
      /\ <<d, x, y, z>>[1] = d /\ <<d, x, y, z>>[2] = x /\ <<d, x, y, z>>[3] = y /\ <<d, x, y, z>>[4] = z
  OBVIOUS
<1>2. n \in Int /\ e \in Int
  BY ShapeIs, WordsAre
<1>3. n + 1 - 1 = n /\ n + 2 - 1 = n + 1 /\ n + 3 - 1 = n + 2 /\ n + 4 - 1 = n + 3
  BY <1>2
<1>4. /\ \A k : k \in 1..1 <=> k = 1
      /\ \A k : k \in 1..2 <=> k = 1 \/ k = 2
      /\ \A k : k \in 1..3 <=> k = 1 \/ k = 2 \/ k = 3
      /\ \A k : k \in 1..4 <=> k = 1 \/ k = 2 \/ k = 3 \/ k = 4
  OBVIOUS
<1>5. /\ e - n + 1 = 1 <=> e = n
      /\ e - n + 1 = 2 <=> e = n + 1
      /\ e - n + 1 = 3 <=> e = n + 2
      /\ e - n + 1 = 4 <=> e = n + 3
  BY <1>2
<1> DEFINE w(p) == _tokens[p].type
           Has(t) == e - n + 1 = Len(t) /\ \A k \in 1..Len(t) : w(n + k - 1) = t[k]
<1>6. \A t \in Seq(Types) : Shape(n) = t <=> Has(t)
  BY FixedShape
<1> HIDE DEF w
<1>7. Shape(n) = <<d>> <=> e = n /\ w(n) = d
  <2> DEFINE t == <<d>>
  <2>1. t \in Seq(Types) /\ Len(t) = 1 /\ t[1] = d
    BY <1>1
  <2> HIDE DEF t
  <2>2. Has(t) <=> e = n /\ w(n) = d
    BY <1>3, <1>4, <1>5, <2>1
  <2> HIDE DEF Has
  <2> QED
    BY <1>6, <2>1, <2>2 DEF t
<1>8. Shape(n) = <<d, x>> <=> e = n + 1 /\ w(n) = d /\ w(n + 1) = x
  <2> DEFINE t == <<d, x>>
  <2>1. t \in Seq(Types) /\ Len(t) = 2 /\ t[1] = d /\ t[2] = x
    BY <1>1
  <2> HIDE DEF t
  <2>2. Has(t) <=> e = n + 1 /\ w(n) = d /\ w(n + 1) = x
    BY <1>3, <1>4, <1>5, <2>1
  <2> HIDE DEF Has
  <2> QED
    BY <1>6, <2>1, <2>2 DEF t
<1>9. Shape(n) = <<d, x, y>> <=> e = n + 2 /\ w(n) = d /\ w(n + 1) = x /\ w(n + 2) = y
  <2> DEFINE t == <<d, x, y>>
  <2>1. t \in Seq(Types) /\ Len(t) = 3 /\ t[1] = d /\ t[2] = x /\ t[3] = y
    BY <1>1
  <2> HIDE DEF t
  <2>2. Has(t) <=> e = n + 2 /\ w(n) = d /\ w(n + 1) = x /\ w(n + 2) = y
    BY <1>3, <1>4, <1>5, <2>1
  <2> HIDE DEF Has
  <2> QED
    BY <1>6, <2>1, <2>2 DEF t
<1>10. Shape(n) = <<d, x, y, z>> <=>
         e = n + 3 /\ w(n) = d /\ w(n + 1) = x /\ w(n + 2) = y /\ w(n + 3) = z
  <2> DEFINE t == <<d, x, y, z>>
  <2>1. t \in Seq(Types) /\ Len(t) = 4 /\ t[1] = d /\ t[2] = x /\ t[3] = y /\ t[4] = z
    BY <1>1
  <2> HIDE DEF t
  <2>2. Has(t) <=> e = n + 3 /\ w(n) = d /\ w(n + 1) = x /\ w(n + 2) = y /\ w(n + 3) = z
    BY <1>3, <1>4, <1>5, <2>1
  <2> HIDE DEF Has
  <2> QED
    BY <1>6, <2>1, <2>2 DEF t
<1> QED
  BY <1>7, <1>8, <1>9, <1>10 DEF w

\* A sequence, then one value any number of times, then a sequence.
Repeats(first, many, k, rest) == first \o [j \in 1..k |-> many] \o rest
Repeated(s, first, many, k, rest) ==
  /\ Len(s) = Len(first) + k + Len(rest)
  /\ \A j \in 1..Len(first) : s[j] = first[j]
  /\ \A j \in 1..k : s[Len(first) + j] = many
  /\ \A j \in 1..Len(rest) : s[Len(first) + k + j] = rest[j]

\* The length and the elements of a form.
LEMMA FormIs ==
  ASSUME NEW S, NEW first \in Seq(S), NEW rest \in Seq(S), NEW many \in S,
         NEW k \in Nat, NEW s \in Seq(S)
  PROVE  s = Repeats(first, many, k, rest) <=> Repeated(s, first, many, k, rest)
<1> DEFINE A == Len(first)
           C == Len(rest)
           mid == [j \in 1..k |-> many]
           fm == first \o mid
           f == fm \o rest
<1>1. mid \in Seq(S) /\ Len(mid) = k /\ \A j \in 1..k : mid[j] = many
  <2>1. mid \in [1..k -> S]
    OBVIOUS
  <2> QED
    BY <2>1, SeqOfLength
<1>0. A \in Nat /\ C \in Nat
  OBVIOUS
<1> HIDE DEF mid
<1>2. /\ fm \in Seq(S) /\ Len(fm) = A + k
      /\ \A j \in 1..A : fm[j] = first[j]
      /\ \A j \in 1..k : fm[A + j] = many
  <2>1. /\ first \o mid \in Seq(S) /\ Len(first \o mid) = Len(first) + Len(mid)
        /\ \A i \in 1..Len(first) : (first \o mid)[i] = first[i]
        /\ \A i \in 1..Len(mid) : (first \o mid)[Len(first) + i] = mid[i]
    <3>1. first \in Seq(S) /\ mid \in Seq(S)
      BY <1>1
    <3> QED
      BY ONLY <3>1, ConcatHas
  <2> QED
    BY <1>1, <2>1
<1> HIDE DEF fm
<1>3. /\ f \in Seq(S) /\ Len(f) = A + k + C
      /\ \A j \in 1..(A + k) : f[j] = fm[j]
      /\ \A j \in 1..C : f[A + k + j] = rest[j]
  <2>1. /\ fm \o rest \in Seq(S) /\ Len(fm \o rest) = Len(fm) + Len(rest)
        /\ \A i \in 1..Len(fm) : (fm \o rest)[i] = fm[i]
        /\ \A i \in 1..Len(rest) : (fm \o rest)[Len(fm) + i] = rest[i]
    <3>1. fm \in Seq(S) /\ rest \in Seq(S)
      BY <1>2
    <3> QED
      BY ONLY <3>1, ConcatHas
  <2> QED
    BY <1>2, <2>1
<1> HIDE DEF f, A, C
<1>4. /\ \A j \in 1..A : j \in 1..(A + k)
      /\ \A j \in 1..k : A + j \in 1..(A + k)
  BY <1>0
<1>5. /\ \A j \in 1..A : f[j] = first[j]
      /\ \A j \in 1..k : f[A + j] = many
      /\ \A j \in 1..C : f[A + k + j] = rest[j]
  BY <1>2, <1>3, <1>4
<1>6. ASSUME /\ Len(s) = A + k + C
             /\ \A j \in 1..A : s[j] = first[j]
             /\ \A j \in 1..k : s[A + j] = many
             /\ \A j \in 1..C : s[A + k + j] = rest[j]
      PROVE  s = f
  <2>1. ASSUME NEW i \in 1..Len(f) PROVE s[i] = f[i]
    <3>1. i \in 1..A \/ i - A \in 1..k \/ i - (A + k) \in 1..C
      BY <1>0, <1>3
    <3>2. CASE i \in 1..A
      BY <1>5, <1>6, <3>2
    <3>3. CASE i - A \in 1..k
      <4>1. PICK j \in 1..k : j = i - A
        BY <3>3
      <4>2. i = A + j
        BY <1>0, <1>3, <4>1
      <4> QED
        BY <1>5, <1>6, <4>2
    <3>4. CASE i - (A + k) \in 1..C
      <4>1. PICK j \in 1..C : j = i - (A + k)
        BY <3>4
      <4>2. i = A + k + j
        BY <1>0, <1>3, <4>1
      <4> QED
        BY <1>5, <1>6, <4>2
    <3> QED
      BY <3>1, <3>2, <3>3, <3>4
  <2>2. Len(s) = Len(f)
    BY <1>3, <1>6
  <2> QED
    BY <1>3, <2>1, <2>2, SameSeq
<1>7. s = f => /\ Len(s) = A + k + C
               /\ \A j \in 1..A : s[j] = first[j]
               /\ \A j \in 1..k : s[A + j] = many
               /\ \A j \in 1..C : s[A + k + j] = rest[j]
  BY <1>3, <1>5
<1> QED
  BY <1>6, <1>7 DEF f, fm, mid, A, C, Repeats, Repeated

\* A statement with any number of words of a type.
Repeating(n, first, many, k, rest) ==
  /\ k \in Nat
  /\ \A j \in 1..Len(first) : _tokens[n + j - 1].type = first[j]
  /\ \A j \in 1..k : _tokens[n + Len(first) + j - 1].type = many
  /\ \A j \in 1..Len(rest) : _tokens[n + Len(first) + k + j - 1].type = rest[j]

\* A statement of a form.
LEMMA FormShape ==
  ASSUME Tape(_tokens), NEW n, NEW e, OneStatement(n, e),
         NEW first \in Seq(Types), NEW many \in Types, NEW rest \in Seq(Types),
         NEW m \in Int, m = e - n + 1 - Len(first) - Len(rest)
  PROVE  Shape(n) \in Forms(first, many, rest) <=> Repeating(n, first, many, m, rest)
<1> DEFINE s == Shape(n)
           w(p) == _tokens[p].type
           N == Len(Words)
           A == Len(first)
           C == Len(rest)
<1>1. /\ s \in Seq(Types) /\ Len(s) = e - n + 1 /\ \A k \in 1..(e - n + 1) : s[k] = w(n + k - 1)
      /\ n \in Int /\ e \in Int /\ n >= 1 /\ e <= N /\ N \in Nat
      /\ A \in Nat /\ C \in Nat /\ m = e - n + 1 - A - C
  <2>1. s \in Seq(Types) /\ Len(s) = e - n + 1 /\ \A k \in 1..(e - n + 1) : s[k] = w(n + k - 1)
    BY ShapeIs
  <2>2. n \in Int /\ e \in Int /\ n >= 1 /\ e <= N /\ N \in Nat
    BY ShapeIs, WordsAre
  <2>3. A \in Nat /\ C \in Nat
    OBVIOUS
  <2> QED
    BY <2>1, <2>2, <2>3
<1>0. A = Len(first) /\ C = Len(rest)
  OBVIOUS
<1> HIDE DEF s, w, N, A, C
<1> DEFINE Right(k) == /\ Len(s) = A + k + C
                       /\ \A j \in 1..A : s[j] = first[j]
                       /\ \A j \in 1..k : s[A + j] = many
                       /\ \A j \in 1..C : s[A + k + j] = rest[j]
<1>2. s \in Forms(first, many, rest) <=> \E k \in 0..N : s = Repeats(first, many, k, rest)
  BY DEF Forms, N, Repeats
<1>3. ASSUME NEW k \in Nat PROVE s = Repeats(first, many, k, rest) <=> Right(k)
  <2>2. s = Repeats(first, many, k, rest) <=> Repeated(s, first, many, k, rest)
    BY <1>1, FormIs
  <2> QED
    BY <1>0, <2>2 DEF Repeated
<1>4. ASSUME NEW k \in Nat PROVE Len(s) = A + k + C <=> k = m
  BY <1>1
<1> HIDE DEF Right
<1>5. m \in Nat => m \in 0..N
  BY <1>1
<1>6. s \in Forms(first, many, rest) <=> m \in Nat /\ Right(m)
  <2>1. \A k \in 0..N : k \in Nat
    BY <1>1
  <2>2. \A k \in 0..N : Right(k) => k = m
    BY <1>4, <2>1 DEF Right
  <2>3. s \in Forms(first, many, rest) <=> \E k \in 0..N : Right(k)
    BY <1>2, <1>3, <2>1
  <2> QED
    BY <1>5, <2>1, <2>2, <2>3
<1>7. ASSUME m \in Nat
      PROVE  Right(m) <=> /\ \A k \in 1..A : w(n + k - 1) = first[k]
                          /\ \A k \in 1..m : w(n + A + k - 1) = many
                          /\ \A k \in 1..C : w(n + A + m + k - 1) = rest[k]
  <2>1. Len(s) = A + m + C
    BY <1>4, <1>7
  <2>2. A + m + C = e - n + 1
    <3>1. A \in Nat /\ C \in Nat /\ m \in Int /\ m = e - n + 1 - A - C /\ n \in Int /\ e \in Int
      BY <1>1
    <3> QED
      BY ONLY <3>1
  <2>3. /\ \A k \in 1..A : k \in 1..(e - n + 1)
        /\ \A k \in 1..m : A + k \in 1..(e - n + 1) /\ n + (A + k) - 1 = n + A + k - 1
        /\ \A k \in 1..C : A + m + k \in 1..(e - n + 1) /\ n + (A + m + k) - 1 = n + A + m + k - 1
    BY <1>1, <1>7, <2>2
  <2>4. /\ \A k \in 1..A : s[k] = w(n + k - 1)
        /\ \A k \in 1..m : s[A + k] = w(n + A + k - 1)
        /\ \A k \in 1..C : s[A + m + k] = w(n + A + m + k - 1)
    BY <1>1, <2>3
  <2>5. (\A k \in 1..A : s[k] = first[k]) <=> \A k \in 1..A : w(n + k - 1) = first[k]
    BY ONLY <2>4
  <2>6. (\A k \in 1..m : s[A + k] = many) <=> \A k \in 1..m : w(n + A + k - 1) = many
    BY ONLY <2>4
  <2>7. (\A k \in 1..C : s[A + m + k] = rest[k]) <=> \A k \in 1..C : w(n + A + m + k - 1) = rest[k]
    BY ONLY <2>4
  <2> QED
    BY ONLY <2>1, <2>5, <2>6, <2>7, Zenon DEF Right
<1> QED
  BY <1>6, <1>7 DEF s, w, A, C, Repeating

\* The words from a to b, by their types.
OneWord(a, b, x) == b = a /\ _tokens[a].type = x
TwoWords(a, b, x, y) == b = a + 1 /\ _tokens[a].type = x /\ _tokens[a + 1].type = y
ThreeWords(a, b, x, y, z) ==
  b = a + 2 /\ _tokens[a].type = x /\ _tokens[a + 1].type = y /\ _tokens[a + 2].type = z

\* A run, word by word.
LEMMA RunIs ==
  ASSUME NEW a \in Int, NEW m \in Nat, NEW t
  PROVE  Run(t, a, a + m) <=> \A k \in 1..m : _tokens[a + k - 1].type = t
<1> DEFINE w(p) == _tokens[p].type
<1>1. ASSUME \A k \in 1..m : w(a + k - 1) = t, NEW p \in a..(a + m - 1) PROVE w(p) = t
  <2>1. p - a + 1 \in 1..m /\ a + (p - a + 1) - 1 = p
    OBVIOUS
  <2> HIDE DEF w
  <2> QED
    BY <1>1, <2>1
<1>2. ASSUME \A p \in a..(a + m - 1) : w(p) = t, NEW k \in 1..m PROVE w(a + k - 1) = t
  <2>1. a + k - 1 \in a..(a + m - 1)
    OBVIOUS
  <2> HIDE DEF w
  <2> QED
    BY <1>2, <2>1
<1>3. a <= a + m
  OBVIOUS
<1>4. (\A p \in a..(a + m - 1) : w(p) = t) <=> \A k \in 1..m : w(a + k - 1) = t
  BY ONLY <1>1, <1>2
<1> QED
  BY ONLY <1>3, <1>4 DEF Run

\* Statements with words of a type, by the word they begin with.
LEMMA ShapeRun ==
  ASSUME Tape(_tokens), NEW n, NEW e, OneStatement(n, e),
         NEW d \in Types, NEW x \in Types, NEW y \in Types
  PROVE  Shape(n) \in Forms(<<d>>, x, <<y>>) <=> _tokens[n].type = d /\ RunThen(x, n + 1, e, y)
<1> DEFINE w(p) == _tokens[p].type
<1>1. /\ \A a \in Types : <<a>> \in Seq(Types) /\ Len(<<a>>) = 1 /\ <<a>>[1] = a
      /\ \A a, b \in Types :
           <<a, b>> \in Seq(Types) /\ Len(<<a, b>>) = 2 /\ <<a, b>>[1] = a /\ <<a, b>>[2] = b
  OBVIOUS
<1>2. n \in Int /\ e \in Int
  BY ShapeIs, WordsAre
<1>3. /\ \A k : k \in 1..1 <=> k = 1
      /\ \A k : k \in 1..2 <=> k = 1 \/ k = 2
  OBVIOUS
<1>4. Shape(n) \in Forms(<<d>>, x, <<y>>) <=> w(n) = d /\ Run(x, n + 1, e) /\ w(e) = y
  <2> DEFINE first == <<d>>
             rest == <<y>>
  <2>1. first \in Seq(Types) /\ rest \in Seq(Types) /\ Len(first) = 1 /\ Len(rest) = 1 /\ first[1] = d /\ rest[1] = y
    BY <1>1
  <2> HIDE DEF first, rest
  <2>6. PICK m \in Int : m = e - n + 1 - Len(first) - Len(rest)
    BY <1>2, <2>1
  <2>7. m = e - n + 1 - 1 - 1
    BY <2>1, <2>6
  <2>2. Shape(n) \in Forms(first, x, rest) <=>
          /\ m \in Nat
          /\ \A k \in 1..1 : w(n + k - 1) = first[k]
          /\ \A k \in 1..m : w(n + 1 + k - 1) = x
          /\ \A k \in 1..1 : w(n + 1 + m + k - 1) = rest[k]
    <3> HIDE DEF w
    <3>1. Shape(n) \in Forms(first, x, rest) <=> Repeating(n, first, x, m, rest)
      BY <2>1, <2>6, FormShape
    <3> QED
      BY ONLY <2>1, <3>1 DEF w, Repeating
  <2>3. n + 1 - 1 = n /\ n + 1 + m + 1 - 1 = e /\ n + 1 + m = e /\ (m \in Nat <=> n + 1 <= e)
    BY <1>2, <2>7
  <2>4. m \in Nat => (Run(x, n + 1, e) <=> \A k \in 1..m : w(n + 1 + k - 1) = x)
    <3>1. n + 1 \in Int
      BY <1>2
    <3>2. m \in Nat => (Run(x, n + 1, n + 1 + m) <=> \A k \in 1..m : w(n + 1 + k - 1) = x)
      BY RunIs, <3>1, Zenon
    <3> QED
      BY <2>3, <3>2, Zenon
  <2>5. Run(x, n + 1, e) => m \in Nat
    BY ONLY <2>3 DEF Run
  <2> HIDE DEF w
  <2> QED
    BY <1>3, <2>1, <2>2, <2>3, <2>4, <2>5 DEF first, rest
<1> QED
  BY <1>4 DEF w, RunThen

\* A statement of a word, a run and an end.
LEMMA ShapeWordRun ==
  ASSUME Tape(_tokens), NEW n, NEW e, OneStatement(n, e),
         NEW d \in Types, NEW x \in Types, NEW y \in Types, NEW z \in Types
  PROVE  Shape(n) \in Forms(<<d, x>>, y, <<z>>) <=>
           _tokens[n].type = d /\ WordRunThen(x, n + 1, y, e, z)
<1> DEFINE w(p) == _tokens[p].type
<1>1. /\ \A a \in Types : <<a>> \in Seq(Types) /\ Len(<<a>>) = 1 /\ <<a>>[1] = a
      /\ \A a, b \in Types :
           <<a, b>> \in Seq(Types) /\ Len(<<a, b>>) = 2 /\ <<a, b>>[1] = a /\ <<a, b>>[2] = b
  OBVIOUS
<1>2. n \in Int /\ e \in Int
  BY ShapeIs, WordsAre
<1>3. /\ \A k : k \in 1..1 <=> k = 1
      /\ \A k : k \in 1..2 <=> k = 1 \/ k = 2
  OBVIOUS
<1>4. Shape(n) \in Forms(<<d, x>>, y, <<z>>) <=>
        w(n) = d /\ w(n + 1) = x /\ Run(y, n + 2, e) /\ w(e) = z
  <2> DEFINE first == <<d, x>>
             rest == <<z>>
  <2>1. /\ first \in Seq(Types) /\ rest \in Seq(Types) /\ Len(first) = 2 /\ Len(rest) = 1
        /\ first[1] = d /\ first[2] = x /\ rest[1] = z
    BY <1>1
  <2> HIDE DEF first, rest
  <2>6. PICK m \in Int : m = e - n + 1 - Len(first) - Len(rest)
    BY <1>2, <2>1
  <2>7. m = e - n + 1 - 2 - 1
    BY <2>1, <2>6
  <2>2. Shape(n) \in Forms(first, y, rest) <=>
          /\ m \in Nat
          /\ \A k \in 1..2 : w(n + k - 1) = first[k]
          /\ \A k \in 1..m : w(n + 2 + k - 1) = y
          /\ \A k \in 1..1 : w(n + 2 + m + k - 1) = rest[k]
    <3> HIDE DEF w
    <3>1. Shape(n) \in Forms(first, y, rest) <=> Repeating(n, first, y, m, rest)
      BY <2>1, <2>6, FormShape
    <3> QED
      BY ONLY <2>1, <3>1 DEF w, Repeating
  <2>3. /\ n + 1 - 1 = n /\ n + 2 - 1 = n + 1 /\ n + 2 + m + 1 - 1 = e /\ n + 2 + m = e
        /\ m \in Nat <=> n + 2 <= e
    BY <1>2, <2>7
  <2>4. m \in Nat => (Run(y, n + 2, e) <=> \A k \in 1..m : w(n + 2 + k - 1) = y)
    <3>1. n + 2 \in Int
      BY <1>2
    <3>2. m \in Nat => (Run(y, n + 2, n + 2 + m) <=> \A k \in 1..m : w(n + 2 + k - 1) = y)
      BY RunIs, <3>1, Zenon
    <3> QED
      BY <2>3, <3>2, Zenon
  <2>5. Run(y, n + 2, e) => m \in Nat
    BY ONLY <2>3 DEF Run
  <2> HIDE DEF w
  <2> QED
    BY <1>3, <2>1, <2>2, <2>3, <2>4, <2>5 DEF first, rest
<1>5. (n + 1) + 1 = n + 2
  BY <1>2
<1> QED
  BY <1>4, <1>5 DEF w, RunThen, WordRunThen

\* A statement of a run, a word and an end.
LEMMA ShapeRunWord ==
  ASSUME Tape(_tokens), NEW n, NEW e, OneStatement(n, e),
         NEW d \in Types, NEW x \in Types, NEW y \in Types, NEW z \in Types
  PROVE  Shape(n) \in Forms(<<d>>, x, <<y, z>>) <=>
           _tokens[n].type = d /\ RunThenTwo(x, n + 1, e, y, z)
<1> DEFINE w(p) == _tokens[p].type
<1>1. /\ \A a \in Types : <<a>> \in Seq(Types) /\ Len(<<a>>) = 1 /\ <<a>>[1] = a
      /\ \A a, b \in Types :
           <<a, b>> \in Seq(Types) /\ Len(<<a, b>>) = 2 /\ <<a, b>>[1] = a /\ <<a, b>>[2] = b
  OBVIOUS
<1>2. n \in Int /\ e \in Int
  BY ShapeIs, WordsAre
<1>3. /\ \A k : k \in 1..1 <=> k = 1
      /\ \A k : k \in 1..2 <=> k = 1 \/ k = 2
  OBVIOUS
<1>4. Shape(n) \in Forms(<<d>>, x, <<y, z>>) <=>
        w(n) = d /\ Run(x, n + 1, e - 1) /\ w(e - 1) = y /\ w(e) = z
  <2> DEFINE first == <<d>>
             rest == <<y, z>>
  <2>1. /\ first \in Seq(Types) /\ rest \in Seq(Types) /\ Len(first) = 1 /\ Len(rest) = 2
        /\ first[1] = d /\ rest[1] = y /\ rest[2] = z
    BY <1>1
  <2> HIDE DEF first, rest
  <2>6. PICK m \in Int : m = e - n + 1 - Len(first) - Len(rest)
    BY <1>2, <2>1
  <2>7. m = e - n + 1 - 1 - 2
    BY <2>1, <2>6
  <2>2. Shape(n) \in Forms(first, x, rest) <=>
          /\ m \in Nat
          /\ \A k \in 1..1 : w(n + k - 1) = first[k]
          /\ \A k \in 1..m : w(n + 1 + k - 1) = x
          /\ \A k \in 1..2 : w(n + 1 + m + k - 1) = rest[k]
    <3> HIDE DEF w
    <3>1. Shape(n) \in Forms(first, x, rest) <=> Repeating(n, first, x, m, rest)
      BY <2>1, <2>6, FormShape
    <3> QED
      BY ONLY <2>1, <3>1 DEF w, Repeating
  <2>3. /\ n + 1 - 1 = n /\ n + 1 + m + 1 - 1 = e - 1 /\ n + 1 + m + 2 - 1 = e /\ n + 1 + m = e - 1
        /\ m \in Nat <=> n + 1 <= e - 1
    BY <1>2, <2>7
  <2>4. m \in Nat => (Run(x, n + 1, e - 1) <=> \A k \in 1..m : w(n + 1 + k - 1) = x)
    <3>1. n + 1 \in Int
      BY <1>2
    <3>2. m \in Nat => (Run(x, n + 1, n + 1 + m) <=> \A k \in 1..m : w(n + 1 + k - 1) = x)
      BY RunIs, <3>1, Zenon
    <3> QED
      BY <2>3, <3>2, Zenon
  <2>5. Run(x, n + 1, e - 1) => m \in Nat
    BY ONLY <2>3 DEF Run
  <2> HIDE DEF w
  <2> QED
    BY <1>3, <2>1, <2>2, <2>3, <2>4, <2>5 DEF first, rest
<1> QED
  BY <1>4 DEF w, RunThenTwo

\* Statements, by the word they begin with.
LEMMA ShapeOne ==
  ASSUME Tape(_tokens), NEW n, NEW e, OneStatement(n, e), NEW d \in Types
  PROVE  Shape(n) = <<d>> <=> _tokens[n].type = d /\ e = (n + 1) - 1
<1>1. n \in Int /\ e \in Int
  BY ShapeIs, WordsAre
<1>2. Shape(n) = <<d>> <=> e = n /\ _tokens[n].type = d
  BY FixedShapes
<1>3. (n + 1) - 1 = n
  BY <1>1
<1> QED
  BY <1>2, <1>3

\* A statement of two tokens.
LEMMA ShapeTwo ==
  ASSUME Tape(_tokens), NEW n, NEW e, OneStatement(n, e), NEW d \in Types, NEW x \in Types
  PROVE  Shape(n) = <<d, x>> <=> _tokens[n].type = d /\ OneWord(n + 1, e, x)
<1>1. Shape(n) = <<d, x>> <=> e = n + 1 /\ _tokens[n].type = d /\ _tokens[n + 1].type = x
  BY FixedShapes
<1> QED
  BY <1>1 DEF OneWord

\* A statement of three.
LEMMA ShapeThree ==
  ASSUME Tape(_tokens), NEW n, NEW e, OneStatement(n, e),
         NEW d \in Types, NEW x \in Types, NEW y \in Types
  PROVE  Shape(n) = <<d, x, y>> <=> _tokens[n].type = d /\ TwoWords(n + 1, e, x, y)
<1>1. n \in Int /\ e \in Int
  BY ShapeIs, WordsAre
<1>2. Shape(n) = <<d, x, y>> <=>
        e = n + 2 /\ _tokens[n].type = d /\ _tokens[n + 1].type = x /\ _tokens[n + 2].type = y
  BY FixedShapes
<1>3. (n + 1) + 1 = n + 2
  BY <1>1
<1> QED
  BY <1>2, <1>3 DEF TwoWords

\* A statement of four.
LEMMA ShapeFour ==
  ASSUME Tape(_tokens), NEW n, NEW e, OneStatement(n, e),
         NEW d \in Types, NEW x \in Types, NEW y \in Types, NEW z \in Types
  PROVE  Shape(n) = <<d, x, y, z>> <=> _tokens[n].type = d /\ ThreeWords(n + 1, e, x, y, z)
<1>1. n \in Int /\ e \in Int
  BY ShapeIs, WordsAre
<1>2. Shape(n) = <<d, x, y, z>> <=>
        /\ e = n + 3 /\ _tokens[n].type = d /\ _tokens[n + 1].type = x /\ _tokens[n + 2].type = y
        /\ _tokens[n + 3].type = z
  BY FixedShapes
<1>3. (n + 1) + 1 = n + 2 /\ (n + 1) + 2 = n + 3
  BY <1>1
<1> QED
  BY <1>2, <1>3 DEF ThreeWords

\* Lists of consumes.
Consumed == {"STRING", "NUMBER", "MUL", ";", "{"}

\* The consumes, for what follows.
LEMMA TypedConsumes ==
  ASSUME NEW t \in Consumed
  PROVE  /\ One(t) \in Consume /\ One(t).type = t /\ One(t).times = "one"
         /\ Many(t) \in Consume /\ Many(t).type = t /\ Many(t).times = "many"
         /\ Maybe(t) \in Consume /\ Maybe(t).type = t /\ Maybe(t).times = "maybe"
BY ConsumeIs DEF One, Many, Maybe, Consumed

\* A list of one consume in the words of the grammar.
LEMMA ListOfOne ==
  ASSUME NEW a \in Int, NEW b \in Int, NEW x \in Consumed, Proper(<<One(x)>>)
  PROVE  Fits(<<One(x)>>, a, b) <=> OneWord(a, b, x)
<1> DEFINE X == One(x)
<1>1. X \in Consume /\ X.type = x /\ X.times = "one" /\ Proper(<<X>>)
  BY TypedConsumes
<1> HIDE DEF X
<1>2. Fits(<<X>>, a, b) <=> b = a /\ _tokens[a].type = X.type
  BY <1>1, OneFits
<1> QED
  BY <1>1, <1>2 DEF X, OneWord

\* A list of two.
LEMMA ListOfTwo ==
  ASSUME NEW a \in Int, NEW b \in Int, NEW x \in Consumed, NEW y \in Consumed,
         Proper(<<One(x), One(y)>>)
  PROVE  Fits(<<One(x), One(y)>>, a, b) <=> TwoWords(a, b, x, y)
<1> DEFINE X == One(x)
           Y == One(y)
<1>1. /\ X \in Consume /\ X.type = x /\ X.times = "one" /\ Y \in Consume /\ Y.type = y /\ Y.times = "one"
      /\ Proper(<<X, Y>>)
  BY TypedConsumes
<1> HIDE DEF X, Y
<1>2. Fits(<<X, Y>>, a, b) <=> b = a + 1 /\ _tokens[a].type = X.type /\ _tokens[a + 1].type = Y.type
  BY <1>1, TwoFit
<1> QED
  BY <1>1, <1>2 DEF X, Y, TwoWords

\* A list of three.
LEMMA ListOfThree ==
  ASSUME NEW a \in Int, NEW b \in Int, NEW x \in Consumed, NEW y \in Consumed, NEW z \in Consumed,
         Proper(<<One(x), One(y), One(z)>>)
  PROVE  Fits(<<One(x), One(y), One(z)>>, a, b) <=> ThreeWords(a, b, x, y, z)
<1> DEFINE X == One(x)
           Y == One(y)
           Z == One(z)
<1>1. /\ X \in Consume /\ X.type = x /\ X.times = "one" /\ Y \in Consume /\ Y.type = y /\ Y.times = "one"
      /\ Z \in Consume /\ Z.type = z /\ Z.times = "one" /\ Proper(<<X, Y, Z>>)
  BY TypedConsumes
<1> HIDE DEF X, Y, Z
<1>2. Fits(<<X, Y, Z>>, a, b) <=>
        /\ b = a + 2 /\ _tokens[a].type = X.type /\ _tokens[a + 1].type = Y.type
        /\ _tokens[a + 2].type = Z.type
  BY <1>1, ThreeFit
<1> QED
  BY <1>1, <1>2 DEF X, Y, Z, ThreeWords

\* A run and an end.
LEMMA ListOfMany ==
  ASSUME NEW a \in Int, NEW b \in Int, NEW x \in Consumed, NEW y \in Consumed,
         Proper(<<Many(x), One(y)>>)
  PROVE  Fits(<<Many(x), One(y)>>, a, b) <=> RunThen(x, a, b, y)
<1> DEFINE X == Many(x)
           Y == One(y)
<1>1. /\ X \in Consume /\ X.type = x /\ X.times = "many" /\ Y \in Consume /\ Y.type = y /\ Y.times = "one"
      /\ Proper(<<X, Y>>)
  BY TypedConsumes
<1> HIDE DEF X, Y
<1>2. Fits(<<X, Y>>, a, b) <=> RunThen(X.type, a, b, Y.type)
  BY <1>1, ManyFit
<1> QED
  BY <1>1, <1>2 DEF X, Y

\* A word, a run and an end.
LEMMA ListOfWordMany ==
  ASSUME NEW a \in Int, NEW b \in Int, NEW x \in Consumed, NEW y \in Consumed, NEW z \in Consumed,
         Proper(<<One(x), Many(y), One(z)>>)
  PROVE  Fits(<<One(x), Many(y), One(z)>>, a, b) <=> WordRunThen(x, a, y, b, z)
<1> DEFINE X == One(x)
           Y == Many(y)
           Z == One(z)
<1>1. /\ X \in Consume /\ X.type = x /\ X.times = "one" /\ Y \in Consume /\ Y.type = y /\ Y.times = "many"
      /\ Z \in Consume /\ Z.type = z /\ Z.times = "one" /\ Proper(<<X, Y, Z>>)
  BY TypedConsumes
<1> HIDE DEF X, Y, Z
<1>2. Fits(<<X, Y, Z>>, a, b) <=>
        _tokens[a].type = X.type /\ RunThen(Y.type, a + 1, b, Z.type)
  BY <1>1, OneManyFit
<1> QED
  BY <1>1, <1>2 DEF X, Y, Z, WordRunThen

\* A run, a word and an end.
LEMMA ListOfManyWord ==
  ASSUME NEW a \in Int, NEW b \in Int, NEW x \in Consumed, NEW y \in Consumed, NEW z \in Consumed,
         Proper(<<Many(x), One(y), One(z)>>)
  PROVE  Fits(<<Many(x), One(y), One(z)>>, a, b) <=> RunThenTwo(x, a, b, y, z)
<1> DEFINE X == Many(x)
           Y == One(y)
           Z == One(z)
<1>1. /\ X \in Consume /\ X.type = x /\ X.times = "many" /\ Y \in Consume /\ Y.type = y /\ Y.times = "one"
      /\ Z \in Consume /\ Z.type = z /\ Z.times = "one" /\ Proper(<<X, Y, Z>>)
  BY TypedConsumes
<1> HIDE DEF X, Y, Z
<1>2. Fits(<<X, Y, Z>>, a, b) <=> RunThenTwo(X.type, a, b, Y.type, Z.type)
  BY <1>1, ManyTwoFit
<1> QED
  BY <1>1, <1>2 DEF X, Y, Z

\* A word that may be there, another and an end.
LEMMA ListOfMaybe ==
  ASSUME NEW a \in Int, NEW b \in Int, NEW x \in Consumed, NEW y \in Consumed, NEW z \in Consumed,
         Proper(<<Maybe(x), One(y), One(z)>>)
  PROVE  Fits(<<Maybe(x), One(y), One(z)>>, a, b) <=>
           TwoWords(a, b, y, z) \/ ThreeWords(a, b, x, y, z)
<1> DEFINE X == Maybe(x)
           Y == One(y)
           Z == One(z)
<1>1. /\ X \in Consume /\ X.type = x /\ X.times = "maybe" /\ Y \in Consume /\ Y.type = y /\ Y.times = "one"
      /\ Z \in Consume /\ Z.type = z /\ Z.times = "one" /\ Proper(<<X, Y, Z>>)
  BY TypedConsumes
<1> HIDE DEF X, Y, Z
<1>2. Fits(<<X, Y, Z>>, a, b) <=>
        \/ b = a + 1 /\ _tokens[a].type = Y.type /\ _tokens[a + 1].type = Z.type
        \/ b = a + 2 /\ _tokens[a].type = X.type /\ _tokens[a + 1].type = Y.type /\ _tokens[a + 2].type = Z.type
  BY <1>1, MaybeFits
<1> QED
  BY <1>1, <1>2 DEF X, Y, Z, TwoWords, ThreeWords

\* What the lists of the directives accept, in the words of the grammar.
LEMMA ServerListsFit ==
  ASSUME NEW a \in Int, NEW e \in Int
  PROVE  /\ Fits(Consumes["servers"]["server"], a, e) <=> OneWord(a, e, "{")
         /\ Fits(Consumes["server"]["}"], a, e) <=> e = a - 1
         /\ Fits(Consumes["server"]["listen"], a, e) <=> TwoWords(a, e, "NUMBER", ";")
         /\ Fits(Consumes["server"]["location"], a, e) <=> TwoWords(a, e, "STRING", "{")
         /\ Fits(Consumes["server"]["client_max_body_size"], a, e) <=>
              ThreeWords(a, e, "NUMBER", "MUL", ";")
         /\ Fits(Consumes["server"]["server_name"], a, e) <=>
              WordRunThen("STRING", a, "STRING", e, ";")
         /\ Fits(Consumes["server"]["error_page"], a, e) <=>
              RunThenTwo("NUMBER", a, e, "STRING", ";")
<1>1. /\ "STRING" \in Consumed /\ "NUMBER" \in Consumed /\ "MUL" \in Consumed
      /\ ";" \in Consumed /\ "{" \in Consumed
  BY DEF Consumed
<1>2. /\ \A d \in DOMAIN Consumes["server"] : Proper(Consumes["server"][d])
      /\ \A d \in DOMAIN Consumes["servers"] : Proper(Consumes["servers"][d])
  BY AllProper DEF Blocks
<1>4. Fits(Consumes["servers"]["server"], a, e) <=> OneWord(a, e, "{")
  <2>1. Consumes["servers"]["server"] = <<One("{")>>
    BY ListsAre
  <2>2. Proper(<<One("{")>>)
    BY <1>2, <2>1, ListsAre
  <2> QED
    BY <1>1, <2>1, <2>2, ListOfOne
<1>5. Fits(Consumes["server"]["}"], a, e) <=> e = a - 1
  BY ListsAre, FitsEmpty
<1>6. Fits(Consumes["server"]["listen"], a, e) <=> TwoWords(a, e, "NUMBER", ";")
  <2>1. Consumes["server"]["listen"] = <<One("NUMBER"), One(";")>>
    BY ListsAre
  <2>2. Proper(<<One("NUMBER"), One(";")>>)
    BY <1>2, <2>1, ListsAre
  <2> QED
    BY <1>1, <2>1, <2>2, ListOfTwo
<1>7. Fits(Consumes["server"]["location"], a, e) <=> TwoWords(a, e, "STRING", "{")
  <2>1. Consumes["server"]["location"] = <<One("STRING"), One("{")>>
    BY ListsAre
  <2>2. Proper(<<One("STRING"), One("{")>>)
    BY <1>2, <2>1, ListsAre
  <2> QED
    BY <1>1, <2>1, <2>2, ListOfTwo
<1>8. Fits(Consumes["server"]["client_max_body_size"], a, e) <=> ThreeWords(a, e, "NUMBER", "MUL", ";")
  <2>1. Consumes["server"]["client_max_body_size"] = <<One("NUMBER"), One("MUL"), One(";")>>
    BY ListsAre
  <2>2. Proper(<<One("NUMBER"), One("MUL"), One(";")>>)
    BY <1>2, <2>1, ListsAre
  <2> QED
    BY <1>1, <2>1, <2>2, ListOfThree
<1>9. Fits(Consumes["server"]["server_name"], a, e) <=> WordRunThen("STRING", a, "STRING", e, ";")
  <2>1. Consumes["server"]["server_name"] = <<One("STRING"), Many("STRING"), One(";")>>
    BY ListsAre
  <2>2. Proper(<<One("STRING"), Many("STRING"), One(";")>>)
    BY <1>2, <2>1, ListsAre
  <2> QED
    BY <1>1, <2>1, <2>2, ListOfWordMany
<1>10. Fits(Consumes["server"]["error_page"], a, e) <=> RunThenTwo("NUMBER", a, e, "STRING", ";")
  <2>1. Consumes["server"]["error_page"] = <<Many("NUMBER"), One("STRING"), One(";")>>
    BY ListsAre
  <2>2. Proper(<<Many("NUMBER"), One("STRING"), One(";")>>)
    BY <1>2, <2>1, ListsAre
  <2> QED
    BY <1>1, <2>1, <2>2, ListOfManyWord
<1> QED
  BY <1>4, <1>5, <1>6, <1>7, <1>8, <1>9, <1>10

\* The lists of a location in the words of the grammar.
LEMMA LocationListsFit ==
  ASSUME NEW a \in Int, NEW e \in Int
  PROVE  /\ \A d \in Plain \cup {"cgi_path"} :
              Fits(Consumes["cgi"][d], a, e) <=> TwoWords(a, e, "STRING", ";")
         /\ Fits(Consumes["cgi"]["}"], a, e) <=> e = a - 1
         /\ Fits(Consumes["cgi"]["error_page"], a, e) <=> ThreeWords(a, e, "NUMBER", "STRING", ";")
         /\ Fits(Consumes["cgi"]["redirect"], a, e) <=>
              TwoWords(a, e, "STRING", ";") \/ ThreeWords(a, e, "NUMBER", "STRING", ";")
         /\ Fits(Consumes["cgi"]["allowed_methods"], a, e) <=> RunThen("STRING", a, e, ";")
         /\ Fits(Consumes["cgi"]["return"], a, e) <=>
              WordRunThen("NUMBER", a, "STRING", e, ";")
<1> DEFINE C == Consumes["cgi"]
<1>1. "STRING" \in Consumed /\ "NUMBER" \in Consumed /\ ";" \in Consumed
  BY DEF Consumed
<1>2. \A d \in DOMAIN C : Proper(C[d])
  BY AllProper DEF Blocks
<1>3. /\ DOMAIN C = Plain \cup {"error_page", "allowed_methods", "redirect", "return", "}", "cgi_path"}
      /\ \A d \in Plain \cup {"cgi_path"} : C[d] = <<One("STRING"), One(";")>>
      /\ C["error_page"] = <<One("NUMBER"), One("STRING"), One(";")>>
      /\ C["allowed_methods"] = <<Many("STRING"), One(";")>>
      /\ C["redirect"] = <<Maybe("NUMBER"), One("STRING"), One(";")>>
      /\ C["return"] = <<One("NUMBER"), Many("STRING"), One(";")>>
      /\ C["}"] = <<>>
  BY LocationListsAre
<1> HIDE DEF C
<1>4. ASSUME NEW d \in Plain \cup {"cgi_path"}
      PROVE  Fits(C[d], a, e) <=> TwoWords(a, e, "STRING", ";")
  <2>1. C[d] = <<One("STRING"), One(";")>> /\ d \in DOMAIN C
    BY <1>3
  <2>2. Proper(<<One("STRING"), One(";")>>)
    BY <1>2, <2>1
  <2> QED
    BY <1>1, <2>1, <2>2, ListOfTwo
<1>5. Fits(C["}"], a, e) <=> e = a - 1
  BY <1>3, FitsEmpty
<1>6. Fits(C["error_page"], a, e) <=> ThreeWords(a, e, "NUMBER", "STRING", ";")
  <2>1. C["error_page"] = <<One("NUMBER"), One("STRING"), One(";")>>
    BY <1>3
  <2>2. Proper(<<One("NUMBER"), One("STRING"), One(";")>>)
    BY <1>2, <2>1, <1>3
  <2> QED
    BY <1>1, <2>1, <2>2, ListOfThree
<1>7. Fits(C["redirect"], a, e) <=> TwoWords(a, e, "STRING", ";") \/ ThreeWords(a, e, "NUMBER", "STRING", ";")
  <2>1. C["redirect"] = <<Maybe("NUMBER"), One("STRING"), One(";")>>
    BY <1>3
  <2>2. Proper(<<Maybe("NUMBER"), One("STRING"), One(";")>>)
    BY <1>2, <2>1, <1>3
  <2> QED
    BY <1>1, <2>1, <2>2, ListOfMaybe
<1>8. Fits(C["allowed_methods"], a, e) <=> RunThen("STRING", a, e, ";")
  <2>1. C["allowed_methods"] = <<Many("STRING"), One(";")>>
    BY <1>3
  <2>2. Proper(<<Many("STRING"), One(";")>>)
    BY <1>2, <2>1, <1>3
  <2> QED
    BY <1>1, <2>1, <2>2, ListOfMany
<1>9. Fits(C["return"], a, e) <=> WordRunThen("NUMBER", a, "STRING", e, ";")
  <2>1. C["return"] = <<One("NUMBER"), Many("STRING"), One(";")>>
    BY <1>3
  <2>2. Proper(<<One("NUMBER"), Many("STRING"), One(";")>>)
    BY <1>2, <2>1, <1>3
  <2> QED
    BY <1>1, <2>1, <2>2, ListOfWordMany
<1> QED
  BY <1>4, <1>5, <1>6, <1>7, <1>8, <1>9 DEF C

\* The grammar of a depth accepts what the directives of its block consume.
Accepts(block, n, e) ==
  /\ _tokens[n].type \in DOMAIN Consumes[block]
  /\ Fits(Consumes[block][_tokens[n].type], n + 1, e)

\* The grammar outside blocks is what the parser accepts there.
LEMMA GrammarOfServers ==
  ASSUME Tape(_tokens), NEW n, NEW e, OneStatement(n, e)
  PROVE  Shape(n) \in Grammar[1] <=> Accepts("servers", n, e)
<1>1. n \in Int /\ e \in Int /\ n + 1 \in Int
  BY ShapeIs, WordsAre
<1>2. Shape(n) = <<"server", "{">> <=> _tokens[n].type = "server" /\ OneWord(n + 1, e, "{")
  <2>1. "server" \in Types /\ "{" \in Types
    BY DEF Types, Directives
  <2> QED
    BY <2>1, ShapeTwo
<1>3. Grammar[1] = {<<"server", "{">>}
  BY DEF Grammar
<1>4. Fits(Consumes["servers"]["server"], n + 1, e) <=> OneWord(n + 1, e, "{")
  BY <1>1, ServerListsFit
<1> QED
  BY <1>2, <1>3, <1>4, ListsAre DEF Accepts

\* The grammar of a server is what the parser accepts in one.
LEMMA GrammarOfServer ==
  ASSUME Tape(_tokens), NEW n, NEW e, OneStatement(n, e)
  PROVE  Shape(n) \in Grammar[2] <=> Accepts("server", n, e)
<1> DEFINE w(p) == _tokens[p].type
           F(d) == Fits(Consumes["server"][d], n + 1, e)
<1>1. n \in Int /\ e \in Int /\ n + 1 \in Int
  BY ShapeIs, WordsAre
<1>2. /\ "}" \in Types /\ "location" \in Types /\ "STRING" \in Types /\ "{" \in Types
      /\ "listen" \in Types /\ "NUMBER" \in Types /\ ";" \in Types /\ "MUL" \in Types
      /\ "client_max_body_size" \in Types /\ "server_name" \in Types /\ "error_page" \in Types
  BY DEF Types, Directives
<1>3. Shape(n) \in Grammar[2] <=>
        \/ Shape(n) = <<"}">>
        \/ Shape(n) = <<"location", "STRING", "{">>
        \/ Shape(n) = <<"listen", "NUMBER", ";">>
        \/ Shape(n) = <<"client_max_body_size", "NUMBER", "MUL", ";">>
        \/ Shape(n) \in Forms(<<"server_name", "STRING">>, "STRING", <<";">>)
        \/ Shape(n) \in Forms(<<"error_page">>, "NUMBER", <<"STRING", ";">>)
  BY DEF Grammar
<1>4. Shape(n) = <<"}">> <=> w(n) = "}" /\ F("}")
  <2>1. Shape(n) = <<"}">> <=> _tokens[n].type = "}" /\ e = (n + 1) - 1
    BY <1>2, ShapeOne
  <2>2. F("}") <=> e = (n + 1) - 1
    BY <1>1, ServerListsFit
  <2> QED
    BY <2>1, <2>2
<1>5. Shape(n) = <<"location", "STRING", "{">> <=> w(n) = "location" /\ F("location")
  <2>1. Shape(n) = <<"location", "STRING", "{">> <=> _tokens[n].type = "location" /\ TwoWords(n + 1, e, "STRING", "{")
    BY <1>2, ShapeThree
  <2>2. F("location") <=> TwoWords(n + 1, e, "STRING", "{")
    BY <1>1, ServerListsFit
  <2> QED
    BY <2>1, <2>2
<1>6. Shape(n) = <<"listen", "NUMBER", ";">> <=> w(n) = "listen" /\ F("listen")
  <2>1. Shape(n) = <<"listen", "NUMBER", ";">> <=> _tokens[n].type = "listen" /\ TwoWords(n + 1, e, "NUMBER", ";")
    BY <1>2, ShapeThree
  <2>2. F("listen") <=> TwoWords(n + 1, e, "NUMBER", ";")
    BY <1>1, ServerListsFit
  <2> QED
    BY <2>1, <2>2
<1>7. Shape(n) = <<"client_max_body_size", "NUMBER", "MUL", ";">> <=> w(n) = "client_max_body_size" /\ F("client_max_body_size")
  <2>1. Shape(n) = <<"client_max_body_size", "NUMBER", "MUL", ";">> <=> _tokens[n].type = "client_max_body_size" /\ ThreeWords(n + 1, e, "NUMBER", "MUL", ";")
    BY <1>2, ShapeFour
  <2>2. F("client_max_body_size") <=> ThreeWords(n + 1, e, "NUMBER", "MUL", ";")
    BY <1>1, ServerListsFit
  <2> QED
    BY <2>1, <2>2
<1>8. Shape(n) \in Forms(<<"server_name", "STRING">>, "STRING", <<";">>) <=> w(n) = "server_name" /\ F("server_name")
  <2>1. Shape(n) \in Forms(<<"server_name", "STRING">>, "STRING", <<";">>) <=>
          _tokens[n].type = "server_name" /\ WordRunThen("STRING", n + 1, "STRING", e, ";")
    BY <1>2, ShapeWordRun
  <2>2. F("server_name") <=> WordRunThen("STRING", n + 1, "STRING", e, ";")
    BY <1>1, ServerListsFit
  <2> QED
    BY <2>1, <2>2
<1>9. Shape(n) \in Forms(<<"error_page">>, "NUMBER", <<"STRING", ";">>) <=> w(n) = "error_page" /\ F("error_page")
  <2>1. Shape(n) \in Forms(<<"error_page">>, "NUMBER", <<"STRING", ";">>) <=> _tokens[n].type = "error_page" /\ RunThenTwo("NUMBER", n + 1, e, "STRING", ";")
    BY <1>2, ShapeRunWord
  <2>2. F("error_page") <=> RunThenTwo("NUMBER", n + 1, e, "STRING", ";")
    BY <1>1, ServerListsFit
  <2> QED
    BY <2>1, <2>2
<1>10. DOMAIN Consumes["server"] =
         {"listen", "server_name", "error_page", "location", "client_max_body_size", "}"}
  BY ListsAre
<1>11. Accepts("server", n, e) <=> w(n) \in DOMAIN Consumes["server"] /\ F(w(n))
  BY DEF Accepts
<1> HIDE DEF w, F
<1> QED
  BY ONLY <1>3, <1>4, <1>5, <1>6, <1>7, <1>8, <1>9, <1>10, <1>11

\* The grammar of a location is what the parser accepts in one, after cgi.
LEMMA GrammarOfLocation ==
  ASSUME Tape(_tokens), NEW n, NEW e, OneStatement(n, e)
  PROVE  Shape(n) \in Grammar[3] <=> Accepts("cgi", n, e)
<1> DEFINE w(p) == _tokens[p].type
           F(d) == Fits(Consumes["cgi"][d], n + 1, e)
           P == {"root", "autoindex", "index", "cgi", "cgi_path", "upload_store"}
<1>1. n \in Int /\ e \in Int /\ n + 1 \in Int
  BY ShapeIs, WordsAre
<1>2. /\ "}" \in Types /\ "STRING" \in Types /\ "NUMBER" \in Types /\ ";" \in Types
      /\ "error_page" \in Types /\ "redirect" \in Types /\ "return" \in Types
      /\ "allowed_methods" \in Types /\ P \subseteq Types
  BY DEF Types, Directives
<1>3. Shape(n) \in Grammar[3] <=>
        \/ Shape(n) = <<"}">>
        \/ Shape(n) = <<"error_page", "NUMBER", "STRING", ";">>
        \/ Shape(n) = <<"redirect", "STRING", ";">> \/ Shape(n) = <<"redirect", "NUMBER", "STRING", ";">>
        \/ \E d \in P : Shape(n) = <<d, "STRING", ";">>
        \/ Shape(n) \in Forms(<<"allowed_methods">>, "STRING", <<";">>)
        \/ Shape(n) \in Forms(<<"return", "NUMBER">>, "STRING", <<";">>)
  BY DEF Grammar
<1>4. Shape(n) = <<"}">> <=> w(n) = "}" /\ F("}")
  <2>1. Shape(n) = <<"}">> <=> _tokens[n].type = "}" /\ e = (n + 1) - 1
    BY <1>2, ShapeOne
  <2>2. F("}") <=> e = (n + 1) - 1
    BY <1>1, LocationListsFit
  <2> QED
    BY <2>1, <2>2
<1>5. Shape(n) = <<"error_page", "NUMBER", "STRING", ";">> <=> w(n) = "error_page" /\ F("error_page")
  <2>1. Shape(n) = <<"error_page", "NUMBER", "STRING", ";">> <=> _tokens[n].type = "error_page" /\ ThreeWords(n + 1, e, "NUMBER", "STRING", ";")
    BY <1>2, ShapeFour
  <2>2. F("error_page") <=> ThreeWords(n + 1, e, "NUMBER", "STRING", ";")
    BY <1>1, LocationListsFit
  <2> QED
    BY <2>1, <2>2
<1>6. Shape(n) = <<"redirect", "STRING", ";">> \/ Shape(n) = <<"redirect", "NUMBER", "STRING", ";">> <=>
        w(n) = "redirect" /\ F("redirect")
  <2>1. Shape(n) = <<"redirect", "NUMBER", "STRING", ";">> <=>
          _tokens[n].type = "redirect" /\ ThreeWords(n + 1, e, "NUMBER", "STRING", ";")
    BY <1>2, ShapeFour
  <2>2. Shape(n) = <<"redirect", "STRING", ";">> <=>
          _tokens[n].type = "redirect" /\ TwoWords(n + 1, e, "STRING", ";")
    BY <1>2, ShapeThree
  <2>3. F("redirect") <=>
          TwoWords(n + 1, e, "STRING", ";") \/ ThreeWords(n + 1, e, "NUMBER", "STRING", ";")
    BY <1>1, LocationListsFit
  <2> QED
    BY <2>1, <2>2, <2>3
<1>7. ASSUME NEW d \in P PROVE Shape(n) = <<d, "STRING", ";">> <=> w(n) = d /\ F(d)
  <2>1. d \in Types
    BY <1>2
  <2>2. Shape(n) = <<d, "STRING", ";">> <=> _tokens[n].type = d /\ TwoWords(n + 1, e, "STRING", ";")
    BY <1>2, <2>1, ShapeThree
  <2>3. d \in Plain \cup {"cgi_path"}
    BY DEF Plain
  <2>4. F(d) <=> TwoWords(n + 1, e, "STRING", ";")
    BY <1>1, <2>3, LocationListsFit
  <2> QED
    BY <2>2, <2>4
<1>8. Shape(n) \in Forms(<<"allowed_methods">>, "STRING", <<";">>) <=> w(n) = "allowed_methods" /\ F("allowed_methods")
  <2>1. Shape(n) \in Forms(<<"allowed_methods">>, "STRING", <<";">>) <=> _tokens[n].type = "allowed_methods" /\ RunThen("STRING", n + 1, e, ";")
    BY <1>2, ShapeRun
  <2>2. F("allowed_methods") <=> RunThen("STRING", n + 1, e, ";")
    BY <1>1, LocationListsFit
  <2> QED
    BY <2>1, <2>2
<1>9. Shape(n) \in Forms(<<"return", "NUMBER">>, "STRING", <<";">>) <=> w(n) = "return" /\ F("return")
  <2>1. Shape(n) \in Forms(<<"return", "NUMBER">>, "STRING", <<";">>) <=>
          _tokens[n].type = "return" /\ WordRunThen("NUMBER", n + 1, "STRING", e, ";")
    BY <1>2, ShapeWordRun
  <2>2. F("return") <=> WordRunThen("NUMBER", n + 1, "STRING", e, ";")
    BY <1>1, LocationListsFit
  <2> QED
    BY <2>1, <2>2
<1>10. DOMAIN Consumes["cgi"] = P \cup {"error_page", "allowed_methods", "redirect", "return", "}"}
  BY LocationListsAre DEF Plain
<1>11. Accepts("cgi", n, e) <=> w(n) \in DOMAIN Consumes["cgi"] /\ F(w(n))
  BY DEF Accepts
<1> HIDE DEF w, F, P
<1> QED
  BY ONLY <1>3, <1>4, <1>5, <1>6, <1>7, <1>8, <1>9, <1>10, <1>11

\* The text stays while it is read.
LEMMA TextStays ==
  ASSUME _tokens' = _tokens
  PROVE  /\ Words' = Words /\ Ends' = Ends /\ Starts' = Starts /\ Statements' = Statements
         /\ \A i : Texts(i)' = Texts(i) /\ Depth(i)' = Depth(i) /\ Before(i)' = Before(i)
         /\ \A i : LegalStatement(i)' <=> LegalStatement(i)
         /\ \A n, e : OneStatement(n, e)' <=> OneStatement(n, e)
         /\ \A E, a, b : Fits(E, a, b)' <=> Fits(E, a, b)
<1>1. Words' = Words
  BY DEF Words
<1>2. Ends' = Ends
  BY <1>1 DEF Ends
<1>3. Starts' = Starts /\ Statements' = Statements
  BY <1>2 DEF Starts, Statements
<1>4. \A i : End(i)' = End(i)
  BY <1>2 DEF End
<1>5. \A i : Shape(i)' = Shape(i) /\ Texts(i)' = Texts(i)
  BY <1>1, <1>4 DEF Shape, Texts
<1>6. \A t, i : Count(t, i)' = Count(t, i)
  BY <1>1 DEF Count
<1>7. \A i : Depth(i)' = Depth(i)
  BY <1>6 DEF Depth
<1>8. \A i : Before(i)' = Before(i)
  BY <1>3, <1>4 DEF Before
<1>9. \A first, many, rest : Forms(first, many, rest)' = Forms(first, many, rest)
  BY <1>1 DEF Forms
<1>10. Grammar' = Grammar
  BY <1>9 DEF Grammar
<1>11. \A i : LegalStatement(i)' <=> LegalStatement(i)
  BY <1>1, <1>5, <1>7, <1>8, <1>10 DEF LegalStatement
<1>12. \A n, e : OneStatement(n, e)' <=> OneStatement(n, e)
  BY <1>2, <1>3 DEF OneStatement
<1>13. \A c, a, z : Spans(c, a, z)' <=> Spans(c, a, z)
  BY DEF Spans
<1>14. \A E, a, b : Fits(E, a, b)' <=> Fits(E, a, b)
  BY <1>13 DEF Fits
<1> QED
  BY <1>1, <1>2, <1>3, <1>5, <1>7, <1>8, <1>11, <1>12, <1>14

(* The parser and the grammar, place by place.                              *)
Level(block) == IF block = "servers" THEN 0 ELSE IF block = "server" THEN 1 ELSE 2

\* Everything before n is in the grammar, and n is the place of a statement of the block.
ReadTo(n) ==
  /\ n \in Starts /\ Depth(n) = Level(phase)
  /\ \A i \in Statements : i < n => LegalStatement(i)
  /\ phase = "cgi" <=> n > 1 /\ Words[Before(n)].type \in {"cgi", "cgi_path"}

\* The directive at n wants more, and what it wants is what its list still wants.
Midway(n) ==
  /\ n < _index /\ \A p \in n..(_index - 1) : p \notin Ends
  /\ Depth(_index) = Depth(n)
  /\ values = [k \in 1..(_index - n - 1) |-> _tokens[n + k].value]

\* It has all it wants.
Complete(n) ==
  /\ OneStatement(n, _index - 1) /\ values = Texts(n)
  /\ Depth(_index) = Depth(n) + Brace(_tokens[_index - 1].type)

ReadIn(n) ==
  /\ directive = "" => n = _index /\ expected = <<>>
  /\ directive # "" =>
       /\ directive \in DOMAIN Consumes[phase] /\ _tokens[n].type = directive
       /\ Proper(expected)
       /\ \A b \in Int : Fits(Consumes[phase][directive], n + 1, b) <=> Fits(expected, _index, b)
       /\ expected = <<>> => Complete(n)
       /\ expected # <<>> => Midway(n)

Syntax(n) == ReadTo(n) /\ ReadIn(n)

\* A statement ends.
LEMMA StatementEnds ==
  ASSUME Tape(_tokens), NEW n \in Statements
  PROVE  \E e \in Int : OneStatement(n, e)
<1>1. n \in Starts /\ n \in Nat /\ Ends \subseteq Nat
  BY WordsAre DEF Statements
<1>2. PICK f \in Ends : n <= f
  BY DEF Statements
<1> DEFINE T == {j \in Ends : n <= j}
<1>3. T \subseteq Nat /\ T # {}
  BY <1>1, <1>2
<1>4. PICK e \in T : \A j \in T : e <= j
  <2> HIDE DEF T
  <2> QED
    BY <1>3, LeastNumber
<1>5. OneStatement(n, e)
  BY <1>1, <1>4 DEF OneStatement
<1> QED
  BY <1>1, <1>4, <1>5

\* The grammar of a block.
LEMMA GrammarOf ==
  ASSUME Tape(_tokens), NEW block \in Blocks, NEW n, NEW e, OneStatement(n, e)
  PROVE  /\ Accepts(block, n, e) => Shape(n) \in Grammar[Level(block) + 1]
         /\ Shape(n) \in Grammar[Level(block) + 1] =>
              Accepts(block, n, e) \/ (block = "location" /\ _tokens[n].type = "cgi_path")
<1>1. CASE block = "servers"
  <2>1. Level(block) + 1 = 1
    BY <1>1 DEF Level
  <2>2. Shape(n) \in Grammar[1] <=> Accepts("servers", n, e)
    BY GrammarOfServers
  <2> QED
    BY ONLY <1>1, <2>1, <2>2
<1>2. CASE block = "server"
  <2>1. Level(block) + 1 = 2
    BY <1>2 DEF Level
  <2>2. Shape(n) \in Grammar[2] <=> Accepts("server", n, e)
    BY GrammarOfServer
  <2> QED
    BY ONLY <1>2, <2>1, <2>2
<1>3. CASE block \in {"location", "cgi"}
  <2>1. Level(block) + 1 = 3
    BY <1>3 DEF Level
  <2>2. Shape(n) \in Grammar[3] <=> Accepts("cgi", n, e)
    BY GrammarOfLocation
  <2>3. /\ Accepts(block, n, e) => Accepts("cgi", n, e)
        /\ Accepts("cgi", n, e) => Accepts(block, n, e) \/ (block = "location" /\ _tokens[n].type = "cgi_path")
    <3>1. CASE block = "cgi"
      BY ONLY <3>1
    <3>2. CASE block = "location"
      <4>1. /\ DOMAIN Consumes["cgi"] = DOMAIN Consumes["location"] \cup {"cgi_path"}
            /\ \A d \in DOMAIN Consumes["location"] : Consumes["cgi"][d] = Consumes["location"][d]
        BY LocationListsAre
      <4> QED
        BY ONLY <3>2, <4>1 DEF Accepts
    <3> QED
      BY <1>3, <3>1, <3>2
  <2> QED
    BY ONLY <2>1, <2>2, <2>3
<1> QED
  BY <1>1, <1>2, <1>3 DEF Blocks

\* How the statements of the directives end.
LEMMA Closing ==
  ASSUME NEW block \in Blocks, NEW d \in DOMAIN Consumes[block], NEW a \in Int, NEW e \in Int,
         Fits(Consumes[block][d], a, e)
  PROVE  /\ d = "}" => e = a - 1
         /\ d \in {"server", "location"} => _tokens[e].type = "{"
         /\ d \notin {"server", "location", "}"} => _tokens[e].type = ";"
<1>1. CASE block = "servers"
  <2>1. d = "server" /\ Fits(Consumes["servers"]["server"], a, e)
    BY <1>1, ListsAre
  <2>2. OneWord(a, e, "{")
    BY <2>1, ServerListsFit
  <2> QED
    BY <2>1, <2>2 DEF OneWord
<1>2. CASE block = "server"
  <2>1. CASE d \in {"}", "listen", "location", "client_max_body_size"}
    BY <1>2, <2>1, ServerListsFit DEF TwoWords, ThreeWords
  <2>2. CASE d \in {"server_name", "error_page"}
    BY <1>2, <2>2, ServerListsFit DEF RunThen, WordRunThen, RunThenTwo
  <2> QED
    BY <1>2, <2>1, <2>2, ListsAre
<1>3. CASE block \in {"location", "cgi"}
  <2>1. /\ d \in Plain \cup {"cgi_path"} \cup {"error_page", "allowed_methods", "redirect", "return", "}"}
        /\ Fits(Consumes["cgi"][d], a, e)
    BY <1>3, LocationListsAre
  <2>2. CASE d \in Plain \cup {"cgi_path"} \cup {"}", "error_page", "redirect"}
    BY <2>1, <2>2, LocationListsFit DEF TwoWords, ThreeWords, Plain
  <2>3. CASE d \in {"allowed_methods", "return"}
    BY <2>1, <2>3, LocationListsFit DEF RunThen, WordRunThen
  <2> QED
    BY <2>1, <2>2, <2>3
<1> QED
  BY <1>1, <1>2, <1>3 DEF Blocks

\* While the parser reads, there is a text, and it is at a place of it.
LEMMA PlaceIs ==
  ASSUME IInv, phase \in Blocks
  PROVE  /\ Tape(_tokens) /\ Len(Words) \in Nat /\ _index \in 1..(Len(Words) + 1)
         /\ Token.type # "END" => _index \in 1..Len(Words)
<1>1. Tape(_tokens)
  BY DEF IInv, TokensRead
<1>2. Len(Words) \in Nat /\ Len(Words) = Len(_tokens) - 1
  BY <1>1, WordsAre
<1>3. /\ Len(_tokens) \in Nat /\ _index \in 1..Len(_tokens)
      /\ Token.type # "END" => _index + 1 \in 1..Len(_tokens)
  BY TokenIs
<1> QED
  BY <1>1, <1>2, <1>3

\* An end of a statement is a word of one of three types.
LEMMA EndIs ==
  ASSUME Tape(_tokens)
  PROVE  \A p \in 1..Len(Words) : p \in Ends <=> _tokens[p].type \in {";", "{", "}"}
<1>1. DOMAIN Words = 1..Len(Words) /\ \A i \in 1..Len(Words) : Words[i] = _tokens[i]
  BY WordsAre
<1> QED
  BY <1>1 DEF Ends

\* What has been read stays legal while the next directive is read.
LEMMA ReadToStays ==
  ASSUME NEW n, ReadTo(n), UNCHANGED <<_tokens, phase>>
  PROVE  ReadTo(n)'
BY TextStays DEF ReadTo

\* The text begins.
LEMMA TextBegins ==
  ASSUME Tape(_tokens), phase = "servers", _index = 1, directive = "", expected = <<>>
  PROVE  Syntax(1)
<1>1. Depth(1) = 0 /\ Statements \subseteq 1..Len(Words)
  BY WordsAre, DepthGrows
<1>2. ASSUME NEW i \in Statements, i < 1 PROVE FALSE
  <2>1. Len(Words) \in Nat
    BY WordsAre
  <2>2. i \in 1..Len(Words)
    BY <1>1
  <2>3. i >= 1 /\ i \in Int
    BY ONLY <2>1, <2>2
  <2> QED
    BY ONLY <1>2, <2>3
<1>4. Level(phase) = 0 /\ phase # "cgi"
  BY DEF Level
<1>5. 1 \in Starts
  BY DEF Starts
<1>6. \A i \in Statements : i < 1 => LegalStatement(i)
  BY <1>2
<1>3. ReadTo(1)
  BY ONLY <1>1, <1>4, <1>5, <1>6 DEF ReadTo
<1> QED
  BY <1>3 DEF Syntax, ReadIn

\* The functions of no argument.
LEMMA NoPlaces ==
  ASSUME NEW n \in Int
  PROVE  /\ \A w : [k \in 1..((n + 1) - n - 1) |-> w[n + k].value] = <<>>
         /\ \A w : [k \in 1..(n - n - 1) |-> w[n + k].value] = <<>>
<1>1. (n + 1) - n - 1 = 0 /\ n - n - 1 = -1 /\ 1..0 = {} /\ 1..(-1) = {}
  OBVIOUS
<1>2. \A w : [k \in 1..0 |-> w[n + k].value] = <<>>
  OBVIOUS
<1>3. \A w : [k \in {} |-> w[n + k].value] = <<>>
  BY <1>1, <1>2
<1> QED
  BY <1>1, <1>3

\* A directive is known.
LEMMA DirectiveReads ==
  ASSUME IInv, NEW n, Syntax(n), Directive
  PROVE  Syntax(n)'
<1>1. phase \in Blocks /\ directive = "" /\ Token.type \in DOMAIN Consumes[phase]
  BY InServerIs DEF Directive, InBlock
<1>2. /\ directive' = Token.type /\ expected' = Consumes[phase][Token.type] /\ values' = <<>>
      /\ _index' = _index + 1 /\ UNCHANGED <<phase, _tokens>>
  BY DEF Directive, Constant
<1>3. n = _index /\ ReadTo(n)
  BY <1>1 DEF Syntax, ReadIn
<1>4. Token.type \in Directives
  BY <1>1, ConsumesAre
<1>5. Token.type # "" /\ Token.type # "END"
  BY <1>4 DEF Directives
<1>6. Tape(_tokens) /\ Len(Words) \in Nat /\ n \in 1..Len(Words) /\ n \in Int
  <2>1. Tape(_tokens) /\ Len(Words) \in Nat /\ n \in 1..Len(Words)
    BY <1>1, <1>3, <1>5, PlaceIs
  <2> QED
    BY <2>1
<1>7. Proper(expected') /\ (expected' = <<>> <=> directive' = "}")
  BY <1>1, <1>2, AllProper
<1>8. Token.type \notin {";", "{"}
  BY <1>1, ListsAre, LocationListsAre DEF Blocks, Plain
<1>9. n \in Ends <=> Token.type = "}"
  BY <1>3, <1>6, <1>8, EndIs DEF Token
<1>10. Depth(n + 1) = Depth(n) + Brace(Token.type) /\ Depth(n) \in Int
  <2>1. Words[n] = _tokens[n] /\ n \in 1..(Len(Words) + 1)
    BY <1>6, WordsAre
  <2> QED
    BY <1>3, <1>6, <2>1, DepthGrows DEF Token
<1>11. ASSUME expected' = <<>> PROVE Complete(n)'
  <2>1. Token.type = "}" /\ n \in Ends
    BY <1>2, <1>7, <1>9, <1>11
  <2>2. OneStatement(n, n)
    <3>1. n \in Starts /\ n..(n - 1) = {} /\ n <= n
      BY <1>3, <1>6 DEF ReadTo
    <3> QED
      BY <2>1, <3>1 DEF OneStatement
  <2>3. End(n) = n
    BY <1>6, <2>2, StatementIs
  <2>4. Texts(n) = [k \in 1..(n - n - 1) |-> Words[n + k].value]
    BY <2>3 DEF Texts
  <2>5. Texts(n) = <<>>
    BY <1>6, <2>4, NoPlaces
  <2>6. _index' - 1 = n /\ _index' = n + 1
    BY <1>2, <1>3, <1>6
  <2>7. Depth(n + 1) = Depth(n) + Brace(_tokens[n].type)
    BY <1>3, <1>10 DEF Token
  <2> QED
    BY <1>2, <2>2, <2>5, <2>6, <2>7, TextStays DEF Complete
<1>12. ASSUME expected' # <<>> PROVE Midway(n)'
  <2>1. Token.type # "}" /\ n \notin Ends
    BY <1>2, <1>7, <1>9, <1>12
  <2>2. Brace(Token.type) = 0
    BY <1>8, <2>1 DEF Brace
  <2>3. Depth(n + 1) = Depth(n)
    BY ONLY <1>10, <2>2
  <2>4. _index' = n + 1 /\ n < n + 1 /\ n..((n + 1) - 1) = {n}
    BY <1>2, <1>3, <1>6
  <2>5. values' = [k \in 1..((n + 1) - n - 1) |-> _tokens[n + k].value]
    BY <1>2, <1>6, NoPlaces
  <2> QED
    BY <1>2, <2>1, <2>3, <2>4, <2>5, TextStays DEF Midway
<1>13. ReadIn(n)'
  <2>1. Consumes[phase'][directive'] = expected' /\ _index' = n + 1
    BY <1>2, <1>3
  <2>2. directive' \in DOMAIN Consumes[phase'] /\ _tokens'[n].type = directive' /\ directive' # ""
    BY <1>1, <1>2, <1>3, <1>5 DEF Token
  <2>3. Proper(expected')
    BY <1>7
  <2> QED
    BY <1>11, <1>12, <2>1, <2>2, <2>3 DEF ReadIn
<1> QED
  BY <1>2, <1>3, <1>13, ReadToStays DEF Syntax

\* The values, with one more.
LEMMA OneMore ==
  ASSUME NEW m \in Nat, NEW f
  PROVE  Append([k \in 1..m |-> f[k]], f[m + 1]) = [k \in 1..(m + 1) |-> f[k]]
<1> DEFINE S == {f[k] : k \in 1..(m + 1)}
           s == [k \in 1..m |-> f[k]]
           t == [k \in 1..(m + 1) |-> f[k]]
<1>1. s \in [1..m -> S] /\ t \in [1..(m + 1) -> S] /\ f[m + 1] \in S
  OBVIOUS
<1>2. \A k \in 1..m : s[k] = f[k] /\ t[k] = f[k]
  OBVIOUS
<1>3. t[m + 1] = f[m + 1]
  OBVIOUS
<1> HIDE DEF s, t, S
<1>4. /\ s \in Seq(S) /\ Len(s) = m /\ t \in Seq(S) /\ Len(t) = m + 1
  BY <1>1, SeqOfLength
<1> DEFINE a == Append(s, f[m + 1])
<1>5. /\ a \in Seq(S) /\ Len(a) = m + 1 /\ a[m + 1] = f[m + 1] /\ \A k \in 1..m : a[k] = s[k]
  BY <1>1, <1>4
<1>6. \A k \in 1..(m + 1) : k \in 1..m \/ k = m + 1
  OBVIOUS
<1>7. \A k \in 1..(m + 1) : a[k] = t[k]
  BY <1>2, <1>3, <1>5, <1>6
<1> HIDE DEF a
<1>8. a = t
  BY <1>4, <1>5, <1>7, SameSeq
<1> QED
  BY <1>8 DEF a, s, t

\* A list that waits, and the place it waits at.
LEMMA WaitingIs ==
  ASSUME IInv, NEW n, Syntax(n), InBlock, expected # <<>>
  PROVE  /\ phase \in Blocks /\ directive # "" /\ Midway(n) /\ Proper(expected)
         /\ Tape(_tokens) /\ Len(Words) \in Nat /\ n \in Int /\ n >= 1 /\ _index \in Int
         /\ _index \in 1..(Len(Words) + 1) /\ n < _index
         /\ Awaited = Head(expected) /\ Awaited = expected[1] /\ Awaited \in Consume
         /\ Len(expected) \in Nat /\ 1 \in 1..Len(expected)
         /\ Awaited.type \in {";", "{"} <=> 1 = Len(expected)
         /\ Awaited.times # "one" => 1 + 1 \in 1..Len(expected)
         /\ Proper(Tail(expected)) /\ Len(Tail(expected)) = Len(expected) - 1
         /\ Len(expected) >= 2 => Tail(expected) # <<>>
         /\ Len(expected) = 1 => Tail(expected) = <<>>
<1>1. phase \in Blocks
  BY InServerIs DEF InBlock
<1>2. directive # "" /\ Midway(n) /\ Proper(expected)
  BY DEF Syntax, ReadIn
<1>3. Tape(_tokens) /\ Len(Words) \in Nat /\ _index \in 1..(Len(Words) + 1)
  BY <1>1, PlaceIs
<1>4. n \in 1..(Len(Words) + 1)
  BY <1>3, WordsAre DEF Syntax, ReadTo
<1>5. /\ Proper(Tail(expected)) /\ Head(expected) \in Consume /\ Len(expected) \in Nat
      /\ Len(expected) >= 1 /\ Len(Tail(expected)) = Len(expected) - 1 /\ Head(expected) = expected[1]
  BY <1>2, TailProper
<1>6. 1 \in 1..Len(expected)
  BY <1>5
<1>7. /\ expected[1].type \in {";", "{"} <=> 1 = Len(expected)
      /\ expected[1].times # "one" => 1 + 1 \in 1..Len(expected)
  BY <1>2, <1>6 DEF Proper
<1> DEFINE T == Tail(expected)
<1>8. T \in Seq(Consume)
  BY <1>5 DEF Proper
<1>9. (Len(expected) >= 2 => T # <<>>) /\ (Len(expected) = 1 => T = <<>>)
  <2>1. Len(T) = Len(expected) - 1 /\ Len(<<>>) = 0
    BY <1>5
  <2>2. Len(T) = 0 => T = <<>>
    <3> HIDE DEF T, Consume
    <3> QED
      BY <1>8
  <2> HIDE DEF T
  <2> QED
    BY <1>5, <2>1, <2>2
<1>10. n < _index
  BY <1>2 DEF Midway
<1>11. Awaited = Head(expected) /\ Awaited = expected[1] /\ Awaited \in Consume
  BY <1>5 DEF Awaited
<1>12. n \in Int /\ n >= 1 /\ _index \in Int
  BY <1>3, <1>4
<1>13. /\ Awaited.type \in {";", "{"} <=> 1 = Len(expected)
       /\ Awaited.times # "one" => 1 + 1 \in 1..Len(expected)
  BY <1>7, <1>11
<1> QED
  BY ONLY <1>1, <1>2, <1>3, <1>5, <1>6, <1>9, <1>10, <1>11, <1>12, <1>13

\* What the list accepts after a token.
LEMMA TokenTaken ==
  ASSUME NEW E, Proper(E), E # <<>>, NEW a \in Int, NEW b \in Int,
         _tokens[a].type = Head(E).type, Head(E) \in Consume
  PROVE  Fits(E, a, b) <=> Fits(IF Head(E).times = "many" THEN E ELSE Tail(E), a + 1, b)
<1>1. Head(E).times \in {"one", "maybe", "many"}
  BY DEF Consume
<1>2. CASE Head(E).times = "one"
  BY <1>2, FitsOne
<1>3. CASE Head(E).times = "maybe"
  BY <1>3, FitsMaybe
<1>4. CASE Head(E).times = "many"
  BY <1>4, FitsMany
<1> QED
  BY <1>1, <1>2, <1>3, <1>4

\* A token is consumed.
LEMMA ConsumeReads ==
  ASSUME IInv, NEW n, Syntax(n), consume
  PROVE  Syntax(n)'
<1>1. InBlock /\ expected # <<>> /\ Token.type = Awaited.type
  BY DEF consume
<1>2. /\ _index' = _index + 1
      /\ values' = IF Token.type \in {";", "{"} THEN values ELSE Append(values, Token.value)
      /\ expected' = IF Awaited.times = "many" THEN expected ELSE Tail(expected)
      /\ UNCHANGED <<phase, directive, _tokens>>
  BY DEF consume, Constant
<1>3. /\ phase \in Blocks /\ directive # "" /\ Midway(n) /\ Proper(expected)
      /\ Tape(_tokens) /\ Len(Words) \in Nat /\ n \in Int /\ n >= 1 /\ _index \in Int /\ n < _index
      /\ Awaited = Head(expected) /\ Awaited \in Consume
      /\ Len(expected) \in Nat /\ 1 \in 1..Len(expected)
      /\ Awaited.type \in {";", "{"} <=> 1 = Len(expected)
      /\ Awaited.times # "one" => 1 + 1 \in 1..Len(expected)
      /\ Proper(Tail(expected))
      /\ Len(expected) >= 2 => Tail(expected) # <<>>
      /\ Len(expected) = 1 => Tail(expected) = <<>>
  BY <1>1, WaitingIs
<1>15. Len(Words) \in Nat /\ n \in Int /\ n >= 1 /\ _index \in Int /\ n < _index
  BY ONLY <1>3
<1>16. /\ Len(expected) \in Nat
       /\ Token.type \in {";", "{"} <=> 1 = Len(expected)
       /\ Awaited.times # "one" => 1 + 1 \in 1..Len(expected)
       /\ 1 \in 1..Len(expected)
  BY ONLY <1>1, <1>3
<1>4. Token.type \in {"STRING", "NUMBER", "MUL", ";", "{"}
  BY <1>1, <1>3 DEF Consume
<1>5. _index \in 1..Len(Words)
  <2>1. Token.type # "END"
    BY <1>4
  <2> QED
    BY <1>3, <2>1, PlaceIs
<1>6. _index \in Ends <=> Token.type \in {";", "{"}
  <2>1. _index \in Ends <=> _tokens[_index].type \in {";", "{", "}"}
    BY <1>3, <1>5, EndIs
  <2> QED
    BY <1>4, <2>1 DEF Token
<1>7. Depth(_index + 1) = Depth(_index) + Brace(Token.type) /\ Depth(_index) \in Int
  <2>1. Words[_index] = _tokens[_index] /\ _index \in 1..(Len(Words) + 1)
    <3>1. Words[_index] = _tokens[_index]
      BY <1>3, <1>5, WordsAre
    <3> QED
      BY ONLY <1>5, <1>15, <3>1
  <2>2. Tape(_tokens)
    BY <1>3
  <2> QED
    BY <1>5, <2>1, <2>2, DepthGrows DEF Token
<1>8. /\ \A p \in n..(_index - 1) : p \notin Ends
      /\ Depth(_index) = Depth(n)
      /\ values = [k \in 1..(_index - n - 1) |-> _tokens[n + k].value]
  BY <1>3 DEF Midway
<1>9. ReadTo(n)
  BY DEF Syntax
<1>10. Proper(expected')
  BY <1>2, <1>3
<1>11. \A b \in Int : Fits(Consumes[phase][directive], n + 1, b) <=> Fits(expected', _index + 1, b)
  <2> TAKE b \in Int
  <2>1. Fits(Consumes[phase][directive], n + 1, b) <=> Fits(expected, _index, b)
    BY <1>3 DEF Syntax, ReadIn
  <2>2. _tokens[_index].type = Head(expected).type
    BY <1>1, <1>3 DEF Token
  <2>3. Fits(expected, _index, b) <=>
          Fits(IF Head(expected).times = "many" THEN expected ELSE Tail(expected), _index + 1, b)
    BY <1>1, <1>3, <2>2, TokenTaken
  <2> QED
    BY <1>2, <1>3, <2>1, <2>3
<1>12. ASSUME Token.type \in {";", "{"} PROVE expected' = <<>> /\ Complete(n)'
  <2>1. 1 = Len(expected) /\ Awaited.times = "one"
    <3>1. 1 = Len(expected)
      BY ONLY <1>12, <1>16
    <3>2. ~ (1 + 1 \in 1..1)
      OBVIOUS
    <3> QED
      BY ONLY <1>16, <3>1, <3>2
  <2>2. expected' = <<>>
    BY <1>2, <1>3, <2>1
  <2>3. OneStatement(n, _index)
    <3>1. n <= _index
      BY ONLY <1>15
    <3>2. n \in Starts
      BY <1>9 DEF ReadTo
    <3> QED
      BY ONLY <1>6, <1>8, <1>12, <3>1, <3>2 DEF OneStatement
  <2>4. End(n) = _index
    BY <1>3, <2>3, StatementIs
  <2>5. Texts(n) = [k \in 1..(_index - n - 1) |-> Words[n + k].value]
    BY <2>4 DEF Texts
  <2>6. ASSUME NEW k \in 1..(_index - n - 1) PROVE Words[n + k] = _tokens[n + k]
    <3>1. n + k \in 1..Len(Words)
      BY ONLY <1>5, <1>15
    <3> QED
      BY <1>3, <3>1, WordsAre
  <2>7. values' = Texts(n)
    BY <1>2, <1>8, <1>12, <2>5, <2>6
  <2>8. _index' - 1 = _index
    <3>1. _index' = _index + 1
      BY <1>2
    <3> QED
      BY ONLY <1>15, <3>1
  <2>9. Depth(_index + 1) = Depth(n) + Brace(_tokens[_index].type)
    BY ONLY <1>7, <1>8 DEF Token
  <2>10. Complete(n)'
    BY <1>2, <2>3, <2>7, <2>8, <2>9, TextStays DEF Complete
  <2> QED
    BY <2>2, <2>10
<1>13. ASSUME Token.type \notin {";", "{"} PROVE expected' # <<>> /\ Midway(n)'
  <2>1. Len(expected) # 1 /\ Len(expected) >= 2
    <3>1. ~ (1 = Len(expected))
      BY ONLY <1>13, <1>16, Zenon
    <3>2. Len(expected) \in Nat /\ 1 \in 1..Len(expected)
      BY ONLY <1>16
    <3> QED
      <4>1. \A x \in Nat : 1 \in 1..x /\ ~(1 = x) => x # 1 /\ x >= 2
        OBVIOUS
      <4> QED
        BY ONLY <3>1, <3>2, <4>1, Zenon
  <2>2. expected' # <<>>
    BY <1>1, <1>2, <1>3, <2>1
  <2>3. Brace(Token.type) = 0
    BY <1>4, <1>13 DEF Brace
  <2>4. Depth(_index + 1) = Depth(n)
    BY ONLY <1>7, <1>8, <2>3
  <2>5. \A p \in n..((_index + 1) - 1) : p \notin Ends
    <3>1. \A p \in n..((_index + 1) - 1) : p \in n..(_index - 1) \/ p = _index
      BY ONLY <1>15
    <3> QED
      BY <1>6, <1>8, <1>13, <3>1
  <2>6. n < _index + 1
    BY ONLY <1>15
  <2>7. values' = [k \in 1..((_index + 1) - n - 1) |-> _tokens[n + k].value]
    <3> DEFINE f == [k \in Int |-> _tokens[n + k].value]
               m == _index - n - 1
    <3>1. m \in Nat /\ (_index + 1) - n - 1 = m + 1 /\ n + (m + 1) = _index /\ m + 1 \in Int
      BY ONLY <1>15
    <3>2. f[m + 1] = Token.value
      BY <3>1 DEF Token
    <3>3. \A k \in 1..m : f[k] = _tokens[n + k].value
      BY <3>1
    <3>4. \A k \in 1..(m + 1) : f[k] = _tokens[n + k].value
      BY <3>1
    <3> HIDE DEF f
    <3>5. values = [k \in 1..m |-> f[k]]
      BY <1>8, <3>3
    <3>6. [k \in 1..((_index + 1) - n - 1) |-> _tokens[n + k].value] = [k \in 1..(m + 1) |-> f[k]]
      BY <3>1, <3>4
    <3> HIDE DEF m
    <3>7. Append([k \in 1..m |-> f[k]], f[m + 1]) = [k \in 1..(m + 1) |-> f[k]]
      BY <3>1, OneMore
    <3>8. values' = Append(values, Token.value)
      BY <1>2, <1>13
    <3> QED
      BY ONLY <3>2, <3>5, <3>6, <3>7, <3>8
  <2>8. Midway(n)'
    BY <1>2, <2>4, <2>5, <2>6, <2>7, TextStays DEF Midway
  <2> QED
    BY <2>2, <2>8
<1>14. ReadIn(n)'
  <2>1. directive \in DOMAIN Consumes[phase] /\ _tokens[n].type = directive
    BY <1>3 DEF Syntax, ReadIn
  <2>2. PICK E : E = expected'
    OBVIOUS
  <2>3. \A b \in Int : Fits(Consumes[phase][directive], n + 1, b)' <=> Fits(E, _index, b)'
    BY <1>2, <1>11, <2>2, TextStays
  <2> QED
    BY <1>2, <1>3, <1>10, <1>12, <1>13, <2>1, <2>2, <2>3 DEF ReadIn
<1> QED
  BY <1>2, <1>9, <1>14, ReadToStays DEF Syntax

\* A token that may be left out is not there.
LEMMA GoOnReads ==
  ASSUME IInv, NEW n, Syntax(n), GoOn
  PROVE  Syntax(n)'
<1>1. InBlock /\ expected # <<>> /\ Token.type # Awaited.type /\ Awaited.times # "one"
  BY DEF GoOn
<1>2. expected' = Tail(expected) /\ UNCHANGED <<phase, _index, directive, values, _tokens>>
  BY DEF GoOn, Constant
<1>3. /\ directive # "" /\ Midway(n) /\ Proper(expected)
      /\ _index \in Int /\ Awaited = Head(expected)
      /\ Len(expected) \in Nat /\ 1 + 1 \in 1..Len(expected)
      /\ Proper(Tail(expected)) /\ (Len(expected) >= 2 => Tail(expected) # <<>>)
  BY <1>1, WaitingIs
<1>4. expected' # <<>>
  <2>1. Len(expected) \in Nat /\ 1 + 1 \in 1..Len(expected)
    BY ONLY <1>3
  <2>2. Len(expected) >= 2
    BY ONLY <2>1
  <2> QED
    BY ONLY <1>2, <1>3, <2>2
<1>5. \A b \in Int : Fits(Consumes[phase][directive], n + 1, b) <=> Fits(expected', _index, b)
  <2> TAKE b \in Int
  <2>1. Fits(Consumes[phase][directive], n + 1, b) <=> Fits(expected, _index, b)
    BY <1>3 DEF Syntax, ReadIn
  <2>2. Fits(expected, _index, b) <=> Fits(Tail(expected), _index, b)
    BY <1>1, <1>3, FitsNot DEF Token
  <2> QED
    BY <1>2, <2>1, <2>2
<1>6. Midway(n)'
  BY <1>2, <1>3, TextStays DEF Midway
<1>7. ReadIn(n)'
  <2>1. directive \in DOMAIN Consumes[phase] /\ _tokens[n].type = directive
    BY <1>3 DEF Syntax, ReadIn
  <2>2. PICK E : E = expected'
    OBVIOUS
  <2>3. \A b \in Int : Fits(Consumes[phase][directive], n + 1, b)' <=> Fits(E, _index, b)'
    BY <1>2, <1>5, <2>2, TextStays
  <2>4. Proper(expected')
    BY <1>2, <1>3
  <2> QED
    BY <1>2, <1>3, <1>4, <1>6, <2>1, <2>2, <2>3, <2>4 DEF ReadIn
<1>8. ReadTo(n)
  BY DEF Syntax
<1> QED
  BY <1>2, <1>7, <1>8, ReadToStays DEF Syntax

\* By how much a directive changes the depth.
Turn(d) == IF d \in {"server", "location"} THEN 1 ELSE IF d = "}" THEN -1 ELSE 0

\* The levels of the blocks, and the turns, with the sums that are needed.
LEMMA LevelsAre ==
  /\ Level("servers") = 0 /\ Level("server") = 1 /\ Level("location") = 2 /\ Level("cgi") = 2
  /\ Turn("server") = 1 /\ Turn("location") = 1 /\ Turn("}") = -1
  /\ \A d : d \notin {"server", "location", "}"} => Turn(d) = 0
  /\ 0 + 1 = 1 /\ 1 + 1 = 2 /\ 1 + (-1) = 0 /\ 2 + (-1) = 1 /\ 1 + 0 = 1 /\ 2 + 0 = 2
<1>1. /\ Level("servers") = 0 /\ Level("server") = 1 /\ Level("location") = 2 /\ Level("cgi") = 2
  BY DEF Level
<1>2. /\ Turn("server") = 1 /\ Turn("location") = 1 /\ Turn("}") = -1
      /\ \A d : d \notin {"server", "location", "}"} => Turn(d) = 0
  BY DEF Turn
<1>3. 0 + 1 = 1 /\ 1 + 1 = 2 /\ 1 + (-1) = 0 /\ 2 + (-1) = 1 /\ 1 + 0 = 1 /\ 2 + 0 = 2
  OBVIOUS
<1> QED
  BY <1>1, <1>2, <1>3

\* A directive that has all it wants is a statement of the grammar.
LEMMA StatementRead ==
  ASSUME IInv, NEW n, Syntax(n), phase \in Blocks, directive # "", expected = <<>>,
         directive = "cgi" => values[1] \in {"on", "off"}
  PROVE  /\ OneStatement(n, _index - 1) /\ values = Texts(n) /\ Words[n].type = directive
         /\ n \in Statements /\ n \in 1..Len(Words) /\ Shape(n) \in Grammar[Level(phase) + 1]
         /\ _index \in Starts /\ _index > 1 /\ Before(_index) = n
         /\ Depth(_index) = Level(phase) + Turn(directive)
         /\ \A i \in Statements : i < _index => LegalStatement(i)
<1> DEFINE e == _index - 1
<1>1. Tape(_tokens) /\ Len(Words) \in Nat /\ _index \in 1..(Len(Words) + 1)
  BY PlaceIs
<1>2. /\ directive \in DOMAIN Consumes[phase] /\ _tokens[n].type = directive
      /\ OneStatement(n, e) /\ values = Texts(n)
      /\ Depth(_index) = Depth(n) + Brace(_tokens[e].type)
      /\ \A b \in Int : Fits(Consumes[phase][directive], n + 1, b) <=> Fits(<<>>, _index, b)
  BY DEF Syntax, ReadIn, Complete
<1>3. _index \in Int /\ e \in Int /\ e + 1 = _index
  BY ONLY <1>1
<1> HIDE DEF e
<1>4. /\ n \in Statements /\ e + 1 \in Starts /\ Before(e + 1) = n
      /\ \A i \in Statements : i < e + 1 <=> i < n \/ i = n
  BY <1>1, <1>2, StatementIs
<1>5. n \in 1..Len(Words) /\ Words[n] = _tokens[n]
  BY <1>1, <1>4, WordsAre
<1>6. n \in Int /\ n + 1 \in Int /\ _index > 1 /\ n >= 1
  <2>1. n <= e
    BY <1>2 DEF OneStatement
  <2>2. n \in Int /\ n >= 1
    BY ONLY <1>1, <1>5
  <2> QED
    BY ONLY <1>3, <2>1, <2>2
<1>7. Fits(Consumes[phase][directive], n + 1, e)
  <2>1. Fits(<<>>, _index, e) <=> e = _index - 1
    BY <1>3, FitsEmpty
  <2> QED
    BY <1>2, <1>3, <2>1 DEF e
<1>8. Shape(n) \in Grammar[Level(phase) + 1]
  <2>1. Accepts(phase, n, e)
    BY <1>2, <1>7 DEF Accepts
  <2> QED
    BY <1>1, <1>2, <2>1, GrammarOf
<1>9. ReadTo(n)
  BY DEF Syntax
<1>10. LegalStatement(n)
  <2>1. Depth(n) = Level(phase) /\ Depth(n) \in 0..2
    <3>1. Level(phase) \in {0, 1, 2}
      BY LevelsAre DEF Blocks
    <3>2. Level(phase) \in 0..2
      BY ONLY <3>1
    <3>3. Depth(n) = Level(phase)
      BY <1>9 DEF ReadTo
    <3> QED
      BY ONLY <3>2, <3>3
  <2>2. Words[n].type = "cgi" => Texts(n)[1] \in {"on", "off"}
    BY <1>2, <1>5
  <2>3. Words[n].type = "cgi_path" => Words[Before(n)].type \in {"cgi", "cgi_path"}
    <3>1. directive = "cgi_path" => phase = "cgi"
      BY <1>2, ListsAre, LocationListsAre DEF Blocks, Plain
    <3> QED
      BY <1>2, <1>5, <1>9, <3>1 DEF ReadTo
  <2> QED
    BY <1>8, <2>1, <2>2, <2>3 DEF LegalStatement
<1>11. ASSUME NEW i \in Statements, i < _index PROVE LegalStatement(i)
  <2>1. i < n \/ i = n
    BY <1>3, <1>4, <1>11
  <2> QED
    BY <1>9, <1>10, <2>1 DEF ReadTo
<1>12. Brace(_tokens[e].type) = Turn(directive)
  <2>1. /\ directive = "}" => e = (n + 1) - 1
        /\ directive \in {"server", "location"} => _tokens[e].type = "{"
        /\ directive \notin {"server", "location", "}"} => _tokens[e].type = ";"
    <3>1. e \in Int /\ n + 1 \in Int /\ directive \in DOMAIN Consumes[phase]
      BY ONLY <1>2, <1>3, <1>6
    <3> QED
      BY <1>7, <3>1, Closing
  <2>2. (n + 1) - 1 = n
    BY ONLY <1>6
  <2>3. directive = "}" => _tokens[e].type = "}"
    BY <1>2, <2>1, <2>2
  <2> QED
    BY ONLY <2>1, <2>3 DEF Brace, Turn
<1>13. Depth(_index) = Level(phase) + Turn(directive)
  BY <1>2, <1>9, <1>12 DEF ReadTo
<1> QED
  BY <1>2, <1>3, <1>4, <1>5, <1>6, <1>8, <1>11, <1>13 DEF e

\* The directives that are read, and where they leave the parser.
Reads ==
  \/ ServerBlock \/ parseListenDirective \/ parseServerNameDirective
  \/ parseErrorPageDirective \/ parseClientMaxBodySizeDirective \/ EndOfServer
  \/ LocationBlock \/ Root \/ Index \/ Autoindex \/ AllowedMethods \/ IgnoredErrorPage
  \/ parseUploadStoreDirective \/ parseRedirectDirective \/ parseReturnDirective
  \/ parseCgiDirective \/ CgiPath \/ EndOfLocation

Leaves(d, next) ==
  /\ phase \in Blocks /\ directive = d /\ expected = <<>> /\ phase' = next
  /\ directive' = "" /\ UNCHANGED <<_index, expected, values, _tokens, file>>
  /\ next \in Blocks /\ Level(next) = Level(phase) + Turn(d)
  /\ next = "cgi" <=> d \in {"cgi", "cgi_path"}
  /\ d = "cgi" => values[1] \in {"on", "off"}

\* Every directive that has been read leaves a block of the depth it says.
LEMMA ReadLeaves ==
  ASSUME Reads
  PROVE  \E d, next : d # "" /\ Leaves(d, next)
<1> USE DEF Read, Leaves, Constant, Blocks
<1> USE LevelsAre
<1>1. CASE ServerBlock
  <2>1. Leaves("server", "server")
    BY <1>1 DEF ServerBlock
  <2> QED
    BY <2>1
<1>2. ASSUME NEW d, d \notin {"", "server", "location", "}", "cgi", "cgi_path"}, InServer(d)
      PROVE  Leaves(d, "server")
  BY <1>2 DEF InServer
<1>3. CASE \/ parseListenDirective \/ parseServerNameDirective
           \/ parseErrorPageDirective \/ parseClientMaxBodySizeDirective
  <2>1. \/ InServer("listen") \/ InServer("server_name") \/ InServer("error_page")
        \/ InServer("client_max_body_size")
    BY <1>3 DEF parseListenDirective, parseServerNameDirective, parseErrorPageDirective,
         parseClientMaxBodySizeDirective
  <2>2. \E d : d \notin {"", "server", "location", "}", "cgi", "cgi_path"} /\ InServer(d)
    BY <2>1
  <2> HIDE DEF Leaves
  <2> QED
    BY <1>2, <2>2
<1>4. CASE EndOfServer
  <2>1. Leaves("}", "servers")
    BY <1>4 DEF EndOfServer
  <2> QED
    BY <2>1
<1>5. CASE LocationBlock
  <2>1. Leaves("location", "location")
    BY <1>5 DEF LocationBlock
  <2> QED
    BY <2>1
<1> DEFINE SetsOne(d) == Read(Locations, d) /\ phase' = "location"
<1>6. ASSUME NEW d, d \notin {"", "server", "location", "}", "cgi", "cgi_path"}, SetsOne(d)
      PROVE  Leaves(d, "location")
  BY <1>6 DEF Locations
<1>7. CASE \/ Root \/ Index \/ Autoindex \/ AllowedMethods \/ IgnoredErrorPage
           \/ parseUploadStoreDirective \/ parseRedirectDirective \/ parseReturnDirective
  <2> HIDE DEF Read, Leaves, Constant, Blocks
  <2>1. \/ SetsOne("root") \/ SetsOne("index") \/ SetsOne("autoindex") \/ SetsOne("allowed_methods")
        \/ SetsOne("error_page") \/ SetsOne("upload_store") \/ SetsOne("redirect") \/ SetsOne("return")
    BY <1>7 DEF Sets, Root, Index, Autoindex, AllowedMethods, IgnoredErrorPage,
         parseUploadStoreDirective, parseRedirectDirective, parseReturnDirective
  <2> HIDE DEF SetsOne
  <2>2. \E d : d \notin {"", "server", "location", "}", "cgi", "cgi_path"} /\ SetsOne(d)
    BY <2>1
  <2> QED
    BY <1>6, <2>2
<1>8. CASE parseCgiDirective
  <2>1. Leaves("cgi", "cgi")
    BY <1>8 DEF parseCgiDirective, Value, Locations
  <2> QED
    BY <2>1
<1>9. CASE CgiPath
  <2>1. Leaves("cgi_path", "cgi")
    BY <1>9 DEF CgiPath
  <2> QED
    BY <2>1
<1>10. CASE EndOfLocation
  <2>1. Leaves("}", "server")
    BY <1>10 DEF EndOfLocation, Locations
  <2> QED
    BY <2>1
<1> QED
  BY <1>1, <1>3, <1>4, <1>5, <1>7, <1>8, <1>9, <1>10 DEF Reads

\* A directive is read: the next begins where it ends.
LEMMA ReadReads ==
  ASSUME IInv, NEW n, Syntax(n), Reads
  PROVE  Syntax(_index)'
<1>1. PICK d, next : d # "" /\ Leaves(d, next)
  BY ReadLeaves
<1>2. /\ phase \in Blocks /\ directive = d /\ expected = <<>> /\ phase' = next
      /\ directive' = "" /\ UNCHANGED <<_index, expected, values, _tokens>>
      /\ Level(next) = Level(phase) + Turn(d)
      /\ next = "cgi" <=> d \in {"cgi", "cgi_path"}
      /\ d = "cgi" => values[1] \in {"on", "off"}
  BY <1>1 DEF Leaves
<1>3. /\ Words[n].type = directive /\ _index \in Starts /\ _index > 1 /\ Before(_index) = n
      /\ Depth(_index) = Level(phase) + Turn(directive)
      /\ \A i \in Statements : i < _index => LegalStatement(i)
  BY <1>1, <1>2, StatementRead
<1>4. ReadTo(_index)'
  BY <1>2, <1>3, TextStays DEF ReadTo
<1> QED
  BY <1>2, <1>4 DEF Syntax, ReadIn

\* What the tokenizer leaves of a file.
LEMMA TokenizeIs ==
  ASSUME NEW input \in Files
  PROVE  LET words == Shown(SanitizeInput(input))
             tokens == tokenize(input)
         IN  /\ Len(words) \in Nat /\ Len(tokens) = Len(words) + 1
             /\ \A i \in 1..Len(words) :
                  tokens[i].type = TokenType(words[i]) /\ tokens[i].value = words[i]
<1> DEFINE words == Shown(SanitizeInput(input))
           s == [i \in DOMAIN words |-> [type |-> TokenType(words[i]), value |-> words[i]]]
           end == [type |-> "END", value |-> ""]
           S == {s[i] : i \in DOMAIN words} \cup {end}
           t == tokenize(input)
<1>1. words \in Seq(STRING)
  BY ShownIs
<1>2. t = Append(s, end)
  BY DEF tokenize
<1> HIDE DEF words, t
<1>3. Len(words) \in Nat /\ DOMAIN words = 1..Len(words)
  BY <1>1
<1>4. /\ s \in [1..Len(words) -> S] /\ end \in S
      /\ \A i \in 1..Len(words) : s[i].type = TokenType(words[i]) /\ s[i].value = words[i]
  BY <1>3
<1> HIDE DEF s, end, S
<1>5. s \in Seq(S) /\ Len(s) = Len(words)
  BY <1>3, <1>4, SeqOfLength
<1>6. Len(t) = Len(words) + 1 /\ \A i \in 1..Len(words) : t[i] = s[i]
  BY <1>2, <1>4, <1>5, AppendIs
<1> QED
  BY <1>3, <1>4, <1>6 DEF words, t

\* END is only the last token.
LEMMA EndIsLast ==
  ASSUME file \in Files, _tokens = tokenize(file), Tape(_tokens)
  PROVE  \A i \in 1..Len(Words) : _tokens[i].type # "END"
<1> DEFINE words == Shown(SanitizeInput(file))
<1>1. /\ Len(words) \in Nat /\ Len(_tokens) = Len(words) + 1
      /\ \A i \in 1..Len(words) : _tokens[i].type = TokenType(words[i])
  BY TokenizeIs
<1> HIDE DEF words
<1>2. Len(Words) = Len(words)
  BY <1>1, WordsAre
<1>3. \A w : TokenType(w) # "END"
  BY DEF TokenType, Directives
<1> QED
  BY <1>1, <1>2, <1>3

\* A statement that begins where the parser is, and what its place says of it.
LEMMA LegalHere ==
  ASSUME IInv, NEW n, Syntax(n), phase \in Blocks, Legal
  PROVE  \/ n = Len(Words) + 1 /\ Level(phase) = 0
         \/ \E e \in Int : OneStatement(n, e) /\ Accepts(phase, n, e)
<1>1. Tape(_tokens) /\ Len(Words) \in Nat
  BY PlaceIs
<1>2. /\ n \in Starts /\ Depth(n) = Level(phase)
      /\ phase = "cgi" <=> n > 1 /\ Words[Before(n)].type \in {"cgi", "cgi_path"}
  BY DEF Syntax, ReadTo
<1>3. CASE n = Len(Words) + 1
  BY <1>2, <1>3 DEF Legal
<1>4. CASE n \in Statements
  <2>1. PICK e \in Int : OneStatement(n, e)
    BY <1>1, <1>4, StatementEnds
  <2>2. n \in 1..Len(Words) /\ Words[n] = _tokens[n]
    BY <1>1, <1>4, WordsAre
  <2>3. LegalStatement(n)
    BY <1>4 DEF Legal
  <2>4. Shape(n) \in Grammar[Level(phase) + 1]
    BY <1>2, <2>3 DEF LegalStatement
  <2>5. ASSUME phase = "location", _tokens[n].type = "cgi_path" PROVE FALSE
    <3>1. Words[Before(n)].type \in {"cgi", "cgi_path"}
      BY <2>2, <2>3, <2>5 DEF LegalStatement
    <3>2. ~ (n > 1)
      BY <1>2, <2>5, <3>1
    <3>3. n = 1
      BY ONLY <1>1, <2>2, <3>2
    <3>4. Depth(n) = 0 /\ Level(phase) = 2
      BY <1>1, <2>5, <3>3, DepthGrows, LevelsAre
    <3>5. 0 # 2
      OBVIOUS
    <3>6. Depth(n) = Level(phase)
      BY <1>2
    <3> QED
      BY ONLY <3>4, <3>5, <3>6
  <2>6. Accepts(phase, n, e)
    BY <1>1, <2>1, <2>4, <2>5, GrammarOf
  <2> QED
    BY <2>1, <2>6
<1> QED
  BY <1>1, <1>2, <1>3, <1>4, NoStatement

\* What throws is not in the grammar.
LEMMA UnknownIllegal ==
  ASSUME IInv, NEW n, Syntax(n), UnknownDirective
  PROVE  ~Legal
<1> SUFFICES ASSUME Legal PROVE FALSE
  OBVIOUS
<1>1. phase \in Blocks /\ directive = "" /\ Token.type \notin DOMAIN Consumes[phase]
      /\ ~ (phase = "servers" /\ Token.type = "END")
  BY InServerIs DEF UnknownDirective, InBlock
<1>2. n = _index
  BY <1>1 DEF Syntax, ReadIn
<1>3. CASE n = Len(Words) + 1 /\ Level(phase) = 0
  <2>1. phase = "servers"
    <3>1. 0 # 1 /\ 0 # 2
      OBVIOUS
    <3>2. phase \in {"servers", "server", "location", "cgi"} /\ Level(phase) = 0
      BY <1>1, <1>3 DEF Blocks
    <3>3. Level("server") # 0 /\ Level("location") # 0 /\ Level("cgi") # 0
      BY <3>1, LevelsAre
    <3> QED
      BY ONLY <3>2, <3>3
  <2>2. Tape(_tokens) /\ Len(Words) \in Nat /\ (Token.type # "END" => _index \in 1..Len(Words))
    BY <1>1, PlaceIs
  <2>3. ~ (Len(Words) + 1 \in 1..Len(Words))
    BY ONLY <2>2
  <2> QED
    BY <1>1, <1>2, <1>3, <2>1, <2>2, <2>3
<1>4. ASSUME NEW e, Accepts(phase, n, e) PROVE FALSE
  BY <1>1, <1>2, <1>4 DEF Accepts, Token
<1> QED
  BY <1>1, <1>3, <1>4, LegalHere

\* A token that the directive does not want.
LEMMA UnexpectedIllegal ==
  ASSUME IInv, NEW n, Syntax(n), UnexpectedToken
  PROVE  ~Legal
<1> SUFFICES ASSUME Legal PROVE FALSE
  OBVIOUS
<1>1. InBlock /\ expected # <<>> /\ Token.type # Awaited.type /\ Awaited.times = "one"
  BY DEF UnexpectedToken
<1>2. /\ phase \in Blocks /\ directive # "" /\ Proper(expected)
      /\ Len(Words) \in Nat /\ n \in Int /\ _index \in Int
      /\ _index \in 1..(Len(Words) + 1) /\ n < _index
      /\ Awaited = Head(expected)
  BY <1>1, WaitingIs
<1>3. n # Len(Words) + 1
  <2>1. Len(Words) \in Nat /\ n \in Int /\ _index \in 1..(Len(Words) + 1) /\ n < _index
    BY ONLY <1>2
  <2> QED
    BY ONLY <2>1
<1>4. ASSUME NEW e \in Int, Accepts(phase, n, e) PROVE FALSE
  <2>1. /\ _tokens[n].type = directive
        /\ Fits(Consumes[phase][directive], n + 1, e) <=> Fits(expected, _index, e)
    BY <1>2 DEF Syntax, ReadIn
  <2>2. Fits(expected, _index, e)
    BY <1>4, <2>1 DEF Accepts
  <2>3. _tokens[_index].type = Head(expected).type
    BY <1>1, <1>2, <2>2, FitsOne
  <2> QED
    BY <1>1, <1>2, <2>3 DEF Token
<1> QED
  BY <1>2, <1>3, <1>4, LegalHere

\* A cgi that is neither on nor off.
LEMMA NeitherIllegal ==
  ASSUME IInv, NEW n, Syntax(n), NeitherOnNorOff
  PROVE  ~Legal
<1> SUFFICES ASSUME Legal PROVE FALSE
  OBVIOUS
<1>1. phase \in Blocks /\ directive = "cgi" /\ expected = <<>> /\ values[1] \notin {"on", "off"}
  BY DEF NeitherOnNorOff, Locations, Blocks, Value
<1>2. _tokens[n].type = "cgi" /\ OneStatement(n, _index - 1) /\ values = Texts(n)
  BY <1>1 DEF Syntax, ReadIn, Complete
<1>3. Tape(_tokens)
  BY <1>1, PlaceIs
<1>4. n \in Statements
  BY <1>2, <1>3, StatementIs
<1>5. Words[n] = _tokens[n]
  BY <1>3, <1>4, WordsAre
<1>6. LegalStatement(n)
  BY <1>4 DEF Legal
<1> QED
  BY <1>1, <1>2, <1>5, <1>6 DEF LegalStatement

\* What is loaded is.
LEMMA LoadedLegal ==
  ASSUME IInv, NEW n, Syntax(n), loadConfig, file \in Files, _tokens = tokenize(file), ~Negative(file)
  PROVE  n = Len(Words) + 1 /\ Legal
<1>1. phase = "servers" /\ phase \in Blocks /\ directive = "" /\ Token.type = "END"
  BY DEF loadConfig, Blocks
<1>2. n = _index /\ ReadTo(n)
  BY <1>1 DEF Syntax, ReadIn
<1>3. Tape(_tokens) /\ Len(Words) \in Nat /\ _index \in 1..(Len(Words) + 1)
  BY <1>1, PlaceIs
<1>4. _index \notin 1..Len(Words)
  BY <1>1, <1>3, EndIsLast DEF Token
<1>5. n = Len(Words) + 1
  BY ONLY <1>2, <1>3, <1>4
<1>6. Words # <<>> => Len(Words) \in Ends
  <2> SUFFICES ASSUME Words # <<>> PROVE Len(Words) \in Ends
    OBVIOUS
  <2>1. Len(Words) # 0
    <3>1. Words \in Seq([type : Types, value : Text0])
      BY <1>3, WordsAre
    <3> QED
      BY <3>1
  <2>2. Len(Words) + 1 # 1
    BY ONLY <1>3, <2>1
  <2>3. Len(Words) + 1 \in Starts
    BY <1>2, <1>5 DEF ReadTo
  <2>4. PICK i \in Ends : i + 1 = Len(Words) + 1
    BY <2>2, <2>3 DEF Starts
  <2>5. i \in 1..Len(Words)
    BY <1>3, WordsAre
  <2>6. i = Len(Words)
    BY ONLY <1>3, <2>4, <2>5
  <2> QED
    BY <2>6
<1>7. Depth(Len(Words) + 1) = 0
  BY <1>1, <1>2, <1>5, LevelsAre DEF ReadTo
<1>8. ASSUME NEW i \in Statements PROVE LegalStatement(i)
  <2>1. i \in 1..Len(Words)
    BY <1>3, WordsAre
  <2>2. i < Len(Words) + 1
    BY ONLY <1>3, <2>1
  <2> QED
    BY <1>2, <1>5, <2>2 DEF ReadTo
<1> QED
  BY <1>5, <1>6, <1>7, <1>8 DEF Legal

(* What a statement adds to what is within the blocks before it.            *)

\* p is just after statement n.
Passes(n, p) ==
  n \in Statements /\ \A i \in Statements : i < p <=> i < n \/ i = n

\* Statement n is directly in the block that statement i opens.
Inside(i, n) ==
  /\ i < n /\ Depth(n) = Depth(i) + 1
  /\ \A k \in (i + 1)..n : k \in Statements => Depth(k) > Depth(i)

Same(i, n, p) == \A type : Within(i, type, p) = Within(i, type, n)

Adds(i, d, n, p) ==
  /\ \A type : type # d => Within(i, type, p) = Within(i, type, n)
  /\ Within(i, d, p) = Within(i, d, n) \cup {n}
  /\ LastOf(Within(i, d, p)) = n /\ Within(i, d, p) # {}

\* They are places of the text.
LEMMA WithinAre ==
  ASSUME Tape(_tokens), NEW i, NEW type, NEW n
  PROVE  /\ Within(i, type, n) \subseteq 1..Len(Words)
         /\ Within(i, type, n) \subseteq Statements
         /\ \A j \in Within(i, type, n) : j < n /\ i < j /\ Depth(j) = Depth(i) + 1
         /\ \A j \in Within(i, type, n) : \A k \in (i + 1)..j : k \in Statements => Depth(k) > Depth(i)
<1>1. Within(i, type, n) \subseteq Statements
  BY DEF Within
<1>2. Statements \subseteq 1..Len(Words)
  BY WordsAre
<1> QED
  BY <1>1, <1>2 DEF Within

\* A statement counts where it is.
LEMMA WithinPassed ==
  ASSUME NEW n, NEW p, Passes(n, p), NEW i, NEW type
  PROVE  /\ ~ (Inside(i, n) /\ Words[n].type = type) => Within(i, type, p) = Within(i, type, n)
         /\ Inside(i, n) /\ Words[n].type = type => Within(i, type, p) = Within(i, type, n) \cup {n}
<1> DEFINE T(j) == /\ i < j /\ Words[j].type = type /\ Depth(j) = Depth(i) + 1
                   /\ \A k \in (i + 1)..j : k \in Statements => Depth(k) > Depth(i)
<1>1. Within(i, type, p) = {j \in Statements : j < p /\ T(j)}
  BY DEF Within
<1>2. Within(i, type, n) = {j \in Statements : j < n /\ T(j)}
  BY DEF Within
<1>3. T(n) <=> Inside(i, n) /\ Words[n].type = type
  BY DEF Inside
<1> HIDE DEF T
<1>4. n \in Statements /\ \A j \in Statements : j < p <=> j < n \/ j = n
  BY DEF Passes
<1> QED
  BY <1>1, <1>2, <1>3, <1>4

\* Where it is not, nothing changes.
LEMMA NotInside ==
  ASSUME NEW n, NEW p, Passes(n, p), NEW i, ~Inside(i, n)
  PROVE  Same(i, n, p)
BY WithinPassed DEF Same

\* Where it is, it is the last of its directive.
LEMMA IsInside ==
  ASSUME Tape(_tokens), NEW n, NEW p, Passes(n, p), NEW i, Inside(i, n)
  PROVE  Adds(i, Words[n].type, n, p)
<1> DEFINE d == Words[n].type
           T == Within(i, d, n)
<1>1. \A type : type # d => Within(i, type, p) = Within(i, type, n)
  BY WithinPassed
<1>2. Within(i, d, p) = T \cup {n}
  BY WithinPassed
<1>3. Len(Words) \in Nat /\ n \in Nat
  <2>1. Len(Words) \in Nat /\ n \in 1..Len(Words)
    BY WordsAre DEF Passes
  <2> QED
    BY ONLY <2>1
<1>4. T \subseteq 1..Len(Words) /\ \A j \in T : j < n
  BY WithinAre
<1> HIDE DEF T
<1>5. LastOf(T \cup {n}) = n
  BY ONLY <1>3, <1>4, NthAdded
<1>6. Within(i, d, p) # {} /\ LastOf(Within(i, d, p)) = n
  BY ONLY <1>2, <1>5
<1> QED
  BY <1>1, <1>2, <1>6 DEF Adds, T

\* What is within a block that has just been opened.
LEMMA NothingWithin ==
  ASSUME Tape(_tokens), NEW n, NEW p, Passes(n, p), NEW type
  PROVE  Within(n, type, p) = {}
<1> SUFFICES ASSUME NEW j \in Within(n, type, p) PROVE FALSE
  OBVIOUS
<1>1. j \in Statements /\ j < p /\ n < j
  BY DEF Within
<1>2. j < n \/ j = n
  BY <1>1 DEF Passes
<1>3. j \in 1..Len(Words) /\ n \in 1..Len(Words)
  BY <1>1, WordsAre DEF Passes
<1>4. Len(Words) \in Nat
  BY WordsAre
<1> QED
  BY ONLY <1>1, <1>2, <1>3, <1>4

\* The servers that have begun.
LEMMA ServersAreBefore ==
  ASSUME Tape(_tokens), NEW n
  PROVE  /\ ServersUpTo(n) \subseteq 1..Len(Words) /\ ServersUpTo(n) \subseteq Statements
         /\ \A i \in ServersUpTo(n) : i < n /\ Depth(i) = 0
BY WordsAre DEF ServersUpTo

\* A statement outside blocks is one more server.
LEMMA ServersPassed ==
  ASSUME Tape(_tokens), NEW n, NEW p, Passes(n, p)
  PROVE  /\ Depth(n) # 0 => ServersUpTo(p) = ServersUpTo(n)
         /\ Depth(n) = 0 => ServersUpTo(p) = ServersUpTo(n) \cup {n}
<1>1. n \in Statements /\ \A j \in Statements : j < p <=> j < n \/ j = n
  BY DEF Passes
<1> QED
  BY <1>1 DEF ServersUpTo

(* What the directives of a server make of it.                              *)
PortAs(read, i, n) ==
  LET port == Says(i, "listen", n, 80, Amount) IN port \in 0..UINT16_MAX => read.port = port
NamesAs(read, i, n) == read.serverNames = Says(i, "server_name", n, <<"localhost">>, Texts)
SizeAs(read, i, n) ==
  Says(i, "client_max_body_size", n, "m", Unit) \in LowerCase =>
    read.clientMaxBodySize = Says(i, "client_max_body_size", n, Sizes["m"], Bytes)
PagesAs(read, i, n) ==
  LET pages == Within(i, "error_page", n)
  IN  (\A j \in pages : Codes(j) \subseteq SHRT_MIN..SHRT_MAX) =>
        /\ DOMAIN read.errorPages = UNION {Codes(j) : j \in pages}
        /\ \A code \in DOMAIN read.errorPages :
             read.errorPages[code] = Last(Texts(LastOf({j \in pages : code \in Codes(j)})))

\* A server is as written when each of its parts is.
LEMMA ServerParts ==
  ASSUME NEW read, NEW i, NEW n
  PROVE  ServerAsWritten(read, i, n) <=>
           PortAs(read, i, n) /\ NamesAs(read, i, n) /\ SizeAs(read, i, n) /\ PagesAs(read, i, n)
BY DEF ServerAsWritten, PortAs, NamesAs, SizeAs, PagesAs

\* A part stays when no directive of its own is added.
LEMMA ServerPartsStay ==
  ASSUME NEW a, NEW b, NEW i, NEW n, NEW p
  PROVE  /\ PortAs(a, i, n) /\ b.port = a.port
              /\ Within(i, "listen", p) = Within(i, "listen", n) => PortAs(b, i, p)
         /\ NamesAs(a, i, n) /\ b.serverNames = a.serverNames
              /\ Within(i, "server_name", p) = Within(i, "server_name", n) => NamesAs(b, i, p)
         /\ SizeAs(a, i, n) /\ b.clientMaxBodySize = a.clientMaxBodySize
              /\ Within(i, "client_max_body_size", p) = Within(i, "client_max_body_size", n) => SizeAs(b, i, p)
         /\ PagesAs(a, i, n) /\ b.errorPages = a.errorPages
              /\ Within(i, "error_page", p) = Within(i, "error_page", n) => PagesAs(b, i, p)
<1>1. PortAs(a, i, n) /\ b.port = a.port
        /\ Within(i, "listen", p) = Within(i, "listen", n) => PortAs(b, i, p)
  BY DEF PortAs, Says
<1>2. NamesAs(a, i, n) /\ b.serverNames = a.serverNames
        /\ Within(i, "server_name", p) = Within(i, "server_name", n) => NamesAs(b, i, p)
  BY DEF NamesAs, Says
<1>3. SizeAs(a, i, n) /\ b.clientMaxBodySize = a.clientMaxBodySize
        /\ Within(i, "client_max_body_size", p) = Within(i, "client_max_body_size", n) => SizeAs(b, i, p)
  BY DEF SizeAs, Says
<1>4. PagesAs(a, i, n) /\ b.errorPages = a.errorPages
        /\ Within(i, "error_page", p) = Within(i, "error_page", n) => PagesAs(b, i, p)
  BY DEF PagesAs
<1> QED
  BY <1>1, <1>2, <1>3, <1>4

\* It is what the last says.
LEMMA ServerPartsSet ==
  ASSUME NEW b, NEW i, NEW n, NEW p
  PROVE  /\ Adds(i, "listen", n, p)
              /\ b.port = (IF Amount(n) > UINT16_MAX THEN UINT16_MAX ELSE Amount(n)) => PortAs(b, i, p)
         /\ Adds(i, "server_name", n, p) /\ b.serverNames = Texts(n) => NamesAs(b, i, p)
         /\ Adds(i, "client_max_body_size", n, p)
              /\ b.clientMaxBodySize = Bytes(n) => SizeAs(b, i, p)
<1>1. Adds(i, "listen", n, p)
        /\ b.port = (IF Amount(n) > UINT16_MAX THEN UINT16_MAX ELSE Amount(n)) => PortAs(b, i, p)
  <2>1. Adds(i, "listen", n, p) => Says(i, "listen", p, 80, Amount) = Amount(n)
    BY DEF Says, Adds
  <2>2. \A port \in 0..UINT16_MAX : (IF port > UINT16_MAX THEN UINT16_MAX ELSE port) = port
    BY DEF UINT16_MAX
  <2> QED
    BY <2>1, <2>2 DEF PortAs
<1>2. Adds(i, "server_name", n, p) /\ b.serverNames = Texts(n) => NamesAs(b, i, p)
  BY DEF NamesAs, Says, Adds
<1>3. Adds(i, "client_max_body_size", n, p)
        /\ b.clientMaxBodySize = Bytes(n) => SizeAs(b, i, p)
  BY DEF SizeAs, Says, Adds
<1> QED
  BY <1>1, <1>2, <1>3

\* The codes an error_page statement gives.
LEMMA CodesAre ==
  ASSUME NEW n, NEW T, Texts(n) \in Seq(T), Texts(n) # <<>>
  PROVE  Codes(n) = {Numbers[Texts(n)[k]] : k \in 1..(Len(Texts(n)) - 1)}
<1> DEFINE t == Texts(n)
<1> HIDE DEF t
<1>1. /\ Len(t) \in Nat /\ Front(t) \in Seq(T) /\ Len(Front(t)) = Len(t) - 1
      /\ \A k \in 1..(Len(t) - 1) : Front(t)[k] = t[k]
  BY FrontIs DEF t
<1>2. ToSet(Front(t)) = {t[k] : k \in 1..(Len(t) - 1)}
  <2>1. DOMAIN Front(t) = 1..(Len(t) - 1)
    BY <1>1
  <2> QED
    BY <1>1, <2>1 DEF ToSet
<1>3. Codes(n) = {Numbers[text] : text \in ToSet(Front(t))}
  BY DEF Codes, t
<1>4. Codes(n) = {Numbers[t[k]] : k \in 1..(Len(t) - 1)}
  BY <1>2, <1>3
<1> QED
  BY <1>4 DEF t

\* One that fits is kept.
LEMMA ShortIs ==
  ASSUME NEW code, code \in SHRT_MIN..SHRT_MAX
  PROVE  Short(code) = code
<1> DEFINE w == 65536
           up == code + 32768
<1>1. SHRT_MIN \in Int /\ SHRT_MAX \in Int
  BY DEF SHRT_MIN, SHRT_MAX
<1>2. up >= 0 /\ up <= 65535 /\ up - 32768 = code /\ up \in Int
  <2>1. code \in Int /\ SHRT_MIN <= code /\ code <= SHRT_MAX
    BY <1>1
  <2> QED
    BY <2>1 DEF SHRT_MIN, SHRT_MAX
<1>3. w \in Nat /\ w > 0 /\ 65535 = w - 1
  OBVIOUS
<1>4. Short(code) = (up % w) - 32768
  BY DEF Short
<1> HIDE DEF up, w
<1>5. up % w = up
  BY <1>2, <1>3
<1> QED
  BY <1>2, <1>4, <1>5

\* It gives them its page, and others keep theirs.
LEMMA PagesSet ==
  ASSUME Tape(_tokens), NEW a, NEW b, NEW i, NEW n, NEW p, PagesAs(a, i, n), Adds(i, "error_page", n, p),
         n \in Statements,
         Codes(n) \subseteq SHRT_MIN..SHRT_MAX => b.errorPages = WithAll(a.errorPages, Codes(n), Last(Texts(n)))
  PROVE  PagesAs(b, i, p)
<1> DEFINE T == Within(i, "error_page", n)
           U == Within(i, "error_page", p)
           new == WithAll(a.errorPages, Codes(n), Last(Texts(n)))
           Of(S, code) == {j \in S : code \in Codes(j)}
<1> SUFFICES ASSUME \A j \in U : Codes(j) \subseteq SHRT_MIN..SHRT_MAX
             PROVE  /\ DOMAIN b.errorPages = UNION {Codes(j) : j \in U}
                    /\ \A code \in DOMAIN b.errorPages : b.errorPages[code] = Last(Texts(LastOf(Of(U, code))))
  BY DEF PagesAs
<1>2. U = T \cup {n}
  BY DEF Adds
<1>1. /\ DOMAIN a.errorPages = UNION {Codes(j) : j \in T}
      /\ \A code \in DOMAIN a.errorPages : a.errorPages[code] = Last(Texts(LastOf(Of(T, code))))
  BY <1>2 DEF PagesAs
<1>3. /\ DOMAIN new = Codes(n) \cup DOMAIN a.errorPages
      /\ \A code \in Codes(n) : new[code] = Last(Texts(n))
      /\ \A code \in DOMAIN a.errorPages : code \notin Codes(n) => new[code] = a.errorPages[code]
  BY DEF WithAll
<1>4. b.errorPages = new
  BY <1>2
<1>5. T \subseteq 1..Len(Words) /\ \A j \in T : j < n
  BY WithinAre
<1>6. Len(Words) \in Nat /\ n \in Nat
  <2>1. Len(Words) \in Nat /\ n \in 1..Len(Words)
    BY WordsAre
  <2> QED
    BY ONLY <2>1
<1> HIDE DEF T, U, new
<1>7. DOMAIN new = UNION {Codes(j) : j \in U}
  BY <1>1, <1>2, <1>3
<1>8. ASSUME NEW code \in DOMAIN new PROVE new[code] = Last(Texts(LastOf(Of(U, code))))
  <2>1. CASE code \in Codes(n)
    <3>1. Of(U, code) = Of(T, code) \cup {n}
      BY <1>2, <2>1
    <3>2. Of(T, code) \subseteq 1..Len(Words) /\ \A j \in Of(T, code) : j < n
      BY <1>5
    <3> DEFINE V == Of(T, code)
    <3> HIDE DEF V
    <3>3. V \subseteq 1..Len(Words) /\ \A j \in V : j < n
      BY <3>2 DEF V
    <3>4. LastOf(V \cup {n}) = n
      BY ONLY <1>6, <3>3, NthAdded
    <3> QED
      BY <1>3, <2>1, <3>1, <3>4 DEF V
  <2>2. CASE code \notin Codes(n)
    <3>1. Of(U, code) = Of(T, code)
      BY <1>2, <2>2
    <3>2. code \in DOMAIN a.errorPages
      BY <1>3, <2>2
    <3> QED
      BY <1>1, <1>3, <2>2, <3>1, <3>2
  <2> QED
    BY <2>1, <2>2
<1> QED
  BY <1>4, <1>7, <1>8

\* A new server.
LEMMA ServerBegins ==
  ASSUME NEW n, NEW p, \A type : Within(n, type, p) = {}
  PROVE  ServerAsWritten(NewServer, n, p) /\ LocationsAsWritten(<<>>, n, p)
         /\ NewServer.locations = <<>>
<1>1. /\ NewServer.port = 80 /\ NewServer.serverNames = <<"localhost">>
      /\ NewServer.clientMaxBodySize = Sizes["m"] /\ NewServer.locations = <<>>
      /\ NewServer.errorPages = [code \in {} |-> ""]
  BY DEF NewServer
<1>2. PortAs(NewServer, n, p)
  BY <1>1 DEF PortAs, Says
<1>3. NamesAs(NewServer, n, p)
  BY <1>1 DEF NamesAs, Says
<1>4. SizeAs(NewServer, n, p)
  BY <1>1 DEF SizeAs, Says
<1>5. PagesAs(NewServer, n, p)
  BY <1>1 DEF PagesAs
<1>6. LocationsAsWritten(<<>>, n, p)
  <2>1. Cardinality({}) = 0 /\ Len(<<>>) = 0 /\ DOMAIN <<>> = {}
    BY FS_EmptySet
  <2> QED
    BY <2>1 DEF LocationsAsWritten
<1> QED
  BY <1>1, <1>2, <1>3, <1>4, <1>5, <1>6, ServerParts

(* What the directives of a location make of it.                            *)
RootAs(read, i, n) == read.root = Says(i, "root", n, "", Text)
IndexAs(read, i, n) == read.index = Says(i, "index", n, NewLocation(Text(i)).index, Text)
AutoindexAs(read, i, n) == read.autoindex = Says(i, "autoindex", n, FALSE, LAMBDA j : Text(j) = "on")
UploadAs(read, i, n) == read.uploadStore = Says(i, "upload_store", n, "", Text)
MethodsAs(read, i, n) ==
  read.allowedMethods = Says(i, "allowed_methods", n, NewLocation(Text(i)).allowedMethods, Texts)
CgiAs(read, i, n) == read.useCgi = Says(i, "cgi", n, FALSE, LAMBDA j : Text(j) = "on")
CgiPathAs(read, i, n) == read.cgiPath = Says(i, "cgi_path", n, "", Text)

RedirectsAt(j) == Last(Texts(j))
RedirectsTo(j) == IF Len(Texts(j)) = 2 THEN Amount(j) ELSE 302
RedirectAs(read, i, n) ==
  /\ read.isRedirect <=> Within(i, "redirect", n) # {}
  /\ read.redirectUrl = Says(i, "redirect", n, "", RedirectsAt)
  /\ read.redirectCode = Says(i, "redirect", n, 0, RedirectsTo)
  /\ read.isRedirectPermanent = (read.redirectCode = 301)

Messages(S) == [m \in 1..Cardinality(S) |-> Tail(Texts(Nth(S, m)))]
ReturnAs(read, i, n) ==
  /\ read.has_return <=> Within(i, "return", n) # {}
  /\ read.return_code = Says(i, "return", n, 0, Amount)
  /\ read.return_message = FlattenSeq(Messages(Within(i, "return", n)))

\* A location is as written when each of its parts is.
LEMMA LocationParts ==
  ASSUME NEW read, NEW i, NEW n
  PROVE  LocationAsWritten(read, i, n) <=>
           /\ read.location = Text(i) /\ RootAs(read, i, n) /\ IndexAs(read, i, n)
           /\ AutoindexAs(read, i, n) /\ UploadAs(read, i, n) /\ MethodsAs(read, i, n)
           /\ CgiAs(read, i, n) /\ CgiPathAs(read, i, n)
           /\ RedirectAs(read, i, n) /\ ReturnAs(read, i, n)
BY DEF LocationAsWritten, RootAs, IndexAs, AutoindexAs, UploadAs, MethodsAs, CgiAs, CgiPathAs,
     RedirectAs, RedirectsAt, RedirectsTo, ReturnAs, Messages, Says

\* A part stays when no directive of its own is added.
LEMMA LocationPartsStay ==
  ASSUME NEW a, NEW b, NEW i, NEW n, NEW p
  PROVE  /\ RootAs(a, i, n) /\ b.root = a.root
              /\ Within(i, "root", p) = Within(i, "root", n) => RootAs(b, i, p)
         /\ IndexAs(a, i, n) /\ b.index = a.index
              /\ Within(i, "index", p) = Within(i, "index", n) => IndexAs(b, i, p)
         /\ AutoindexAs(a, i, n) /\ b.autoindex = a.autoindex
              /\ Within(i, "autoindex", p) = Within(i, "autoindex", n) => AutoindexAs(b, i, p)
         /\ UploadAs(a, i, n) /\ b.uploadStore = a.uploadStore
              /\ Within(i, "upload_store", p) = Within(i, "upload_store", n) => UploadAs(b, i, p)
         /\ MethodsAs(a, i, n) /\ b.allowedMethods = a.allowedMethods
              /\ Within(i, "allowed_methods", p) = Within(i, "allowed_methods", n) => MethodsAs(b, i, p)
         /\ CgiAs(a, i, n) /\ b.useCgi = a.useCgi
              /\ Within(i, "cgi", p) = Within(i, "cgi", n) => CgiAs(b, i, p)
         /\ CgiPathAs(a, i, n) /\ b.cgiPath = a.cgiPath
              /\ Within(i, "cgi_path", p) = Within(i, "cgi_path", n) => CgiPathAs(b, i, p)
<1>1. RootAs(a, i, n) /\ b.root = a.root
        /\ Within(i, "root", p) = Within(i, "root", n) => RootAs(b, i, p)
  BY DEF RootAs, Says
<1>2. IndexAs(a, i, n) /\ b.index = a.index
        /\ Within(i, "index", p) = Within(i, "index", n) => IndexAs(b, i, p)
  BY DEF IndexAs, Says
<1>3. AutoindexAs(a, i, n) /\ b.autoindex = a.autoindex
        /\ Within(i, "autoindex", p) = Within(i, "autoindex", n) => AutoindexAs(b, i, p)
  BY DEF AutoindexAs, Says
<1>4. UploadAs(a, i, n) /\ b.uploadStore = a.uploadStore
        /\ Within(i, "upload_store", p) = Within(i, "upload_store", n) => UploadAs(b, i, p)
  BY DEF UploadAs, Says
<1>5. MethodsAs(a, i, n) /\ b.allowedMethods = a.allowedMethods
        /\ Within(i, "allowed_methods", p) = Within(i, "allowed_methods", n) => MethodsAs(b, i, p)
  BY DEF MethodsAs, Says
<1>6. CgiAs(a, i, n) /\ b.useCgi = a.useCgi
        /\ Within(i, "cgi", p) = Within(i, "cgi", n) => CgiAs(b, i, p)
  BY DEF CgiAs, Says
<1>7. CgiPathAs(a, i, n) /\ b.cgiPath = a.cgiPath
        /\ Within(i, "cgi_path", p) = Within(i, "cgi_path", n) => CgiPathAs(b, i, p)
  BY DEF CgiPathAs, Says
<1> QED
  BY <1>1, <1>2, <1>3, <1>4, <1>5, <1>6, <1>7

\* The same of a redirect.
LEMMA RedirectStays ==
  ASSUME NEW a, NEW b, NEW i, NEW n, NEW p, RedirectAs(a, i, n),
         Within(i, "redirect", p) = Within(i, "redirect", n),
         b.isRedirect = a.isRedirect, b.redirectUrl = a.redirectUrl,
         b.redirectCode = a.redirectCode, b.isRedirectPermanent = a.isRedirectPermanent
  PROVE  RedirectAs(b, i, p)
<1>1. b.isRedirect <=> Within(i, "redirect", p) # {}
  <2>1. a.isRedirect <=> Within(i, "redirect", n) # {}
    BY DEF RedirectAs
  <2> QED
    BY ONLY <2>1, Within(i, "redirect", p) = Within(i, "redirect", n), b.isRedirect = a.isRedirect
<1>2. b.redirectUrl = Says(i, "redirect", p, "", RedirectsAt)
  <2>1. a.redirectUrl = Says(i, "redirect", n, "", RedirectsAt)
    BY DEF RedirectAs
  <2>2. Says(i, "redirect", p, "", RedirectsAt) = Says(i, "redirect", n, "", RedirectsAt)
    BY DEF Says
  <2> QED
    BY <2>1, <2>2
<1>3. b.redirectCode = Says(i, "redirect", p, 0, RedirectsTo)
  <2>1. a.redirectCode = Says(i, "redirect", n, 0, RedirectsTo)
    BY DEF RedirectAs
  <2>2. Says(i, "redirect", p, 0, RedirectsTo) = Says(i, "redirect", n, 0, RedirectsTo)
    BY DEF Says
  <2> QED
    BY <2>1, <2>2
<1>4. b.isRedirectPermanent = (b.redirectCode = 301)
  BY DEF RedirectAs
<1> QED
  BY <1>1, <1>2, <1>3, <1>4 DEF RedirectAs

\* The same of a return.
LEMMA ReturnStays ==
  ASSUME NEW a, NEW b, NEW i, NEW n, NEW p, ReturnAs(a, i, n),
         Within(i, "return", p) = Within(i, "return", n),
         b.has_return = a.has_return, b.return_code = a.return_code, b.return_message = a.return_message
  PROVE  ReturnAs(b, i, p)
BY DEF ReturnAs, Says

\* It is what the last says.
LEMMA LocationPartsSet ==
  ASSUME NEW b, NEW i, NEW n, NEW p
  PROVE  /\ Adds(i, "root", n, p) /\ b.root = Text(n) => RootAs(b, i, p)
         /\ Adds(i, "index", n, p) /\ b.index = Text(n) => IndexAs(b, i, p)
         /\ Adds(i, "autoindex", n, p) /\ b.autoindex = (Text(n) = "on") => AutoindexAs(b, i, p)
         /\ Adds(i, "upload_store", n, p) /\ b.uploadStore = Text(n) => UploadAs(b, i, p)
         /\ Adds(i, "allowed_methods", n, p) /\ b.allowedMethods = Texts(n) => MethodsAs(b, i, p)
         /\ Adds(i, "cgi", n, p) /\ b.useCgi = (Text(n) = "on") => CgiAs(b, i, p)
         /\ Adds(i, "cgi_path", n, p) /\ b.cgiPath = Text(n) => CgiPathAs(b, i, p)
<1>1. Adds(i, "root", n, p) /\ b.root = Text(n) => RootAs(b, i, p)
  BY DEF RootAs, Says, Adds
<1>2. Adds(i, "index", n, p) /\ b.index = Text(n) => IndexAs(b, i, p)
  BY DEF IndexAs, Says, Adds
<1>3. Adds(i, "autoindex", n, p) /\ b.autoindex = (Text(n) = "on") => AutoindexAs(b, i, p)
  BY DEF AutoindexAs, Says, Adds
<1>4. Adds(i, "upload_store", n, p) /\ b.uploadStore = Text(n) => UploadAs(b, i, p)
  BY DEF UploadAs, Says, Adds
<1>5. Adds(i, "allowed_methods", n, p) /\ b.allowedMethods = Texts(n) => MethodsAs(b, i, p)
  BY DEF MethodsAs, Says, Adds
<1>6. Adds(i, "cgi", n, p) /\ b.useCgi = (Text(n) = "on") => CgiAs(b, i, p)
  BY DEF CgiAs, Says, Adds
<1>7. Adds(i, "cgi_path", n, p) /\ b.cgiPath = Text(n) => CgiPathAs(b, i, p)
  BY DEF CgiPathAs, Says, Adds
<1> QED
  BY <1>1, <1>2, <1>3, <1>4, <1>5, <1>6, <1>7

\* A redirect is set.
LEMMA RedirectSet ==
  ASSUME NEW b, NEW i, NEW n, NEW p, Adds(i, "redirect", n, p),
         b.isRedirect = TRUE, b.redirectUrl = Last(Texts(n)),
         b.redirectCode = RedirectsTo(n), b.isRedirectPermanent = (RedirectsTo(n) = 301)
  PROVE  RedirectAs(b, i, p)
<1>1. Within(i, "redirect", p) # {} /\ LastOf(Within(i, "redirect", p)) = n
  BY DEF Adds
<1>2. b.redirectUrl = Says(i, "redirect", p, "", RedirectsAt)
  BY <1>1 DEF Says, RedirectsAt
<1>3. b.redirectCode = Says(i, "redirect", p, 0, RedirectsTo)
  BY <1>1 DEF Says
<1> QED
  BY <1>1, <1>2, <1>3 DEF RedirectAs

\* The messages of several returns are put together.
LEMMA ReturnSet ==
  ASSUME Tape(_tokens), NEW a, NEW b, NEW i, NEW n, NEW p, ReturnAs(a, i, n), Adds(i, "return", n, p),
         n \in Statements,
         \A j \in Within(i, "return", p) : Texts(j) \in Seq(Text0) /\ Texts(j) # <<>>,
         b.has_return = TRUE, b.return_code = Amount(n),
         b.return_message = a.return_message \o Tail(Texts(n))
  PROVE  ReturnAs(b, i, p)
<1> DEFINE T == Within(i, "return", n)
           U == Within(i, "return", p)
           c == Cardinality(T)
<1>1. U # {} /\ LastOf(U) = n /\ U = T \cup {n}
  BY DEF Adds
<1>2. T \subseteq 1..Len(Words) /\ \A j \in T : j < n
  BY WithinAre
<1>3. Len(Words) \in Nat /\ n \in Nat
  <2>1. Len(Words) \in Nat /\ n \in 1..Len(Words)
    BY WordsAre
  <2> QED
    BY ONLY <2>1
<1> HIDE DEF T, U
<1>4. /\ Cardinality(U) = c + 1 /\ Nth(U, c + 1) = n
      /\ \A m \in 1..c : Nth(U, m) = Nth(T, m)
  <2>1. /\ Cardinality(T \cup {n}) = Cardinality(T) + 1
        /\ \A m \in 1..Cardinality(T) : Nth(T \cup {n}, m) = Nth(T, m)
        /\ Nth(T \cup {n}, Cardinality(T) + 1) = n
    <3>1. Cardinality(T \cup {n}) = Cardinality(T) + 1
      BY ONLY <1>2, <1>3, NthAdded
    <3>2. \A m \in 1..Cardinality(T) : Nth(T \cup {n}, m) = Nth(T, m)
      <4>1. ASSUME NEW m \in 1..Cardinality(T) PROVE Nth(T \cup {n}, m) = Nth(T, m)
        <5>1. /\ Cardinality(T \cup {n}) = Cardinality(T) + 1
              /\ \A k \in 1..Cardinality(T) : Nth(T \cup {n}, k) = Nth(T, k)
              /\ Nth(T \cup {n}, Cardinality(T) + 1) = n
              /\ LastOf(T \cup {n}) = n
          BY ONLY <1>2, <1>3, NthAdded, Zenon
        <5> QED
          BY ONLY <4>1, <5>1
      <4> QED
        BY ONLY <4>1
    <3>3. Nth(T \cup {n}, Cardinality(T) + 1) = n
      BY ONLY <1>2, <1>3, NthAdded
    <3> QED
      BY ONLY <3>1, <3>2, <3>3
  <2> QED
    BY <1>1, <2>1
<1>5. c \in Nat
  BY ONLY <1>2, <1>3, PlacesCounted
<1>6. \A m \in 1..c : Nth(T, m) \in T
  BY ONLY <1>2, <1>3, NthIs
<1>7. \A j \in U : Tail(Texts(j)) \in Seq(Text0)
  <2> SUFFICES ASSUME NEW j \in U PROVE Tail(Texts(j)) \in Seq(Text0)
    OBVIOUS
  <2> DEFINE t == Texts(j)
  <2>1. t \in Seq(Text0) /\ t # <<>>
    BY DEF U
  <2> HIDE DEF t
  <2>2. Tail(t) \in Seq(Text0)
    BY ONLY <2>1
  <2> QED
    BY <2>2 DEF t
<1> DEFINE M == Messages(T)
           L == Messages(U)
           e == Tail(Texts(n))
<1>8. e \in Seq(Text0)
  BY <1>1, <1>7
<1>9. M \in Seq(Seq(Text0)) /\ Len(M) = c /\ \A m \in 1..c : M[m] = Tail(Texts(Nth(T, m)))
  <2>1. M = [m \in 1..c |-> Tail(Texts(Nth(T, m)))]
    BY DEF Messages
  <2>2. \A m \in 1..c : Tail(Texts(Nth(T, m))) \in Seq(Text0)
    BY <1>1, <1>6, <1>7
  <2>3. M \in [1..c -> Seq(Text0)] /\ \A m \in 1..c : M[m] = Tail(Texts(Nth(T, m)))
    BY <2>1, <2>2
  <2> HIDE DEF M, c
  <2> QED
    BY <1>5, <2>3, SeqOfLength
<1>10. L \in Seq(Seq(Text0)) /\ Len(L) = c + 1 /\ \A m \in 1..(c + 1) : L[m] = Tail(Texts(Nth(U, m)))
  <2>1. L = [m \in 1..(c + 1) |-> Tail(Texts(Nth(U, m)))]
    BY <1>4 DEF Messages
  <2>2. \A m \in 1..(c + 1) : m \in 1..c \/ m = c + 1
    BY ONLY <1>5
  <2>3. \A m \in 1..(c + 1) : Nth(U, m) \in U
    BY <1>1, <1>4, <1>6, <2>2
  <2>4. L \in [1..(c + 1) -> Seq(Text0)] /\ \A m \in 1..(c + 1) : L[m] = Tail(Texts(Nth(U, m)))
    BY <1>7, <2>1, <2>3
  <2>5. c + 1 \in Nat
    BY ONLY <1>5
  <2> HIDE DEF L, c
  <2> QED
    BY <2>4, <2>5, SeqOfLength
<1> HIDE DEF L, M, e, c
<1>11. L = Append(M, e)
  <2> DEFINE A == Append(M, e)
             S == Seq(Text0)
  <2> HIDE DEF S
  <2>1. A \in Seq(S) /\ Len(A) = c + 1 /\ A[c + 1] = e /\ \A k \in 1..c : A[k] = M[k]
    BY <1>8, <1>9, AppendIs DEF S
  <2> HIDE DEF A
  <2>2. ASSUME NEW k \in 1..(c + 1) PROVE L[k] = A[k]
    <3>1. CASE k \in 1..c
      BY <1>4, <1>9, <1>10, <2>1, <3>1
    <3>2. CASE k = c + 1
      BY <1>4, <1>10, <2>1, <3>2 DEF e
    <3> QED
      BY ONLY <1>5, <2>2, <3>1, <3>2
  <2>3. L \in Seq(S)
    BY <1>10 DEF S
  <2>4. L = A
    BY <1>10, <2>1, <2>2, <2>3, SameSeq
  <2> QED
    BY <2>4 DEF A
<1>12. FlattenSeq(L) = FlattenSeq(M) \o e
  BY <1>8, <1>9, <1>11, FlattenSeqAppend
<1>13. a.return_message = FlattenSeq(M)
  BY DEF ReturnAs, M, T
<1>14. b.return_message = FlattenSeq(L)
  BY <1>12, <1>13 DEF e
<1>15. b.return_code = Says(i, "return", p, 0, Amount)
  BY <1>1 DEF U, Says
<1> QED
  BY <1>1, <1>14, <1>15 DEF ReturnAs, L, U

\* No messages make none.
LEMMA FlattenSeqOfNone == FlattenSeq(<<>>) = <<>>
<1> DEFINE none == <<>>
<1>1. none \in Seq(Seq(STRING)) /\ Len(none) = 0
  OBVIOUS
<1> HIDE DEF none
<1>2. PICK f \in [0..Len(none) -> Seq(STRING)] : Flattens(f, none) /\ FlattenSeq(none) = f[Len(none)]
  BY <1>1, FlattenSeqByParts
<1>3. f[0] = <<>>
  BY <1>2 DEF Flattens
<1> QED
  BY <1>1, <1>2, <1>3 DEF none

\* A new location.
LEMMA LocationBegins ==
  ASSUME NEW n, NEW p, \A type : Within(n, type, p) = {}
  PROVE  LocationAsWritten(NewLocation(Text(n)), n, p)
<1> DEFINE new == NewLocation(Text(n))
<1>1. /\ new.location = Text(n) /\ new.root = "" /\ new.autoindex = FALSE /\ new.uploadStore = ""
      /\ new.useCgi = FALSE /\ new.cgiPath = ""
      /\ new.isRedirect = FALSE /\ new.redirectUrl = "" /\ new.redirectCode = 0
      /\ new.isRedirectPermanent = FALSE
      /\ new.has_return = FALSE /\ new.return_code = 0 /\ new.return_message = <<>>
  BY DEF NewLocation
<1> HIDE DEF new
<1>2. RootAs(new, n, p) /\ AutoindexAs(new, n, p) /\ UploadAs(new, n, p)
  BY <1>1 DEF RootAs, AutoindexAs, UploadAs, Says
<1>3. CgiAs(new, n, p) /\ CgiPathAs(new, n, p)
  BY <1>1 DEF CgiAs, CgiPathAs, Says
<1>4. IndexAs(new, n, p) /\ MethodsAs(new, n, p)
  BY DEF IndexAs, MethodsAs, Says, new
<1>5. RedirectAs(new, n, p)
  <2>1. ~ (0 = 301)
    OBVIOUS
  <2> QED
    BY <1>1, <2>1 DEF RedirectAs, Says
<1>6. ReturnAs(new, n, p)
  <2>1. Cardinality({}) = 0
    BY FS_EmptySet
  <2>2. Messages({}) = <<>>
    <3>1. 1..0 = {}
      OBVIOUS
    <3> QED
      BY <2>1, <3>1 DEF Messages
  <2>3. FlattenSeq(<<>>) = <<>>
    BY FlattenSeqOfNone
  <2> QED
    BY <1>1, <2>2, <2>3 DEF ReturnAs, Says
<1> QED
  BY <1>1, <1>2, <1>3, <1>4, <1>5, <1>6, LocationParts DEF new

(* In which of the blocks that have begun a statement is.                   *)

\* A statement outside all blocks is in none of those before it.
LEMMA InNone ==
  ASSUME Tape(_tokens), NEW n \in Statements, NEW i \in Statements,
         Depth(i) \in 0..2, Depth(n) = 0 \/ Depth(n) = Depth(i) \/ Depth(n) = Depth(i) + 2
  PROVE  ~Inside(i, n)
<1>1. Depth(n) # Depth(i) + 1
  <2>1. Depth(i) \in {0, 1, 2}
    BY ONLY Depth(i) \in 0..2
  <2> QED
    BY ONLY <2>1, Depth(n) = 0 \/ Depth(n) = Depth(i) \/ Depth(n) = Depth(i) + 2
<1> QED
  BY <1>1 DEF Inside

\* Nor is one in a block that has ended: another begins after it.
LEMMA Ended ==
  ASSUME Tape(_tokens), NEW n \in Statements, NEW i \in Statements, NEW j \in Statements,
         i < j, j < n, Depth(j) = Depth(i)
  PROVE  ~Inside(i, n)
<1> SUFFICES ASSUME Inside(i, n) PROVE FALSE
  OBVIOUS
<1>1. Len(Words) \in Nat /\ i \in 1..Len(Words) /\ j \in 1..Len(Words) /\ n \in 1..Len(Words)
  BY WordsAre
<1>2. j \in (i + 1)..n /\ i \in 1..(Len(Words) + 1)
  BY ONLY <1>1, i < j, j < n
<1>3. Depth(i) \in Int
  BY <1>2, DepthGrows
<1>4. Depth(j) > Depth(i)
  BY <1>2 DEF Inside
<1>5. ~ (Depth(i) > Depth(i))
  BY ONLY <1>3
<1> QED
  BY <1>4, <1>5

\* The server a directive is in.
LEMMA InLastServer ==
  ASSUME Tape(_tokens), NEW n \in Statements, Depth(n) = 1, ServersUpTo(n) # {},
         \A i \in Statements : i < n => Depth(i) \in 0..2
  PROVE  /\ Inside(LastOf(ServersUpTo(n)), n)
         /\ \A i \in ServersUpTo(n) : i # LastOf(ServersUpTo(n)) => ~Inside(i, n)
<1> DEFINE S == ServersUpTo(n)
           s == LastOf(S)
<1>1. Len(Words) \in Nat /\ n \in 1..Len(Words)
  BY WordsAre
<1>2. S \subseteq 1..Len(Words) /\ S \subseteq Statements /\ \A i \in S : i < n /\ Depth(i) = 0
  BY ServersAreBefore
<1>3. s \in S /\ \A i \in S : i <= s
  <2> HIDE DEF S
  <2>1. S # {}
    BY DEF S
  <2> QED
    BY ONLY <1>1, <1>2, <2>1, LastIsGreatest
<1>4. s \in Statements /\ s < n /\ Depth(s) = 0 /\ s \in 1..Len(Words)
  BY <1>2, <1>3
<1>5. \A k \in Statements : k < n /\ Depth(k) = 0 => k \in S
  BY DEF ServersUpTo
<1> HIDE DEF S, s
<1>6. ASSUME NEW k \in (s + 1)..n, k \in Statements PROVE Depth(k) > Depth(s)
  <2>1. CASE k = n
    BY <1>4, <2>1
  <2>2. CASE k # n
    <3>1. k < n /\ ~ (k <= s)
      BY ONLY <1>1, <1>4, <1>6, <2>2
    <3>2. Depth(k) # 0
      BY <1>3, <1>5, <1>6, <3>1
    <3>3. Depth(k) \in 0..2
      BY <1>6, <3>1
    <3>4. Depth(k) > 0
      BY ONLY <3>2, <3>3
    <3> QED
      BY <1>4, <3>4
  <2> QED
    BY <2>1, <2>2
<1>7. Inside(s, n)
  <2>1. Depth(n) = Depth(s) + 1
    BY <1>4
  <2> QED
    BY <1>4, <1>6, <2>1 DEF Inside
<1>8. ASSUME NEW i \in S, i # s PROVE ~Inside(i, n)
  <2>1. i \in Statements /\ Depth(i) = 0 /\ i \in 1..Len(Words) /\ i <= s
    BY <1>2, <1>3, <1>8
  <2>2. i < s
    BY ONLY <1>1, <1>4, <1>8, <2>1
  <2>3. Depth(s) = Depth(i)
    BY <1>4, <2>1
  <2> QED
    BY <1>4, <2>1, <2>2, <2>3, Ended
<1> QED
  BY <1>7, <1>8 DEF S, s

\* And the location.
LEMMA InLastLocation ==
  ASSUME Tape(_tokens), NEW n \in Statements, Depth(n) = 2,
         NEW l \in Statements, l < n, Depth(l) = 1,
         \A k \in Statements : l < k /\ k < n => Depth(k) = 2
  PROVE  /\ Inside(l, n)
         /\ \A i \in Statements : i < n /\ Depth(i) = 1 /\ i # l => ~Inside(i, n)
<1>1. Len(Words) \in Nat /\ n \in 1..Len(Words) /\ l \in 1..Len(Words)
  BY WordsAre
<1>2. ASSUME NEW k \in (l + 1)..n, k \in Statements PROVE Depth(k) > Depth(l)
  <2>1. CASE k = n
    BY <2>1
  <2>2. CASE k # n
    <3>1. k < n /\ l < k
      BY ONLY <1>1, <1>2, <2>2
    <3>2. Depth(k) = 2
      BY <1>2, <3>1
    <3> QED
      BY <3>2
  <2> QED
    BY <2>1, <2>2
<1>3. Depth(n) = Depth(l) + 1
  OBVIOUS
<1>4. ASSUME NEW i \in Statements, i < n, Depth(i) = 1, i # l PROVE ~Inside(i, n)
  <2>1. i \in 1..Len(Words)
    BY WordsAre
  <2>2. 1 # 2
    OBVIOUS
  <2>3. ~ (l < i)
    BY <1>4, <2>2
  <2>4. i < l
    BY ONLY <1>1, <1>4, <2>1, <2>3
  <2> QED
    BY <1>4, <2>4, Ended
<1> QED
  BY <1>2, <1>3, <1>4 DEF Inside

(* What does not change within a block does not change what it stands for.  *)
LEMMA ServerSame ==
  ASSUME NEW read, NEW i, NEW n, NEW p, ServerAsWritten(read, i, n),
         \A type \in {"listen", "server_name", "client_max_body_size", "error_page"} :
           Within(i, type, p) = Within(i, type, n)
  PROVE  ServerAsWritten(read, i, p)
<1>1. PortAs(read, i, n) /\ NamesAs(read, i, n) /\ SizeAs(read, i, n) /\ PagesAs(read, i, n)
  BY ServerParts
<1>2. PortAs(read, i, p) /\ NamesAs(read, i, p) /\ SizeAs(read, i, p) /\ PagesAs(read, i, p)
  BY <1>1, ServerPartsStay
<1> QED
  BY <1>2, ServerParts

\* A location in which nothing is added is as written as before.
LEMMA LocationSame ==
  ASSUME NEW read, NEW i, NEW n, NEW p, LocationAsWritten(read, i, n), Same(i, n, p)
  PROVE  LocationAsWritten(read, i, p)
<1> USE LocationParts
<1>1. RedirectAs(read, i, p)
  BY RedirectStays DEF Same
<1>2. ReturnAs(read, i, p)
  BY ReturnStays DEF Same
<1>3. /\ read.location = Text(i) /\ RootAs(read, i, p) /\ IndexAs(read, i, p)
      /\ AutoindexAs(read, i, p) /\ UploadAs(read, i, p) /\ MethodsAs(read, i, p)
      /\ CgiAs(read, i, p) /\ CgiPathAs(read, i, p)
  BY LocationPartsStay DEF Same
<1> QED
  BY <1>1, <1>2, <1>3

(* Sequences, of anything.                                                  *)
Listing(s) == Len(s) \in Nat /\ s = [k \in 1..Len(s) |-> s[k]]

\* One element more.
LEMMA Appended ==
  ASSUME NEW s, Listing(s), NEW e
  PROVE  /\ Listing(Append(s, e)) /\ Len(Append(s, e)) = Len(s) + 1
         /\ Append(s, e)[Len(s) + 1] = e /\ \A k \in 1..Len(s) : Append(s, e)[k] = s[k]
<1> DEFINE a == Append(s, e)
<1>1. PICK S : s \in Seq(S)
  BY IsSequence DEF Listing
<1> DEFINE T == S \cup {e}
<1>2. s \in Seq(T) /\ e \in T
  BY <1>1
<1> HIDE DEF T
<1>3. /\ a \in Seq(T) /\ Len(a) = Len(s) + 1
      /\ a[Len(s) + 1] = e /\ \A k \in 1..Len(s) : a[k] = s[k]
  BY <1>2, AppendIs
<1> HIDE DEF a
<1>4. Listing(a)
  BY ONLY <1>3 DEF Listing
<1> QED
  BY <1>3, <1>4 DEF a

\* The last element replaced.
LEMMA LastChanged ==
  ASSUME NEW s, Listing(s), Len(s) # 0, NEW e
  PROVE  /\ Listing([s EXCEPT ![Len(s)] = e]) /\ Len([s EXCEPT ![Len(s)] = e]) = Len(s)
         /\ [s EXCEPT ![Len(s)] = e][Len(s)] = e
         /\ \A k \in 1..Len(s) : k # Len(s) => [s EXCEPT ![Len(s)] = e][k] = s[k]
<1> DEFINE a == [s EXCEPT ![Len(s)] = e]
           N == Len(s)
<1>1. N \in Nat /\ s = [k \in 1..N |-> s[k]]
  BY DEF Listing
<1>2. N \in 1..N
  <2> HIDE DEF N
  <2>1. N # 0
    BY DEF N
  <2> QED
    BY ONLY <1>1, <2>1
<1>3. DOMAIN s = 1..N
  <2> HIDE DEF N
  <2> QED
    BY <1>1
<1>4. /\ a = [k \in 1..N |-> a[k]] /\ a[N] = e
      /\ \A k \in 1..N : k # N => a[k] = s[k]
  <2> HIDE DEF N
  <2>1. a = [s EXCEPT ![N] = e]
    BY DEF N
  <2> HIDE DEF a
  <2> QED
    BY ONLY <1>2, <1>3, <2>1
<1> HIDE DEF a, N
<1>5. Len(a) = N
  BY <1>1, <1>4, IsSequence
<1>6. Listing(a)
  BY ONLY <1>1, <1>4, <1>5 DEF Listing
<1> QED
  BY <1>4, <1>5, <1>6 DEF a, N

(* The locations of a server, as a statement is added.                      *)
LEMMA LocationsSame ==
  ASSUME Tape(_tokens), NEW list, Listing(list), NEW i, NEW n, NEW p, LocationsAsWritten(list, i, n),
         Within(i, "location", p) = Within(i, "location", n),
         \A l \in Within(i, "location", n) : Same(l, n, p)
  PROVE  LocationsAsWritten(list, i, p)
<1> DEFINE T == Within(i, "location", n)
<1>1. Len(Words) \in Nat /\ T \subseteq 1..Len(Words)
  BY WordsAre, WithinAre
<1>2. DOMAIN list = 1..Len(list)
  BY DEF Listing
<1>3. Len(list) = Cardinality(T) /\ \A m \in 1..Len(list) : LocationAsWritten(list[m], Nth(T, m), n)
  BY <1>2 DEF LocationsAsWritten
<1> HIDE DEF T
<1>4. ASSUME NEW m \in 1..Len(list) PROVE LocationAsWritten(list[m], Nth(T, m), p)
  <2>1. Nth(T, m) \in T
    BY ONLY <1>1, <1>3, <1>4, NthIs
  <2>2. Same(Nth(T, m), n, p)
    BY <2>1 DEF T
  <2> QED
    BY <1>3, <1>4, <2>2, LocationSame
<1> QED
  BY <1>2, <1>3, <1>4 DEF T, LocationsAsWritten

\* One more location.
LEMMA LocationsOneMore ==
  ASSUME Tape(_tokens), NEW list, Listing(list), NEW i, NEW n, NEW p, LocationsAsWritten(list, i, n),
         Within(i, "location", p) = Within(i, "location", n) \cup {n}, n \in Statements,
         \A l \in Within(i, "location", n) : Same(l, n, p),
         NEW new, LocationAsWritten(new, n, p)
  PROVE  LocationsAsWritten(Append(list, new), i, p)
<1> DEFINE T == Within(i, "location", n)
           more == Append(list, new)
<1>1. Len(Words) \in Nat /\ T \subseteq 1..Len(Words) /\ n \in 1..Len(Words) /\ \A j \in T : j < n
  BY WordsAre, WithinAre
<1>2. /\ Len(more) = Len(list) + 1 /\ more[Len(list) + 1] = new
      /\ \A k \in 1..Len(list) : more[k] = list[k]
      /\ DOMAIN list = 1..Len(list) /\ DOMAIN more = 1..Len(more) /\ Len(list) \in Nat
  BY Appended DEF Listing
<1>3. Len(list) = Cardinality(T) /\ \A m \in 1..Len(list) : LocationAsWritten(list[m], Nth(T, m), n)
  BY <1>2 DEF LocationsAsWritten
<1> HIDE DEF T, more
<1>4. /\ Cardinality(T \cup {n}) = Cardinality(T) + 1
      /\ \A m \in 1..Cardinality(T) : Nth(T \cup {n}, m) = Nth(T, m)
      /\ Nth(T \cup {n}, Cardinality(T) + 1) = n
  <2>1. n \in Nat
    BY ONLY <1>1
  <2>2. /\ Cardinality(T \cup {n}) = Cardinality(T) + 1
        /\ \A m \in 1..Cardinality(T) : Nth(T \cup {n}, m) = Nth(T, m)
        /\ Nth(T \cup {n}, Cardinality(T) + 1) = n
        /\ LastOf(T \cup {n}) = n
    BY ONLY <1>1, <2>1, NthAdded, Zenon
  <2> QED
    BY ONLY <2>2
<1>5. ASSUME NEW m \in 1..Len(more) PROVE LocationAsWritten(more[m], Nth(T \cup {n}, m), p)
  <2>1. CASE m \in 1..Len(list)
    <3>1. Nth(T, m) \in T
      BY ONLY <1>1, <1>3, <2>1, NthIs
    <3>2. Same(Nth(T, m), n, p)
      BY <3>1 DEF T
    <3>3. LocationAsWritten(list[m], Nth(T, m), p)
      BY <1>3, <2>1, <3>2, LocationSame
    <3>4. more[m] = list[m] /\ Nth(T \cup {n}, m) = Nth(T, m)
      BY <1>2, <1>3, <1>4, <2>1
    <3> QED
      BY <3>3, <3>4
  <2>2. CASE m = Len(list) + 1
    <3>1. more[m] = new /\ Nth(T \cup {n}, m) = n
      BY <1>2, <1>3, <1>4, <2>2
    <3> QED
      BY <3>1
  <2> QED
    BY ONLY <1>2, <1>5, <2>1, <2>2
<1>6. Within(i, "location", p) = T \cup {n}
  BY DEF T
<1>7. Len(more) = Cardinality(T \cup {n})
  BY <1>2, <1>3, <1>4
<1> QED
  BY <1>2, <1>5, <1>6, <1>7 DEF LocationsAsWritten, more

\* The last, alone.
LEMMA LastListed ==
  ASSUME Tape(_tokens), NEW list, Listing(list), NEW a, NEW i, NEW n,
         LocationsAsWritten(Append(list, a), i, n)
  PROVE  /\ LocationAsWritten(a, LastOf(Within(i, "location", n)), n)
         /\ Within(i, "location", n) # {}
         /\ LastOf(Within(i, "location", n)) \in Within(i, "location", n)
<1> DEFINE T == Within(i, "location", n)
           more == Append(list, a)
<1>1. Len(Words) \in Nat /\ T \subseteq 1..Len(Words)
  BY WordsAre, WithinAre
<1>2. /\ Len(more) = Len(list) + 1 /\ more[Len(list) + 1] = a
      /\ DOMAIN more = 1..Len(more) /\ Len(list) \in Nat
  BY Appended DEF Listing
<1>3. Len(more) = Cardinality(T) /\ \A m \in DOMAIN more : LocationAsWritten(more[m], Nth(T, m), n)
  BY DEF LocationsAsWritten
<1> HIDE DEF T, more
<1>4. T # {}
  <2>1. Cardinality(T) # 0
    BY ONLY <1>2, <1>3
  <2> QED
    BY ONLY <1>1, <2>1, PlacesCounted
<1>5. LastOf(T) \in T
  BY ONLY <1>1, <1>4, LastIsGreatest
<1>6. Cardinality(T) \in DOMAIN more /\ Cardinality(T) = Len(list) + 1
  BY ONLY <1>2, <1>3
<1>7. LocationAsWritten(a, Nth(T, Cardinality(T)), n)
  BY <1>2, <1>3, <1>6
<1> QED
  BY <1>4, <1>5, <1>7 DEF LastOf, T

\* The last changed, alone.
LEMMA LocationsLast ==
  ASSUME Tape(_tokens), NEW list, Listing(list), NEW a, NEW b, NEW i, NEW n, NEW p,
         LocationsAsWritten(Append(list, a), i, n),
         Within(i, "location", p) = Within(i, "location", n),
         \A l \in Within(i, "location", n) : l # LastOf(Within(i, "location", n)) => Same(l, n, p),
         LocationAsWritten(b, LastOf(Within(i, "location", n)), p)
  PROVE  LocationsAsWritten(Append(list, b), i, p)
<1> DEFINE T == Within(i, "location", n)
           A == Append(list, a)
           B == Append(list, b)
<1>1. Len(Words) \in Nat /\ T \subseteq 1..Len(Words)
  BY WordsAre, WithinAre
<1>2. /\ Len(A) = Len(list) + 1 /\ \A k \in 1..Len(list) : A[k] = list[k]
      /\ DOMAIN A = 1..Len(A) /\ Len(list) \in Nat
  BY Appended DEF Listing
<1>3. /\ Len(B) = Len(list) + 1 /\ \A k \in 1..Len(list) : B[k] = list[k]
      /\ DOMAIN B = 1..Len(B) /\ B[Len(list) + 1] = b
  BY Appended DEF Listing
<1>4. Len(A) = Cardinality(T) /\ \A m \in DOMAIN A : LocationAsWritten(A[m], Nth(T, m), n)
  BY DEF LocationsAsWritten
<1>5. LocationAsWritten(b, LastOf(T), p) /\ \A l \in T : l # LastOf(T) => Same(l, n, p)
  OBVIOUS
<1> HIDE DEF T, A, B
<1>6. ASSUME NEW m \in 1..Len(B) PROVE LocationAsWritten(B[m], Nth(T, m), p)
  <2>1. CASE m \in 1..Len(list)
    <3>1. m \in 1..Cardinality(T) /\ m < Cardinality(T) /\ m \in DOMAIN A
      BY ONLY <1>2, <1>4, <2>1
    <3>2. Nth(T, m) \in T /\ Nth(T, m) < LastOf(T)
      BY ONLY <1>1, <3>1, NthIs
    <3>3. T # {}
      BY <3>2
    <3>4. LastOf(T) \in T
      BY ONLY <1>1, <3>3, LastIsGreatest
    <3>5. Nth(T, m) # LastOf(T)
      <4>1. Nth(T, m) \in 1..Len(Words)
        BY ONLY <1>1, <3>2
      <4>2. Nth(T, m) \in Int
        BY ONLY <1>1, <4>1
      <4>3. ~ (Nth(T, m) < Nth(T, m))
        BY ONLY <4>2
      <4> QED
        BY <3>2, <4>3
    <3>6. LocationAsWritten(A[m], Nth(T, m), p)
      BY <1>4, <1>5, <3>1, <3>2, <3>5, LocationSame
    <3>7. A[m] = B[m]
      BY <1>2, <1>3, <2>1
    <3> QED
      BY <3>6, <3>7
  <2>2. CASE m = Len(list) + 1
    <3>1. B[m] = b /\ m = Cardinality(T)
      BY <1>2, <1>3, <1>4, <2>2
    <3> QED
      BY <1>5, <3>1 DEF LastOf
  <2> QED
    BY ONLY <1>2, <1>3, <1>6, <2>1, <2>2
<1>7. Within(i, "location", p) = T /\ Len(B) = Cardinality(T)
  BY <1>2, <1>3, <1>4 DEF T
<1> QED
  BY <1>3, <1>6, <1>7 DEF LocationsAsWritten, B

(* What has been read is what is written up to n.                           *)
ServerFields == {"port", "host", "serverNames", "errorPages", "clientMaxBodySize", "locations"}
LocationFields ==
  {"location", "allowedMethods", "root", "autoindex", "index", "isRedirect", "redirectUrl",
   "isRedirectPermanent", "redirectCode", "useCgi", "cgiPath", "uploadStore",
   "has_return", "return_code", "return_message"}

\* The locations of server m, with the one being read.
Listed(ss, loc, block, m) ==
  IF block \in Locations /\ m = Len(ss) THEN Append(ss[m].locations, loc) ELSE ss[m].locations

BlockHolds(server, list, i, n) ==
  /\ DOMAIN server = ServerFields /\ Listing(server.locations)
  /\ ServerAsWritten(server, i, n) /\ LocationsAsWritten(list, i, n)

Holds(ss, loc, block, n) ==
  /\ Listing(ss) /\ Len(ss) = Cardinality(ServersUpTo(n))
  /\ block # "servers" => ServersUpTo(n) # {}
  /\ DOMAIN loc = LocationFields
  /\ \A m \in 1..Len(ss) :
       BlockHolds(ss[m], Listed(ss, loc, block, m), Nth(ServersUpTo(n), m), n)
  /\ block \in Locations =>
       \A k \in Statements :
         LastOf(Within(LastOf(ServersUpTo(n)), "location", n)) < k /\ k < n => Depth(k) = 2

\* A step from statement n, in a block, to what follows.
Step(block, n, p) ==
  /\ Tape(_tokens) /\ Passes(n, p) /\ Depth(n) = Level(block)
  /\ \A i \in Statements : i < n => Depth(i) \in 0..2

\* The servers by their places.
LEMMA ServerPlaces ==
  ASSUME Tape(_tokens), NEW ss, Listing(ss), NEW n, Len(ss) = Cardinality(ServersUpTo(n))
  PROVE  /\ Len(ss) \in Nat
         /\ \A m \in 1..Len(ss) : /\ Nth(ServersUpTo(n), m) \in ServersUpTo(n)
                                  /\ m # Len(ss) => Nth(ServersUpTo(n), m) < LastOf(ServersUpTo(n))
                                  /\ m = Len(ss) => Nth(ServersUpTo(n), m) = LastOf(ServersUpTo(n))
         /\ ServersUpTo(n) # {} =>
              Len(ss) # 0 /\ Len(ss) \in 1..Len(ss) /\ LastOf(ServersUpTo(n)) \in ServersUpTo(n)
<1> DEFINE S == ServersUpTo(n)
           N == Len(ss)
<1>1. Len(Words) \in Nat /\ S \subseteq 1..Len(Words) /\ N \in Nat /\ N = Cardinality(S)
  BY WordsAre, ServersAreBefore DEF Listing
<1> HIDE DEF S, N
<1>2. ASSUME NEW m \in 1..N
      PROVE  /\ Nth(S, m) \in S
             /\ m # N => Nth(S, m) < LastOf(S)
             /\ m = N => Nth(S, m) = LastOf(S)
  <2>1. m \in 1..Cardinality(S) /\ (m # N => m < Cardinality(S)) /\ (m = N => m = Cardinality(S))
    BY ONLY <1>1, <1>2
  <2>2. /\ Nth(S, m) \in S /\ (m < Cardinality(S) => Nth(S, m) < LastOf(S))
        /\ m = Cardinality(S) => Nth(S, m) = LastOf(S)
    BY ONLY <1>1, <2>1, NthIs
  <2> QED
    BY ONLY <2>1, <2>2
<1>3. ASSUME S # {} PROVE N # 0 /\ N \in 1..N /\ LastOf(S) \in S
  <2>1. Cardinality(S) # 0
    BY ONLY <1>1, <1>3, PlacesCounted
  <2>2. LastOf(S) \in S
    BY ONLY <1>1, <1>3, LastIsGreatest
  <2> QED
    BY ONLY <1>1, <2>1, <2>2
<1> QED
  BY <1>1, <1>2, <1>3 DEF S, N

\* A block that has ended.
LEMMA BlockSame ==
  ASSUME Tape(_tokens), NEW server, NEW i, NEW n, NEW p, BlockHolds(server, server.locations, i, n),
         Same(i, n, p), \A l \in Within(i, "location", n) : Same(l, n, p)
  PROVE  BlockHolds(server, server.locations, i, p)
<1>1. /\ DOMAIN server = ServerFields /\ Listing(server.locations)
      /\ ServerAsWritten(server, i, n) /\ LocationsAsWritten(server.locations, i, n)
  BY DEF BlockHolds
<1>2. ServerAsWritten(server, i, p)
  BY <1>1, ServerSame DEF Same
<1>3. LocationsAsWritten(server.locations, i, p)
  BY <1>1, LocationsSame DEF Same
<1> QED
  BY <1>1, <1>2, <1>3 DEF BlockHolds

\* A server begins.
LEMMA HoldsServer ==
  ASSUME NEW ss, NEW loc, NEW n, NEW p, Holds(ss, loc, "servers", n), Step("servers", n, p)
  PROVE  Holds(Append(ss, NewServer), loc, "server", p)
<1> DEFINE S == ServersUpTo(n)
           tt == Append(ss, NewServer)
           N == Len(ss)
<1>1. /\ Tape(_tokens) /\ Passes(n, p) /\ Depth(n) = 0 /\ n \in Statements
      /\ \A i \in Statements : i < n => Depth(i) \in 0..2
  BY LevelsAre DEF Step, Passes
<1>2. /\ Listing(ss) /\ N = Cardinality(S) /\ DOMAIN loc = LocationFields
      /\ \A m \in 1..N : BlockHolds(ss[m], ss[m].locations, Nth(S, m), n)
  BY DEF Holds, Listed, Locations
<1>3. /\ Listing(tt) /\ Len(tt) = N + 1 /\ tt[N + 1] = NewServer /\ \A k \in 1..N : tt[k] = ss[k]
  BY <1>2, Appended
<1>4. ServersUpTo(p) = S \cup {n}
  BY <1>1, ServersPassed
<1>5. /\ S \subseteq 1..Len(Words) /\ S \subseteq Statements /\ \A i \in S : i < n /\ Depth(i) = 0
      /\ Len(Words) \in Nat /\ n \in Nat /\ N \in Nat /\ \A m \in 1..N : Nth(S, m) \in S
  <2>1. Len(Words) \in Nat /\ n \in 1..Len(Words)
    BY <1>1, WordsAre
  <2>2. n \in Nat
    BY ONLY <2>1
  <2> QED
    BY <1>1, <1>2, <2>1, <2>2, ServersAreBefore, ServerPlaces
<1>6. /\ Cardinality(S \cup {n}) = Cardinality(S) + 1
      /\ \A m \in 1..Cardinality(S) : Nth(S \cup {n}, m) = Nth(S, m)
      /\ Nth(S \cup {n}, Cardinality(S) + 1) = n
  <2> HIDE DEF S
  <2>1. S \subseteq 1..Len(Words) /\ \A i \in S : i < n
    BY ONLY <1>5
  <2>2. /\ Cardinality(S \cup {n}) = Cardinality(S) + 1
        /\ \A m \in 1..Cardinality(S) : Nth(S \cup {n}, m) = Nth(S, m)
        /\ Nth(S \cup {n}, Cardinality(S) + 1) = n
        /\ LastOf(S \cup {n}) = n
    BY ONLY <1>5, <2>1, NthAdded, Zenon
  <2> QED
    BY ONLY <2>2
<1> HIDE DEF S, tt, N
<1>7. \A i \in Statements : i < n => Same(i, n, p)
  BY <1>1, InNone, NotInside
<1>8. ASSUME NEW m \in 1..(N + 1) PROVE BlockHolds(tt[m], tt[m].locations, Nth(S \cup {n}, m), p)
  <2>1. CASE m \in 1..N
    <3>1. Nth(S, m) \in S /\ Nth(S \cup {n}, m) = Nth(S, m) /\ tt[m] = ss[m]
      BY <1>2, <1>3, <1>5, <1>6, <2>1
    <3>2. Same(Nth(S, m), n, p)
      BY <1>5, <1>7, <3>1
    <3>3. \A l \in Within(Nth(S, m), "location", n) : Same(l, n, p)
      BY <1>1, <1>7, WithinAre
    <3>4. BlockHolds(ss[m], ss[m].locations, Nth(S, m), p)
      BY <1>1, <1>2, <2>1, <3>2, <3>3, BlockSame
    <3> QED
      BY <3>1, <3>4
  <2>2. CASE m = N + 1
    <3>1. Nth(S \cup {n}, m) = n /\ tt[m] = NewServer
      BY <1>2, <1>3, <1>6, <2>2
    <3>2. \A type : Within(n, type, p) = {}
      BY <1>1, NothingWithin
    <3>3. ServerAsWritten(NewServer, n, p) /\ LocationsAsWritten(<<>>, n, p) /\ NewServer.locations = <<>>
      BY <3>2, ServerBegins
    <3>4. DOMAIN NewServer = ServerFields
      BY DEF NewServer, ServerFields
    <3>5. Listing(<<>>)
      BY DEF Listing
    <3> QED
      BY <3>1, <3>3, <3>4, <3>5 DEF BlockHolds
  <2> QED
    BY ONLY <1>5, <1>8, <2>1, <2>2
<1>9. "server" \notin Locations
  BY DEF Locations
<1>10. Len(tt) = Cardinality(S \cup {n})
  BY <1>2, <1>3, <1>6
<1> QED
  BY <1>2, <1>3, <1>4, <1>8, <1>9, <1>10 DEF Holds, Listed, tt

\* What a statement directly in a server is in.
LEMMA ServerPlace ==
  ASSUME NEW ss, NEW loc, NEW n, NEW p, Holds(ss, loc, "server", n), Step("server", n, p)
  PROVE  /\ ServersUpTo(p) = ServersUpTo(n)
         /\ Adds(LastOf(ServersUpTo(n)), Words[n].type, n, p)
         /\ \A i \in ServersUpTo(n) : i # LastOf(ServersUpTo(n)) => Same(i, n, p)
         /\ \A l \in Statements : l < n /\ Depth(l) = 1 => Same(l, n, p)
<1>1. /\ Tape(_tokens) /\ Passes(n, p) /\ Depth(n) = 1 /\ n \in Statements
      /\ \A i \in Statements : i < n => Depth(i) \in 0..2
      /\ ServersUpTo(n) # {}
  BY LevelsAre DEF Step, Passes, Holds
<1>2. 1 # 0
  OBVIOUS
<1>3. ServersUpTo(p) = ServersUpTo(n)
  BY <1>1, <1>2, ServersPassed
<1>4. Adds(LastOf(ServersUpTo(n)), Words[n].type, n, p)
  BY <1>1, InLastServer, IsInside
<1>5. \A i \in ServersUpTo(n) : i # LastOf(ServersUpTo(n)) => Same(i, n, p)
  BY <1>1, InLastServer, NotInside
<1>6. ASSUME NEW l \in Statements, l < n, Depth(l) = 1 PROVE Same(l, n, p)
  <2>1. ~Inside(l, n)
    BY <1>1, <1>6, InNone
  <2> QED
    BY <1>1, <2>1, NotInside
<1> QED
  BY <1>3, <1>4, <1>5, <1>6

\* A directive of a server, or its end.
LEMMA HoldsInServer ==
  ASSUME NEW ss, NEW loc, NEW n, NEW p, Holds(ss, loc, "server", n), Step("server", n, p),
         NEW next \in {"server", "servers"}, Words[n].type # "location",
         NEW new, DOMAIN new = ServerFields, new.locations = ss[Len(ss)].locations,
         ServerAsWritten(new, LastOf(ServersUpTo(n)), p),
         NEW tt, Listing(tt), Len(tt) = Len(ss), tt[Len(ss)] = new,
         \A m \in 1..Len(ss) : m # Len(ss) => tt[m] = ss[m]
  PROVE  Holds(tt, loc, next, p)
<1> DEFINE S == ServersUpTo(n)
           N == Len(ss)
<1>1. /\ Tape(_tokens) /\ S # {} /\ Listing(ss) /\ N = Cardinality(S) /\ DOMAIN loc = LocationFields
      /\ \A m \in 1..N : BlockHolds(ss[m], ss[m].locations, Nth(S, m), n)
  BY DEF Holds, Listed, Locations, Step
<1>2. /\ ServersUpTo(p) = S
      /\ Adds(LastOf(S), Words[n].type, n, p)
      /\ \A i \in S : i # LastOf(S) => Same(i, n, p)
      /\ \A l \in Statements : l < n /\ Depth(l) = 1 => Same(l, n, p)
  BY ServerPlace
<1>3. /\ \A m \in 1..N : /\ Nth(S, m) \in S /\ (m # N => Nth(S, m) < LastOf(S))
                         /\ m = N => Nth(S, m) = LastOf(S)
      /\ N \in 1..N /\ LastOf(S) \in S
  BY <1>1, ServerPlaces
<1>4. ServersUpTo(n) \subseteq Statements /\ \A i \in ServersUpTo(n) : i < n /\ Depth(i) = 0
      /\ S \subseteq 1..Len(Words) /\ Len(Words) \in Nat
  BY <1>1, ServersAreBefore, WordsAre
<1> HIDE DEF S, N
<1>5. ASSUME NEW i \in S, NEW l \in Within(i, "location", n) PROVE Same(l, n, p)
  <2>1. l \in Statements /\ l < n /\ Depth(l) = Depth(i) + 1
    BY <1>1, WithinAre
  <2>2. Depth(l) = 1
    BY <1>4, <2>1 DEF S
  <2> QED
    BY <1>2, <2>1, <2>2
<1>6. ASSUME NEW m \in 1..N PROVE BlockHolds(tt[m], tt[m].locations, Nth(S, m), p)
  <2>1. CASE m # N
    <3>1. Nth(S, m) \in S /\ Nth(S, m) # LastOf(S)
      <4>1. Nth(S, m) \in S /\ Nth(S, m) < LastOf(S)
        BY <1>3, <2>1
      <4>2. Nth(S, m) \in 1..Len(Words)
        BY <1>4, <4>1 DEF S
      <4>3. Nth(S, m) \in Int
        BY ONLY <1>4, <4>2
      <4>4. ~ (Nth(S, m) < Nth(S, m))
        BY ONLY <4>3
      <4> QED
        BY <4>1, <4>4
    <3>2. Same(Nth(S, m), n, p) /\ \A l \in Within(Nth(S, m), "location", n) : Same(l, n, p)
      BY <1>2, <1>5, <3>1
    <3>3. BlockHolds(ss[m], ss[m].locations, Nth(S, m), p)
      BY <1>1, <3>2, BlockSame
    <3>4. tt[m] = ss[m]
      BY <2>1 DEF N
    <3> QED
      BY <3>3, <3>4
  <2>2. CASE m = N
    <3>1. Nth(S, m) = LastOf(S) /\ tt[m] = new /\ LastOf(S) \in S /\ m = Len(ss)
      BY <1>3, <2>2 DEF N
    <3>2. BlockHolds(ss[m], ss[m].locations, LastOf(S), n)
      BY <1>1, <3>1
    <3>3. Listing(ss[m].locations) /\ LocationsAsWritten(ss[m].locations, LastOf(S), n)
      BY <3>2 DEF BlockHolds
    <3>4. Within(LastOf(S), "location", p) = Within(LastOf(S), "location", n)
      BY <1>2 DEF Adds
    <3>5. LocationsAsWritten(ss[m].locations, LastOf(S), p)
      BY <1>1, <1>5, <3>1, <3>3, <3>4, LocationsSame
    <3>6. new.locations = ss[m].locations
      BY <3>1
    <3>7. ServerAsWritten(new, LastOf(S), p)
      BY DEF S
    <3> QED
      BY <3>1, <3>3, <3>5, <3>6, <3>7 DEF BlockHolds
  <2> QED
    BY <2>1, <2>2
<1>7. next \notin Locations
  BY DEF Locations
<1>8. Len(tt) = N /\ Len(tt) = Cardinality(S)
  BY <1>1 DEF N
<1> QED
  BY <1>1, <1>2, <1>6, <1>7, <1>8 DEF Holds, Listed

\* A location begins.
LEMMA HoldsLocation ==
  ASSUME NEW ss, NEW loc, NEW n, NEW p, Holds(ss, loc, "server", n), Step("server", n, p),
         Words[n].type = "location"
  PROVE  Holds(ss, NewLocation(Text(n)), "location", p)
<1> DEFINE S == ServersUpTo(n)
           N == Len(ss)
           s == LastOf(S)
           new == NewLocation(Text(n))
<1>1. /\ Tape(_tokens) /\ S # {} /\ Listing(ss) /\ N = Cardinality(S)
      /\ \A m \in 1..N : BlockHolds(ss[m], ss[m].locations, Nth(S, m), n)
      /\ Passes(n, p) /\ n \in Statements
  BY DEF Holds, Listed, Locations, Step, Passes
<1>2. /\ ServersUpTo(p) = S
      /\ Adds(s, "location", n, p)
      /\ \A i \in S : i # s => Same(i, n, p)
      /\ \A l \in Statements : l < n /\ Depth(l) = 1 => Same(l, n, p)
  BY ServerPlace
<1>3. /\ \A m \in 1..N : /\ Nth(S, m) \in S /\ (m # N => Nth(S, m) < s)
                         /\ m = N => Nth(S, m) = s
      /\ N \in 1..N /\ s \in S
  BY <1>1, ServerPlaces
<1>4. S \subseteq Statements /\ \A i \in S : i < n /\ Depth(i) = 0 /\ i \in Int
  <2>1. S \subseteq Statements /\ S \subseteq 1..Len(Words) /\ \A i \in S : i < n /\ Depth(i) = 0
    BY <1>1, ServersAreBefore
  <2> QED
    BY <2>1
<1>5. LocationAsWritten(new, n, p) /\ DOMAIN new = LocationFields
  <2>1. \A type : Within(n, type, p) = {}
    BY <1>1, NothingWithin
  <2>2. DOMAIN new = LocationFields
    BY DEF NewLocation, LocationFields
  <2> QED
    BY <2>1, <2>2, LocationBegins
<1> HIDE DEF S, N, s, new
<1>6. ASSUME NEW i \in S, NEW l \in Within(i, "location", n) PROVE Same(l, n, p)
  <2>1. l \in Statements /\ l < n /\ Depth(l) = Depth(i) + 1
    BY <1>1, WithinAre
  <2>2. Depth(l) = 1
    BY <1>4, <2>1
  <2> QED
    BY <1>2, <2>1, <2>2
<1>7. ASSUME NEW m \in 1..N, m # N PROVE BlockHolds(ss[m], ss[m].locations, Nth(S, m), p)
  <2>1. Nth(S, m) \in S /\ Nth(S, m) # s
    <3>1. Nth(S, m) \in S /\ Nth(S, m) < s
      BY <1>3, <1>7
    <3>2. Nth(S, m) \in Int
      BY <1>4, <3>1
    <3>3. ~ (Nth(S, m) < Nth(S, m))
      BY ONLY <3>2
    <3> QED
      BY <3>1, <3>3
  <2>2. Same(Nth(S, m), n, p) /\ \A l \in Within(Nth(S, m), "location", n) : Same(l, n, p)
    BY <1>2, <1>6, <2>1
  <2> QED
    BY <1>1, <2>2, BlockSame
<1>8. BlockHolds(ss[N], Append(ss[N].locations, new), s, p)
  <2>1. BlockHolds(ss[N], ss[N].locations, s, n)
    BY <1>1, <1>3
  <2>2. /\ DOMAIN ss[N] = ServerFields /\ Listing(ss[N].locations)
        /\ ServerAsWritten(ss[N], s, n) /\ LocationsAsWritten(ss[N].locations, s, n)
    BY <2>1 DEF BlockHolds
  <2>3. \A type \in {"listen", "server_name", "client_max_body_size", "error_page"} :
          Within(s, type, p) = Within(s, type, n)
    BY <1>2 DEF Adds
  <2>4. ServerAsWritten(ss[N], s, p)
    BY <2>2, <2>3, ServerSame
  <2>5. Within(s, "location", p) = Within(s, "location", n) \cup {n}
    BY <1>2 DEF Adds
  <2>6. \A l \in Within(s, "location", n) : Same(l, n, p)
    BY <1>3, <1>6
  <2>7. LocationsAsWritten(Append(ss[N].locations, new), s, p)
    BY <1>1, <1>5, <2>2, <2>5, <2>6, LocationsOneMore
  <2> QED
    BY <2>2, <2>4, <2>7 DEF BlockHolds
<1>9. ASSUME NEW m \in 1..N PROVE BlockHolds(ss[m], Listed(ss, new, "location", m), Nth(S, m), p)
  <2>1. CASE m = N
    <3>1. Nth(S, m) = s /\ Listed(ss, new, "location", m) = Append(ss[N].locations, new)
      BY <1>3, <2>1 DEF Listed, Locations, N
    <3> QED
      BY <1>8, <2>1, <3>1
  <2>2. CASE m # N
    <3>1. Listed(ss, new, "location", m) = ss[m].locations
      BY <2>2 DEF Listed, N
    <3> QED
      BY <1>7, <2>2, <3>1
  <2> QED
    BY <2>1, <2>2
<1>10. \A k \in Statements : LastOf(Within(LastOf(S), "location", p)) < k /\ k < p => Depth(k) = 2
  <2> SUFFICES ASSUME NEW k \in Statements, LastOf(Within(LastOf(S), "location", p)) < k, k < p
               PROVE  FALSE
    OBVIOUS
  <2>1. n < k
    BY <1>2 DEF Adds, s
  <2>2. k < n \/ k = n
    BY <1>1 DEF Passes
  <2>3. Len(Words) \in Nat /\ k \in 1..Len(Words) /\ n \in 1..Len(Words)
    BY <1>1, WordsAre
  <2> QED
    BY ONLY <2>1, <2>2, <2>3
<1> QED
  BY <1>1, <1>2, <1>5, <1>9, <1>10 DEF Holds, N, new

\* What a statement directly in a location is in.
LocationAt(n) == LastOf(Within(LastOf(ServersUpTo(n)), "location", n))

\* A directive of the location being read adds to it.
LEMMA LocationPlace ==
  ASSUME NEW ss, NEW loc, NEW block \in Locations, NEW n, NEW p, Holds(ss, loc, block, n), Step(block, n, p)
  PROVE  /\ ServersUpTo(p) = ServersUpTo(n)
         /\ \A i \in ServersUpTo(n) : Same(i, n, p)
         /\ LocationAsWritten(loc, LocationAt(n), n) /\ Adds(LocationAt(n), Words[n].type, n, p)
         /\ LocationAt(n) \in Within(LastOf(ServersUpTo(n)), "location", n)
         /\ \A l \in Statements : l < n /\ Depth(l) = 1 /\ l # LocationAt(n) => Same(l, n, p)
<1> DEFINE S == ServersUpTo(n)
           N == Len(ss)
           s == LastOf(S)
           L == LocationAt(n)
<1>1. /\ Tape(_tokens) /\ S # {} /\ Listing(ss) /\ N = Cardinality(S)
      /\ \A m \in 1..N : BlockHolds(ss[m], Listed(ss, loc, block, m), Nth(S, m), n)
      /\ \A k \in Statements : L < k /\ k < n => Depth(k) = 2
      /\ Passes(n, p) /\ n \in Statements /\ Depth(n) = 2
      /\ \A i \in Statements : i < n => Depth(i) \in 0..2
  <2>1. block # "servers" /\ Level(block) = 2
    BY LevelsAre DEF Locations
  <2> QED
    BY <2>1 DEF Holds, Step, Passes, LocationAt
<1>2. N \in 1..N /\ Nth(S, N) = s /\ s \in S
  BY <1>1, ServerPlaces
<1>3. S \subseteq Statements /\ \A i \in S : i < n /\ Depth(i) = 0
  BY <1>1, ServersAreBefore
<1>4. ServersUpTo(p) = S
  <2>1. 2 # 0
    OBVIOUS
  <2> QED
    BY <1>1, <2>1, ServersPassed
<1>5. \A i \in S : Same(i, n, p)
  <2> SUFFICES ASSUME NEW i \in S PROVE Same(i, n, p)
    OBVIOUS
  <2>1. Depth(n) = Depth(i) + 2 /\ Depth(i) \in 0..2 /\ i \in Statements
    <3>1. i \in Statements /\ Depth(i) = 0
      BY <1>3
    <3> QED
      BY <1>1, <3>1
  <2>2. ~Inside(i, n)
    BY <1>1, <2>1, InNone
  <2> QED
    BY <1>1, <2>2, NotInside
<1> HIDE DEF S, N, s
<1>6. LocationAsWritten(loc, L, n) /\ L \in Within(s, "location", n)
  <2>1. BlockHolds(ss[N], Append(ss[N].locations, loc), s, n)
    <3>1. Listed(ss, loc, block, N) = Append(ss[N].locations, loc)
      BY DEF Listed, N
    <3> QED
      BY <1>1, <1>2, <3>1
  <2>2. Listing(ss[N].locations) /\ LocationsAsWritten(Append(ss[N].locations, loc), s, n)
    BY <2>1 DEF BlockHolds
  <2>3. L = LastOf(Within(s, "location", n))
    BY DEF LocationAt, S, s
  <2> QED
    BY <1>1, <2>2, <2>3, LastListed
<1>7. L \in Statements /\ L < n /\ Depth(L) = 1
  <2>1. L \in Statements /\ L < n /\ Depth(L) = Depth(s) + 1
    BY <1>1, <1>6, WithinAre
  <2>2. Depth(s) = 0
    BY <1>2, <1>3
  <2> QED
    BY <2>1, <2>2
<1> HIDE DEF L
<1>8. Inside(L, n) /\ \A l \in Statements : l < n /\ Depth(l) = 1 /\ l # L => ~Inside(l, n)
  BY <1>1, <1>7, InLastLocation
<1>9. Adds(L, Words[n].type, n, p)
  BY <1>1, <1>8, IsInside
<1>10. \A l \in Statements : l < n /\ Depth(l) = 1 /\ l # L => Same(l, n, p)
  BY <1>1, <1>8, NotInside
<1> QED
  BY <1>4, <1>5, <1>6, <1>9, <1>10 DEF L, S, s

\* A location is in one server.
LEMMA InOneServer ==
  ASSUME Tape(_tokens), NEW n, NEW i \in Statements, NEW s \in Statements, i < s,
         Depth(i) = 0, Depth(s) = 0, NEW l \in Within(s, "location", n)
  PROVE  l \notin Within(i, "location", n)
<1> SUFFICES ASSUME l \in Within(i, "location", n) PROVE FALSE
  OBVIOUS
<1>1. s < l /\ l \in 1..Len(Words) /\ \A k \in (i + 1)..l : k \in Statements => Depth(k) > Depth(i)
  BY WithinAre
<1>2. Len(Words) \in Nat /\ i \in 1..Len(Words) /\ s \in 1..Len(Words)
  BY WordsAre
<1>3. s \in (i + 1)..l
  BY ONLY <1>1, <1>2, i < s
<1>4. 0 > 0
  BY <1>1, <1>3
<1> QED
  BY <1>4

\* A directive of a location.
LEMMA HoldsInLocation ==
  ASSUME NEW ss, NEW loc, NEW block \in Locations, NEW n, NEW p, Holds(ss, loc, block, n), Step(block, n, p),
         NEW next \in Locations, NEW new, DOMAIN new = LocationFields,
         LocationAsWritten(new, LocationAt(n), p)
  PROVE  Holds(ss, new, next, p)
<1> DEFINE S == ServersUpTo(n)
           N == Len(ss)
           s == LastOf(S)
           L == LocationAt(n)
<1>1. /\ Tape(_tokens) /\ S # {} /\ Listing(ss) /\ N = Cardinality(S)
      /\ \A m \in 1..N : BlockHolds(ss[m], Listed(ss, loc, block, m), Nth(S, m), n)
      /\ \A k \in Statements : L < k /\ k < n => Depth(k) = 2
      /\ Passes(n, p) /\ n \in Statements /\ Depth(n) = 2
  <2>1. block # "servers" /\ Level(block) = 2
    BY LevelsAre DEF Locations
  <2> QED
    BY <2>1 DEF Holds, Step, Passes, LocationAt
<1>2. /\ ServersUpTo(p) = S
      /\ \A i \in S : Same(i, n, p)
      /\ L \in Within(s, "location", n)
      /\ \A l \in Statements : l < n /\ Depth(l) = 1 /\ l # L => Same(l, n, p)
  BY LocationPlace
<1>3. /\ \A m \in 1..N : /\ Nth(S, m) \in S /\ (m # N => Nth(S, m) < s)
                         /\ m = N => Nth(S, m) = s
      /\ N \in 1..N /\ s \in S
  BY <1>1, ServerPlaces
<1>4. S \subseteq Statements /\ \A i \in S : i < n /\ Depth(i) = 0
  BY <1>1, ServersAreBefore
<1>5. L = LastOf(Within(s, "location", n)) /\ LocationAsWritten(new, L, p)
  BY DEF LocationAt
<1> HIDE DEF S, N, s, L
<1>6. ASSUME NEW i \in S, NEW l \in Within(i, "location", n), l # L PROVE Same(l, n, p)
  <2>1. l \in Statements /\ l < n /\ Depth(l) = Depth(i) + 1
    BY <1>1, WithinAre
  <2>2. Depth(l) = 1
    BY <1>4, <2>1
  <2> QED
    BY <1>2, <1>6, <2>1, <2>2
<1>7. ASSUME NEW m \in 1..N, m # N PROVE BlockHolds(ss[m], ss[m].locations, Nth(S, m), p)
  <2> DEFINE i == Nth(S, m)
  <2>1. i \in S /\ i < s
    BY <1>3, <1>7
  <2>2. L \notin Within(i, "location", n)
    BY <1>1, <1>2, <1>3, <1>4, <2>1, InOneServer
  <2>3. Same(i, n, p) /\ \A l \in Within(i, "location", n) : Same(l, n, p)
    BY <1>2, <1>6, <2>1, <2>2
  <2>4. BlockHolds(ss[m], ss[m].locations, i, n)
    <3>1. Listed(ss, loc, block, m) = ss[m].locations
      BY <1>7 DEF Listed, N
    <3> QED
      BY <1>1, <3>1
  <2> QED
    BY <1>1, <2>3, <2>4, BlockSame
<1>8. BlockHolds(ss[N], Append(ss[N].locations, new), s, p)
  <2>1. BlockHolds(ss[N], Append(ss[N].locations, loc), s, n)
    <3>1. Listed(ss, loc, block, N) = Append(ss[N].locations, loc) /\ Nth(S, N) = s
      BY <1>3 DEF Listed, N
    <3> QED
      BY <1>1, <1>3, <3>1
  <2>2. /\ DOMAIN ss[N] = ServerFields /\ Listing(ss[N].locations)
        /\ ServerAsWritten(ss[N], s, n) /\ LocationsAsWritten(Append(ss[N].locations, loc), s, n)
    BY <2>1 DEF BlockHolds
  <2>3. Same(s, n, p)
    BY <1>2, <1>3
  <2>4. ServerAsWritten(ss[N], s, p)
    BY <2>2, <2>3, ServerSame DEF Same
  <2>5. Within(s, "location", p) = Within(s, "location", n)
    BY <2>3 DEF Same
  <2>6. \A l \in Within(s, "location", n) : l # LastOf(Within(s, "location", n)) => Same(l, n, p)
    BY <1>3, <1>5, <1>6
  <2>7. LocationAsWritten(new, LastOf(Within(s, "location", n)), p)
    BY <1>5
  <2>8. LocationsAsWritten(Append(ss[N].locations, new), s, p)
    BY <1>1, <2>2, <2>5, <2>6, <2>7, LocationsLast
  <2> QED
    BY <2>2, <2>4, <2>8 DEF BlockHolds
<1>9. ASSUME NEW m \in 1..N PROVE BlockHolds(ss[m], Listed(ss, new, next, m), Nth(S, m), p)
  <2>1. CASE m = N
    <3>1. Nth(S, m) = s /\ Listed(ss, new, next, m) = Append(ss[N].locations, new)
      BY <1>3, <2>1 DEF Listed, N
    <3> QED
      BY <1>8, <2>1, <3>1
  <2>2. CASE m # N
    <3>1. Listed(ss, new, next, m) = ss[m].locations
      BY <2>2 DEF Listed, N
    <3> QED
      BY <1>7, <2>2, <3>1
  <2> QED
    BY <2>1, <2>2
<1>10. \A k \in Statements : LastOf(Within(LastOf(S), "location", p)) < k /\ k < p => Depth(k) = 2
  <2> SUFFICES ASSUME NEW k \in Statements, LastOf(Within(LastOf(S), "location", p)) < k, k < p
               PROVE  Depth(k) = 2
    OBVIOUS
  <2>1. L < k
    BY <1>2, <1>3, <1>5 DEF Same, s
  <2>2. k < n \/ k = n
    BY <1>1 DEF Passes
  <2> QED
    BY <1>1, <2>1, <2>2
<1> QED
  BY <1>1, <1>2, <1>9, <1>10 DEF Holds, N

\* A location ends.
LEMMA HoldsEndOfLocation ==
  ASSUME NEW ss, NEW loc, NEW block \in Locations, NEW n, NEW p, Holds(ss, loc, block, n), Step(block, n, p),
         Words[n].type = "}",
         NEW tt, Listing(tt), Len(tt) = Len(ss),
         tt[Len(ss)] = [ss[Len(ss)] EXCEPT !.locations = Append(ss[Len(ss)].locations, loc)],
         \A m \in 1..Len(ss) : m # Len(ss) => tt[m] = ss[m]
  PROVE  Holds(tt, loc, "server", p)
<1>0. Holds(ss, loc, block, n) /\ Step(block, n, p) /\ block \in Locations /\ Words[n].type = "}"
  OBVIOUS
<1>b. /\ ServersUpTo(p) = ServersUpTo(n) /\ LocationAsWritten(loc, LocationAt(n), n)
      /\ Adds(LocationAt(n), Words[n].type, n, p)
  <2>1. /\ ServersUpTo(p) = ServersUpTo(n)
        /\ \A i \in ServersUpTo(n) : Same(i, n, p)
        /\ LocationAsWritten(loc, LocationAt(n), n) /\ Adds(LocationAt(n), Words[n].type, n, p)
        /\ LocationAt(n) \in Within(LastOf(ServersUpTo(n)), "location", n)
        /\ \A l \in Statements : l < n /\ Depth(l) = 1 /\ l # LocationAt(n) => Same(l, n, p)
    BY ONLY <1>0, LocationPlace, Zenon
  <2> QED
    BY ONLY <2>1
<1> DEFINE S == ServersUpTo(n)
           N == Len(ss)
           s == LastOf(S)
           L == LocationAt(n)
           more == Append(ss[N].locations, loc)
           new == [ss[N] EXCEPT !.locations = more]
<1>a. ServersUpTo(p) = S /\ LocationAsWritten(loc, L, n) /\ Adds(L, Words[n].type, n, p)
  BY ONLY <1>b
<1>1. /\ Tape(_tokens) /\ DOMAIN loc = LocationFields /\ LocationAsWritten(loc, L, n)
      /\ Adds(L, "}", n, p) /\ S # {}
  <2>1. block # "servers"
    BY DEF Locations
  <2>2. Tape(_tokens) /\ DOMAIN loc = LocationFields /\ S # {}
    BY ONLY <1>0, <2>1 DEF Holds, Step
  <2> QED
    BY ONLY <1>0, <1>a, <2>2
<1>2. LocationAsWritten(loc, L, p)
  <2>1. \A type : type # "}" => Within(L, type, p) = Within(L, type, n)
    BY <1>1 DEF Adds
  <2> HIDE DEF L
  <2> USE LocationParts
  <2>2. RedirectAs(loc, L, p)
    BY <1>1, <2>1, RedirectStays
  <2>3. ReturnAs(loc, L, p)
    BY <1>1, <2>1, ReturnStays
  <2>4. /\ loc.location = Text(L) /\ RootAs(loc, L, p) /\ IndexAs(loc, L, p)
        /\ AutoindexAs(loc, L, p) /\ UploadAs(loc, L, p) /\ MethodsAs(loc, L, p)
        /\ CgiAs(loc, L, p) /\ CgiPathAs(loc, L, p)
    BY <1>1, <2>1, LocationPartsStay
  <2> QED
    BY <2>2, <2>3, <2>4
<1>3. Holds(ss, loc, "location", p)
  <2>1. "location" \in Locations /\ DOMAIN loc = LocationFields
    BY <1>1 DEF Locations
  <2> QED
    BY ONLY <1>0, <1>2, <2>1, HoldsInLocation
<1>4. ServersUpTo(p) = S
  BY ONLY <1>a
<1> HIDE DEF S, L
<1>5. /\ Listing(ss) /\ N = Cardinality(S) /\ S # {}
      /\ \A m \in 1..N : BlockHolds(ss[m], Listed(ss, loc, "location", m), Nth(S, m), p)
  BY <1>1, <1>3, <1>4 DEF Holds
<1>6. N \in 1..N /\ Nth(S, N) = s
  BY <1>1, <1>4, <1>5, ServerPlaces
<1> HIDE DEF N, s, more
<1>7. BlockHolds(ss[N], more, s, p)
  <2>1. Listed(ss, loc, "location", N) = more
    BY DEF Listed, N, Locations, more
  <2> QED
    BY <1>5, <1>6, <2>1
<1>8. BlockHolds(new, more, s, p) /\ new.locations = more
  <2>1. /\ DOMAIN ss[N] = ServerFields /\ Listing(ss[N].locations)
        /\ ServerAsWritten(ss[N], s, p) /\ LocationsAsWritten(more, s, p)
    BY <1>7 DEF BlockHolds
  <2>2. Listing(more)
    BY <2>1, Appended DEF more
  <2> DEFINE r == ss[N]
  <2>3. DOMAIN r = ServerFields
    BY <2>1
  <2> HIDE DEF r
  <2>4. /\ DOMAIN [r EXCEPT !.locations = more] = ServerFields
        /\ [r EXCEPT !.locations = more].locations = more
        /\ [r EXCEPT !.locations = more].port = r.port
        /\ [r EXCEPT !.locations = more].serverNames = r.serverNames
        /\ [r EXCEPT !.locations = more].clientMaxBodySize = r.clientMaxBodySize
        /\ [r EXCEPT !.locations = more].errorPages = r.errorPages
    BY ONLY <2>3 DEF ServerFields
  <2>5. /\ DOMAIN new = ServerFields /\ new.locations = more
        /\ new.port = r.port /\ new.serverNames = r.serverNames
        /\ new.clientMaxBodySize = r.clientMaxBodySize /\ new.errorPages = r.errorPages
    BY <2>4 DEF r
  <2> HIDE DEF new
  <2>6. ServerAsWritten(r, s, p)
    BY <2>1 DEF r
  <2>7. ServerAsWritten(new, s, p)
    BY <2>5, <2>6, ServerParts, ServerPartsStay
  <2> QED
    BY <2>1, <2>2, <2>5, <2>7 DEF BlockHolds
<1>9. tt[N] = new /\ Len(tt) = N /\ \A m \in 1..N : m # N => tt[m] = ss[m]
  BY DEF N, more
<1> HIDE DEF new
<1>10. ASSUME NEW m \in 1..N PROVE BlockHolds(tt[m], tt[m].locations, Nth(S, m), p)
  <2>1. CASE m = N
    BY <1>6, <1>8, <1>9, <2>1
  <2>2. CASE m # N
    <3>1. Listed(ss, loc, "location", m) = ss[m].locations
      BY <2>2 DEF Listed, N
    <3> QED
      BY <1>5, <1>9, <2>2, <3>1
  <2> QED
    BY <2>1, <2>2
<1>11. "server" \notin Locations
  BY DEF Locations
<1> QED
  BY <1>1, <1>4, <1>5, <1>9, <1>10, <1>11 DEF Holds, Listed

(* The texts of statements.                                                 *)
LEMMA TextsAre ==
  ASSUME Tape(_tokens), NEW n, NEW e, OneStatement(n, e)
  PROVE  /\ Texts(n) \in Seq(Text0) /\ n \in Int /\ e \in Int /\ n + 1 \in Int
         /\ e >= n + 2 => Texts(n) # <<>>
<1> DEFINE t == [k \in 1..(e - n - 1) |-> Words[n + k].value]
           S == [type : Types, value : Text0]
<1>1. End(n) = e /\ n \in Statements /\ e \in Ends /\ n <= e
  BY StatementIs DEF OneStatement
<1>2. /\ Len(Words) \in Nat /\ n \in 1..Len(Words) /\ e \in 1..Len(Words) /\ Words \in Seq(S)
  BY <1>1, WordsAre
<1>3. Texts(n) = t
  BY <1>1 DEF Texts
<1>4. n \in Int /\ e \in Int /\ n + 1 \in Int /\ e - n - 1 \in Int /\ (e >= n + 2 => e - n - 1 >= 1)
  BY ONLY <1>2
<1>5. \A k \in 1..(e - n - 1) : n + k \in 1..Len(Words)
  BY ONLY <1>2
<1>6. \A i \in 1..Len(Words) : Words[i] \in S
  <2> HIDE DEF S
  <2> QED
    BY ONLY <1>2
<1>7. \A i \in 1..Len(Words) : Words[i].value \in Text0
  BY <1>6
<1>8. t \in [1..(e - n - 1) -> Text0]
  BY <1>5, <1>7
<1> HIDE DEF t
<1>9. CASE e - n - 1 >= 0
  <2>1. e - n - 1 \in Nat
    BY ONLY <1>4, <1>9
  <2>2. t \in Seq(Text0) /\ Len(t) = e - n - 1
    BY ONLY <1>8, <2>1, SeqOfLength
  <2>3. e >= n + 2 => t # <<>>
    BY ONLY <1>4, <2>2
  <2> QED
    BY <1>3, <1>4, <2>2, <2>3
<1>10. CASE ~ (e - n - 1 >= 0)
  <2>1. 1..(e - n - 1) = 1..0 /\ ~ (e >= n + 2)
    BY ONLY <1>4, <1>10
  <2>2. t \in [1..0 -> Text0]
    BY <1>8, <2>1
  <2>3. t \in Seq(Text0)
    BY ONLY <2>2, SeqOfLength
  <2> QED
    BY <1>3, <1>4, <2>1, <2>3
<1> QED
  BY <1>9, <1>10

\* Those of some directives have one word at least.
LEMMA TextsFilled ==
  ASSUME Tape(_tokens), NEW n \in Statements, LegalStatement(n), Words[n].type \in {"return", "error_page"}
  PROVE  Texts(n) \in Seq(Text0) /\ Texts(n) # <<>>
<1>1. PICK e \in Int : OneStatement(n, e)
  BY StatementEnds
<1>2. /\ Texts(n) \in Seq(Text0) /\ n \in Int /\ n + 1 \in Int
      /\ e >= n + 2 => Texts(n) # <<>>
  BY <1>1, TextsAre
<1>3. Words[n].type = _tokens[n].type
  BY WordsAre
<1>4. PICK block \in {"servers", "server", "cgi"} : Level(block) = Depth(n)
  <2>1. Depth(n) \in {0, 1, 2}
    <3>1. Depth(n) \in 0..2
      BY DEF LegalStatement
    <3> QED
      BY ONLY <3>1
  <2> QED
    BY <2>1, LevelsAre
<1>5. Accepts(block, n, e)
  <2>1. Shape(n) \in Grammar[Level(block) + 1] /\ block \in Blocks
    BY <1>4 DEF LegalStatement, Blocks
  <2> QED
    BY <1>1, <1>4, <2>1, GrammarOf
<1>6. e >= n + 2
  <2> DEFINE d == _tokens[n].type
             a == n + 1
  <2>1. d \in DOMAIN Consumes[block] /\ Fits(Consumes[block][d], a, e)
    BY <1>5 DEF Accepts
  <2>2. d \in {"return", "error_page"} /\ a \in Int
    BY <1>2, <1>3
  <2> HIDE DEF d, a
  <2>3. block # "servers"
    BY <2>1, <2>2, ListsAre
  <2>4. ASSUME NEW z \in Int, a <= z PROVE z + 1 >= n + 2 /\ z >= n + 1
    BY ONLY <1>2, <2>4 DEF a
  <2>5. CASE block = "server"
    <3>1. d = "error_page"
      BY <2>1, <2>2, <2>5, ListsAre
    <3>2. RunThenTwo("NUMBER", a, e, "STRING", ";")
      BY <2>1, <2>2, <2>5, <3>1, ServerListsFit
    <3>3. a <= e - 1
      BY <3>2 DEF RunThenTwo, Run
    <3> QED
      BY ONLY <1>2, <3>3 DEF a
  <2>6. CASE block = "cgi" /\ d = "error_page"
    <3>1. ThreeWords(a, e, "NUMBER", "STRING", ";")
      BY <2>1, <2>2, <2>6, LocationListsFit
    <3>2. e = a + 2
      BY <3>1 DEF ThreeWords
    <3> QED
      BY ONLY <1>2, <3>2 DEF a
  <2>7. CASE block = "cgi" /\ d = "return"
    <3>1. WordRunThen("NUMBER", a, "STRING", e, ";")
      BY <2>1, <2>2, <2>7, LocationListsFit
    <3>2. a + 1 <= e
      BY <3>1 DEF WordRunThen, RunThen, Run
    <3> QED
      BY ONLY <1>2, <3>2 DEF a
  <2> QED
    BY <1>4, <2>2, <2>3, <2>5, <2>6, <2>7
<1> QED
  BY <1>2, <1>6

\* The step that is made when a directive has been read.
ReadAll(n) ==
  /\ Step(phase, n, _index) /\ n \in Statements /\ Words[n].type = directive /\ values = Texts(n)
  /\ \A i \in Statements : i < _index => LegalStatement(i)
  /\ LegalStatement(n)

\* Every directive that has been read makes such a step.
LEMMA ReadStep ==
  ASSUME IInv, NEW n, Syntax(n), phase \in Blocks, directive # "", expected = <<>>,
         directive = "cgi" => values[1] \in {"on", "off"}
  PROVE  ReadAll(n)
<1> DEFINE e == _index - 1
<1>1. Tape(_tokens) /\ Len(Words) \in Nat /\ _index \in 1..(Len(Words) + 1)
  BY PlaceIs
<1>2. /\ OneStatement(n, e) /\ values = Texts(n) /\ Words[n].type = directive
      /\ n \in Statements /\ n \in 1..Len(Words) /\ _index > 1
      /\ \A i \in Statements : i < _index => LegalStatement(i)
  BY StatementRead
<1>3. e + 1 = _index
  BY ONLY <1>1
<1> HIDE DEF e
<1>4. \A i \in Statements : i < e + 1 <=> i < n \/ i = n
  BY <1>1, <1>2, StatementIs
<1>5. Passes(n, _index)
  BY <1>2, <1>3, <1>4 DEF Passes
<1>6. Depth(n) = Level(phase)
  BY DEF Syntax, ReadTo
<1>7. \A i \in Statements : i < n => i < _index
  BY <1>3, <1>4
<1>8. \A i \in Statements : i < n => Depth(i) \in 0..2
  BY <1>2, <1>7 DEF LegalStatement
<1>9. n < _index
  BY <1>2, <1>3, <1>4
<1> QED
  BY <1>1, <1>2, <1>5, <1>6, <1>8, <1>9 DEF ReadAll, Step

\* The server whose directives are being read.
LEMMA CurrentHolds ==
  ASSUME NEW n, NEW p, Holds(_servers, location, "server", n), Step("server", n, p)
  PROVE  /\ Listing(_servers) /\ Len(_servers) # 0 /\ Current = _servers[Len(_servers)]
         /\ DOMAIN Current = ServerFields
         /\ ServerAsWritten(Current, LastOf(ServersUpTo(n)), n)
         /\ Adds(LastOf(ServersUpTo(n)), Words[n].type, n, p)
<1> DEFINE S == ServersUpTo(n)
           N == Len(_servers)
<1>1. /\ Tape(_tokens) /\ S # {} /\ Listing(_servers) /\ N = Cardinality(S)
      /\ \A m \in 1..N : BlockHolds(_servers[m], _servers[m].locations, Nth(S, m), n)
  BY DEF Holds, Listed, Locations, Step
<1>2. N # 0 /\ N \in 1..N /\ Nth(S, N) = LastOf(S)
  BY <1>1, ServerPlaces
<1>3. Current = _servers[N]
  BY DEF Current, Last
<1>4. BlockHolds(_servers[N], _servers[N].locations, LastOf(S), n)
  BY <1>1, <1>2
<1>5. DOMAIN Current = ServerFields /\ ServerAsWritten(Current, LastOf(S), n)
  BY <1>3, <1>4 DEF BlockHolds
<1>6. Adds(LastOf(S), Words[n].type, n, p)
  BY ServerPlace
<1> QED
  BY <1>1, <1>2, <1>3, <1>5, <1>6

\* It is replaced by one that says what the directive adds.
LEMMA ServerBecomes ==
  ASSUME NEW n, Holds(_servers, location, "server", n), ReadAll(n), phase = "server",
         directive # "location", UNCHANGED <<phase, location>>,
         NEW new, Becomes(new), DOMAIN new = ServerFields, new.locations = Current.locations,
         ServerAsWritten(new, LastOf(ServersUpTo(n)), _index)
  PROVE  Holds(_servers', location', phase', _index)
<1>1. Step("server", n, _index) /\ Words[n].type # "location"
  BY DEF ReadAll
<1>2. Listing(_servers) /\ Len(_servers) # 0 /\ Current = _servers[Len(_servers)]
  BY <1>1, CurrentHolds
<1>3. PICK tt : tt = _servers'
  OBVIOUS
<1>4. /\ Listing(tt) /\ Len(tt) = Len(_servers) /\ tt[Len(_servers)] = new
      /\ \A k \in 1..Len(_servers) : k # Len(_servers) => tt[k] = _servers[k]
  BY <1>2, <1>3, LastChanged DEF Becomes
<1>5. new.locations = _servers[Len(_servers)].locations /\ "server" \in {"server", "servers"}
  BY <1>2
<1>6. Holds(tt, location, "server", _index)
  BY <1>1, <1>4, <1>5, HoldsInServer
<1> QED
  BY <1>3, <1>6

\* What each directive of a server makes of it.
LEMMA ServerDirectiveHolds ==
  ASSUME NEW n, Holds(_servers, location, phase, n), ReadAll(n),
         \/ parseListenDirective \/ parseServerNameDirective
         \/ parseErrorPageDirective \/ parseClientMaxBodySizeDirective
  PROVE  Holds(_servers', location', phase', _index)
<1> DEFINE i == LastOf(ServersUpTo(n))
           old == Current
<1>1. phase = "server" /\ UNCHANGED <<phase, location>> /\ directive # "location"
  BY DEF InServer, Read, parseListenDirective, parseServerNameDirective,
       parseErrorPageDirective, parseClientMaxBodySizeDirective
<1>2. /\ Step("server", n, _index) /\ Words[n].type = directive /\ values = Texts(n)
      /\ n \in Statements /\ LegalStatement(n) /\ Tape(_tokens)
  BY <1>1 DEF ReadAll, Step
<1>3. DOMAIN old = ServerFields /\ ServerAsWritten(old, i, n) /\ Adds(i, directive, n, _index)
  BY <1>1, <1>2, CurrentHolds
<1>4. PortAs(old, i, n) /\ NamesAs(old, i, n) /\ SizeAs(old, i, n) /\ PagesAs(old, i, n)
  BY <1>3, ServerParts
<1>5. \A type : type # directive => Within(i, type, _index) = Within(i, type, n)
  BY <1>3 DEF Adds
<1> HIDE DEF i
<1>6. ASSUME NEW b
      PROVE  /\ directive # "listen" /\ b.port = old.port => PortAs(b, i, _index)
             /\ directive # "server_name" /\ b.serverNames = old.serverNames => NamesAs(b, i, _index)
             /\ directive # "client_max_body_size" /\ b.clientMaxBodySize = old.clientMaxBodySize =>
                  SizeAs(b, i, _index)
             /\ directive # "error_page" /\ b.errorPages = old.errorPages => PagesAs(b, i, _index)
  BY <1>4, <1>5, ServerPartsStay
<1>7. ASSUME NEW new, Becomes(new), DOMAIN new = ServerFields, new.locations = old.locations,
             PortAs(new, i, _index), NamesAs(new, i, _index), SizeAs(new, i, _index), PagesAs(new, i, _index)
      PROVE  Holds(_servers', location', phase', _index)
  <2>1. ServerAsWritten(new, LastOf(ServersUpTo(n)), _index)
    BY <1>7, ServerParts DEF i
  <2> QED
    BY <1>1, <1>7, <2>1, ServerBecomes
<1> HIDE DEF old
<1>8. CASE parseListenDirective
  <2> DEFINE new == [Current EXCEPT !.host = "0.0.0.0",
                                    !.port = IF Number(1) > UINT16_MAX THEN UINT16_MAX ELSE Number(1)]
             v == IF Number(1) > UINT16_MAX THEN UINT16_MAX ELSE Number(1)
  <2>1. directive = "listen" /\ Becomes(new)
    BY <1>8 DEF parseListenDirective, InServer, Read
  <2>2. v = (IF Amount(n) > UINT16_MAX THEN UINT16_MAX ELSE Amount(n))
    BY <1>2 DEF Number, Amount
  <2>3. new = [old EXCEPT !.host = "0.0.0.0", !.port = v]
    BY DEF old
  <2> HIDE DEF new, v
  <2>4. /\ DOMAIN new = ServerFields /\ new.locations = old.locations /\ new.port = v
        /\ new.serverNames = old.serverNames /\ new.clientMaxBodySize = old.clientMaxBodySize
        /\ new.errorPages = old.errorPages
    BY ONLY <1>3, <2>3 DEF ServerFields
  <2>5. PortAs(new, i, _index)
    BY <1>3, <2>1, <2>2, <2>4, ServerPartsSet
  <2> QED
    BY <1>6, <1>7, <2>1, <2>4, <2>5
<1>9. CASE parseServerNameDirective
  <2> DEFINE new == [Current EXCEPT !.serverNames = values]
  <2>1. directive = "server_name" /\ Becomes(new)
    BY <1>9 DEF parseServerNameDirective, InServer, Read
  <2>3. new = [old EXCEPT !.serverNames = values]
    BY DEF old
  <2> HIDE DEF new
  <2>4. /\ DOMAIN new = ServerFields /\ new.locations = old.locations /\ new.port = old.port
        /\ new.serverNames = values /\ new.clientMaxBodySize = old.clientMaxBodySize
        /\ new.errorPages = old.errorPages
    BY ONLY <1>3, <2>3 DEF ServerFields
  <2>5. NamesAs(new, i, _index)
    BY <1>2, <1>3, <2>1, <2>4, ServerPartsSet
  <2> QED
    BY <1>6, <1>7, <2>1, <2>4, <2>5
<1>10. CASE parseErrorPageDirective
  <2> DEFINE v == WithAll(old.errorPages, {Short(Number(k)) : k \in 1..(Len(values) - 1)}, Last(values))
             new == [Current EXCEPT !.errorPages = v]
  <2>1. directive = "error_page" /\ Becomes(new)
    BY <1>10 DEF parseErrorPageDirective, InServer, Read, old
  <2>2. Codes(n) \subseteq SHRT_MIN..SHRT_MAX => v = WithAll(old.errorPages, Codes(n), Last(Texts(n)))
    <3>1. Texts(n) \in Seq(Text0) /\ Texts(n) # <<>>
      BY <1>2, <2>1, TextsFilled
    <3>2. Codes(n) = {Numbers[Texts(n)[k]] : k \in 1..(Len(Texts(n)) - 1)}
      BY <3>1, CodesAre
    <3>3. Codes(n) = {Number(k) : k \in 1..(Len(values) - 1)}
      BY <1>2, <3>2 DEF Number
    <3>4. ASSUME Codes(n) \subseteq SHRT_MIN..SHRT_MAX
          PROVE  {Short(Number(k)) : k \in 1..(Len(values) - 1)} = {Number(k) : k \in 1..(Len(values) - 1)}
      <4>1. \A k \in 1..(Len(values) - 1) : Number(k) \in SHRT_MIN..SHRT_MAX
        BY <3>3, <3>4
      <4>2. \A k \in 1..(Len(values) - 1) : Short(Number(k)) = Number(k)
        BY <4>1, ShortIs
      <4> QED
        BY <4>2
    <3> QED
      BY <1>2, <3>3, <3>4
  <2>3. new = [old EXCEPT !.errorPages = v]
    BY DEF old
  <2> HIDE DEF new, v
  <2>4. /\ DOMAIN new = ServerFields /\ new.locations = old.locations /\ new.port = old.port
        /\ new.serverNames = old.serverNames /\ new.clientMaxBodySize = old.clientMaxBodySize
        /\ new.errorPages = v
    BY ONLY <1>3, <2>3 DEF ServerFields
  <2>5. PagesAs(new, i, _index)
    BY <1>2, <1>3, <1>4, <2>1, <2>2, <2>4, PagesSet
  <2> QED
    BY <1>6, <1>7, <2>1, <2>4, <2>5
<1>11. CASE parseClientMaxBodySizeDirective
  <2> DEFINE v == Number(1) * Sizes[Value(2)]
             new == [Current EXCEPT !.clientMaxBodySize = v]
  <2>1. directive = "client_max_body_size" /\ Becomes(new)
    BY <1>11 DEF parseClientMaxBodySizeDirective, InServer, Read
  <2>2. v = Bytes(n)
    BY <1>2 DEF Number, Amount, Value, Bytes, Unit
  <2>3. new = [old EXCEPT !.clientMaxBodySize = v]
    BY DEF old
  <2> HIDE DEF new, v
  <2>4. /\ DOMAIN new = ServerFields /\ new.locations = old.locations /\ new.port = old.port
        /\ new.serverNames = old.serverNames /\ new.clientMaxBodySize = v
        /\ new.errorPages = old.errorPages
    BY ONLY <1>3, <2>3 DEF ServerFields
  <2>5. SizeAs(new, i, _index)
    BY <1>3, <2>1, <2>2, <2>4, ServerPartsSet
  <2> QED
    BY <1>6, <1>7, <2>1, <2>4, <2>5
<1> QED
  BY <1>8, <1>9, <1>10, <1>11

\* The location whose directives are being read.
LEMMA LocationBecomes ==
  ASSUME NEW n, Holds(_servers, location, phase, n), ReadAll(n), phase \in Locations,
         phase' \in Locations, UNCHANGED _servers,
         NEW new, location' = new, DOMAIN new = LocationFields,
         LocationAsWritten(new, LocationAt(n), _index)
  PROVE  Holds(_servers', location', phase', _index)
<1>1. Step(phase, n, _index)
  BY DEF ReadAll
<1>2. PICK next : next = phase'
  OBVIOUS
<1>3. next \in Locations
  BY <1>2
<1>4. Holds(_servers, new, next, _index)
  BY <1>1, <1>3, HoldsInLocation
<1> QED
  BY <1>2, <1>4

\* A directive of one kind leaves what the others make.
LEMMA OthersStay ==
  ASSUME NEW loc, NEW i, NEW n, NEW p, NEW d, LocationAsWritten(loc, i, n), Adds(i, d, n, p), NEW b
  PROVE  /\ b.location = loc.location => b.location = Text(i)
         /\ d # "root" /\ b.root = loc.root => RootAs(b, i, p)
         /\ d # "index" /\ b.index = loc.index => IndexAs(b, i, p)
         /\ d # "autoindex" /\ b.autoindex = loc.autoindex => AutoindexAs(b, i, p)
         /\ d # "upload_store" /\ b.uploadStore = loc.uploadStore => UploadAs(b, i, p)
         /\ d # "allowed_methods" /\ b.allowedMethods = loc.allowedMethods => MethodsAs(b, i, p)
         /\ d # "cgi" /\ b.useCgi = loc.useCgi => CgiAs(b, i, p)
         /\ d # "cgi_path" /\ b.cgiPath = loc.cgiPath => CgiPathAs(b, i, p)
         /\ d # "redirect" /\ b.isRedirect = loc.isRedirect /\ b.redirectUrl = loc.redirectUrl
              /\ b.redirectCode = loc.redirectCode /\ b.isRedirectPermanent = loc.isRedirectPermanent =>
              RedirectAs(b, i, p)
         /\ d # "return" /\ b.has_return = loc.has_return /\ b.return_code = loc.return_code
              /\ b.return_message = loc.return_message => ReturnAs(b, i, p)
<1>1. \A type : type # d => Within(i, type, p) = Within(i, type, n)
  BY DEF Adds
<1>2. /\ loc.location = Text(i) /\ RootAs(loc, i, n) /\ IndexAs(loc, i, n)
      /\ AutoindexAs(loc, i, n) /\ UploadAs(loc, i, n) /\ MethodsAs(loc, i, n)
      /\ CgiAs(loc, i, n) /\ CgiPathAs(loc, i, n)
      /\ RedirectAs(loc, i, n) /\ ReturnAs(loc, i, n)
  BY LocationParts
<1>3. d # "redirect" /\ b.isRedirect = loc.isRedirect /\ b.redirectUrl = loc.redirectUrl
        /\ b.redirectCode = loc.redirectCode /\ b.isRedirectPermanent = loc.isRedirectPermanent =>
        RedirectAs(b, i, p)
  BY <1>1, <1>2, RedirectStays
<1>4. d # "return" /\ b.has_return = loc.has_return /\ b.return_code = loc.return_code
        /\ b.return_message = loc.return_message => ReturnAs(b, i, p)
  BY <1>1, <1>2, ReturnStays
<1>5. /\ d # "root" /\ b.root = loc.root => RootAs(b, i, p)
      /\ d # "index" /\ b.index = loc.index => IndexAs(b, i, p)
      /\ d # "autoindex" /\ b.autoindex = loc.autoindex => AutoindexAs(b, i, p)
      /\ d # "upload_store" /\ b.uploadStore = loc.uploadStore => UploadAs(b, i, p)
      /\ d # "allowed_methods" /\ b.allowedMethods = loc.allowedMethods => MethodsAs(b, i, p)
      /\ d # "cgi" /\ b.useCgi = loc.useCgi => CgiAs(b, i, p)
      /\ d # "cgi_path" /\ b.cgiPath = loc.cgiPath => CgiPathAs(b, i, p)
  BY <1>1, <1>2, LocationPartsStay
<1> QED
  BY <1>2, <1>3, <1>4, <1>5

\* What each directive of a location makes of it.
LEMMA LocationDirectiveHolds ==
  ASSUME NEW n, Holds(_servers, location, phase, n), ReadAll(n),
         \/ Root \/ Index \/ Autoindex \/ AllowedMethods \/ IgnoredErrorPage
         \/ parseUploadStoreDirective \/ parseRedirectDirective \/ parseReturnDirective
         \/ parseCgiDirective \/ CgiPath
  PROVE  Holds(_servers', location', phase', _index)
<1> DEFINE i == LocationAt(n)
           old == location
<1>1. phase \in Locations /\ phase' \in Locations /\ UNCHANGED _servers
  BY DEF Sets, Read, Root, Index, Autoindex, AllowedMethods, IgnoredErrorPage, Locations,
       parseUploadStoreDirective, parseRedirectDirective, parseReturnDirective,
       parseCgiDirective, CgiPath
<1>2. /\ Step(phase, n, _index) /\ Words[n].type = directive /\ values = Texts(n)
      /\ n \in Statements /\ Tape(_tokens) /\ \A j \in Statements : j < _index => LegalStatement(j)
  BY DEF ReadAll, Step
<1>3. LocationAsWritten(old, i, n) /\ Adds(i, directive, n, _index)
  BY <1>1, <1>2, LocationPlace
<1>4. DOMAIN old = LocationFields
  BY DEF Holds
<1> HIDE DEF i, old
<1>5. Text(n) = Value(1) /\ Texts(n) = values /\ Amount(n) = Number(1)
  BY <1>2 DEF Text, Value, Amount, Number
<1>6. ASSUME NEW new, location' = new, DOMAIN new = LocationFields, new.location = Text(i),
             RootAs(new, i, _index), IndexAs(new, i, _index), AutoindexAs(new, i, _index),
             UploadAs(new, i, _index), MethodsAs(new, i, _index), CgiAs(new, i, _index),
             CgiPathAs(new, i, _index), RedirectAs(new, i, _index), ReturnAs(new, i, _index)
      PROVE  Holds(_servers', location', phase', _index)
  <2>1. LocationAsWritten(new, LocationAt(n), _index)
    BY <1>6, LocationParts DEF i
  <2> QED
    BY <1>1, <1>6, <2>1, LocationBecomes
<1>7. CASE Root
  <2> DEFINE new == [old EXCEPT !.root = Value(1)]
  <2>1. directive = "root" /\ location' = new
    BY <1>7 DEF Root, Sets, Read, old
  <2>2. new = [old EXCEPT !.root = Value(1)]
    OBVIOUS
  <2> HIDE DEF new
  <2>3. /\ DOMAIN new = LocationFields /\ new.location = old.location
        /\ new.allowedMethods = old.allowedMethods /\ new.root = Value(1)
        /\ new.autoindex = old.autoindex /\ new.index = old.index
        /\ new.isRedirect = old.isRedirect /\ new.redirectUrl = old.redirectUrl
        /\ new.isRedirectPermanent = old.isRedirectPermanent /\ new.redirectCode = old.redirectCode
        /\ new.useCgi = old.useCgi /\ new.cgiPath = old.cgiPath
        /\ new.uploadStore = old.uploadStore /\ new.has_return = old.has_return
        /\ new.return_code = old.return_code /\ new.return_message = old.return_message
    BY ONLY <1>4, <2>2 DEF LocationFields
  <2>4. RootAs(new, i, _index)
    BY <1>3, <1>5, <2>1, <2>3, LocationPartsSet
  <2> QED
    BY <1>3, <1>6, <2>1, <2>3, <2>4, OthersStay
<1>8. CASE Index
  <2> DEFINE new == [old EXCEPT !.index = Value(1)]
  <2>1. directive = "index" /\ location' = new
    BY <1>8 DEF Index, Sets, Read, old
  <2>2. new = [old EXCEPT !.index = Value(1)]
    OBVIOUS
  <2> HIDE DEF new
  <2>3. /\ DOMAIN new = LocationFields /\ new.location = old.location
        /\ new.allowedMethods = old.allowedMethods /\ new.root = old.root
        /\ new.autoindex = old.autoindex /\ new.index = Value(1)
        /\ new.isRedirect = old.isRedirect /\ new.redirectUrl = old.redirectUrl
        /\ new.isRedirectPermanent = old.isRedirectPermanent /\ new.redirectCode = old.redirectCode
        /\ new.useCgi = old.useCgi /\ new.cgiPath = old.cgiPath
        /\ new.uploadStore = old.uploadStore /\ new.has_return = old.has_return
        /\ new.return_code = old.return_code /\ new.return_message = old.return_message
    BY ONLY <1>4, <2>2 DEF LocationFields
  <2>4. IndexAs(new, i, _index)
    BY <1>3, <1>5, <2>1, <2>3, LocationPartsSet
  <2> QED
    BY <1>3, <1>6, <2>1, <2>3, <2>4, OthersStay
<1>9. CASE Autoindex
  <2> DEFINE new == [old EXCEPT !.autoindex = (Value(1) = "on")]
  <2>1. directive = "autoindex" /\ location' = new
    BY <1>9 DEF Autoindex, Sets, Read, old
  <2>2. new = [old EXCEPT !.autoindex = (Value(1) = "on")]
    OBVIOUS
  <2> HIDE DEF new
  <2>3. /\ DOMAIN new = LocationFields /\ new.location = old.location
        /\ new.allowedMethods = old.allowedMethods /\ new.root = old.root
        /\ new.autoindex = (Value(1) = "on") /\ new.index = old.index
        /\ new.isRedirect = old.isRedirect /\ new.redirectUrl = old.redirectUrl
        /\ new.isRedirectPermanent = old.isRedirectPermanent /\ new.redirectCode = old.redirectCode
        /\ new.useCgi = old.useCgi /\ new.cgiPath = old.cgiPath
        /\ new.uploadStore = old.uploadStore /\ new.has_return = old.has_return
        /\ new.return_code = old.return_code /\ new.return_message = old.return_message
    BY ONLY <1>4, <2>2 DEF LocationFields
  <2>4. AutoindexAs(new, i, _index)
    BY <1>3, <1>5, <2>1, <2>3, LocationPartsSet
  <2> QED
    BY <1>3, <1>6, <2>1, <2>3, <2>4, OthersStay
<1>10. CASE AllowedMethods
  <2> DEFINE new == [old EXCEPT !.allowedMethods = values]
  <2>1. directive = "allowed_methods" /\ location' = new
    BY <1>10 DEF AllowedMethods, Sets, Read, old
  <2>2. new = [old EXCEPT !.allowedMethods = values]
    OBVIOUS
  <2> HIDE DEF new
  <2>3. /\ DOMAIN new = LocationFields /\ new.location = old.location
        /\ new.allowedMethods = values /\ new.root = old.root
        /\ new.autoindex = old.autoindex /\ new.index = old.index
        /\ new.isRedirect = old.isRedirect /\ new.redirectUrl = old.redirectUrl
        /\ new.isRedirectPermanent = old.isRedirectPermanent /\ new.redirectCode = old.redirectCode
        /\ new.useCgi = old.useCgi /\ new.cgiPath = old.cgiPath
        /\ new.uploadStore = old.uploadStore /\ new.has_return = old.has_return
        /\ new.return_code = old.return_code /\ new.return_message = old.return_message
    BY ONLY <1>4, <2>2 DEF LocationFields
  <2>4. MethodsAs(new, i, _index)
    BY <1>3, <1>5, <2>1, <2>3, LocationPartsSet
  <2> QED
    BY <1>3, <1>6, <2>1, <2>3, <2>4, OthersStay
<1>11. CASE parseUploadStoreDirective
  <2> DEFINE new == [old EXCEPT !.uploadStore = Value(1)]
  <2>1. directive = "upload_store" /\ location' = new
    BY <1>11 DEF parseUploadStoreDirective, Sets, Read, old
  <2>2. new = [old EXCEPT !.uploadStore = Value(1)]
    OBVIOUS
  <2> HIDE DEF new
  <2>3. /\ DOMAIN new = LocationFields /\ new.location = old.location
        /\ new.allowedMethods = old.allowedMethods /\ new.root = old.root
        /\ new.autoindex = old.autoindex /\ new.index = old.index
        /\ new.isRedirect = old.isRedirect /\ new.redirectUrl = old.redirectUrl
        /\ new.isRedirectPermanent = old.isRedirectPermanent /\ new.redirectCode = old.redirectCode
        /\ new.useCgi = old.useCgi /\ new.cgiPath = old.cgiPath
        /\ new.uploadStore = Value(1) /\ new.has_return = old.has_return
        /\ new.return_code = old.return_code /\ new.return_message = old.return_message
    BY ONLY <1>4, <2>2 DEF LocationFields
  <2>4. UploadAs(new, i, _index)
    BY <1>3, <1>5, <2>1, <2>3, LocationPartsSet
  <2> QED
    BY <1>3, <1>6, <2>1, <2>3, <2>4, OthersStay
<1>12. CASE parseCgiDirective
  <2> DEFINE new == [old EXCEPT !.useCgi = (Value(1) = "on")]
  <2>1. directive = "cgi" /\ location' = new
    BY <1>12 DEF parseCgiDirective, Read, old
  <2>2. new = [old EXCEPT !.useCgi = (Value(1) = "on")]
    OBVIOUS
  <2> HIDE DEF new
  <2>3. /\ DOMAIN new = LocationFields /\ new.location = old.location
        /\ new.allowedMethods = old.allowedMethods /\ new.root = old.root
        /\ new.autoindex = old.autoindex /\ new.index = old.index
        /\ new.isRedirect = old.isRedirect /\ new.redirectUrl = old.redirectUrl
        /\ new.isRedirectPermanent = old.isRedirectPermanent /\ new.redirectCode = old.redirectCode
        /\ new.useCgi = (Value(1) = "on") /\ new.cgiPath = old.cgiPath
        /\ new.uploadStore = old.uploadStore /\ new.has_return = old.has_return
        /\ new.return_code = old.return_code /\ new.return_message = old.return_message
    BY ONLY <1>4, <2>2 DEF LocationFields
  <2>4. CgiAs(new, i, _index)
    BY <1>3, <1>5, <2>1, <2>3, LocationPartsSet
  <2> QED
    BY <1>3, <1>6, <2>1, <2>3, <2>4, OthersStay
<1>13. CASE CgiPath
  <2> DEFINE new == [old EXCEPT !.cgiPath = Value(1)]
  <2>1. directive = "cgi_path" /\ location' = new
    BY <1>13 DEF CgiPath, Read, old
  <2>2. new = [old EXCEPT !.cgiPath = Value(1)]
    OBVIOUS
  <2> HIDE DEF new
  <2>3. /\ DOMAIN new = LocationFields /\ new.location = old.location
        /\ new.allowedMethods = old.allowedMethods /\ new.root = old.root
        /\ new.autoindex = old.autoindex /\ new.index = old.index
        /\ new.isRedirect = old.isRedirect /\ new.redirectUrl = old.redirectUrl
        /\ new.isRedirectPermanent = old.isRedirectPermanent /\ new.redirectCode = old.redirectCode
        /\ new.useCgi = old.useCgi /\ new.cgiPath = Value(1)
        /\ new.uploadStore = old.uploadStore /\ new.has_return = old.has_return
        /\ new.return_code = old.return_code /\ new.return_message = old.return_message
    BY ONLY <1>4, <2>2 DEF LocationFields
  <2>4. CgiPathAs(new, i, _index)
    BY <1>3, <1>5, <2>1, <2>3, LocationPartsSet
  <2> QED
    BY <1>3, <1>6, <2>1, <2>3, <2>4, OthersStay
<1>14. CASE IgnoredErrorPage
  <2> DEFINE new == old
  <2>1. directive = "error_page" /\ location' = new
    BY <1>14 DEF IgnoredErrorPage, Sets, Read, old
  <2> QED
    BY <1>3, <1>4, <1>6, <2>1, OthersStay
<1>15. CASE parseRedirectDirective
  <2> DEFINE code == IF Len(values) = 2 THEN Number(1) ELSE 302
             new == [old EXCEPT !.isRedirect = TRUE, !.redirectUrl = Last(values),
                                !.redirectCode = code, !.isRedirectPermanent = (code = 301)]
  <2>1. directive = "redirect" /\ location' = new
    BY <1>15 DEF parseRedirectDirective, Sets, Read, old
  <2>2. new = [old EXCEPT !.isRedirect = TRUE, !.redirectUrl = Last(values),
                          !.redirectCode = code, !.isRedirectPermanent = (code = 301)]
    OBVIOUS
  <2>a. code = RedirectsTo(n) /\ Last(values) = Last(Texts(n))
    BY <1>5 DEF RedirectsTo
  <2> HIDE DEF new, code
  <2>3. /\ DOMAIN new = LocationFields /\ new.location = old.location
        /\ new.allowedMethods = old.allowedMethods /\ new.root = old.root
        /\ new.autoindex = old.autoindex /\ new.index = old.index
        /\ new.isRedirect = TRUE /\ new.redirectUrl = Last(values)
        /\ new.isRedirectPermanent = (code = 301) /\ new.redirectCode = code
        /\ new.useCgi = old.useCgi /\ new.cgiPath = old.cgiPath
        /\ new.uploadStore = old.uploadStore /\ new.has_return = old.has_return
        /\ new.return_code = old.return_code /\ new.return_message = old.return_message
    BY ONLY <1>4, <2>2 DEF LocationFields
  <2>4. RedirectAs(new, i, _index)
    <3>1. /\ new.isRedirect = TRUE /\ new.redirectUrl = Last(Texts(n))
          /\ new.redirectCode = RedirectsTo(n)
      BY ONLY <2>a, <2>3
    <3>2. new.isRedirectPermanent = (RedirectsTo(n) = 301)
      BY ONLY <2>a, <2>3, Zenon
    <3>3. Adds(i, "redirect", n, _index)
      BY <1>3, <2>1
    <3> QED
      BY ONLY <3>1, <3>2, <3>3, RedirectSet
  <2> QED
    BY <1>3, <1>6, <2>1, <2>3, <2>4, OthersStay
<1>16. CASE parseReturnDirective
  <2> DEFINE message == old.return_message \o Tail(values)
             new == [old EXCEPT !.has_return = TRUE, !.return_code = Number(1),
                                !.return_message = message]
  <2>1. directive = "return" /\ location' = new
    BY <1>16 DEF parseReturnDirective, Sets, Read, old
  <2>2. new = [old EXCEPT !.has_return = TRUE, !.return_code = Number(1),
                          !.return_message = message]
    OBVIOUS
  <2>a. message = old.return_message \o Tail(Texts(n))
    BY <1>5
  <2>b. ReturnAs(old, i, n)
    BY <1>3, LocationParts
  <2>c. \A j \in Within(i, "return", _index) : Texts(j) \in Seq(Text0) /\ Texts(j) # <<>>
    <3> SUFFICES ASSUME NEW j \in Within(i, "return", _index)
                 PROVE  Texts(j) \in Seq(Text0) /\ Texts(j) # <<>>
      OBVIOUS
    <3>1. j \in Statements /\ j < _index /\ Words[j].type = "return"
      BY DEF Within
    <3> QED
      BY <1>2, <3>1, TextsFilled
  <2> HIDE DEF new, message
  <2>3. /\ DOMAIN new = LocationFields /\ new.location = old.location
        /\ new.allowedMethods = old.allowedMethods /\ new.root = old.root
        /\ new.autoindex = old.autoindex /\ new.index = old.index
        /\ new.isRedirect = old.isRedirect /\ new.redirectUrl = old.redirectUrl
        /\ new.isRedirectPermanent = old.isRedirectPermanent /\ new.redirectCode = old.redirectCode
        /\ new.useCgi = old.useCgi /\ new.cgiPath = old.cgiPath
        /\ new.uploadStore = old.uploadStore /\ new.has_return = TRUE
        /\ new.return_code = Number(1) /\ new.return_message = message
    BY ONLY <1>4, <2>2 DEF LocationFields
  <2>4. ReturnAs(new, i, _index)
    BY <1>2, <1>3, <1>5, <2>a, <2>b, <2>c, <2>1, <2>3, ReturnSet
  <2> QED
    BY <1>3, <1>6, <2>1, <2>3, <2>4, OthersStay
<1> QED
  BY <1>7, <1>8, <1>9, <1>10, <1>11, <1>12, <1>13, <1>14, <1>15, <1>16

\* The blocks that begin and end.
LEMMA BlockEdgeHolds ==
  ASSUME NEW n, Holds(_servers, location, phase, n), ReadAll(n),
         ServerBlock \/ EndOfServer \/ LocationBlock \/ EndOfLocation
  PROVE  Holds(_servers', location', phase', _index)
<1>1. /\ Step(phase, n, _index) /\ Words[n].type = directive /\ values = Texts(n)
  BY DEF ReadAll
<1>2. CASE ServerBlock
  <2>1. phase = "servers" /\ phase' = "server" /\ location' = location
        /\ _servers' = Append(_servers, NewServer)
    BY <1>2 DEF ServerBlock, Read
  <2>2. Holds(_servers, location, "servers", n) /\ Step("servers", n, _index)
    BY <1>1, <2>1
  <2>3. Holds(Append(_servers, NewServer), location, "server", _index)
    BY ONLY <2>2, HoldsServer
  <2> QED
    BY ONLY <2>1, <2>3
<1>3. CASE EndOfServer
  <2>1. phase = "server" /\ phase' = "servers" /\ UNCHANGED <<location, _servers>> /\ directive = "}"
    BY <1>3 DEF EndOfServer, Read
  <2>2. Holds(_servers, location, "server", n) /\ Step("server", n, _index) /\ Words[n].type = "}"
    BY <1>1, <2>1
  <2>3. /\ Listing(_servers) /\ Current = _servers[Len(_servers)] /\ DOMAIN Current = ServerFields
        /\ ServerAsWritten(Current, LastOf(ServersUpTo(n)), n)
        /\ Adds(LastOf(ServersUpTo(n)), "}", n, _index)
    BY <2>2, CurrentHolds
  <2>4. ServerAsWritten(Current, LastOf(ServersUpTo(n)), _index)
    BY <2>3, ServerSame DEF Adds
  <2>5. Holds(_servers, location, "servers", _index)
    BY <2>2, <2>3, <2>4, HoldsInServer
  <2> QED
    BY ONLY <2>1, <2>5
<1>4. CASE LocationBlock
  <2>1. phase = "server" /\ phase' = "location" /\ location' = NewLocation(Text(n))
        /\ UNCHANGED _servers /\ directive = "location"
    BY <1>1, <1>4 DEF LocationBlock, Read, Value, Text
  <2>2. Holds(_servers, location, "server", n) /\ Step("server", n, _index) /\ Words[n].type = "location"
    BY <1>1, <2>1
  <2>3. Holds(_servers, NewLocation(Text(n)), "location", _index)
    BY ONLY <2>2, HoldsLocation
  <2> QED
    BY ONLY <2>1, <2>3
<1>5. CASE EndOfLocation
  <2>1. phase \in Locations /\ phase' = "server" /\ UNCHANGED location /\ directive = "}"
        /\ _servers' = [_servers EXCEPT ![Len(_servers)] =
                          [Current EXCEPT !.locations = Append(Current.locations, location)]]
    BY <1>5 DEF EndOfLocation, Read, Becomes
  <2>2. Holds(_servers, location, phase, n) /\ Step(phase, n, _index) /\ Words[n].type = "}"
    BY <1>1, <2>1
  <2>3. Current = _servers[Len(_servers)]
    BY DEF Current, Last
  <2>4. Listing(_servers) /\ Len(_servers) # 0
    <3>1. Tape(_tokens) /\ ServersUpTo(n) # {} /\ Listing(_servers)
          /\ Len(_servers) = Cardinality(ServersUpTo(n))
      BY <2>1, <2>2 DEF Holds, Step, Locations
    <3> QED
      BY <3>1, ServerPlaces
  <2>5. PICK tt : tt = _servers'
    OBVIOUS
  <2> DEFINE new == [Current EXCEPT !.locations = Append(Current.locations, location)]
  <2>6. new = [_servers[Len(_servers)] EXCEPT !.locations = Append(_servers[Len(_servers)].locations, location)]
    BY <2>3
  <2> HIDE DEF new
  <2>7. tt = [_servers EXCEPT ![Len(_servers)] = new]
    BY <2>1, <2>5 DEF new
  <2>8. /\ Listing(tt) /\ Len(tt) = Len(_servers) /\ tt[Len(_servers)] = new
        /\ \A k \in 1..Len(_servers) : k # Len(_servers) => tt[k] = _servers[k]
    <3>1. PICK ss : ss = _servers
      OBVIOUS
    <3>2. Listing(ss) /\ Len(ss) # 0 /\ tt = [ss EXCEPT ![Len(ss)] = new]
      BY ONLY <2>4, <2>7, <3>1
    <3>a. PICK e : e = new
      OBVIOUS
    <3>b. Listing(ss) /\ Len(ss) # 0 /\ tt = [ss EXCEPT ![Len(ss)] = e]
      BY ONLY <3>2, <3>a
    <3>c. /\ Listing([ss EXCEPT ![Len(ss)] = e]) /\ Len([ss EXCEPT ![Len(ss)] = e]) = Len(ss)
          /\ [ss EXCEPT ![Len(ss)] = e][Len(ss)] = e
          /\ \A k \in 1..Len(ss) : k # Len(ss) => [ss EXCEPT ![Len(ss)] = e][k] = ss[k]
      BY ONLY <3>b, LastChanged
    <3>3. /\ Listing(tt) /\ Len(tt) = Len(ss) /\ tt[Len(ss)] = new
          /\ \A k \in 1..Len(ss) : k # Len(ss) => tt[k] = ss[k]
      BY ONLY <3>a, <3>b, <3>c
    <3> QED
      BY ONLY <3>1, <3>3
  <2>9. Holds(tt, location, "server", _index)
    BY <2>1, <2>2, <2>6, <2>8, HoldsEndOfLocation
  <2> QED
    BY <2>1, <2>5, <2>9
<1> QED
  BY <1>2, <1>3, <1>4, <1>5

\* What is written stays while it is read.
LEMMA WrittenStays ==
  ASSUME _tokens' = _tokens
  PROVE  /\ \A ss, loc, block, n : Holds(ss, loc, block, n)' <=> Holds(ss, loc, block, n)
         /\ \A read, n : AsWritten(read, n)' <=> AsWritten(read, n)
<1>1. /\ Words' = Words /\ Statements' = Statements
      /\ \A i : Texts(i)' = Texts(i) /\ Depth(i)' = Depth(i)
  BY TextStays
<1>2. \A i, type, n : Within(i, type, n)' = Within(i, type, n)
  BY <1>1 DEF Within
<1>3. \A n : ServersUpTo(n)' = ServersUpTo(n)
  BY <1>1 DEF ServersUpTo
<1>4. \A i : /\ Text(i)' = Text(i) /\ Amount(i)' = Amount(i) /\ Codes(i)' = Codes(i)
            /\ Unit(i)' = Unit(i) /\ Bytes(i)' = Bytes(i)
  BY <1>1 DEF Text, Amount, Codes, Unit, Bytes
<1>5. \A read, i, n : /\ PortAs(read, i, n)' <=> PortAs(read, i, n)
                      /\ NamesAs(read, i, n)' <=> NamesAs(read, i, n)
  <2>1. \A read, i, n : PortAs(read, i, n)' <=> PortAs(read, i, n)
    BY <1>2, <1>4 DEF PortAs, Says
  <2>2. \A read, i, n : NamesAs(read, i, n)' <=> NamesAs(read, i, n)
    BY <1>1, <1>2 DEF NamesAs, Says
  <2> QED
    BY ONLY <2>1, <2>2
<1>6. \A read, i, n : SizeAs(read, i, n)' <=> SizeAs(read, i, n)
  BY <1>1, <1>2, <1>4 DEF SizeAs, Says
<1>7. \A read, i, n : PagesAs(read, i, n)' <=> PagesAs(read, i, n)
  BY <1>1, <1>2, <1>4 DEF PagesAs
<1>8. \A read, i, n : ServerAsWritten(read, i, n)' <=> ServerAsWritten(read, i, n)
  <2> TAKE read, i, n
  <2>1. ServerAsWritten(read, i, n) <=>
          PortAs(read, i, n) /\ NamesAs(read, i, n) /\ SizeAs(read, i, n) /\ PagesAs(read, i, n)
    BY ServerParts
  <2>2. ServerAsWritten(read, i, n)' <=>
          PortAs(read, i, n)' /\ NamesAs(read, i, n)' /\ SizeAs(read, i, n)' /\ PagesAs(read, i, n)'
    BY DEF ServerAsWritten, PortAs, NamesAs, SizeAs, PagesAs
  <2> QED
    BY <1>5, <1>6, <1>7, <2>1, <2>2
<1>9. \A read, i, n : /\ RootAs(read, i, n)' <=> RootAs(read, i, n)
                      /\ IndexAs(read, i, n)' <=> IndexAs(read, i, n)
                      /\ AutoindexAs(read, i, n)' <=> AutoindexAs(read, i, n)
                      /\ UploadAs(read, i, n)' <=> UploadAs(read, i, n)
  <2>1. \A read, i, n : RootAs(read, i, n)' <=> RootAs(read, i, n)
    BY <1>2, <1>4 DEF RootAs, Says
  <2>2. \A read, i, n : IndexAs(read, i, n)' <=> IndexAs(read, i, n)
    BY <1>2, <1>4 DEF IndexAs, Says
  <2>3. \A read, i, n : AutoindexAs(read, i, n)' <=> AutoindexAs(read, i, n)
    BY <1>2, <1>4 DEF AutoindexAs, Says
  <2>4. \A read, i, n : UploadAs(read, i, n)' <=> UploadAs(read, i, n)
    BY <1>2, <1>4 DEF UploadAs, Says
  <2> QED
    BY ONLY <2>1, <2>2, <2>3, <2>4
<1>10. \A read, i, n : /\ MethodsAs(read, i, n)' <=> MethodsAs(read, i, n)
                       /\ CgiAs(read, i, n)' <=> CgiAs(read, i, n)
                       /\ CgiPathAs(read, i, n)' <=> CgiPathAs(read, i, n)
  <2>1. \A read, i, n : MethodsAs(read, i, n)' <=> MethodsAs(read, i, n)
    BY <1>1, <1>2, <1>4 DEF MethodsAs, Says
  <2>2. \A read, i, n : CgiAs(read, i, n)' <=> CgiAs(read, i, n)
    BY <1>2, <1>4 DEF CgiAs, Says
  <2>3. \A read, i, n : CgiPathAs(read, i, n)' <=> CgiPathAs(read, i, n)
    BY <1>2, <1>4 DEF CgiPathAs, Says
  <2> QED
    BY ONLY <2>1, <2>2, <2>3
<1>11. \A read, i, n : RedirectAs(read, i, n)' <=> RedirectAs(read, i, n)
  <2>1. \A i : RedirectsAt(i)' = RedirectsAt(i) /\ RedirectsTo(i)' = RedirectsTo(i)
    BY <1>1, <1>4 DEF RedirectsAt, RedirectsTo
  <2> SUFFICES ASSUME NEW read, NEW i, NEW n PROVE RedirectAs(read, i, n)' <=> RedirectAs(read, i, n)
    OBVIOUS
  <2>2. Within(i, "redirect", n)' = Within(i, "redirect", n)
    BY <1>2
  <2>3. Says(i, "redirect", n, "", RedirectsAt)' = Says(i, "redirect", n, "", RedirectsAt)
    BY <2>1, <2>2 DEF Says
  <2>4. Says(i, "redirect", n, 0, RedirectsTo)' = Says(i, "redirect", n, 0, RedirectsTo)
    BY <2>1, <2>2 DEF Says
  <2>5. RedirectAs(read, i, n) <=>
          /\ read.isRedirect <=> Within(i, "redirect", n) # {}
          /\ read.redirectUrl = Says(i, "redirect", n, "", RedirectsAt)
          /\ read.redirectCode = Says(i, "redirect", n, 0, RedirectsTo)
          /\ read.isRedirectPermanent = (read.redirectCode = 301)
    BY ONLY DEF RedirectAs
  <2>6. RedirectAs(read, i, n)' <=>
          /\ read.isRedirect <=> Within(i, "redirect", n)' # {}
          /\ read.redirectUrl = Says(i, "redirect", n, "", RedirectsAt)'
          /\ read.redirectCode = Says(i, "redirect", n, 0, RedirectsTo)'
          /\ read.isRedirectPermanent = (read.redirectCode = 301)
    BY ONLY DEF RedirectAs
  <2> QED
    BY ONLY <2>2, <2>3, <2>4, <2>5, <2>6, ZenonT(60)
<1>12. \A read, i, n : ReturnAs(read, i, n)' <=> ReturnAs(read, i, n)
  <2>1. \A S : Messages(S)' = Messages(S)
    BY <1>1 DEF Messages
  <2> QED
    BY <1>2, <1>4, <2>1 DEF ReturnAs, Says
<1>13. \A read, i, n : LocationAsWritten(read, i, n)' <=> LocationAsWritten(read, i, n)
  <2> TAKE read, i, n
  <2>1. LocationAsWritten(read, i, n) <=>
           /\ read.location = Text(i) /\ RootAs(read, i, n) /\ IndexAs(read, i, n)
           /\ AutoindexAs(read, i, n) /\ UploadAs(read, i, n) /\ MethodsAs(read, i, n)
           /\ CgiAs(read, i, n) /\ CgiPathAs(read, i, n)
           /\ RedirectAs(read, i, n) /\ ReturnAs(read, i, n)
    BY LocationParts
  <2>2. LocationAsWritten(read, i, n)' <=>
           /\ read.location = Text(i)' /\ RootAs(read, i, n)' /\ IndexAs(read, i, n)'
           /\ AutoindexAs(read, i, n)' /\ UploadAs(read, i, n)' /\ MethodsAs(read, i, n)'
           /\ CgiAs(read, i, n)' /\ CgiPathAs(read, i, n)'
           /\ RedirectAs(read, i, n)' /\ ReturnAs(read, i, n)'
    BY DEF LocationAsWritten, RootAs, IndexAs, AutoindexAs, UploadAs, MethodsAs, CgiAs, CgiPathAs,
         RedirectAs, RedirectsAt, RedirectsTo, ReturnAs, Messages, Says
  <2> QED
    BY <1>4, <1>9, <1>10, <1>11, <1>12, <2>1, <2>2
<1>14. \A read, i, n : LocationsAsWritten(read, i, n)' <=> LocationsAsWritten(read, i, n)
  BY <1>2, <1>13 DEF LocationsAsWritten
<1>15. \A server, list, i, n : BlockHolds(server, list, i, n)' <=> BlockHolds(server, list, i, n)
  BY <1>8, <1>14 DEF BlockHolds
<1>16. \A ss, loc, block, n : Holds(ss, loc, block, n)' <=> Holds(ss, loc, block, n)
  BY <1>1, <1>2, <1>3, <1>15 DEF Holds
<1>17. \A read, n : AsWritten(read, n)' <=> AsWritten(read, n)
  BY <1>3, <1>8, <1>14 DEF AsWritten
<1> QED
  BY <1>16, <1>17

\* While a file is read: what is read of it is a prefix of the text.
Midst ==
  \E n, ss, loc, block :
    /\ Syntax(n) /\ Holds(ss, loc, block, n)
    /\ ss = _servers /\ loc = location /\ block = phase

\* A directive that has been read makes what it says.
LEMMA ReadHolds ==
  ASSUME IInv, NEW n, Syntax(n), Reads, Holds(_servers, location, phase, n)
  PROVE  Holds(_servers', location', phase', _index) /\ UNCHANGED <<_tokens, _index>>
<1>1. PICK d, next : d # "" /\ Leaves(d, next)
  BY ReadLeaves
<1>2. phase \in Blocks /\ directive # "" /\ expected = <<>> /\ (directive = "cgi" => values[1] \in {"on", "off"})
      /\ UNCHANGED <<_tokens, _index>>
  BY <1>1 DEF Leaves
<1>3. ReadAll(n)
  BY <1>2, ReadStep
<1>4. CASE \/ parseListenDirective \/ parseServerNameDirective
           \/ parseErrorPageDirective \/ parseClientMaxBodySizeDirective
  BY <1>2, <1>3, <1>4, ServerDirectiveHolds
<1>5. CASE \/ Root \/ Index \/ Autoindex \/ AllowedMethods \/ IgnoredErrorPage
           \/ parseUploadStoreDirective \/ parseRedirectDirective \/ parseReturnDirective
           \/ parseCgiDirective \/ CgiPath
  BY <1>2, <1>3, <1>5, LocationDirectiveHolds
<1>6. CASE ServerBlock \/ EndOfServer \/ LocationBlock \/ EndOfLocation
  BY <1>2, <1>3, <1>6, BlockEdgeHolds
<1> QED
  BY <1>4, <1>5, <1>6 DEF Reads

\* What is read stays a prefix of the text when a directive has been read.
LEMMA MidstReads ==
  ASSUME IInv, Midst, Reads
  PROVE  Midst'
<1>1. PICK n, ss, loc, block :
        Syntax(n) /\ Holds(ss, loc, block, n) /\ ss = _servers /\ loc = location /\ block = phase
  BY DEF Midst
<1>2. Holds(_servers, location, phase, n)
  BY <1>1
<1>3. Holds(_servers', location', phase', _index) /\ UNCHANGED <<_tokens, _index>>
  BY <1>1, <1>2, ReadHolds
<1>4. PICK tt, next, after, p : tt = _servers' /\ next = location' /\ after = phase' /\ p = _index
  OBVIOUS
<1>5. Holds(tt, next, after, p)
  BY ONLY <1>3, <1>4
<1>6. Holds(tt, next, after, p)'
  BY <1>3, <1>5, WrittenStays
<1>7. Syntax(_index)'
  BY <1>1, ReadReads
<1>8. Syntax(p)'
  <2>1. p = _index'
    BY <1>3, <1>4
  <2> QED
    BY ONLY <1>7, <2>1
<1> QED
  BY <1>4, <1>6, <1>8 DEF Midst

\* Until then nothing is made.
LEMMA MidstGoes ==
  ASSUME IInv, Midst, Directive \/ consume \/ GoOn
  PROVE  Midst'
<1>1. PICK n, ss, loc, block :
        Syntax(n) /\ Holds(ss, loc, block, n) /\ ss = _servers /\ loc = location /\ block = phase
  BY DEF Midst
<1>2. Syntax(n)'
  BY <1>1, DirectiveReads, ConsumeReads, GoOnReads
<1>3. UNCHANGED <<_servers, location, phase, _tokens>>
  BY DEF Directive, consume, GoOn, Constant
<1>4. Holds(ss, loc, block, n)'
  BY <1>1, <1>3, WrittenStays
<1> QED
  BY <1>1, <1>2, <1>3, <1>4 DEF Midst

\* At first there is no block.
Begun ==
  /\ Tape(_tokens) /\ phase = "servers" /\ _index = 1 /\ directive = "" /\ expected = <<>>
  /\ _servers = <<>> /\ DOMAIN location = LocationFields

\* A text of which nothing is read yet is one in the midst.
LEMMA BegunMidst == Begun => Midst
<1> SUFFICES ASSUME Begun PROVE Midst
  OBVIOUS
<1>1. /\ Tape(_tokens) /\ phase = "servers" /\ _index = 1 /\ directive = "" /\ expected = <<>>
      /\ _servers = <<>> /\ DOMAIN location = LocationFields
  BY DEF Begun
<1>2. Syntax(1)
  BY <1>1, TextBegins
<1>3. ServersUpTo(1) = {}
  <2>1. \A i \in ServersUpTo(1) : i \in 1..Len(Words) /\ i < 1
    BY <1>1, ServersAreBefore
  <2>2. Len(Words) \in Nat
    BY <1>1, WordsAre
  <2> QED
    BY <2>1, <2>2
<1>4. Listing(<<>>) /\ Len(<<>>) = 0 /\ 1..0 = {}
  BY DEF Listing
<1>5. Cardinality({}) = 0
  BY FS_EmptySet
<1>6. Holds(<<>>, location, "servers", 1)
  BY <1>1, <1>3, <1>4, <1>5 DEF Holds, Locations
<1> QED
  BY <1>1, <1>2, <1>6 DEF Midst

(* From the file to the blocks that main has.                               *)
Loading ==
  /\ phase = "start" =>
       /\ _tokens = <<>> /\ _index = 1 /\ directive = "" /\ expected = <<>>
       /\ _servers = <<>> /\ loaded = FALSE /\ DOMAIN location = LocationFields
  /\ phase \in Blocks => _tokens = tokenize(file) /\ ~Negative(file) /\ loaded = FALSE /\ Midst

Loaded ==
  phase = "loaded" =>
    /\ loaded <=> (_tokens # <<>> /\ Legal)
    /\ ~loaded => servers = <<>>
    /\ loaded => \E read, n : read = servers /\ n = Len(Words) + 1 /\ AsWritten(read, n)
    /\ loaded => _tokens = tokenize(file)

\* The grammar is of the text and the file.
LEMMA LegalStays ==
  ASSUME UNCHANGED <<_tokens, file>>
  PROVE  Legal' <=> Legal
<1>1. /\ Words' = Words /\ Ends' = Ends /\ Statements' = Statements
      /\ \A i : Depth(i)' = Depth(i) /\ (LegalStatement(i)' <=> LegalStatement(i))
  BY TextStays
<1>2. Depth(Len(Words) + 1)' = Depth(Len(Words) + 1)
  BY <1>1 DEF Depth, Count
<1> QED
  BY <1>1, <1>2 DEF Legal

\* What is thrown away is not of the grammar.
LEMMA ThrownLoaded ==
  ASSUME IInv, phase \in Parsing, Throw, loaded = FALSE, _tokens = <<>> \/ ~Legal
  PROVE  Loading' /\ Loaded'
<1>1. /\ phase' = "loaded" /\ UNCHANGED <<file, loaded, _tokens, servers>>
  BY DEF Throw, parser
<1>2. servers = <<>>
  BY DEF IInv, ServersRead
<1>3. loaded' = FALSE /\ servers' = <<>>
  BY <1>1, <1>2
<1>4. ~ (_tokens' # <<>> /\ Legal')
  BY <1>1, LegalStays
<1>5. Loaded'
  BY <1>3, <1>4 DEF Loaded
<1>6. Loading'
  BY <1>1 DEF Loading, Blocks
<1> QED
  BY <1>5, <1>6

\* A text that has begun.
LEMMA TokenizedLoading ==
  ASSUME IInv, Loading, file \in Files, Tokenized
  PROVE  Loading' /\ Loaded'
<1>1. /\ phase = "start" /\ phase' = "servers" /\ ~Negative(file) /\ _tokens' = tokenize(file)
      /\ UNCHANGED <<file, loaded, _index, directive, expected, values, _servers, location>>
  BY DEF Tokenized, reading
<1>2. /\ _index = 1 /\ directive = "" /\ expected = <<>> /\ _servers = <<>> /\ loaded = FALSE
      /\ DOMAIN location = LocationFields
  BY <1>1 DEF Loading
<1>3. Tape(_tokens')
  BY <1>1, TokensAre
<1>4. Begun'
  BY <1>1, <1>2, <1>3 DEF Begun
<1>5. Midst'
  BY <1>4, BegunMidst, PTL
<1> QED
  BY <1>1, <1>2, <1>5 DEF Loading, Loaded, Blocks

\* A step of the parser within the text.
LEMMA ParserLoading ==
  ASSUME IInv, Loading, Directive \/ consume \/ GoOn \/ Reads
  PROVE  Loading' /\ Loaded'
<1>1. phase \in Blocks /\ phase' \in Blocks /\ UNCHANGED <<file, loaded, _tokens>>
  <2>1. CASE Directive \/ consume \/ GoOn
    BY <2>1, InServerIs DEF Directive, consume, GoOn, Constant, InBlock
  <2>2. CASE Reads
    <3>1. PICK d, next : d # "" /\ Leaves(d, next)
      BY <2>2, ReadLeaves
    <3>2. loaded' = loaded
      BY <2>2 DEF Reads, Read, Constant, InServer, Sets, ServerBlock, parseListenDirective,
           parseServerNameDirective, parseErrorPageDirective, parseClientMaxBodySizeDirective,
           EndOfServer, LocationBlock, Root, Index, Autoindex, AllowedMethods, IgnoredErrorPage,
           parseUploadStoreDirective, parseRedirectDirective, parseReturnDirective,
           parseCgiDirective, CgiPath, EndOfLocation
    <3> QED
      BY <3>1, <3>2 DEF Leaves
  <2> QED
    BY <2>1, <2>2
<1>2. _tokens = tokenize(file) /\ ~Negative(file) /\ loaded = FALSE /\ Midst
  BY <1>1 DEF Loading
<1>3. Midst'
  BY <1>2, MidstReads, MidstGoes
<1>4. phase' # "start" /\ phase' # "loaded"
  BY <1>1 DEF Blocks
<1> QED
  BY <1>1, <1>2, <1>3, <1>4 DEF Loading, Loaded

\* The end of the text.
LEMMA EndLoaded ==
  ASSUME IInv, Loading, file \in Files, loadConfig
  PROVE  Loading' /\ Loaded'
<1>1. /\ phase = "servers" /\ phase' = "loaded" /\ loaded' = TRUE /\ servers' = _servers
      /\ UNCHANGED <<file, _tokens>>
  BY DEF loadConfig, parser
<1>2. phase \in Blocks /\ _tokens = tokenize(file) /\ ~Negative(file) /\ Midst
  BY <1>1 DEF Loading, Blocks
<1>3. PICK n, ss, loc, block :
        Syntax(n) /\ Holds(ss, loc, block, n) /\ ss = _servers /\ loc = location /\ block = phase
  BY <1>2 DEF Midst
<1>4. n = Len(Words) + 1 /\ Legal
  BY <1>2, <1>3, LoadedLegal
<1>5. Holds(ss, loc, "servers", n)
  BY <1>1, <1>3
<1>6. AsWritten(ss, n)
  <2>1. /\ Listing(ss) /\ Len(ss) = Cardinality(ServersUpTo(n))
        /\ \A m \in 1..Len(ss) : BlockHolds(ss[m], ss[m].locations, Nth(ServersUpTo(n), m), n)
    BY <1>5 DEF Holds, Listed, Locations
  <2>2. DOMAIN ss = 1..Len(ss)
    BY <2>1 DEF Listing
  <2> QED
    BY <2>1, <2>2 DEF AsWritten, BlockHolds
<1>7. AsWritten(ss, n)'
  BY <1>1, <1>6, WrittenStays
<1>8. ss = servers' /\ n = Len(Words)' + 1
  <2>1. Words' = Words
    BY <1>1, TextStays
  <2> QED
    BY <1>1, <1>3, <1>4, <2>1
<1>9. _tokens' # <<>> /\ Legal'
  <2>1. Tape(_tokens)
    BY <1>2, PlaceIs
  <2>2. _tokens # <<>>
    BY <2>1 DEF Tape
  <2> QED
    BY <1>1, <1>4, <2>2, LegalStays
<1>10. Loaded'
  BY <1>1, <1>2, <1>7, <1>8, <1>9 DEF Loaded
<1>11. Loading'
  BY <1>1 DEF Loading, Blocks
<1> QED
  BY <1>10, <1>11

\* The place in the text stays when nothing of the parser changes.
LEMMA SyntaxStays ==
  ASSUME UNCHANGED <<_tokens, phase, directive, expected, values, _index>>
  PROVE  \A n : Syntax(n)' <=> Syntax(n)
<1>1. \A n : ReadTo(n)' <=> ReadTo(n)
  BY TextStays DEF ReadTo
<1>2. \A n : Midway(n)' <=> Midway(n)
  BY TextStays DEF Midway
<1>3. \A n : Complete(n)' <=> Complete(n)
  BY TextStays DEF Complete
<1>4. \A n, b : Fits(expected, _index, b)' <=> Fits(expected, _index, b)
  BY TextStays
<1>5. \A n, b : Fits(Consumes[phase][directive], n + 1, b)' <=> Fits(Consumes[phase][directive], n + 1, b)
  BY TextStays
<1>6. \A n : ReadIn(n)' <=> ReadIn(n)
  BY <1>2, <1>3, <1>4, <1>5 DEF ReadIn
<1> QED
  BY <1>1, <1>6 DEF Syntax

\* A step that changes nothing.
LEMMA StutterLoading ==
  ASSUME Loading, Loaded, UNCHANGED vars
  PROVE  Loading' /\ Loaded'
<1>1. UNCHANGED <<phase, file, loaded, _tokens, _index, directive, expected, values,
                  _servers, location, servers>>
  BY DEF vars, parser, reading
<1>2. ASSUME Midst PROVE Midst'
  <2>1. PICK n, ss, loc, block :
          Syntax(n) /\ Holds(ss, loc, block, n) /\ ss = _servers /\ loc = location /\ block = phase
    BY <1>2 DEF Midst
  <2>2. Syntax(n)' /\ Holds(ss, loc, block, n)'
    BY <1>1, <2>1, SyntaxStays, WrittenStays
  <2> QED
    BY <1>1, <2>1, <2>2 DEF Midst
<1>3. Loading'
  BY <1>1, <1>2 DEF Loading
<1>4. ASSUME phase = "loaded", loaded
      PROVE  \E read, n : read = servers' /\ n = Len(Words)' + 1 /\ AsWritten(read, n)'
  <2>1. PICK read, n : read = servers /\ n = Len(Words) + 1 /\ AsWritten(read, n)
    BY <1>4 DEF Loaded
  <2>2. AsWritten(read, n)' /\ Words' = Words
    BY <1>1, <2>1, WrittenStays, TextStays
  <2> QED
    BY <1>1, <2>1, <2>2
<1>5. Loaded'
  BY <1>1, <1>4, LegalStays DEF Loaded
<1> QED
  BY <1>3, <1>5


(* Where the words of the tokens are in the file.                           *)

\* Ascending places, far apart ones too.
LEMMA Ascends ==
  ASSUME NEW r, NEW N \in Nat, NEW M \in Nat, r \in [1..N -> 1..M],
         \A n \in 1..(N - 1) : r[n] < r[n + 1]
  PROVE  \A a, b \in 1..N : a < b => r[a] < r[b]
<1> SUFFICES ASSUME NEW a \in 1..N PROVE \A b \in 1..N : a < b => r[a] < r[b]
  OBVIOUS
<1> DEFINE P == {n \in 0..N : a < n => r[a] < r[n]}
<1>1. 0 \in P
  OBVIOUS
<1>2. ASSUME NEW n \in 0..(N - 1), n \in P PROVE n + 1 \in P
  <2>1. n + 1 \in 1..N /\ n + 1 \in 0..N /\ n \in Int /\ a \in Int
    OBVIOUS
  <2>2. ASSUME a < n + 1 PROVE r[a] < r[n + 1]
    <3>1. n \in 1..(N - 1) /\ n \in 1..N /\ (a < n \/ a = n)
      BY <2>1, <2>2
    <3>2. r[n] < r[n + 1] /\ r[a] \in Int /\ r[n] \in Int /\ r[n + 1] \in Int
      BY <2>1, <3>1
    <3>3. a < n => r[a] < r[n]
      BY <1>2
    <3> QED
      BY ONLY <3>1, <3>2, <3>3
  <2> QED
    BY <2>1, <2>2
<1> HIDE DEF P
<1>3. 0..N \subseteq P
  BY <1>1, <1>2, UpTo
<1> QED
  BY <1>3 DEF P

\* pl are the places at which a selection finds its elements.
PlacesOf(pl, s, T, r) ==
  /\ Len(r) \in Nat /\ pl \in [1..Len(r) -> 1..Len(s)]
  /\ \A m \in 1..Len(r) : r[m] = s[pl[m]] /\ pl[m] \in T
  /\ \A p \in 1..Len(s) : p \in T => \E m \in 1..Len(r) : pl[m] = p
  /\ \A a, b \in 1..Len(r) : a < b => pl[a] < pl[b]

\* A selection has such places.
LEMMA SelectedPlaces ==
  ASSUME NEW S, NEW s \in Seq(S), NEW T
  PROVE  \E pl : PlacesOf(pl, s, T, Selected(s, T))
<1> DEFINE N == Len(s)
           Known(f, pl, n) ==
             /\ pl \in [1..Len(f) -> 1..N]
             /\ \A m \in 1..Len(f) : f[m] = s[pl[m]] /\ pl[m] \in T /\ pl[m] <= n
             /\ \A p \in 1..n : p \in T => \E m \in 1..Len(f) : pl[m] = p
             /\ \A m \in 1..(Len(f) - 1) : pl[m] < pl[m + 1]
<1>1. PICK first \in [0..N -> Seq(S)] : Taken(first, s, T) /\ Selected(s, T) = first[N]
  BY SelectedTakes
<1>2. N \in Nat /\ s \in [1..N -> S]
  OBVIOUS
<1> DEFINE P == {n \in 0..N : \E pl : Known(first[n], pl, n)}
<1>3. 0 \in P
  <2>1. first[0] = <<>>
    BY <1>1 DEF Taken
  <2>2. Len(<<>>) = 0 /\ 1..0 = {}
    OBVIOUS
  <2>3. [x \in {} |-> 1] \in [{} -> 1..N]
    OBVIOUS
  <2>4. Known(<<>>, [x \in {} |-> 1], 0)
    BY <2>2, <2>3
  <2>5. \E pl : Known(first[0], pl, 0)
    BY <2>1, <2>4
  <2>6. 0 \in 0..N
    BY ONLY <1>2
  <2> QED
    BY ONLY <2>5, <2>6
<1>4. ASSUME NEW n \in 0..(N - 1), n \in P PROVE n + 1 \in P
  <2>1. PICK pl : Known(first[n], pl, n)
    BY <1>4
  <2> DEFINE q == first[n]
             L == Len(q)
  <2>2. q \in Seq(S) /\ L \in Nat /\ n + 1 \in 1..N /\ n + 1 \in 0..N /\ n \in Nat
    BY <1>2
  <2>3. first[n + 1] = IF n + 1 \in T THEN Append(q, s[n + 1]) ELSE q
    <3>1. (n + 1) - 1 = n
      BY <2>2
    <3> QED
      BY <1>1, <2>2, <3>1 DEF Taken
  <2>4. /\ pl \in [1..L -> 1..N]
        /\ \A m \in 1..L : q[m] = s[pl[m]] /\ pl[m] \in T /\ pl[m] <= n
        /\ \A p \in 1..n : p \in T => \E m \in 1..L : pl[m] = p
        /\ \A m \in 1..(L - 1) : pl[m] < pl[m + 1]
    BY <2>1
  <2>5. CASE n + 1 \notin T
    <3>1. \A p \in 1..(n + 1) : p \in T => p \in 1..n
      BY <2>2, <2>5
    <3>2. \A m \in 1..L : pl[m] <= n + 1
      <4> SUFFICES ASSUME NEW m \in 1..L PROVE pl[m] <= n + 1
        OBVIOUS
      <4>1. pl[m] \in 1..N /\ pl[m] <= n
        BY <2>4
      <4> QED
        BY ONLY <1>2, <2>2, <4>1
    <3>3. Known(q, pl, n + 1)
      BY <2>4, <3>1, <3>2
    <3> QED
      BY <2>2, <2>3, <2>5, <3>3
  <2>6. CASE n + 1 \in T
    <3> DEFINE t == Append(q, s[n + 1])
               pp == [m \in 1..(L + 1) |-> IF m = L + 1 THEN n + 1 ELSE pl[m]]
    <3>1. Len(t) = L + 1 /\ t[L + 1] = s[n + 1] /\ \A m \in 1..L : t[m] = q[m]
      BY <1>2, <2>2, AppendIs
    <3>2. /\ \A m \in 1..(L + 1) : m \in 1..L \/ m = L + 1
          /\ L + 1 \in 1..(L + 1) /\ \A m \in 1..L : m \in 1..(L + 1) /\ m # L + 1
      BY ONLY <2>2
    <3>3. pp[L + 1] = n + 1 /\ \A m \in 1..L : pp[m] = pl[m]
      BY <3>2
    <3>4. pp \in [1..(L + 1) -> 1..N]
      BY <2>2, <2>4, <3>2
    <3> HIDE DEF t, pp
    <3>5. \A m \in 1..L : pl[m] <= n + 1 /\ pl[m] < n + 1
      <4> SUFFICES ASSUME NEW m \in 1..L PROVE pl[m] <= n + 1 /\ pl[m] < n + 1
        OBVIOUS
      <4>1. pl[m] \in 1..N /\ pl[m] <= n
        BY <2>4
      <4> QED
        BY ONLY <1>2, <2>2, <4>1
    <3>6. \A m \in 1..(L + 1) : t[m] = s[pp[m]] /\ pp[m] \in T /\ pp[m] <= n + 1
      <4> SUFFICES ASSUME NEW m \in 1..(L + 1)
                   PROVE  t[m] = s[pp[m]] /\ pp[m] \in T /\ pp[m] <= n + 1
        OBVIOUS
      <4>1. CASE m \in 1..L
        BY <2>4, <3>1, <3>3, <3>5, <4>1
      <4>2. CASE m = L + 1
        BY <2>2, <2>6, <3>1, <3>3, <4>2
      <4> QED
        BY <3>2, <4>1, <4>2
    <3>7. ASSUME NEW p \in 1..(n + 1), p \in T PROVE \E m \in 1..(L + 1) : pp[m] = p
      <4>1. CASE p = n + 1
        BY <3>2, <3>3, <4>1
      <4>2. CASE p # n + 1
        <5>1. p \in 1..n
          BY <2>2, <4>2
        <5>2. PICK m \in 1..L : pl[m] = p
          BY <2>4, <3>7, <5>1
        <5> QED
          BY <3>2, <3>3, <5>2
      <4> QED
        BY <4>1, <4>2
    <3>8. ASSUME NEW m \in 1..((L + 1) - 1) PROVE pp[m] < pp[m + 1]
      <4>1. m \in 1..L /\ m + 1 \in 1..(L + 1)
        BY <2>2
      <4>2. CASE m + 1 = L + 1
        BY <3>3, <3>5, <4>1, <4>2
      <4>3. CASE m + 1 # L + 1
        <5>1. m \in 1..(L - 1) /\ m + 1 \in 1..L
          BY <2>2, <4>1, <4>3
        <5> QED
          BY <2>4, <3>3, <4>1, <5>1
      <4> QED
        BY <4>2, <4>3
    <3>9. Known(t, pp, n + 1)
      BY <3>1, <3>4, <3>6, <3>7, <3>8
    <3> QED
      BY <2>2, <2>3, <2>6, <3>9 DEF t
  <2> QED
    BY <2>5, <2>6
<1> HIDE DEF P
<1>5. 0..N \subseteq P
  BY <1>2, <1>3, <1>4, UpTo
<1>6. PICK pl : Known(first[N], pl, N)
  <2>1. N \in 0..N
    BY ONLY <1>2
  <2>2. N \in P
    BY ONLY <1>5, <2>1
  <2> HIDE DEF Known
  <2> QED
    BY ONLY <2>2 DEF P
<1> DEFINE r == first[N]
<1>7. Len(r) \in Nat /\ r = Selected(s, T)
  <2>1. N \in 0..N
    BY ONLY <1>2
  <2>2. r \in Seq(S)
    BY <1>1, <2>1
  <2> HIDE DEF r
  <2> QED
    BY <1>1, <2>2 DEF r
<1>8. /\ pl \in [1..Len(r) -> 1..N]
      /\ \A m \in 1..Len(r) : r[m] = s[pl[m]] /\ pl[m] \in T
      /\ \A p \in 1..N : p \in T => \E m \in 1..Len(r) : pl[m] = p
      /\ \A m \in 1..(Len(r) - 1) : pl[m] < pl[m + 1]
  BY <1>6
<1> HIDE DEF r, N, Known
<1>9. \A a, b \in 1..Len(r) : a < b => pl[a] < pl[b]
  BY ONLY <1>2, <1>7, <1>8, Ascends
<1>10. PlacesOf(pl, s, T, r)
  BY <1>7, <1>8, <1>9 DEF PlacesOf, N
<1> QED
  BY <1>7, <1>10

\* The elements of a concatenation.
LEMMA ConcatIs ==
  ASSUME NEW S, NEW a \in Seq(S), NEW b \in Seq(S)
  PROVE  /\ Len(a) \in Nat /\ Len(b) \in Nat /\ Len(a \o b) = Len(a) + Len(b)
         /\ \A k \in 1..Len(a) : (a \o b)[k] = a[k]
         /\ \A k \in 1..Len(b) : (a \o b)[Len(a) + k] = b[k]
OBVIOUS

\* off are the places before the sequences of which flat is made.
Offsets(off, seqs, flat) ==
  /\ Len(flat) \in Nat /\ off \in [1..Len(seqs) -> Nat]
  /\ \A i \in 1..Len(seqs) : \A k \in 1..Len(seqs[i]) :
       off[i] + k \in 1..Len(flat) /\ flat[off[i] + k] = seqs[i][k]
  /\ \A i, j \in 1..Len(seqs) : i < j => off[i] + Len(seqs[i]) <= off[j]
  /\ \A p \in 1..Len(flat) : \E i \in 1..Len(seqs) : \E k \in 1..Len(seqs[i]) : p = off[i] + k

\* Flattened sequences have such places.
LEMMA FlattenPlaces ==
  ASSUME NEW S, NEW seqs \in Seq(Seq(S))
  PROVE  \E off : Offsets(off, seqs, FlattenSeq(seqs))
<1> DEFINE N == Len(seqs)
<1>1. PICK f \in [0..N -> Seq(S)] : Flattens(f, seqs) /\ FlattenSeq(seqs) = f[N]
  BY FlattenSeqByParts
<1>2. N \in Nat /\ \A i \in 1..N : seqs[i] \in Seq(S) /\ Len(seqs[i]) \in Nat
  OBVIOUS
<1>3. /\ f[0] = <<>> /\ \A i \in 1..N : f[i] = f[i - 1] \o seqs[i]
  BY <1>1 DEF Flattens
<1>4. \A i \in 0..N : f[i] \in Seq(S) /\ Len(f[i]) \in Nat
  <2>1. \A i \in 0..N : f[i] \in Seq(S)
    BY <1>1
  <2> QED
    BY <2>1
<1> DEFINE off == [i \in 1..N |-> Len(f[i - 1])]
<1>5. \A i \in 1..N : i - 1 \in 0..N /\ off[i] = Len(f[i - 1]) /\ off[i] \in Nat
  <2> SUFFICES ASSUME NEW i \in 1..N PROVE i - 1 \in 0..N /\ off[i] = Len(f[i - 1]) /\ off[i] \in Nat
    OBVIOUS
  <2>1. i - 1 \in 0..N
    BY ONLY <1>2
  <2> QED
    BY <1>4, <2>1
<1>6. off = [i \in 1..N |-> off[i]]
  OBVIOUS
<1> HIDE DEF off, N
<1> DEFINE Known(n) ==
             /\ \A i \in 1..n : off[i] + Len(seqs[i]) <= Len(f[n])
             /\ \A i \in 1..n : \A k \in 1..Len(seqs[i]) :
                  off[i] + k \in 1..Len(f[n]) /\ f[n][off[i] + k] = seqs[i][k]
             /\ \A p \in 1..Len(f[n]) : \E i \in 1..n : \E k \in 1..Len(seqs[i]) : p = off[i] + k
           P == {n \in 0..N : Known(n)}
<1>7. 0 \in P
  <2>1. Len(f[0]) = 0 /\ 1..0 = {}
    BY <1>3
  <2> QED
    BY <1>2, <2>1
<1>8. ASSUME NEW n \in 0..(N - 1), n \in P PROVE n + 1 \in P
  <2> DEFINE a == f[n]
             b == seqs[n + 1]
             c == f[n + 1]
  <2>1. n + 1 \in 1..N /\ n + 1 \in 0..N /\ n \in 0..N /\ n \in Nat /\ (n + 1) - 1 = n
    BY ONLY <1>2
  <2>2. a \in Seq(S) /\ b \in Seq(S) /\ c = a \o b /\ off[n + 1] = Len(a)
    BY <1>2, <1>3, <1>4, <1>5, <2>1
  <2>3. Known(n)
    BY <1>8
  <2>4. /\ \A i \in 1..n : off[i] + Len(seqs[i]) <= Len(a)
        /\ \A i \in 1..n : \A k \in 1..Len(seqs[i]) :
             off[i] + k \in 1..Len(a) /\ a[off[i] + k] = seqs[i][k]
        /\ \A p \in 1..Len(a) : \E i \in 1..n : \E k \in 1..Len(seqs[i]) : p = off[i] + k
    BY <2>3
  <2> HIDE DEF Known
  <2>a. b = seqs[n + 1]
    OBVIOUS
  <2> HIDE DEF a, b, c
  <2>5. /\ Len(a) \in Nat /\ Len(b) \in Nat /\ Len(c) = Len(a) + Len(b)
        /\ \A k \in 1..Len(a) : c[k] = a[k]
        /\ \A k \in 1..Len(b) : c[Len(a) + k] = b[k]
    BY ONLY <2>2, ConcatIs
  <2>6. \A i \in 1..(n + 1) : (i \in 1..n /\ i \in 1..N) \/ i = n + 1
    BY ONLY <1>2, <2>1
  <2>7. \A i \in 1..n : i \in 1..(n + 1)
    BY ONLY <2>1
  <2>8. \A i \in 1..(n + 1) : off[i] + Len(seqs[i]) <= Len(c)
    <3> SUFFICES ASSUME NEW i \in 1..(n + 1) PROVE off[i] + Len(seqs[i]) <= Len(c)
      OBVIOUS
    <3>1. CASE i = n + 1
      BY <2>2, <2>5, <2>a, <3>1
    <3>2. CASE i \in 1..n /\ i \in 1..N
      <4>1. off[i] \in Nat /\ Len(seqs[i]) \in Nat /\ off[i] + Len(seqs[i]) <= Len(a)
        BY <1>2, <1>5, <2>4, <3>2
      <4>2. Len(a) \in Nat /\ Len(b) \in Nat /\ Len(c) = Len(a) + Len(b)
        BY <2>5
      <4> QED
        BY ONLY <4>1, <4>2
    <3> QED
      BY <2>6, <3>1, <3>2
  <2>9. \A i \in 1..(n + 1) : \A k \in 1..Len(seqs[i]) : off[i] + k \in 1..Len(c) /\ c[off[i] + k] = seqs[i][k]
    <3> SUFFICES ASSUME NEW i \in 1..(n + 1), NEW k \in 1..Len(seqs[i])
                 PROVE  off[i] + k \in 1..Len(c) /\ c[off[i] + k] = seqs[i][k]
      OBVIOUS
    <3>1. CASE i = n + 1
      <4>1. k \in 1..Len(b) /\ off[i] = Len(a) /\ seqs[i] = b
        BY <2>2, <2>a, <3>1
      <4>2. Len(a) + k \in 1..(Len(a) + Len(b))
        BY ONLY <2>5, <4>1
      <4> QED
        BY <2>5, <4>1, <4>2
    <3>2. CASE i \in 1..n /\ i \in 1..N
      <4>1. off[i] + k \in 1..Len(a) /\ a[off[i] + k] = seqs[i][k]
        BY <2>4, <3>2
      <4>2. off[i] + k \in 1..(Len(a) + Len(b))
        BY ONLY <2>5, <4>1
      <4> QED
        BY <2>5, <4>1, <4>2
    <3> QED
      BY <2>6, <3>1, <3>2
  <2>10. ASSUME NEW p \in 1..Len(c)
         PROVE  \E i \in 1..(n + 1) : \E k \in 1..Len(seqs[i]) : p = off[i] + k
    <3>0. Len(a) \in Nat /\ Len(b) \in Nat /\ Len(c) = Len(a) + Len(b)
      BY <2>5
    <3>1. CASE p \in 1..Len(a)
      BY <2>4, <2>7, <3>1
    <3>2. CASE p \notin 1..Len(a)
      <4>1. p - Len(a) \in 1..Len(b) /\ p = Len(a) + (p - Len(a))
        BY ONLY <2>10, <3>0, <3>2
      <4>2. n + 1 \in 1..(n + 1)
        BY ONLY <2>1
      <4> QED
        BY <2>2, <2>a, <4>1, <4>2
    <3> QED
      BY <3>1, <3>2
  <2>11. Known(n + 1)
    BY <2>8, <2>9, <2>10 DEF Known, c
  <2> QED
    BY <2>1, <2>11
<1> HIDE DEF P
<1>9. 0..N \subseteq P
  BY <1>2, <1>7, <1>8, UpTo
<1>10. \A n \in 0..N : Known(n)
  <2> HIDE DEF Known
  <2> QED
    BY <1>9 DEF P
<1>11. ASSUME NEW i \in 1..N, NEW j \in 1..N, i < j PROVE off[i] + Len(seqs[i]) <= off[j]
  <2>1. j - 1 \in 0..N /\ i \in 1..(j - 1)
    BY <1>2, <1>11
  <2>2. off[i] + Len(seqs[i]) <= Len(f[j - 1])
    BY <1>10, <2>1
  <2> QED
    BY <1>5, <2>2
<1>12. N \in 0..N
  BY <1>2
<1>13. Known(N)
  BY <1>10, <1>12
<1>14. Len(f[N]) \in Nat /\ off \in [1..N -> Nat]
  BY <1>4, <1>5, <1>6, <1>12
<1>15. Offsets(off, seqs, f[N])
  BY <1>11, <1>13, <1>14 DEF Offsets, N
<1> QED
  BY <1>1, <1>15

(* Where a unit may be.                                                     *)

\* Every word is of a statement.
LEMMA InStatement ==
  ASSUME Tape(_tokens), Words # <<>> => Len(Words) \in Ends, NEW q \in 1..Len(Words)
  PROVE  \E s, e \in 1..Len(Words) : OneStatement(s, e) /\ s <= q /\ q <= e
<1>1. Len(Words) \in Nat /\ Ends \subseteq 1..Len(Words)
  BY WordsAre
<1>2. Len(Words) \in Ends
  <2>1. Len(<<>>) = 0
    OBVIOUS
  <2>2. Len(Words) # 0
    BY ONLY <1>1, 1..0 = {}, q \in 1..Len(Words)
  <2> QED
    BY <2>1, <2>2
<1> DEFINE L == {j \in Ends : q <= j}
<1>3. L \subseteq Nat /\ L # {}
  <2>1. q <= Len(Words)
    BY ONLY <1>1, q \in 1..Len(Words)
  <2>2. Len(Words) \in L
    BY <1>2, <2>1
  <2>3. 1..Len(Words) \subseteq Nat
    BY ONLY <1>1
  <2> QED
    BY <1>1, <2>2, <2>3
<1>4. PICK e \in L : \A j \in L : e <= j
  <2> HIDE DEF L
  <2> QED
    BY <1>3, LeastNumber
<1>5. e \in Ends /\ e \in 1..Len(Words) /\ q <= e
  BY <1>1, <1>4
<1> DEFINE F == {i \in Starts : i <= q}
<1>6. F \subseteq 0..q /\ 1 \in F
  <2>1. Starts \subseteq 1..(Len(Words) + 1) /\ 1 \in Starts
    BY WordsAre DEF Starts
  <2>2. q \in Nat /\ 1 <= q
    BY ONLY <1>1, q \in 1..Len(Words)
  <2>3. \A i \in 1..(Len(Words) + 1) : i <= q => i \in 0..q
    BY ONLY <1>1, <2>2
  <2> QED
    BY <2>1, <2>2, <2>3
<1> DEFINE s == Max(F)
<1>7. s \in F /\ \A k \in F : k <= s
  <2>1. q \in Nat
    BY ONLY <1>1, q \in 1..Len(Words)
  <2> HIDE DEF F
  <2> QED
    BY ONLY <1>6, <2>1, GreatestNumber
<1> HIDE DEF s
<1>8. s \in Starts /\ s <= q /\ s \in 1..Len(Words)
  <2>1. s \in Starts /\ s <= q
    BY <1>7
  <2>2. s \in 1..(Len(Words) + 1)
    BY <2>1, WordsAre
  <2>3. s \in 1..Len(Words)
    BY ONLY <1>1, <2>1, <2>2, q \in 1..Len(Words)
  <2> QED
    BY <2>1, <2>3
<1>9. ASSUME NEW p \in s..(e - 1), p \in Ends PROVE FALSE
  <2>1. s <= p /\ p < e /\ p \in Int
    BY ONLY <1>1, <1>5, <1>8, <1>9
  <2>2. CASE q <= p
    <3>1. e <= p
      BY <1>4, <1>9, <2>2
    <3> QED
      BY ONLY <1>1, <1>5, <2>1, <3>1
  <2>3. CASE ~ (q <= p)
    <3>1. p + 1 <= q
      BY ONLY <1>1, <2>1, <2>3, q \in 1..Len(Words)
    <3>2. p + 1 \in Starts
      BY <1>9 DEF Starts
    <3>3. p + 1 <= s
      BY <1>7, <3>1, <3>2
    <3>4. s \in Int
      BY ONLY <1>1, <1>8
    <3> QED
      BY ONLY <2>1, <3>3, <3>4
  <2> QED
    BY <2>2, <2>3
<1>10. s <= e
  BY ONLY <1>1, <1>5, <1>8, q \in 1..Len(Words)
<1>11. OneStatement(s, e)
  BY <1>5, <1>8, <1>9, <1>10 DEF OneStatement
<1> QED
  BY <1>5, <1>8, <1>11

NoUnit == Types \ {"MUL"}

\* A form of tokens none of which is a unit has none.
LEMMA FormsWithoutUnit ==
  ASSUME NEW first \in Seq(NoUnit), NEW many \in NoUnit, NEW rest \in Seq(NoUnit)
  PROVE  Forms(first, many, rest) \subseteq Seq(NoUnit)
<1> SUFFICES ASSUME NEW n \in 0..Len(Words)
             PROVE  first \o [k \in 1..n |-> many] \o rest \in Seq(NoUnit)
  BY DEF Forms
<1>1. CASE n \in Nat
  <2>1. [k \in 1..n |-> many] \in [1..n -> NoUnit]
    OBVIOUS
  <2>2. [k \in 1..n |-> many] \in Seq(NoUnit)
    BY <1>1, <2>1, SeqOfLength
  <2> QED
    BY <2>2
<1>2. n \in Nat
  OBVIOUS
<1> QED
  BY <1>1, <1>2

SizeForm == <<"client_max_body_size", "NUMBER", "MUL", ";">>

\* A unit is in one form of statement.
LEMMA GrammarUnit ==
  ASSUME NEW d \in 0..2, NEW shape \in Grammar[d + 1]
  PROVE  shape = SizeForm \/ shape \in Seq(NoUnit)
<1>1. /\ "server" \in NoUnit /\ "{" \in NoUnit /\ "}" \in NoUnit /\ ";" \in NoUnit
      /\ "location" \in NoUnit /\ "STRING" \in NoUnit /\ "listen" \in NoUnit
      /\ "NUMBER" \in NoUnit /\ "server_name" \in NoUnit /\ "error_page" \in NoUnit
      /\ "redirect" \in NoUnit /\ "allowed_methods" \in NoUnit /\ "return" \in NoUnit
  BY DEF NoUnit, Types, Directives
<1>7. {"root", "autoindex", "index", "cgi", "cgi_path", "upload_store"} \subseteq NoUnit
  BY DEF NoUnit, Types, Directives
<1>2. d = 0 \/ d = 1 \/ d = 2
  OBVIOUS
<1>one. \A x \in NoUnit : <<x>> \in Seq(NoUnit)
  OBVIOUS
<1>two. \A x, y \in NoUnit : <<x, y>> \in Seq(NoUnit)
  OBVIOUS
<1>three. \A x, y, z \in NoUnit : <<x, y, z>> \in Seq(NoUnit)
  OBVIOUS
<1>four. \A x, y, z, w \in NoUnit : <<x, y, z, w>> \in Seq(NoUnit)
  OBVIOUS
<1> HIDE DEF NoUnit
<1>4. CASE d = 0
  <2>1. d + 1 = 1
    BY <1>4
  <2>2. shape \in Grammar[1]
    BY ONLY <2>1, shape \in Grammar[d + 1]
  <2>3. shape = <<"server", "{">>
    BY <2>2 DEF Grammar
  <2>4. <<"server", "{">> \in Seq(NoUnit)
    BY ONLY <1>1, <1>two
  <2> QED
    BY ONLY <2>3, <2>4
<1>5. CASE d = 1
  <2>1. d + 1 = 2
    BY <1>5
  <2>2. shape \in Grammar[2]
    BY ONLY <2>1, shape \in Grammar[d + 1]
  <2>3. \/ shape \in {<<"}">>, <<"location", "STRING", "{">>, <<"listen", "NUMBER", ";">>, SizeForm}
        \/ shape \in Forms(<<"server_name", "STRING">>, "STRING", <<";">>)
        \/ shape \in Forms(<<"error_page">>, "NUMBER", <<"STRING", ";">>)
    BY <2>2 DEF Grammar, SizeForm
  <2>4. Forms(<<"server_name", "STRING">>, "STRING", <<";">>) \subseteq Seq(NoUnit)
    <3>1. <<"server_name", "STRING">> \in Seq(NoUnit) /\ "STRING" \in NoUnit /\ <<";">> \in Seq(NoUnit)
      BY ONLY <1>1, <1>one, <1>two
    <3> QED
      BY ONLY <3>1, FormsWithoutUnit
  <2>5. Forms(<<"error_page">>, "NUMBER", <<"STRING", ";">>) \subseteq Seq(NoUnit)
    <3>1. <<"error_page">> \in Seq(NoUnit) /\ "NUMBER" \in NoUnit /\ <<"STRING", ";">> \in Seq(NoUnit)
      BY ONLY <1>1, <1>one, <1>two
    <3> QED
      BY ONLY <3>1, FormsWithoutUnit
  <2>6. /\ <<"}">> \in Seq(NoUnit) /\ <<"location", "STRING", "{">> \in Seq(NoUnit)
        /\ <<"listen", "NUMBER", ";">> \in Seq(NoUnit)
    BY ONLY <1>1, <1>one, <1>three
  <2> QED
    BY ONLY <2>3, <2>4, <2>5, <2>6
<1>6. CASE d = 2
  <2>1. d + 1 = 3
    BY <1>6
  <2>2. shape \in Grammar[3]
    BY ONLY <2>1, shape \in Grammar[d + 1]
  <2> DEFINE Others == {<<x, "STRING", ";">> : x \in {"root", "autoindex", "index", "cgi", "cgi_path", "upload_store"}}
  <2>3. \/ shape \in {<<"}">>, <<"error_page", "NUMBER", "STRING", ";">>,
                      <<"redirect", "STRING", ";">>, <<"redirect", "NUMBER", "STRING", ";">>}
        \/ shape \in Others
        \/ shape \in Forms(<<"allowed_methods">>, "STRING", <<";">>)
        \/ shape \in Forms(<<"return", "NUMBER">>, "STRING", <<";">>)
    BY <2>2 DEF Grammar
  <2>4. Forms(<<"allowed_methods">>, "STRING", <<";">>) \subseteq Seq(NoUnit)
    <3>1. <<"allowed_methods">> \in Seq(NoUnit) /\ "STRING" \in NoUnit /\ <<";">> \in Seq(NoUnit)
      BY ONLY <1>1, <1>one
    <3> QED
      BY ONLY <3>1, FormsWithoutUnit
  <2>5. Forms(<<"return", "NUMBER">>, "STRING", <<";">>) \subseteq Seq(NoUnit)
    <3>1. <<"return", "NUMBER">> \in Seq(NoUnit) /\ "STRING" \in NoUnit /\ <<";">> \in Seq(NoUnit)
      BY ONLY <1>1, <1>one, <1>two
    <3> QED
      BY ONLY <3>1, FormsWithoutUnit
  <2>6. /\ <<"}">> \in Seq(NoUnit) /\ <<"error_page", "NUMBER", "STRING", ";">> \in Seq(NoUnit)
        /\ <<"redirect", "STRING", ";">> \in Seq(NoUnit)
        /\ <<"redirect", "NUMBER", "STRING", ";">> \in Seq(NoUnit)
    <3>1. <<"}">> \in Seq(NoUnit)
      BY ONLY <1>1, <1>one
    <3>2. <<"redirect", "STRING", ";">> \in Seq(NoUnit)
      BY ONLY <1>1, <1>three
    <3>3. /\ <<"error_page", "NUMBER", "STRING", ";">> \in Seq(NoUnit)
          /\ <<"redirect", "NUMBER", "STRING", ";">> \in Seq(NoUnit)
      BY ONLY <1>1, <1>four
    <3> QED
      BY ONLY <3>1, <3>2, <3>3
  <2>7. Others \subseteq Seq(NoUnit)
    <3> SUFFICES ASSUME NEW x \in {"root", "autoindex", "index", "cgi", "cgi_path", "upload_store"}
                 PROVE  <<x, "STRING", ";">> \in Seq(NoUnit)
      OBVIOUS
    <3>1. x \in NoUnit /\ "STRING" \in NoUnit /\ ";" \in NoUnit
      BY <1>1, <1>7
    <3> QED
      BY ONLY <1>three, <3>1
  <2> HIDE DEF Others
  <2> QED
    BY ONLY <2>3, <2>4, <2>5, <2>6, <2>7
<1> QED
  BY <1>2, <1>4, <1>5, <1>6

\* What is around a unit.
LEMMA UnitBetween ==
  ASSUME Tape(_tokens), Legal, NEW q \in 1..Len(Words), _tokens[q].type = "MUL"
  PROVE  /\ q - 2 \in 1..Len(Words) /\ _tokens[q - 2].type = "client_max_body_size"
         /\ q - 1 \in 1..Len(Words) /\ _tokens[q - 1].type = "NUMBER"
         /\ q + 1 \in 1..Len(Words) /\ _tokens[q + 1].type = ";"
<1>1. PICK s, e \in 1..Len(Words) : OneStatement(s, e) /\ s <= q /\ q <= e
  BY InStatement DEF Legal
<1>2. s \in Statements /\ End(s) = e
  BY <1>1, StatementIs
<1>3. Len(Words) \in Nat /\ \A i \in 1..Len(Words) : Words[i] = _tokens[i]
  BY WordsAre
<1>4. Depth(s) \in 0..2 /\ Shape(s) \in Grammar[Depth(s) + 1]
  BY <1>2 DEF Legal, LegalStatement
<1>5. Shape(s) = SizeForm \/ Shape(s) \in Seq(NoUnit)
  BY <1>4, GrammarUnit
<1> DEFINE L == e - s + 1
           sh == [k \in 1..L |-> Words[s + k - 1].type]
<1>6. Shape(s) = sh
  BY <1>2 DEF Shape
<1>7. L \in Nat /\ L >= 1 /\ q - s + 1 \in 1..L /\ s + (q - s + 1) - 1 = q
  BY ONLY <1>1, <1>3, q \in 1..Len(Words)
<1>8. sh[q - s + 1] = "MUL"
  <2>1. sh[q - s + 1] = Words[s + (q - s + 1) - 1].type
    BY <1>7
  <2> QED
    BY <1>3, <1>7, <2>1
<1>a. DOMAIN sh = 1..L
  OBVIOUS
<1> HIDE DEF sh
<1>9. Shape(s) \notin Seq(NoUnit)
  <2> SUFFICES ASSUME sh \in Seq(NoUnit) PROVE FALSE
    BY <1>6
  <2>1. DOMAIN sh = 1..Len(sh) /\ \A k \in DOMAIN sh : sh[k] \in NoUnit
    OBVIOUS
  <2>2. sh[q - s + 1] \in NoUnit
    BY <1>7, <1>a, <2>1
  <2> QED
    BY <1>8, <2>2 DEF NoUnit
<1>10. sh = SizeForm
  BY <1>5, <1>6, <1>9
<1>11. /\ SizeForm[1] = "client_max_body_size" /\ SizeForm[2] = "NUMBER" /\ SizeForm[3] = "MUL"
       /\ SizeForm[4] = ";" /\ DOMAIN SizeForm = 1..4
  BY DEF SizeForm
<1>12. L = 4
  <2>1. 1..L = 1..4
    BY ONLY <1>a, <1>10, <1>11
  <2>2. L \in 1..4 /\ 4 \in 1..L
    <3> HIDE DEF L
    <3>1. 4 \in 1..4 /\ L \in 1..L
      BY ONLY <1>7
    <3> QED
      BY ONLY <2>1, <3>1
  <2> HIDE DEF L
  <2> QED
    BY ONLY <1>7, <2>2
<1>13. q - s + 1 = 3
  <2>1. q - s + 1 \in {1, 2, 3, 4}
    BY ONLY <1>7, <1>12
  <2> QED
    BY ONLY <1>8, <1>10, <1>11, <2>1
<1>14. s = q - 2 /\ e = q + 1 /\ 1 \in 1..L /\ 2 \in 1..L /\ 4 \in 1..L
       /\ s + 1 - 1 = q - 2 /\ s + 2 - 1 = q - 1 /\ s + 4 - 1 = q + 1
       /\ q - 1 \in 1..Len(Words)
  BY ONLY <1>1, <1>3, <1>7, <1>12, <1>13, q \in 1..Len(Words)
<1>15. \A k \in 1..L : sh[k] = Words[s + k - 1].type
  BY DEF sh
<1>16. /\ Words[q - 2].type = "client_max_body_size" /\ Words[q - 1].type = "NUMBER"
       /\ Words[q + 1].type = ";"
  BY ONLY <1>10, <1>11, <1>14, <1>15
<1> QED
  BY ONLY <1>1, <1>3, <1>14, <1>16

\* What is hidden, and what is not, of the pieces of a file.
HiddenIn(words, i) == \E j \in 1..i : words[j] = "#" /\ \A k \in j..i : words[k] # "\n"
ShownAt(words) == {i \in DOMAIN words : ~HiddenIn(words, i) /\ words[i] # "\n"}

\* Shown is the selection of what is not hidden.
LEMMA ShownSelects ==
  ASSUME NEW words
  PROVE  Shown(words) = Selected(words, ShownAt(words))
BY DEF Shown, ShownAt, HiddenIn

\* Pieces that follow one another are words that do.
LEMMA NextTo ==
  ASSUME NEW pl, NEW s, NEW T, NEW r, Len(s) \in Nat, PlacesOf(pl, s, T, r),
         NEW a \in 1..Len(r), NEW b \in 1..Len(r), pl[b] = pl[a] + 1
  PROVE  b = a + 1
<1>1. Len(r) \in Nat /\ \A x, y \in 1..Len(r) : x < y => pl[x] < pl[y]
  BY DEF PlacesOf
<1>2. \A x \in 1..Len(r) : pl[x] \in Int
  <2> SUFFICES ASSUME NEW x \in 1..Len(r) PROVE pl[x] \in Int
    OBVIOUS
  <2>1. pl[x] \in 1..Len(s)
    BY DEF PlacesOf
  <2> QED
    BY ONLY <2>1, Len(s) \in Nat
<1>3. ~ (b < a) /\ b # a
  <2>1. b < a => pl[b] < pl[a]
    BY <1>1
  <2>2. pl[b] \in Int /\ pl[a] \in Int
    BY <1>2
  <2> QED
    BY ONLY <2>1, <2>2, pl[b] = pl[a] + 1
<1>4. ~ (a + 1 < b)
  <2> SUFFICES ASSUME a + 1 < b PROVE FALSE
    OBVIOUS
  <2>1. a + 1 \in 1..Len(r) /\ a < a + 1
    BY ONLY <1>1, a + 1 < b, a \in 1..Len(r), b \in 1..Len(r)
  <2>2. pl[a] < pl[a + 1] /\ pl[a + 1] < pl[b] /\ pl[a] \in Int /\ pl[a + 1] \in Int /\ pl[b] \in Int
    BY <1>1, <1>2, <2>1
  <2> QED
    BY ONLY <2>2, pl[b] = pl[a] + 1
<1> QED
  BY ONLY <1>1, <1>3, <1>4, a \in 1..Len(r), b \in 1..Len(r)

\* A piece that is hidden is after a "#" on its line.
LEMMA HiddenCommented ==
  ASSUME file \in Seq(Seq(STRING)), NEW off, NEW flat, Offsets(off, file, flat),
         NEW i \in 1..Len(file), NEW k \in 1..Len(file[i]), file[i] # <<"\n">>,
         HiddenIn(flat, off[i] + k)
  PROVE  Commented(i, k)
<1>1. Len(file) \in Nat /\ \A m \in 1..Len(file) : Len(file[m]) \in Nat /\ DOMAIN file[m] = 1..Len(file[m])
  <2>1. \A m \in 1..Len(file) : file[m] \in Seq(STRING)
    OBVIOUS
  <2> QED
    BY <2>1
<1>2. /\ Len(flat) \in Nat /\ \A m \in 1..Len(file) : off[m] \in Nat
      /\ \A m \in 1..Len(file) : \A q \in 1..Len(file[m]) :
           off[m] + q \in 1..Len(flat) /\ flat[off[m] + q] = file[m][q]
      /\ \A m, j \in 1..Len(file) : m < j => off[m] + Len(file[m]) <= off[j]
      /\ \A p \in 1..Len(flat) : \E m \in 1..Len(file) : \E q \in 1..Len(file[m]) : p = off[m] + q
  BY DEF Offsets
<1>3. PICK r \in 1..(off[i] + k) : flat[r] = "#" /\ \A p \in r..(off[i] + k) : flat[p] # "\n"
  BY DEF HiddenIn
<1>4. off[i] + k \in 1..Len(flat)
  BY <1>2
<1>5. r \in 1..Len(flat)
  BY ONLY <1>2, <1>3, <1>4
<1>6. PICK j \in 1..Len(file) : \E q \in 1..Len(file[j]) : r = off[j] + q
  BY <1>2, <1>5
<1>b. PICK q \in 1..Len(file[j]) : r = off[j] + q
  BY <1>6
<1>7. file[j][q] = "#"
  BY <1>2, <1>3, <1>6, <1>b
<1>8. /\ i \in Int /\ j \in Int /\ k \in Int /\ q \in Int /\ off[i] \in Int /\ off[j] \in Int
      /\ Len(file[i]) \in Int /\ Len(file[j]) \in Int /\ k <= Len(file[i]) /\ q <= Len(file[j])
      /\ q >= 1 /\ k >= 1 /\ r <= off[i] + k
  <2>1. Len(file) \in Nat /\ Len(file[i]) \in Nat /\ Len(file[j]) \in Nat /\ off[i] \in Nat /\ off[j] \in Nat
    BY <1>1, <1>2, <1>6, <1>b
  <2> QED
    BY ONLY <2>1, <1>3, <1>6, <1>b, i \in 1..Len(file), k \in 1..Len(file[i])
<1>9. ~ (i < j)
  <2>1. i < j => off[i] + Len(file[i]) <= off[j]
    BY <1>2, <1>6, <1>b
  <2> QED
    BY ONLY <1>6, <1>b, <1>8, <2>1
<1>10. j \in 1..i
  BY ONLY <1>1, <1>6, <1>b, <1>8, <1>9
<1>11. j = i => q <= k
  <2> SUFFICES ASSUME j = i PROVE q <= k
    OBVIOUS
  <2>1. off[j] = off[i]
    OBVIOUS
  <2> QED
    BY ONLY <1>6, <1>b, <1>8, <2>1
<1>12. ASSUME NEW m \in j..i, file[m] = <<"\n">> PROVE FALSE
  <2>1. m \in 1..Len(file) /\ m \in Int
    BY ONLY <1>1, <1>6, <1>b, <1>12, i \in 1..Len(file)
  <2>2. m # i
    BY <1>12
  <2>3. m # j
    <3> SUFFICES ASSUME m = j PROVE FALSE
      OBVIOUS
    <3>1. <<"\n">>[q] = "#" /\ q \in 1..Len(<<"\n">>)
      BY <1>6, <1>b, <1>7, <1>12
    <3>2. q = 1
      BY <3>1
    <3> QED
      BY <3>1, <3>2
  <2>4. j < m /\ m < i
    BY ONLY <1>8, <1>12, <2>1, <2>2, <2>3
  <2>5. off[j] + Len(file[j]) <= off[m] /\ off[m] + Len(file[m]) <= off[i] /\ off[m] \in Nat
    BY <1>2, <1>6, <1>b, <2>1, <2>4
  <2>6. Len(file[m]) = 1 /\ file[m][1] = "\n"
    BY <1>12
  <2>7. off[m] + 1 \in r..(off[i] + k)
    <3>1. off[i] \in Int /\ off[j] \in Int /\ off[m] \in Int /\ Len(file[j]) \in Int /\ q \in Int /\ k \in Int
      BY <1>8, <2>5
    <3>2. q <= Len(file[j]) /\ k >= 1 /\ r = off[j] + q /\ off[j] + Len(file[j]) <= off[m]
      BY <1>8, <1>b, <2>5
    <3>3. off[m] + 1 <= off[i]
      BY ONLY <2>5, <2>6
    <3>4. r \in Int /\ r <= off[m] + 1
      <4>1. r \in Int
        BY ONLY <3>1, <3>2
      <4>2. r <= off[j] + Len(file[j])
        BY ONLY <3>1, <3>2
      <4> QED
        BY ONLY <3>1, <3>2, <4>1, <4>2
    <3>5. off[m] + 1 <= off[i] + k
      BY ONLY <3>1, <3>2, <3>3
    <3>6. off[m] + 1 \in Int /\ off[i] + k \in Int
      <4>1. off[m] + 1 \in Int
        BY ONLY <3>1
      <4>2. off[i] + k \in Int
        BY ONLY <3>1
      <4> QED
        BY ONLY <4>1, <4>2
    <3> QED
      BY ONLY <3>4, <3>5, <3>6
  <2>8. flat[off[m] + 1] = "\n"
    <3>1. 1 \in 1..Len(file[m])
      BY <2>6
    <3>2. flat[off[m] + 1] = file[m][1]
      BY <1>2, <2>1, <3>1
    <3> QED
      BY ONLY <2>6, <3>2
  <2> QED
    BY <1>3, <2>7, <2>8
<1>13. q \in DOMAIN file[j]
  BY <1>1, <1>6, <1>b
<1> QED
  BY <1>7, <1>10, <1>11, <1>12, <1>13 DEF Commented

\* What a type says of the word.
LEMMA TypesTell ==
  ASSUME NEW w
  PROVE  /\ w \in DOMAIN Sizes => TokenType(w) = "MUL"
         /\ TokenType(w) = "NUMBER" => w \in DOMAIN Numbers
         /\ TokenType(w) = ";" => w = ";"
         /\ TokenType(w) = "client_max_body_size" => w = "client_max_body_size"
<1>1. /\ DOMAIN Sizes \cap Directives = {}
      /\ DOMAIN Numbers \cap (Directives \cup DOMAIN Sizes) = {}
  <2>1. DOMAIN Sizes = LowerCase \cup UpperCase /\ DOMAIN Numbers \cap (Directives \cup DOMAIN Sizes) = {}
    BY ConfigAssumption
  <2> QED
    BY <2>1 DEF Directives, LowerCase, UpperCase
<1>2. w \in DOMAIN Sizes => TokenType(w) = "MUL"
  BY <1>1 DEF TokenType
<1>3. CASE w \in Directives
  <2>1. TokenType(w) = w
    BY <1>1, <1>3 DEF TokenType
  <2>2. "NUMBER" \notin Directives
    BY DEF Directives
  <2> QED
    BY <1>2, <1>3, <2>1, <2>2
<1>4. CASE w \notin Directives
  <2>1. TokenType(w) \in {"MUL", "NUMBER", "STRING"} /\ (TokenType(w) = "NUMBER" => w \in DOMAIN Numbers)
    BY <1>1, <1>4 DEF TokenType
  <2> QED
    BY <1>2, <2>1
<1> QED
  BY <1>3, <1>4

\* A word with a unit has no line end.
LEMMA NoLineEnd ==
  ASSUME file \in Files, NEW i \in DOMAIN file, NEW k \in 1..Len(file[i]), file[i][k] \in DOMAIN Sizes
  PROVE  /\ file \in Seq(Seq(STRING)) /\ DOMAIN file = 1..Len(file) /\ file[i] \in Seq(STRING)
         /\ file[i] # <<"\n">> /\ \A q \in 1..Len(file[i]) : file[i][q] # "\n"
         /\ \A q \in 1..(Len(file[i]) - 1) :
              {file[i][q], file[i][q + 1]} \cap ({";", "{", "}"} \cup LowerCase) # {}
<1>1. /\ file \in Seq(Seq(STRING)) /\ CutRight(file[i]) /\ DOMAIN Sizes = {"k", "m", "g", "K", "M", "G"}
  BY ConfigAssumption DEF LowerCase, UpperCase
<1>2. DOMAIN file = 1..Len(file) /\ file[i] \in Seq(STRING)
  BY <1>1
<1>3. file[i] # <<"\n">>
  <2> SUFFICES ASSUME file[i] = <<"\n">> PROVE FALSE
    OBVIOUS
  <2>1. k = 1 /\ file[i][1] = "\n"
    <3>1. Len(file[i]) = 1 /\ file[i][1] = "\n"
      OBVIOUS
    <3>2. k \in 1..1
      BY <3>1
    <3> QED
      BY <3>1, <3>2
  <2>2. file[i][k] = "\n"
    BY <2>1
  <2> QED
    BY ONLY <1>1, <2>2, file[i][k] \in DOMAIN Sizes
<1>4. \A q \in 1..Len(file[i]) : file[i][q] # "\n"
  <2> SUFFICES ASSUME NEW q \in 1..Len(file[i]), file[i][q] = "\n" PROVE FALSE
    OBVIOUS
  <2>1. q \in DOMAIN file[i]
    BY <1>2
  <2>2. "\n" \in ToSet(file[i])
    BY <2>1 DEF ToSet
  <2> QED
    BY <1>1, <1>3, <2>2 DEF CutRight
<1>5. \A q \in 1..(Len(file[i]) - 1) :
              {file[i][q], file[i][q + 1]} \cap ({";", "{", "}"} \cup LowerCase) # {}
  BY <1>1 DEF CutRight
<1> QED
  BY <1>1, <1>2, <1>3, <1>4, <1>5

\* No file in which a word is cut but at a size is loaded.
LEMMA UnitsWhole ==
  ASSUME file \in Files, _tokens = tokenize(file), Legal,
         NEW i \in DOMAIN file, NEW k \in 2..Len(file[i]), file[i][k] \in DOMAIN Sizes, ~Commented(i, k)
  PROVE  /\ k = 2 /\ file[i][1] \in DOMAIN Numbers
         /\ Len(file[i]) > 2 => file[i][3] \in {";", "#"}
<1> DEFINE w == file[i]
           flat == SanitizeInput(file)
           T == ShownAt(flat)
           words == Shown(flat)
<1>1. Tape(_tokens)
  <2>1. ~Negative(file)
    BY DEF Legal
  <2> QED
    BY <2>1, TokensAre
<1>2. Len(w) \in Nat /\ k \in 1..Len(w) /\ k \in Int /\ k >= 2
  <2>1. file \in Seq(Seq(STRING))
    BY ConfigAssumption
  <2>2. w \in Seq(STRING)
    BY <2>1
  <2>3. Len(w) \in Nat
    BY <2>2
  <2> QED
    BY ONLY <2>3, k \in 2..Len(file[i])
<1>3. /\ file \in Seq(Seq(STRING)) /\ DOMAIN file = 1..Len(file) /\ w \in Seq(STRING)
      /\ w # <<"\n">> /\ \A q \in 1..Len(w) : w[q] # "\n"
      /\ \A q \in 1..(Len(w) - 1) : {w[q], w[q + 1]} \cap ({";", "{", "}"} \cup LowerCase) # {}
  BY <1>2, NoLineEnd
<1>4. flat \in Seq(STRING) /\ flat = FlattenSeq(file) /\ Len(flat) \in Nat /\ DOMAIN flat = 1..Len(flat)
  <2>1. flat \in Seq(STRING) /\ flat = FlattenSeq(file)
    BY <1>3, FlattenSeqIs DEF SanitizeInput
  <2> HIDE DEF flat
  <2> QED
    BY <2>1
<1>5. PICK off : Offsets(off, file, flat)
  BY <1>3, <1>4, FlattenPlaces
<1>6. PICK pl : PlacesOf(pl, flat, T, words)
  BY <1>4, SelectedPlaces, ShownSelects
<1>7. /\ Len(words) \in Nat /\ Len(_tokens) = Len(words) + 1
      /\ \A m \in 1..Len(words) : _tokens[m].type = TokenType(words[m])
  BY TokenizeIs
<1>8. Len(Words) = Len(words)
  BY <1>1, <1>7, WordsAre
<1>a. w = file[i] /\ (\A m : m \in T <=> m \in DOMAIN flat /\ ~HiddenIn(flat, m) /\ flat[m] # "\n")
  BY DEF ShownAt
<1> HIDE DEF flat, T, words, w
<1>9. /\ i \in 1..Len(file) /\ off[i] \in Nat
      /\ \A q \in 1..Len(w) : off[i] + q \in 1..Len(flat) /\ flat[off[i] + q] = w[q]
  BY <1>3, <1>5, <1>a DEF Offsets
<1>10. \A m \in 1..Len(words) : words[m] = flat[pl[m]] /\ pl[m] \in T /\ pl[m] \in 1..Len(flat)
  BY <1>6 DEF PlacesOf
<1>11. \A p \in 1..Len(flat) : p \in T => \E m \in 1..Len(words) : pl[m] = p
  BY <1>6 DEF PlacesOf
\* What is before it in its word is not hidden either.
<1>12. ASSUME NEW q \in 1..k PROVE off[i] + q \in T
  <2>1. q \in 1..Len(w)
    BY ONLY <1>2, <1>12
  <2>2. off[i] + q \in DOMAIN flat /\ flat[off[i] + q] = w[q] /\ w[q] # "\n"
    BY <1>3, <1>4, <1>9, <2>1
  <2>3. ~HiddenIn(flat, off[i] + q)
    <3> SUFFICES ASSUME HiddenIn(flat, off[i] + q) PROVE FALSE
      OBVIOUS
    <3>1. Commented(i, q)
      <4>1. q \in 1..Len(file[i]) /\ file[i] # <<"\n">>
        BY <1>3, <1>a, <2>1
      <4> QED
        BY <1>3, <1>5, <1>9, <4>1, HiddenCommented
    <3>2. PICK j \in 1..i : \E r \in DOMAIN file[j] :
            file[j][r] = "#" /\ (j = i => r <= q) /\ \A m \in j..i : file[m] # <<"\n">>
      BY <3>1 DEF Commented
    <3>3. PICK r \in DOMAIN file[j] :
            file[j][r] = "#" /\ (j = i => r <= q) /\ \A m \in j..i : file[m] # <<"\n">>
      BY <3>2
    <3>4. j = i => r <= k
      <4> SUFFICES ASSUME j = i PROVE r <= k
        OBVIOUS
      <4>0. DOMAIN w = 1..Len(w)
        <5>1. w \in Seq(STRING)
          BY <1>3
        <5> QED
          BY ONLY <5>1
      <4>1. r \in 1..Len(w) /\ r <= q
        BY <1>a, <3>3, <4>0
      <4> QED
        BY ONLY <1>2, <4>1, <1>12
    <3>5. Commented(i, k)
      BY <3>2, <3>3, <3>4 DEF Commented
    <3> QED
      BY <3>5
  <2> QED
    BY <1>a, <2>2, <2>3
\* The unit is a token between two others of its statement.
<1>13. k \in 1..k /\ k - 1 \in 1..k /\ k - 1 \in 1..Len(w)
  BY ONLY <1>2
<1>14. PICK u \in 1..Len(words) : pl[u] = off[i] + k
  <2>1. off[i] + k \in T /\ off[i] + k \in 1..Len(flat)
    BY <1>2, <1>9, <1>12, <1>13
  <2> QED
    BY <1>11, <2>1
<1>15. _tokens[u].type = "MUL"
  <2>1. words[u] = w[k]
    BY <1>2, <1>9, <1>10, <1>14
  <2>2. w[k] \in DOMAIN Sizes
    BY <1>a
  <2> QED
    BY <1>7, <1>14, <2>1, <2>2, TypesTell
<1>16. /\ u - 2 \in 1..Len(words) /\ words[u - 2] = "client_max_body_size"
       /\ u - 1 \in 1..Len(words) /\ words[u - 1] \in DOMAIN Numbers
       /\ u + 1 \in 1..Len(words) /\ words[u + 1] = ";"
  <2>1. /\ u - 2 \in 1..Len(words) /\ _tokens[u - 2].type = "client_max_body_size"
        /\ u - 1 \in 1..Len(words) /\ _tokens[u - 1].type = "NUMBER"
        /\ u + 1 \in 1..Len(words) /\ _tokens[u + 1].type = ";"
    <3>1. u \in 1..Len(Words)
      BY <1>8, <1>14
    <3> QED
      BY <1>1, <1>8, <1>15, <3>1, UnitBetween
  <2> QED
    BY <1>7, <2>1, TypesTell
\* Those before it are the pieces before it.
<1>17. PICK v \in 1..Len(words) : pl[v] = off[i] + (k - 1)
  <2>1. off[i] + (k - 1) \in T /\ off[i] + (k - 1) \in 1..Len(flat)
    BY <1>9, <1>12, <1>13
  <2> QED
    BY <1>11, <2>1
<1>18. v = u - 1
  <2>1. pl[u] = pl[v] + 1
    <3>1. off[i] \in Nat
      BY <1>9
    <3> QED
      BY ONLY <1>2, <1>14, <1>17, <3>1
  <2>2. u = v + 1
    BY <1>4, <1>6, <1>14, <1>17, <2>1, NextTo
  <2> QED
    BY ONLY <1>7, <1>14, <1>17, <2>2
<1>19. w[k - 1] \in DOMAIN Numbers
  BY <1>9, <1>10, <1>13, <1>16, <1>17, <1>18
<1>20. k = 2
  <2> SUFFICES ASSUME k # 2 PROVE FALSE
    OBVIOUS
  <2>1. k - 2 \in 1..k /\ k - 2 \in 1..Len(w) /\ k - 2 \in 1..(Len(w) - 1) /\ (k - 2) + 1 = k - 1
    BY ONLY <1>2, k # 2
  <2>2. PICK x \in 1..Len(words) : pl[x] = off[i] + (k - 2)
    <3>1. off[i] + (k - 2) \in T /\ off[i] + (k - 2) \in 1..Len(flat)
      BY <1>9, <1>12, <2>1
    <3> QED
      BY <1>11, <3>1
  <2>3. x = u - 2
    <3>1. pl[v] = pl[x] + 1
      <4>1. off[i] \in Nat
        BY <1>9
      <4> QED
        BY ONLY <1>2, <1>17, <2>2, <4>1
    <3>2. v = x + 1
      BY <1>4, <1>6, <1>17, <2>2, <3>1, NextTo
    <3> QED
      BY ONLY <1>7, <1>14, <1>18, <2>2, <3>2
  <2>4. w[k - 2] = "client_max_body_size"
    BY <1>9, <1>10, <1>16, <2>1, <2>2, <2>3
  <2>5. {w[k - 2], w[k - 1]} \cap ({";", "{", "}"} \cup LowerCase) # {}
    BY <1>3, <2>1
  <2>6. /\ LowerCase = {"k", "m", "g"}
        /\ w[k - 1] \notin {";", "{", "}"} \cup LowerCase
    <3>1. LowerCase \subseteq DOMAIN Sizes /\ DOMAIN Numbers \cap (Directives \cup DOMAIN Sizes) = {}
      BY ConfigAssumption
    <3> QED
      BY <1>19, <3>1 DEF Directives, LowerCase
  <2> QED
    BY ONLY <2>4, <2>5, <2>6
\* What is after it is the end of the statement, or hidden.
<1>21. ASSUME Len(w) > 2, w[3] # "#" PROVE w[3] = ";"
  <2>1. 3 \in 1..Len(w) /\ 2 \in 1..Len(w)
    BY ONLY <1>2, <1>21
  <2>2. /\ off[i] + 3 \in 1..Len(flat) /\ flat[off[i] + 3] = w[3] /\ w[3] # "\n"
        /\ off[i] + 3 \in DOMAIN flat
    BY <1>3, <1>4, <1>9, <2>1
  <2>3. ~HiddenIn(flat, off[i] + 3)
    <3> SUFFICES ASSUME HiddenIn(flat, off[i] + 3) PROVE FALSE
      OBVIOUS
    <3>1. PICK j \in 1..(off[i] + 3) : flat[j] = "#" /\ \A p \in j..(off[i] + 3) : flat[p] # "\n"
      BY DEF HiddenIn
    <3>2. j # off[i] + 3
      BY <1>21, <2>2, <3>1
    <3>3. j \in 1..(off[i] + 2) /\ \A p \in j..(off[i] + 2) : p \in j..(off[i] + 3)
      <4>1. off[i] \in Int /\ j \in Int /\ j >= 1 /\ j <= off[i] + 2
        <5>1. off[i] \in Int
          BY ONLY <1>9
        <5>2. j \in Int /\ j >= 1 /\ j <= off[i] + 3
          BY ONLY <3>1, <5>1
        <5> QED
          BY ONLY <3>2, <5>1, <5>2
      <4> QED
        BY ONLY <4>1
    <3>4. HiddenIn(flat, off[i] + 2)
      BY <3>1, <3>3 DEF HiddenIn
    <3>5. off[i] + 2 \in T
      BY <1>12, <1>13, <1>20
    <3> QED
      BY <1>a, <3>4, <3>5
  <2>4. off[i] + 3 \in T
    BY <1>a, <2>2, <2>3
  <2>5. PICK y \in 1..Len(words) : pl[y] = off[i] + 3
    BY <1>11, <2>2, <2>4
  <2>6. y = u + 1
    <3>1. pl[y] = pl[u] + 1
      BY ONLY <1>9, <1>14, <1>20, <2>5
    <3> QED
      BY <1>4, <1>6, <1>14, <2>5, <3>1, NextTo
  <2> QED
    BY <1>10, <1>16, <2>2, <2>5, <2>6
<1>22. k - 1 = 1
  BY <1>20
<1> QED
  BY <1>19, <1>20, <1>21, <1>22, <1>a


-----------------------------------------------------------------------------
(* The theorems.                                                            *)

\* From the file to the sockets: the parser stays within its tokens, a listen
\* directive has a number that is not negative, and the sockets that listen
\* are the lowest descriptors, at addresses that have been tried.
THEOREM Invariance == Spec => []IInv
<1>1. IInv /\ file \in Files /\ [Next]_vars => IInv'
  <2> SUFFICES ASSUME IInv, file \in Files, [Next]_vars PROVE IInv'
    OBVIOUS
  <2>1. CASE Unopened \/ Tokenized
    BY <2>1, StartKeeps
  <2>2. CASE NegativeNumber
    <3>1. phase \in Parsing /\ Throw
      BY <2>2 DEF NegativeNumber, Parsing
    <3> QED
      BY <3>1, ThrowKeeps
  <2>3. CASE ParserStep
    BY <2>3, ParserKeeps
  <2>4. CASE loadConfig \/ StartServer \/ runEventLoop
    BY <2>4, LoadKeeps, StartServerKeeps, RunKeeps
  <2>5. CASE \E port \in attempts : NoSocket(port) \/ ListenFails(port) \/ listenOnAddr(port)
    BY <2>5, FailureKeeps, ListenKeepsSockets
  <2>6. CASE UNCHANGED vars
    BY <2>6, StutterKeeps
  <2> QED
    BY <2>1, <2>2, <2>3, <2>4, <2>5, <2>6 DEF Next
<1> QED
  BY <1>1, InitHolds, FileStays, PTL DEF Spec

\* Type correctness: the parser never reads past the END token, and every
\* port is one of 16 bits (Parser::consume, listenDirective).
THEOREM TypeCorrect == Spec => []TypeOK
<1>1. IInv => TypeOK
  BY DEF IInv
<1> QED
  BY <1>1, Invariance, PTL

\* Each listening socket has an address of its own and answers for all blocks
\* of that address, whichever sockets fail (Server::StartServer, listenOnAddr).
THEOREM AddressesServedHolds == Spec => []AddressesServed
<1>1. IInv => AddressesServed
  BY DEF IInv
<1> QED
  BY <1>1, Invariance, PTL

\* While it parses, the parser is at a place of the text up to which its blocks
\* hold what is written; a file is loaded only when the text is in the grammar.
LEMMA LoadingHolds == Spec => [](Loading /\ Loaded)
<1>1. Init => Loading /\ Loaded
  <2> SUFFICES ASSUME Init PROVE Loading /\ Loaded
    OBVIOUS
  <2>1. /\ phase = "start" /\ loaded = FALSE /\ _tokens = <<>> /\ _index = 1 /\ directive = ""
        /\ expected = <<>> /\ _servers = <<>> /\ location = NewLocation("")
    BY DEF Init
  <2>2. DOMAIN location = LocationFields
    BY <2>1 DEF NewLocation, LocationFields
  <2> QED
    BY <2>1, <2>2 DEF Loading, Loaded, Blocks
<1>2. IInv /\ file \in Files /\ Loading /\ Loaded /\ [Next]_vars => (Loading /\ Loaded)'
  <2> SUFFICES ASSUME IInv, file \in Files, Loading, Loaded, [Next]_vars
               PROVE  Loading' /\ Loaded'
    OBVIOUS
  <2>1. CASE Unopened
    <3>1. phase' = "exited"
      BY <2>1 DEF Unopened
    <3> QED
      BY <3>1 DEF Loading, Loaded, Blocks
  <2>2. CASE Tokenized
    BY <2>2, TokenizedLoading
  <2>3. CASE NegativeNumber
    <3>1. phase = "start" /\ Throw
      BY <2>3 DEF NegativeNumber
    <3>2. _tokens = <<>> /\ loaded = FALSE /\ phase \in Parsing
      BY <3>1 DEF Loading, Parsing
    <3> QED
      BY <3>1, <3>2, ThrownLoaded
  <2>4. CASE Directive \/ consume \/ GoOn \/ Reads
    BY <2>4, ParserLoading
  <2>5. CASE UnknownDirective \/ UnexpectedToken \/ NeitherOnNorOff
    <3>1. phase \in Blocks /\ Throw
      BY <2>5, InServerIs DEF UnknownDirective, UnexpectedToken, NeitherOnNorOff, InBlock,
           Locations, Blocks
    <3>2. loaded = FALSE /\ Midst /\ phase \in Parsing
      BY <3>1 DEF Loading, Parsing
    <3>3. PICK n : Syntax(n)
      BY <3>2 DEF Midst
    <3>4. ~Legal
      BY <2>5, <3>3, UnknownIllegal, UnexpectedIllegal, NeitherIllegal
    <3> QED
      BY <3>1, <3>2, <3>4, ThrownLoaded
  <2>6. CASE loadConfig
    BY <2>6, EndLoaded
  <2>7. CASE StartServer \/ runEventLoop \/ \E port \in attempts : Attempt(port)
    <3>1. phase' \in {"listening", "exited", "running"}
      BY <2>7 DEF StartServer, runEventLoop, Attempt
    <3> QED
      BY <3>1 DEF Loading, Loaded, Blocks
  <2>8. CASE UNCHANGED vars
    BY <2>8, StutterLoading
  <2>9. (\E port \in attempts : NoSocket(port) \/ ListenFails(port) \/ listenOnAddr(port)) =>
          \E port \in attempts : Attempt(port)
    BY DEF NoSocket, ListenFails, listenOnAddr
  <2>10. ParserStep => \/ Directive \/ consume \/ GoOn \/ Reads
                       \/ UnknownDirective \/ UnexpectedToken \/ NeitherOnNorOff
    BY DEF ParserStep, Reads
  <2> QED
    BY <2>1, <2>2, <2>3, <2>4, <2>5, <2>6, <2>7, <2>8, <2>9, <2>10 DEF Next
<1> QED
  BY <1>1, <1>2, Invariance, FileStays, PTL DEF Spec

\* A file is taken as a whole or not at all: once it is loaded, every block and
\* location stands for what is written between its braces, in the order in which
\* it is written, as far as ports and codes fit in their types and units are in
\* lower case (Parser::loadConfig and the directives it calls).
THEOREM ParsedAsWrittenHolds == Spec => []ParsedAsWritten
<1>1. Loaded => ParsedAsWritten
  BY DEF Loaded, ParsedAsWritten
<1> QED
  BY <1>1, LoadingHolds, PTL

\* Parser::SanitizeInput cuts every word at a unit, yet in a file that is loaded
\* it has cut nothing but sizes, a number before and the statement's end after:
\* wherever else a unit is met, the parser throws.
THEOREM WordsWholeHolds == Spec => []WordsWhole
<1>1. Loaded /\ file \in Files => WordsWhole
  <2> SUFFICES ASSUME Loaded, file \in Files, phase = "loaded", loaded,
                      NEW i \in DOMAIN file, NEW k \in 2..Len(file[i]),
                      file[i][k] \in DOMAIN Sizes, ~Commented(i, k)
               PROVE  /\ k = 2 /\ file[i][1] \in DOMAIN Numbers
                      /\ Len(file[i]) > 2 => file[i][3] \in {";", "#"}
    BY DEF WordsWhole
  <2>1. Legal /\ _tokens = tokenize(file)
    BY DEF Loaded
  <2> QED
    BY <2>1, UnitsWhole
<1> QED
  BY <1>1, LoadingHolds, FileStays, PTL
=============================================================================
