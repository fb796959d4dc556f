----------------------------- MODULE SiteProofs -----------------------------
(* For any requests, server blocks, tree of files, scripts and seconds: the *)
(* location is the right one, a response says what was done to the files,   *)
(* and fits them when nobody else changed them, no script is sent as a      *)
(* file, and uploads overwrite only uploads of their own second.            *)
(*                                                                          *)
(* The invariant has three parts.  Disk: every file is in a directory, and  *)
(* is known by one path.  Reached, FormSoFar, Unanswered: what a method     *)
(* knows at each of its system calls, of the request and of what it has     *)
(* done, but nothing of the files, which others change.  And the properties *)
(* themselves.  Seen is what it knows of the files while nobody does.       *)
(*                                                                          *)
(* normalize_path and LocationFor are recursive functions, so that what     *)
(* they give for every text and every list of locations needs induction     *)
(* (Recursion of Basics).                                                   *)
EXTENDS Site, Basics, SequenceTheorems

(* Text.                                                                    *)

\* The characters and pieces the model mentions are pieces.
LEMMA Literals ==
  /\ "." \in Pieces /\ "p" \in Pieces /\ "/" \in Pieces /\ "upload_" \in Pieces
  /\ ".bin" \in Pieces /\ "CRLF" \in Pieces /\ "other" \in Pieces /\ "page" \in Pieces
BY DEF Pieces

\* Two texts in a row are a text, whose characters are those of the two.
LEMMA Joined ==
  ASSUME NEW a \in Text, NEW b \in Text
  PROVE  /\ a \o b \in Text /\ Len(a \o b) = Len(a) + Len(b)
         /\ \A i \in 1..Len(a) : (a \o b)[i] = a[i]
         /\ \A i \in 1..Len(b) : (a \o b)[Len(a) + i] = b[i]
<1>1. a \in Seq(Pieces) /\ b \in Seq(Pieces)
  BY DEF Text
<1>2. Len(a) \in Nat /\ Len(b) \in Nat
  BY <1>1
<1> QED
  BY <1>1, <1>2 DEF Text

\* A script's path ends with the two pieces of its extension.
LEMMA ScriptEnd ==
  ASSUME NEW p \in Text
  PROVE  IsScript(p) <=> Len(p) >= 2 /\ p[Len(p) - 1] = "." /\ p[Len(p)] = "p"
<1> DEFINE e == <<".", "p">>
           r == Reverse(e)
           q == Reverse(p)
<1>1. p \in Seq(Pieces) /\ Len(p) \in Nat
  BY DEF Text
<1>2. Len(e) = 2 /\ e[1] = "." /\ e[2] = "p"
  OBVIOUS
<1>3. r = [i \in 1..2 |-> e[(2 - i) + 1]]
  BY <1>2 DEF Reverse
<1> HIDE DEF e, r
<1>4. r \in [1..2 -> Pieces] /\ r[1] = "p" /\ r[2] = "."
  <2>1. (2 - 1) + 1 = 2 /\ (2 - 2) + 1 = 1 /\ 1 \in 1..2 /\ 2 \in 1..2
    OBVIOUS
  <2>2. r[1] = "p" /\ r[2] = "."
    BY <1>2, <1>3, <2>1
  <2>3. \A i \in 1..2 : r[i] \in Pieces
    <3>1. \A i \in 1..2 : i = 1 \/ i = 2
      OBVIOUS
    <3>3. r[1] \in Pieces /\ r[2] \in Pieces
      BY <2>2, Literals
    <3> QED
      BY <3>1, <3>3
  <2>4. DOMAIN r = 1..2 /\ r = [i \in 1..2 |-> r[i]]
    BY <1>3
  <2> QED
    BY <2>2, <2>3, <2>4
<1>5. r \in Seq(Pieces) /\ Len(r) = 2
  <2> DEFINE two == 2
  <2>1. two \in Nat /\ r \in [1..two -> Pieces]
    BY <1>4
  <2> HIDE DEF two
  <2>2. r \in Seq(Pieces) /\ Len(r) = two
    BY <2>1, SeqOfLength
  <2> QED
    BY <2>2 DEF two
<1>6. q = [i \in 1..Len(p) |-> p[(Len(p) - i) + 1]]
  BY DEF Reverse
<1>7. q \in [1..Len(p) -> Pieces]
  BY <1>1, <1>6
<1>8. q \in Seq(Pieces) /\ Len(q) = Len(p)
  BY <1>1, <1>7
<1>9. IsScript(p) <=> 2 <= Len(q) /\ SubSeq(r, 1, 2) = SubSeq(q, 1, 2)
  BY <1>5 DEF IsScript, IsSuffix, IsPrefix, e, r
<1>10. CASE Len(p) < 2
  BY <1>1, <1>8, <1>9, <1>10
<1>11. CASE Len(p) >= 2
  <2>1. q[1] = p[Len(p)] /\ q[2] = p[Len(p) - 1]
    BY <1>1, <1>6, <1>11
  <2> HIDE DEF q, r
  <2>2. ASSUME NEW s \in Seq(Pieces), Len(s) >= 2 PROVE SubSeq(s, 1, 2) = <<s[1], s[2]>>
    <3>1. Len(s) \in Nat
      OBVIOUS
    <3>2. SubSeq(s, 1, 2) \in Seq(Pieces) /\ Len(SubSeq(s, 1, 2)) = 2
      BY <2>2, <3>1
    <3>3. <<s[1], s[2]>> \in Seq(Pieces) /\ Len(<<s[1], s[2]>>) = 2
      BY <2>2, <3>1
    <3>4. \A i \in 1..2 : SubSeq(s, 1, 2)[i] = <<s[1], s[2]>>[i]
      BY <2>2, <3>1
    <3> QED
      BY <3>2, <3>3, <3>4, SeqEqual
  <2>3. SubSeq(r, 1, 2) = <<r[1], r[2]>> /\ SubSeq(q, 1, 2) = <<q[1], q[2]>>
    <3>1. Len(r) >= 2 /\ Len(q) >= 2
      BY <1>5, <1>8, <1>11
    <3> QED
      BY <1>5, <1>8, <2>2, <3>1
  <2> QED
    BY <1>1, <1>4, <1>8, <1>9, <1>11, <2>1, <2>3
<1> QED
  BY <1>1, <1>10, <1>11

\* What a text of two pieces or more is a script of, a longer one is, too.
LEMMA ScriptSuffix ==
  ASSUME NEW a \in Text, NEW b \in Text, Len(b) >= 2
  PROVE  IsScript(a \o b) <=> IsScript(b)
<1>1. Len(a) \in Nat /\ Len(b) \in Nat
  BY DEF Text
<1>2. a \o b \in Text /\ Len(a \o b) = Len(a) + Len(b)
  BY Joined
<1>3. (a \o b)[Len(a) + Len(b)] = b[Len(b)] /\ (a \o b)[Len(a) + (Len(b) - 1)] = b[Len(b) - 1]
  BY <1>1, Joined
<1>4. Len(a) + (Len(b) - 1) = Len(a \o b) - 1 /\ Len(a \o b) >= 2
  BY <1>1, <1>2
<1> QED
  BY <1>2, <1>3, <1>4, ScriptEnd

\* The second of two texts ends both, if there is one.
LEMMA SlashedJoin ==
  ASSUME NEW a \in Text, NEW b \in Text, b # <<>>
  PROVE  Slashed(a \o b) <=> Slashed(b)
<1>1. Len(a) \in Nat /\ Len(b) \in Nat /\ Len(b) > 0
  BY DEF Text
<1>2. Len(a \o b) = Len(a) + Len(b) /\ a \o b \in Seq(Pieces)
  BY Joined DEF Text
<1>3. (a \o b)[Len(a) + Len(b)] = b[Len(b)]
  BY <1>1, Joined
<1>4. a \o b # <<>>
  BY <1>1, <1>2
<1> QED
  BY <1>2, <1>3, <1>4 DEF Slashed, Last

\* The path of an upload: a text without a slash at its end, whose directory
\* is the upload store, and that contains the second.
LEMMA Named ==
  ASSUME NEW store \in Text, ~Slashed(store), NEW second \in Pieces \ {"/"},
         NEW name \in Text, "/" \notin ToSet(name)
  PROVE  LET p == store \o <<"/", "upload_", second>> \o name
         IN  p \in Text /\ ~Slashed(p) /\ Parent(p) = store /\ second \in ToSet(p)
<1> DEFINE m == <<"/", "upload_", second>>
           sm == store \o m
           p == sm \o name
           n == Len(store)
           S == Slashes(p)
<1>1. store \in Seq(Pieces) /\ name \in Seq(Pieces) /\ n \in Nat /\ Len(name) \in Nat
  BY DEF Text
<1>2. m \in Text /\ Len(m) = 3 /\ m[1] = "/" /\ m[2] = "upload_" /\ m[3] = second
  <2>1. "/" \in Pieces /\ "upload_" \in Pieces /\ second \in Pieces
    BY Literals
  <2> HIDE DEF Text
  <2>2. m \in Seq(Pieces)
    BY <2>1
  <2> QED
    BY <2>2 DEF Text
<1>3. /\ sm \in Text /\ Len(sm) = n + 3
      /\ \A i \in 1..n : sm[i] = store[i]
      /\ sm[n + 1] = "/" /\ sm[n + 2] = "upload_" /\ sm[n + 3] = second
  <2> HIDE DEF m
  <2>1. /\ sm \in Text /\ Len(sm) = n + Len(m)
        /\ \A i \in 1..n : sm[i] = store[i]
        /\ \A i \in 1..Len(m) : sm[n + i] = m[i]
    BY <1>2, Joined
  <2>2. 1 \in 1..3 /\ 2 \in 1..3 /\ 3 \in 1..3
    OBVIOUS
  <2> QED
    BY <1>1, <1>2, <2>1, <2>2
<1>4. /\ p \in Text /\ Len(p) = n + 3 + Len(name)
      /\ \A i \in 1..n : p[i] = store[i]
      /\ p[n + 1] = "/" /\ p[n + 2] = "upload_" /\ p[n + 3] = second
      /\ \A i \in 1..Len(name) : p[n + 3 + i] = name[i]
  <2> HIDE DEF sm
  <2>1. /\ p \in Text /\ Len(p) = Len(sm) + Len(name)
        /\ \A i \in 1..Len(sm) : p[i] = sm[i]
        /\ \A i \in 1..Len(name) : p[Len(sm) + i] = name[i]
    BY <1>3, Joined
  <2> QED
    BY <1>1, <1>3, <2>1
<1> HIDE DEF p, m, sm
<1>5. p \in Seq(Pieces) /\ DOMAIN p = 1..Len(p) /\ p # <<>>
  BY <1>1, <1>4 DEF Text
<1>6. \A i \in 1..Len(name) : name[i] # "/"
  BY <1>1 DEF ToSet
<1>7. \A i \in (n + 2)..Len(p) : p[i] # "/"
  <2> SUFFICES ASSUME NEW i \in (n + 2)..Len(p) PROVE p[i] # "/"
    OBVIOUS
  <2>1. CASE i = n + 2
    BY <1>4, <2>1
  <2>2. CASE i = n + 3
    BY <1>4, <2>2
  <2>3. CASE i > n + 3
    <3>1. i - (n + 3) \in 1..Len(name) /\ n + 3 + (i - (n + 3)) = i
      BY <1>1, <1>4, <2>3
    <3> QED
      BY <1>4, <1>6, <3>1
  <2> QED
    BY <1>1, <2>1, <2>2, <2>3
<1>8. ~Slashed(p)
  BY <1>1, <1>4, <1>5, <1>7 DEF Slashed, Last
<1>9. S \subseteq 0..Len(p) /\ n + 1 \in S /\ \A i \in S : i <= n + 1
  BY <1>1, <1>4, <1>5, <1>7 DEF Slashes
<1>10. Max(S) = n + 1
  <2> HIDE DEF S
  <2>1. Len(p) \in Nat /\ S # {}
    BY <1>1, <1>4, <1>9
  <2>2. Max(S) \in S /\ \A k \in S : k <= Max(S)
    BY <1>9, <2>1, GreatestNumber
  <2> DEFINE M == Max(S)
  <2>4. M \in S /\ \A k \in S : k <= M
    BY <2>2
  <2> HIDE DEF M
  <2>5. M <= n + 1 /\ n + 1 <= M
    BY <1>9, <2>4
  <2>6. M \in 0..Len(p)
    BY <1>9, <2>4
  <2>3. M <= n + 1 /\ n + 1 <= M /\ M \in Nat
    BY <2>1, <2>5, <2>6
  <2> QED
    BY <1>1, <2>3 DEF M
<1>11. Parent(p) = SubSeq(p, 1, n)
  BY <1>1, <1>9, <1>10 DEF Parent
<1>12. SubSeq(p, 1, n) = store
  <2>1. SubSeq(p, 1, n) \in Seq(Pieces) /\ Len(SubSeq(p, 1, n)) = n
    BY <1>1, <1>4, <1>5
  <2>2. \A i \in 1..n : SubSeq(p, 1, n)[i] = store[i]
    BY <1>1, <1>4, <1>5
  <2> QED
    BY <1>1, <2>1, <2>2, SeqEqual
<1>13. second \in ToSet(p)
  BY <1>1, <1>4, <1>5 DEF ToSet
<1> QED
  BY <1>4, <1>8, <1>11, <1>12, <1>13 DEF p, sm, m

(* The file system.                                                         *)

\* What a stat() finds.
Info == [type : {"file", "dir", "none"}, data : Text, mode : SUBSET {"r", "w"}]

\* Every path is written in the one way, and leads through directories.
Disk ==
  /\ \A p \in DOMAIN fs : Spelt(p) /\ fs[p] \in Entry
  /\ \A p \in DOMAIN fs \ {<<>>} : Parent(p) \in DOMAIN fs /\ fs[Parent(p)].type = "dir"

\* The empty text is one, and what a file that is not there has.
LEMMA Nothing == <<>> \in Text /\ Missing \in Info
<1>1. <<>> \in Text
  BY DEF Text
<1> QED
  BY <1>1 DEF Missing, Info

\* A slash is dropped from the end of a path only if there is one.
LEMMA StripOf ==
  ASSUME NEW p
  PROVE  (~Slashed(p) => Strip(p) = p) /\ (Slashed(p) => Strip(p) = Front(p))
BY DEF Strip

\* stat() finds an entry or nothing, a directory's or nothing if the path
\* ends with a slash.
LEMMA StatIs ==
  ASSUME Disk, NEW p
  PROVE  /\ Stat(p) \in Info
         /\ Stat(p).type = "none" <=> Stat(p) = Missing
         /\ Stat(p).type # "none" => Strip(p) \in DOMAIN fs /\ Stat(p) = fs[Strip(p)]
         /\ Stat(p).type = "file" => ~Slashed(p) /\ p \in DOMAIN fs /\ Stat(p) = fs[p]
         /\ Stat(p).type \in {"file", "dir", "none"}
<1>1. CASE Strip(p) \notin DOMAIN fs \/ (Slashed(p) /\ fs[Strip(p)].type = "file")
  <2>1. Stat(p) = Missing
    BY <1>1 DEF Stat
  <2> QED
    BY <2>1, Nothing DEF Missing
<1>2. CASE ~ (Strip(p) \notin DOMAIN fs \/ (Slashed(p) /\ fs[Strip(p)].type = "file"))
  <2>1. Stat(p) = fs[Strip(p)] /\ Strip(p) \in DOMAIN fs
    BY <1>2 DEF Stat
  <2>2. fs[Strip(p)] \in Entry
    BY <2>1 DEF Disk
  <2>3. Stat(p).type \in {"file", "dir"} /\ Stat(p) \in Info
    BY <2>1, <2>2 DEF Entry, Info
  <2>4. Stat(p).type = "file" => ~Slashed(p)
    BY <1>2, <2>1
  <2>5. Stat(p) # Missing
    BY <2>3 DEF Missing
  <2> QED
    BY <2>1, <2>3, <2>4, <2>5, StripOf
<1> QED
  BY <1>1, <1>2

\* A path in the tree is its own spelling, and stat() finds it.
LEMMA StatOfEntry ==
  ASSUME Disk, NEW p \in DOMAIN fs
  PROVE  Strip(p) = p /\ Stat(p) = fs[p] /\ Stat(p).type \in {"file", "dir"}
<1>1. ~Slashed(p) /\ fs[p] \in Entry
  BY DEF Disk, Spelt
<1>2. Strip(p) = p /\ Stat(p) = fs[p]
  BY <1>1, StripOf DEF Stat
<1> QED
  BY <1>1, <1>2 DEF Entry

\* Only a directory has entries.
LEMMA NoEntries ==
  ASSUME Disk, NEW p \in DOMAIN fs, fs[p].type # "dir"
  PROVE  Entries(p) = {}
<1> SUFFICES ASSUME NEW q \in Entries(p) PROVE FALSE
  OBVIOUS
<1>1. q \in DOMAIN fs /\ q # p /\ Parent(q) = p
  BY DEF Entries
<1>2. CASE q = <<>>
  <2>1. Slashes(q) = {}
    BY <1>2 DEF Slashes
  <2> QED
    BY <1>1, <1>2, <2>1 DEF Parent
<1>3. CASE q # <<>>
  BY <1>1, <1>3 DEF Disk
<1> QED
  BY <1>2, <1>3

\* An entry that is written keeps the disk in order, if its directory is
\* there and it does not replace one.
LEMMA DiskPut ==
  ASSUME Disk, NEW p, Spelt(p), NEW entry \in Entry, fs' = Put(p, entry),
         p # <<>> => Parent(p) \in DOMAIN fs /\ fs[Parent(p)].type = "dir",
         p \in DOMAIN fs /\ fs[p].type = "dir" => entry.type = "dir"
  PROVE  Disk'
<1>1. DOMAIN fs' = DOMAIN fs \cup {p} /\ fs'[p] = entry /\ \A q \in DOMAIN fs \ {p} : fs'[q] = fs[q]
  BY DEF Put
<1>2. \A q \in DOMAIN fs' : Spelt(q) /\ fs'[q] \in Entry
  BY <1>1 DEF Disk
<1>3. ASSUME NEW q \in DOMAIN fs, fs[q].type = "dir"
      PROVE  q \in DOMAIN fs' /\ fs'[q].type = "dir"
  <2>1. CASE q = p
    BY <1>1, <1>3, <2>1
  <2>2. CASE q # p
    BY <1>1, <1>3, <2>2
  <2> QED
    BY <2>1, <2>2
<1>4. ASSUME NEW q \in DOMAIN fs' \ {<<>>}
      PROVE  Parent(q) \in DOMAIN fs' /\ fs'[Parent(q)].type = "dir"
  <2>1. Parent(q) \in DOMAIN fs /\ fs[Parent(q)].type = "dir"
    <3>1. CASE q = p
      BY <3>1, <1>4
    <3>2. CASE q # p
      <4>1. q \in DOMAIN fs \ {<<>>}
        BY <1>1, <1>4, <3>2
      <4> QED
        BY <4>1 DEF Disk
    <3> QED
      BY <3>1, <3>2
  <2> QED
    BY <2>1, <1>3
<1> QED
  BY <1>2, <1>4 DEF Disk

\* So does one that is removed, if nothing is in it.
LEMMA DiskWithout ==
  ASSUME Disk, NEW p, Entries(p) = {}, fs' = Without(p)
  PROVE  Disk'
<1>1. DOMAIN fs' = DOMAIN fs \ {p} /\ \A q \in DOMAIN fs \ {p} : fs'[q] = fs[q]
  BY DEF Without
<1>2. \A q \in DOMAIN fs' : Spelt(q) /\ fs'[q] \in Entry
  BY <1>1 DEF Disk
<1>3. ASSUME NEW q \in DOMAIN fs' \ {<<>>}
      PROVE  Parent(q) \in DOMAIN fs' /\ fs'[Parent(q)].type = "dir"
  <2>1. q \in DOMAIN fs \ {<<>>} /\ q # p
    BY <1>1, <1>3
  <2>2. Parent(q) \in DOMAIN fs /\ fs[Parent(q)].type = "dir"
    BY <2>1 DEF Disk
  <2>3. Parent(q) # p
    BY <2>1 DEF Entries
  <2> QED
    BY <1>1, <2>2, <2>3
<1> QED
  BY <1>2, <1>3 DEF Disk

\* What stat() finds where nothing was written or removed stays the same.
LEMMA StatAfterPut ==
  ASSUME NEW p, ~Slashed(p), NEW entry, fs' = Put(p, entry), NEW q, ~Slashed(q)
  PROVE  Stat(q)' = IF q = p THEN entry ELSE Stat(q)
<1>1. DOMAIN fs' = DOMAIN fs \cup {p} /\ fs'[p] = entry /\ \A x \in DOMAIN fs \ {p} : fs'[x] = fs[x]
  BY DEF Put
<1>2. Strip(q) = q
  BY StripOf
<1> QED
  BY <1>1, <1>2 DEF Stat

\* What was removed is not there, whichever way it is written.
LEMMA StatAfterWithout ==
  ASSUME NEW p, fs' = Without(p), NEW q, Strip(q) = p
  PROVE  Stat(q)' = Missing
<1>1. DOMAIN fs' = DOMAIN fs \ {p}
  BY DEF Without
<1> QED
  BY <1>1 DEF Stat

(* Routing.                                                                 *)

\* A path without double slashes is a text.
LEMMA Normalized ==
  ASSUME NEW s \in Text
  PROVE  normalize_path(s) \in Text
<1> DEFINE N == Len(s)
           Next_(r, i) == IF s[i] = "/" /\ i > 1 /\ s[i - 1] = "/" THEN r ELSE Append(r, s[i])
           D == [x \in Text \X (1..N) |-> Next_(x[1], x[2])]
           Step(f) == [i \in 0..N |->
                         IF i = 0 THEN <<>>
                         ELSE IF s[i] = "/" /\ i > 1 /\ s[i - 1] = "/" THEN f[i - 1]
                         ELSE Append(f[i - 1], s[i])]
           result == CHOOSE f : f = Step(f)
<1>1. s \in Seq(Pieces) /\ N \in Nat
  BY DEF Text
<1>2. D \in [Text \X (1..N) -> Text]
  <2>1. ASSUME NEW x \in Text \X (1..N) PROVE Next_(x[1], x[2]) \in Text
    <3>1. x[1] \in Seq(Pieces) /\ x[2] \in 1..N
      BY DEF Text
    <3>2. s[x[2]] \in Pieces
      BY <1>1, <3>1
    <3>3. Append(x[1], s[x[2]]) \in Seq(Pieces)
      BY <3>1, <3>2
    <3> QED
      BY <3>1, <3>3 DEF Text
  <2> HIDE DEF Next_
  <2> QED
    BY <2>1
<1>3. PICK f \in [0..N -> Text] : f[0] = <<>> /\ \A i \in 1..N : f[i] = D[<<f[i - 1], i>>]
  <2> DEFINE c == <<>>
  <2>1. c \in Text /\ N \in Nat
    BY <1>1, Nothing
  <2>2. c = <<>>
    OBVIOUS
  <2> HIDE DEF D, N, c
  <2>3. D \in Steps(N, Text)
    BY <1>2 DEF Steps
  <2>4. \E f \in [0..N -> Text] : Follows(f, N, c, D)
    BY <2>1, <2>3, Recursion
  <2> QED
    BY <2>2, <2>4 DEF Follows
<1>4. \A i \in 1..N : f[i] = Next_(f[i - 1], i)
  <2> SUFFICES ASSUME NEW i \in 1..N PROVE f[i] = Next_(f[i - 1], i)
    OBVIOUS
  <2>1. f[i - 1] \in Text
    BY <1>1
  <2>2. <<f[i - 1], i>> \in Text \X (1..N)
    BY <2>1
  <2> HIDE DEF Next_
  <2>3. D[<<f[i - 1], i>>] = Next_(f[i - 1], i)
    BY <2>2
  <2> QED
    BY <1>3, <2>3
<1>5. f = Step(f)
  <2>1. \A i \in 0..N : f[i] = Step(f)[i]
    <3> SUFFICES ASSUME NEW i \in 0..N PROVE f[i] = Step(f)[i]
      OBVIOUS
    <3>1. CASE i = 0
      BY <1>1, <1>3, <3>1
    <3>2. CASE i # 0
      <4>1. i \in 1..N
        BY <1>1, <3>2
      <4>2. Step(f)[i] = Next_(f[i - 1], i)
        BY <3>2
      <4> QED
        BY <1>4, <4>1, <4>2
    <3> QED
      BY <3>1, <3>2
  <2> QED
    BY <2>1
<1>6. result = Step(result)
  <2> HIDE DEF Step
  <2> QED
    BY <1>5
<1>7. result \in [0..N -> Text]
  <2> DEFINE P == {i \in 0..N : result[i] \in Text}
  <2>1. 0 \in P
    <3> HIDE DEF result
    <3>1. 0 \in 0..N /\ result[0] = Step(result)[0]
      BY <1>1, <1>6
    <3>2. result[0] = <<>>
      BY <3>1
    <3> QED
      BY <3>1, <3>2, Nothing
  <2>2. ASSUME NEW i \in 0..(N - 1), i \in P PROVE i + 1 \in P
    <3>1. i + 1 \in 0..N /\ i + 1 # 0 /\ (i + 1) - 1 = i /\ i + 1 \in 1..N
      BY <1>1
    <3>2. result[i + 1] = Step(result)[i + 1]
      BY <1>6
    <3> HIDE DEF result
    <3>3. result[i + 1] = result[i] \/ result[i + 1] = Append(result[i], s[i + 1])
      BY <3>1, <3>2
    <3>4. s[i + 1] \in Pieces
      BY <1>1, <3>1
    <3>5. result[i] \in Seq(Pieces)
      BY <2>2 DEF Text
    <3>6. Append(result[i], s[i + 1]) \in Seq(Pieces)
      BY <3>4, <3>5
    <3> QED
      BY <3>1, <3>3, <3>5, <3>6 DEF Text
  <2>3. 0..N \subseteq P
    <3> HIDE DEF P, N
    <3> QED
      BY <1>1, <2>1, <2>2, UpTo
  <2>4. result = [i \in 0..N |-> result[i]]
    <3>1. DOMAIN result = 0..N
      BY <1>6
    <3> HIDE DEF result
    <3>2. Step(result) = [i \in 0..N |-> Step(result)[i]]
      OBVIOUS
    <3> HIDE DEF Step
    <3> QED
      BY <1>6, <3>2 DEF result
  <2> HIDE DEF result
  <2> QED
    BY <2>3, <2>4
<1>8. normalize_path(s) = result[N]
  BY DEF normalize_path
<1> HIDE DEF result
<1> QED
  BY <1>1, <1>7, <1>8

\* There are server blocks, each with texts for locations.
LEMMA Blocks ==
  /\ Len(Servers) \in Nat /\ Len(Servers) > 0 /\ DOMAIN Servers = 1..Len(Servers)
  /\ \A b \in DOMAIN Servers : Servers[b].locations \in Seq(Location)
<1>1. Servers \in Seq({Servers[i] : i \in DOMAIN Servers}) \ {<<>>}
  BY SiteAssumption DEF Configured
<1> DEFINE S == {Servers[i] : i \in DOMAIN Servers}
<1>2. Servers \in Seq(S) /\ Servers # <<>>
  BY <1>1
<1> HIDE DEF S
<1>3. Len(Servers) \in Nat /\ Len(Servers) > 0 /\ DOMAIN Servers = 1..Len(Servers)
  BY <1>2
<1> QED
  BY <1>3, SiteAssumption DEF Configured

\* The block that match_location takes is one of the file's, and names the
\* host if any does.
LEMMA ServerForIs ==
  ASSUME NEW host
  PROVE  /\ ServerFor(host) \in DOMAIN Servers
         /\ \A i \in DOMAIN Servers : host \in Servers[i].serverNames
              => host \in Servers[ServerFor(host)].serverNames
<1> DEFINE named == {i \in DOMAIN Servers : host \in Servers[i].serverNames}
<1>1. ServerFor(host) = IF named = {} THEN 1 ELSE Max(named)
  BY DEF ServerFor
<1>2. named \subseteq 0..Len(Servers)
  BY Blocks
<1>3. CASE named = {}
  BY <1>1, <1>3, Blocks
<1>4. CASE named # {}
  <2>1. \A i \in named : i \in DOMAIN Servers /\ host \in Servers[i].serverNames
    OBVIOUS
  <2> HIDE DEF named
  <2>2. Max(named) \in named
    BY <1>2, <1>4, Blocks, GreatestNumber
  <2> QED
    BY <1>1, <1>4, <2>1, <2>2
<1> QED
  BY <1>3, <1>4

\* The paths of a block's locations are texts.
LEMMA PathsOf ==
  ASSUME NEW b \in DOMAIN Servers
  PROVE  /\ Paths[b] \in Seq(Text)
         /\ Len(Paths[b]) = Len(Servers[b].locations) /\ Len(Paths[b]) \in Nat
         /\ \A i \in 1..Len(Paths[b]) : Paths[b][i] = normalize_path(Servers[b].locations[i].location)
<1> DEFINE L == Servers[b].locations
           N == Len(L)
<1>1. L \in Seq(Location) /\ N \in Nat /\ DOMAIN L = 1..N
  <2>1. L \in Seq(Location)
    BY Blocks
  <2> QED
    BY <2>1
<1>2. Paths[b] = [i \in 1..N |-> normalize_path(L[i].location)]
  BY <1>1 DEF Paths
<1>3. \A i \in 1..N : normalize_path(L[i].location) \in Text
  <2>0. \A i \in 1..N : L[i] \in Location
    BY <1>1
  <2>1. \A i \in 1..N : L[i].location \in Text
    <3> HIDE DEF L, N
    <3> QED
      BY <2>0 DEF Location
  <2> QED
    BY <2>1, Normalized
<1> DEFINE P == Paths[b]
<1>4. P \in [1..N -> Text] /\ \A i \in 1..N : P[i] = normalize_path(L[i].location)
  <2> HIDE DEF N, L
  <2> QED
    BY <1>2, <1>3
<1>5. P \in Seq(Text) /\ Len(P) = N
  <2> HIDE DEF P, N
  <2> QED
    BY <1>1, <1>4, SeqOfLength
<1> QED
  BY <1>1, <1>4, <1>5

\* Of texts that a text begins with, the best is the longest.
LEMMA LocationForIs ==
  ASSUME NEW b \in DOMAIN Servers, NEW uri \in Text
  PROVE  LET P == Paths[b]
             i == LocationFor(b, uri)
         IN  /\ i \in 0..Len(P)
             /\ i = 0 => \A j \in 1..Len(P) : ~IsPrefix(P[j], uri)
             /\ i # 0 => /\ IsPrefix(P[i], uri)
                         /\ \A j \in 1..Len(P) : IsPrefix(P[j], uri) => Len(P[j]) <= Len(P[i])
<1> DEFINE P == Paths[b]
           N == Len(P)
           Exact(i) == i # 0 /\ P[i] = uri
           Better(i, j) == IsPrefix(P[i], uri) /\ (j = 0 \/ Len(P[i]) > Len(P[j]))
           Next_(r, i) == IF ~Exact(r) /\ (Exact(i) \/ Better(i, r)) THEN i ELSE r
           D == [x \in (0..N) \X (1..N) |-> Next_(x[1], x[2])]
           Step(f) == [i \in 0..N |->
                         IF i = 0 THEN 0
                         ELSE IF ~Exact(f[i - 1]) /\ (Exact(i) \/ Better(i, f[i - 1])) THEN i
                         ELSE f[i - 1]]
           best == CHOOSE f : f = Step(f)
<1>1. P \in Seq(Text) /\ N \in Nat
  BY PathsOf
<1>2. D \in [(0..N) \X (1..N) -> 0..N]
  <2>1. ASSUME NEW x \in (0..N) \X (1..N) PROVE Next_(x[1], x[2]) \in 0..N
    <3>1. x[1] \in 0..N /\ x[2] \in 0..N
      BY <1>1
    <3> QED
      BY <3>1
  <2> HIDE DEF Next_
  <2> QED
    BY <2>1
<1>3. PICK f \in [0..N -> 0..N] : f[0] = 0 /\ \A i \in 1..N : f[i] = D[<<f[i - 1], i>>]
  <2> DEFINE S == 0..N
  <2>1. 0 \in S
    BY <1>1
  <2> HIDE DEF S
  <2>2. D \in Steps(N, S)
    BY <1>2 DEF Steps, S
  <2> HIDE DEF D, N
  <2>3. \E f \in [0..N -> S] : Follows(f, N, 0, D)
    BY <1>1, <2>1, <2>2, Recursion
  <2> QED
    BY <2>3 DEF Follows, S
<1>4. \A i \in 1..N : f[i] = Next_(f[i - 1], i)
  <2> SUFFICES ASSUME NEW i \in 1..N PROVE f[i] = Next_(f[i - 1], i)
    OBVIOUS
  <2>1. f[i - 1] \in 0..N
    BY <1>1
  <2>2. <<f[i - 1], i>> \in (0..N) \X (1..N)
    BY <2>1
  <2> HIDE DEF Next_
  <2>3. D[<<f[i - 1], i>>] = Next_(f[i - 1], i)
    BY <2>2
  <2> QED
    BY <1>3, <2>3
<1> HIDE DEF Exact, Better, P
<1>5. f = Step(f)
  <2>1. \A i \in 0..N : f[i] = Step(f)[i]
    <3> SUFFICES ASSUME NEW i \in 0..N PROVE f[i] = Step(f)[i]
      OBVIOUS
    <3>1. CASE i = 0
      BY <1>1, <1>3, <3>1
    <3>2. CASE i # 0
      <4>1. i \in 1..N
        BY <1>1, <3>2
      <4>2. Step(f)[i] = Next_(f[i - 1], i)
        BY <3>2
      <4> QED
        BY <1>4, <4>1, <4>2
    <3> QED
      BY <3>1, <3>2
  <2> QED
    BY <2>1
<1>6. best = Step(best)
  <2> HIDE DEF Step
  <2> QED
    BY <1>5
<1> HIDE DEF best
<1>7. best[0] = 0
  <2>1. 0 \in 0..N
    BY <1>1
  <2> QED
    BY <1>6, <2>1
<1>8. \A i \in 1..N : best[i] = Next_(best[i - 1], i)
  <2> SUFFICES ASSUME NEW i \in 1..N PROVE best[i] = Next_(best[i - 1], i)
    OBVIOUS
  <2>1. i \in 0..N /\ i # 0
    BY <1>1
  <2>2. best[i] = Step(best)[i]
    BY <1>6
  <2> QED
    BY <2>1, <2>2
<1> DEFINE Good(r, k) ==
      /\ r \in 0..k
      /\ r = 0 => \A j \in 1..k : ~IsPrefix(P[j], uri)
      /\ r # 0 => /\ IsPrefix(P[r], uri)
                  /\ \A j \in 1..k : IsPrefix(P[j], uri) => Len(P[j]) <= Len(P[r])
           K == {k \in 0..N : Good(best[k], k)}
<1>9. 0 \in K
  BY <1>1, <1>7
<1>10. Len(uri) \in Nat /\ \A i \in 1..N : Len(P[i]) \in Nat
  <2>1. uri \in Seq(Pieces) /\ \A i \in 1..N : P[i] \in Seq(Pieces)
    BY <1>1 DEF Text
  <2> QED
    BY <2>1
<1>11. \A i \in 1..N : IsPrefix(P[i], uri) => Len(P[i]) <= Len(uri)
  BY DEF IsPrefix
<1>12. \A i \in 1..N : P[i] = uri => IsPrefix(P[i], uri)
  BY <1>10 DEF IsPrefix
<1>13. ASSUME NEW k \in 0..(N - 1), k \in K PROVE k + 1 \in K
  <2> DEFINE r == best[k]
             i == k + 1
  <2>1. i \in 1..N /\ i \in 0..N /\ i - 1 = k /\ i # 0 /\ \A j \in 1..i : j \in 1..k \/ j = i
    BY <1>1
  <2>2. best[i] = Next_(r, i)
    BY <1>8, <2>1
  <2>3. Good(r, k)
    BY <1>13
  <2> HIDE DEF r, i
  <2>4. r \in 0..k /\ r \in 0..N /\ (r # 0 => r \in 1..N) /\ k \in Nat
    BY <1>1, <2>3
  <2>5. CASE ~Exact(r) /\ (Exact(i) \/ Better(i, r))
    <3>1. best[i] = i
      BY <2>2, <2>5
    <3>2. IsPrefix(P[i], uri)
      BY <1>12, <2>1, <2>5 DEF Exact, Better
    <3>3. ASSUME NEW j \in 1..i, IsPrefix(P[j], uri) PROVE Len(P[j]) <= Len(P[i])
      <4>1. CASE j = i
        BY <1>10, <2>1, <4>1
      <4>2. CASE j \in 1..k
        <5>1. r # 0 /\ Len(P[j]) <= Len(P[r]) /\ j \in 1..N
          BY <1>1, <2>3, <3>3, <4>2
        <5>2. CASE Exact(i)
          BY <1>10, <1>11, <2>1, <3>3, <5>1, <5>2 DEF Exact
        <5>3. CASE Better(i, r)
          <6>1. Len(P[i]) > Len(P[r])
            BY <5>1, <5>3 DEF Better
          <6> QED
            BY <1>10, <2>1, <2>4, <5>1, <6>1
        <5> QED
          BY <2>5, <5>2, <5>3
      <4> QED
        BY <2>1, <4>1, <4>2
    <3>4. i \in 0..i
      BY <2>1
    <3> QED
      BY <2>1, <3>1, <3>2, <3>3, <3>4 DEF i
  <2>6. CASE ~(~Exact(r) /\ (Exact(i) \/ Better(i, r)))
    <3>1. best[i] = r /\ r \in 0..i
      BY <2>1, <2>2, <2>4, <2>6
    <3>2. CASE r = 0
      <4>1. ~IsPrefix(P[i], uri)
        BY <2>6, <3>2 DEF Exact, Better
      <4> QED
        BY <2>1, <2>3, <3>1, <3>2, <4>1 DEF i
    <3>3. CASE r # 0
      <4>1. IsPrefix(P[r], uri) /\ \A j \in 1..k : IsPrefix(P[j], uri) => Len(P[j]) <= Len(P[r])
        BY <2>3, <3>3
      <4>2. IsPrefix(P[i], uri) => Len(P[i]) <= Len(P[r])
        <5>1. CASE Exact(r)
          BY <1>11, <2>1, <5>1 DEF Exact
        <5>2. CASE ~Exact(r)
          <6>1. ~Better(i, r)
            BY <2>6, <5>2
          <6>2. IsPrefix(P[i], uri) => ~(Len(P[i]) > Len(P[r]))
            BY <3>3, <6>1 DEF Better
          <6> QED
            BY <1>10, <2>1, <2>4, <3>3, <6>2
        <5> QED
          BY <5>1, <5>2
      <4> QED
        BY <2>1, <3>1, <3>3, <4>1, <4>2 DEF i
    <3> QED
      BY <3>2, <3>3
  <2> QED
    BY <2>5, <2>6
<1>14. N \in K
  <2>1. 0..N \subseteq K
    <3> HIDE DEF K, N
    <3> QED
      BY <1>1, <1>9, <1>13, UpTo
  <2> QED
    BY <1>1, <2>1
<1>15. LocationFor(b, uri) = best[N]
  BY DEF LocationFor, best, Exact, Better, P
<1> QED
  BY <1>14, <1>15 DEF P

(* The invariant.                                                           *)

Places ==
  {"idle", "build", "GET", "index", "opendir", "read", "POST", "save", "part",
   "DELETE", "readdir", "access", "rmdir", "remove", "script", "done", "crashed"}

Typed ==
  /\ clock \in DOMAIN Stamps /\ asked \in 0..MaxRequests /\ meddling \in 0..MaxMeddling
  /\ request \in Requests /\ server_config \in ToSet(Servers) \cup {NoServer}
  /\ location_config \in ToSet(server_config.locations) \cup {NULL}
  /\ response.status \in Nat /\ pc \in Places /\ disturbed \in BOOLEAN
  /\ parts = <<>> \/ pc = "part"

\* A method is called: the location allows it, and no script is asked for.
Called(method) ==
  /\ location_config # NULL /\ request.error = 0 /\ ~location_config.has_return
  /\ ~ForScript /\ request.method = method /\ method \in Routes

Asked == location_config.root \o request.uri

\* What a method knows by the place it has reached.
Reached ==
  /\ pc \in {"GET", "index", "opendir", "read"} => Called("GET")
  /\ pc \in {"GET", "index", "opendir"} => path = Asked
  /\ pc \in {"index", "opendir"} => Slashed(request.uri)
  /\ pc \in {"POST", "save", "part"} => Called("POST")
  /\ pc \in {"DELETE", "readdir", "access", "rmdir", "remove"} => Called("DELETE") /\ path = Asked
  /\ pc = "script" => ForScript /\ location_config # NULL
  /\ pc \notin {"part", "done"} => effects = <<>>

\* The number of effects on the way; what a form has written is uploads, and
\* the response so far names the last.
Effect == [path : Text, entry : Info]
FormSoFar ==
  pc = "part" =>
    /\ request.kind = "multipart" /\ effects \in Seq(Effect)
    /\ parts \in Seq(FormPart)
    /\ \A i \in DOMAIN parts : parts[i].form = "good" => "/" \notin ToSet(parts[i].name)
    /\ \A i \in DOMAIN effects : Spelt(effects[i].path) /\ Parent(effects[i].path) = location_config.uploadStore
    /\ response = Reply(response.status, response.body, response.headers)
    /\ \/ effects = <<>> /\ response.status = 0
       \/ effects # <<>> /\ response.status = 201 /\ response.body = Saved(Last(effects).path)

Unanswered == pc \notin {"part", "done"} => response = Reply(0, <<>>, NoHeaders)

IInv ==
  /\ Disk /\ Typed /\ Reached /\ FormSoFar /\ Unanswered
  /\ RoutedRight /\ AnswerTellsEffects /\ ScriptsNotServed

\* A request is what the parser lets through.
LEMMA RequestIs ==
  ASSUME request \in Requests
  PROVE  /\ request.uri \in Text /\ (request.error = 0 => request.uri # <<>> /\ request.uri[1] = "/")
         /\ request.error = 0 \/ request.error \in {400, 404, 411, 414, 417, 431, 501, 505}
         /\ request.body \in Text /\ request.parts \in Seq(FormPart)
         /\ request.kind # "multipart" => request.parts = <<>>
         /\ \A i \in DOMAIN request.parts :
              request.parts[i].form = "good" => "/" \notin ToSet(request.parts[i].name)
BY RequestsAssumption DEF Parsed

\* The location of a request, if there is one, is one of the file's.
LEMMA LocationIs ==
  ASSUME Typed, location_config # NULL
  PROVE  location_config \in Location /\ ~Slashed(location_config.uploadStore)
<1>1. location_config \in ToSet(server_config.locations)
  BY DEF Typed
<1>2. CASE server_config = NoServer
  <2>1. ToSet(server_config.locations) = {}
    BY <1>2 DEF NoServer, ToSet
  <2> QED
    BY <1>1, <2>1
<1>3. CASE server_config \in ToSet(Servers)
  <2>1. PICK b \in DOMAIN Servers : server_config = Servers[b]
    BY <1>3 DEF ToSet
  <2>2. server_config.locations \in Seq(Location)
    BY <2>1, Blocks
  <2>3. location_config \in Location
    BY <1>1, <2>2 DEF ToSet
  <2>4. \A l \in ToSet(Servers[b].locations) : ~Slashed(l.uploadStore)
    BY <2>1, SiteAssumption DEF Configured
  <2> QED
    BY <1>1, <2>1, <2>3, <2>4
<1> QED
  BY <1>2, <1>3 DEF Typed

\* The fields of a location.
LEMMA LocationFields ==
  ASSUME Typed, location_config # NULL
  PROVE  /\ location_config.root \in Text /\ location_config.index \in Text
         /\ location_config.uploadStore \in Text
         /\ location_config.return_code \in Nat
         /\ location_config.allowedMethods \subseteq Methods
<1>1. location_config \in Location
  BY LocationIs
<1> QED
  BY <1>1 DEF Location

\* What is said of a request and its location stays true while they stay.
LEMMA RoutingKept ==
  ASSUME UNCHANGED routing
  PROVE  /\ ForScript' <=> ForScript
         /\ Redirects' <=> Redirects
         /\ Routes' = Routes /\ Target' = Target /\ Asked' = Asked
         /\ \A m : Called(m)' <=> Called(m)
<1>1. request' = request /\ location_config' = location_config
  BY DEF routing
<1>2. ForScript' <=> ForScript
  BY <1>1 DEF ForScript, is_cgi_request
<1>3. Redirects' <=> Redirects
  BY <1>1, <1>2 DEF Redirects
<1>4. Routes' = Routes /\ Target' = Target /\ Asked' = Asked
  BY <1>1 DEF Routes, Target, Asked
<1>5. \A m : Called(m)' <=> Called(m)
  BY <1>1, <1>2, <1>4 DEF Called
<1> QED
  BY <1>2, <1>3, <1>4, <1>5

\* The headers that are added leave the status, the body and a Location alone
\* (generate_response_only).
LEMMA Sent ==
  ASSUME NEW s, NEW b, NEW h, generate_response_only(Reply(s, b, h))
  PROVE  /\ response'.status = s /\ response'.body = b
         /\ "Location" \in DOMAIN h => response'.headers["Location"] = h["Location"]
         /\ pc' = "done" /\ UNCHANGED <<clock, routing, path, parts>>
<1> DEFINE r == Reply(s, b, h)
           plain == framing(r.headers, r.body)
           allow == IF "Allow" \in DOMAIN plain \/ location_config = NULL THEN plain
                    ELSE Set(plain, "Allow", location_config.allowedMethods)
<1>1. PICK g : (g = plain \/ g = allow) /\ response' = [r EXCEPT !.headers = g]
  BY DEF generate_response_only, include_required_headers
<1>2. r.status = s /\ r.body = b /\ r.headers = h
  BY DEF Reply
<1>3. response'.status = s /\ response'.body = b /\ response'.headers = g
  BY <1>1 DEF Reply
<1>4. ASSUME "Location" \in DOMAIN h PROVE "Location" \in DOMAIN plain /\ plain["Location"] = h["Location"]
  BY <1>2, <1>4 DEF framing, Set
<1>5. ASSUME "Location" \in DOMAIN h PROVE g["Location"] = h["Location"]
  <2> HIDE DEF plain
  <2>1. CASE g = plain
    BY <1>4, <1>5, <2>1
  <2>2. CASE g = allow
    BY <1>4, <1>5, <2>2 DEF Set
  <2> QED
    BY <1>1, <2>1, <2>2
<1> QED
  BY <1>3, <1>5 DEF generate_response_only

\* What a method answers is sent, unless the location redirects
\* (handle_redirection).
LEMMA AnswerIs ==
  ASSUME location_config # NULL, NEW s, NEW b, NEW h, Answer(Reply(s, b, h))
  PROVE  /\ pc' = "done" /\ UNCHANGED <<clock, routing, path, parts>>
         /\ location_config.isRedirect =>
              response'.status \in {301, 302} /\ response'.headers["Location"] = location_config.redirectUrl
         /\ ~location_config.isRedirect => response'.status = s /\ response'.body = b
<1> DEFINE r == Reply(s, b, h)
<1>1. CASE location_config.isRedirect
  <2> DEFINE status == IF location_config.isRedirectPermanent THEN 301 ELSE 302
             g == Set(r.headers, "Location", location_config.redirectUrl)
             page == generate_error_page(status)
  <2>1. generate_response_only(Reply(status, page, g))
    BY <1>1 DEF Answer, handle_redirection
  <2>2. "Location" \in DOMAIN g /\ g["Location"] = location_config.redirectUrl
    BY DEF Set
  <2>3. status \in {301, 302}
    OBVIOUS
  <2> HIDE DEF status, g, page
  <2>4. /\ response'.status = status
        /\ response'.headers["Location"] = g["Location"]
        /\ pc' = "done" /\ UNCHANGED <<clock, routing, path, parts>>
    BY <2>1, <2>2, Sent
  <2> QED
    BY <1>1, <2>2, <2>3, <2>4
<1>2. CASE ~location_config.isRedirect
  <2>1. generate_response_only(Reply(s, b, h))
    BY <1>2 DEF Answer, handle_redirection
  <2> QED
    BY <1>2, <2>1, Sent
<1> QED
  BY <1>1, <1>2

(* Answers.                                                                 *)

\* An answer of a method tells what was written or removed.
LEMMA Told ==
  ASSUME Typed, location_config # NULL, request.error = 0, ~ForScript,
         NEW s \in Nat, NEW b, NEW h, Answer(Reply(s, b, h)),
         \/ /\ effects' = <<>>
            /\ \/ s \in KnownStatus \ {201, 204} \/ location_config.has_return
               \/ s = 0 /\ request.kind = "multipart"
         \/ Called("DELETE") /\ s = 204 /\ effects' = <<[path |-> Target, entry |-> Missing]>>
         \/ /\ Called("POST") /\ s = 201 /\ effects' # <<>> /\ b = Saved(Last(effects').path)
            /\ \A i \in DOMAIN effects' : Parent(effects'[i].path) = location_config.uploadStore
  PROVE  AnswerTellsEffects'
<1>1. /\ pc' = "done" /\ UNCHANGED routing
      /\ location_config.isRedirect =>
           response'.status \in {301, 302} /\ response'.headers["Location"] = location_config.redirectUrl
      /\ ~location_config.isRedirect => response'.status = s /\ response'.body = b
  BY AnswerIs
<1>2. request' = request /\ location_config' = location_config
  BY <1>1 DEF routing
<1>3. /\ ~ForScript' /\ (Redirects' <=> location_config.isRedirect)
      /\ Routes' = Routes /\ Target' = Target
  BY <1>1, RoutingKept DEF Redirects
<1>4. effects' # <<>> => ~location_config.has_return /\ request.method \in Routes \ {"GET"}
  BY DEF Called
<1>5. {301, 302} \subseteq KnownStatus \ {0, 201, 204} /\ {201, 204} \subseteq KnownStatus /\ 0 \notin KnownStatus
  BY DEF KnownStatus
<1>6. CASE location_config.isRedirect
  <2>1. response'.status \in KnownStatus
    BY <1>1, <1>5, <1>6
  <2> QED
    BY <1>1, <1>2, <1>3, <1>4, <1>6, <2>1 DEF AnswerTellsEffects
<1>7. CASE ~location_config.isRedirect
  <2>1. response'.status = s /\ response'.body = b
    BY <1>1, <1>7
  <2>2. CASE s = 204
    <3>1. effects' = <<[path |-> Target, entry |-> Missing]>> \/ location_config.has_return
      BY <1>5, <2>2
    <3> QED
      BY <1>1, <1>2, <1>3, <1>4, <1>5, <1>7, <2>1, <2>2, <3>1 DEF AnswerTellsEffects
  <2>3. CASE s = 201
    <3>1. \/ location_config.has_return
          \/ /\ effects' # <<>> /\ b = Saved(Last(effects').path)
             /\ \A i \in DOMAIN effects' : Parent(effects'[i].path) = location_config.uploadStore
      BY <2>3
    <3> QED
      BY <1>1, <1>2, <1>3, <1>4, <1>5, <1>7, <2>1, <2>3, <3>1 DEF AnswerTellsEffects
  <2>4. CASE s \notin {201, 204}
    <3>1. effects' = <<>> /\ (s \in KnownStatus \/ location_config.has_return \/ (s = 0 /\ request.kind = "multipart"))
      BY <2>4
    <3>2. s = 0 => request.kind = "multipart" \/ location_config.has_return
      BY <1>5, <3>1
    <3>3. s \in KnownStatus \cup {0} \/ location_config.has_return
      BY <3>1
    <3> QED
      BY <1>1, <1>2, <1>3, <1>7, <2>1, <2>4, <3>1, <3>2, <3>3 DEF AnswerTellsEffects
  <2> QED
    BY <2>2, <2>3, <2>4
<1> QED
  BY <1>6, <1>7

\* A response ends the work on a request; the rest of the invariant is about
\* requests that are being worked on.
LEMMA Ended ==
  ASSUME IInv, Disk', UNCHANGED <<clock, routing, parts>>, pc' = "done", pc # "part" \/ parts = <<>>,
         response'.status \in Nat, meddling' = meddling, disturbed' = disturbed,
         AnswerTellsEffects'
  PROVE  IInv'
<1>1. Typed'
  BY DEF IInv, Typed, routing, Places
<1>2. Reached' /\ FormSoFar' /\ Unanswered' /\ RoutedRight' /\ ScriptsNotServed'
  BY DEF Reached, FormSoFar, Unanswered, RoutedRight, ScriptsNotServed
<1> QED
  BY <1>1, <1>2 DEF IInv

\* A method answers, and has left the files alone.
LEMMA QuietAnswer ==
  ASSUME IInv, Undisturbed, effects = <<>>, pc # "part" \/ parts = <<>>,
         location_config # NULL, request.error = 0, ~ForScript,
         NEW s \in Nat, NEW b, NEW h, Answer(Reply(s, b, h)),
         \/ s \in KnownStatus \ {201, 204} \/ location_config.has_return
         \/ s = 0 /\ request.kind = "multipart"
  PROVE  IInv'
<1>1. Disk'
  BY DEF IInv, Undisturbed, files, Disk
<1>2. AnswerTellsEffects'
  BY Told DEF IInv, Undisturbed
<1>3. /\ pc' = "done" /\ UNCHANGED <<clock, routing, path, parts>>
      /\ location_config.isRedirect => response'.status \in {301, 302}
      /\ ~location_config.isRedirect => response'.status = s
  BY AnswerIs
<1>4. response'.status \in Nat
  BY <1>3
<1> QED
  BY <1>1, <1>2, <1>3, <1>4, Ended DEF Undisturbed, files

\* A refusal of the parser and an answer of a script are sent as they are.
LEMMA QuietSent ==
  ASSUME IInv, Undisturbed, effects = <<>>, pc # "part",
         NEW s \in Nat, NEW b, NEW h, generate_response_only(Reply(s, b, h)),
         \/ ~ForScript /\ (request.error # 0 \/ location_config = NULL) /\ s \in KnownStatus \ {201, 204}
         \/ ForScript /\ s # 0
  PROVE  IInv'
<1>1. Disk'
  BY DEF IInv, Undisturbed, files, Disk
<1>2. response'.status = s /\ pc' = "done" /\ UNCHANGED <<clock, routing, path, parts>>
  BY Sent
<1>3. /\ ForScript' <=> ForScript
      /\ ~Redirects' /\ effects' = <<>>
      /\ request' = request /\ location_config' = location_config
  <2>1. ~Redirects
    BY DEF Redirects
  <2> QED
    BY <1>2, <2>1, RoutingKept DEF Undisturbed, routing
<1>4. AnswerTellsEffects'
  <2>1. 0 \notin KnownStatus
    BY DEF KnownStatus
  <2>2. CASE ForScript
    BY <1>2, <1>3, <2>2 DEF AnswerTellsEffects
  <2>3. CASE ~ForScript
    BY <1>2, <1>3, <2>1, <2>3 DEF AnswerTellsEffects
  <2> QED
    BY <2>2, <2>3
<1> QED
  BY <1>1, <1>2, <1>4, Ended DEF Undisturbed, files

\* A step to the next system call changes the place, and perhaps the path.
LEMMA Going ==
  ASSUME IInv, Undisturbed, NEW step, Goto(step), step \in Places \ {"part", "build", "done"},
         pc \notin {"part", "done"}, Reached', ScriptsNotServed'
  PROVE  IInv'
<1>1. pc' = step /\ UNCHANGED <<clock, routing, parts, response>> /\ UNCHANGED <<files, effects>>
  BY DEF Goto, Undisturbed
<1>2. Disk'
  BY <1>1 DEF IInv, files, Disk
<1>3. Typed'
  BY <1>1 DEF IInv, Typed, files, routing
<1>4. FormSoFar' /\ Unanswered' /\ RoutedRight' /\ AnswerTellsEffects'
  BY <1>1 DEF IInv, FormSoFar, Unanswered, RoutedRight, AnswerTellsEffects
<1> QED
  BY <1>2, <1>3, <1>4 DEF IInv

(* The steps.                                                               *)

\* The codes the server answers with itself have status lines.
LEMMA Codes ==
  /\ {200, 301, 400, 403, 404, 405, 409, 411, 414, 417, 431, 500, 501, 505} \subseteq KnownStatus \ {201, 204}
  /\ {200, 301, 400, 403, 404, 405, 409, 411, 414, 417, 431, 500, 501, 505} \subseteq Nat \ {0}
BY DEF KnownStatus

\* A request is received: its routing is right, and nothing is known yet.
LEMMA ReceiveStep ==
  ASSUME IInv, NEW r \in Requests, Receive(r)
  PROVE  IInv'
<1> USE DEF Receive
<1>1. Disk'
  BY DEF IInv, Disk
<1> DEFINE b == ServerFor(r.host)
           i == LocationFor(b, r.uri)
           L == Servers[b].locations
<1>2. r.uri \in Text
  BY RequestsAssumption DEF Parsed
<1>3. b \in DOMAIN Servers /\ Servers[b] \in ToSet(Servers)
  BY ServerForIs DEF ToSet
<1>4. /\ L \in Seq(Location) /\ DOMAIN L = 1..Len(L) /\ Len(Paths[b]) = Len(L)
      /\ \A j \in 1..Len(L) : Paths[b][j] = normalize_path(L[j].location)
  <2>1. L \in Seq(Location)
    BY <1>3, Blocks
  <2> HIDE DEF b
  <2> QED
    BY <1>3, <2>1, PathsOf
<1>5. /\ i \in 0..Len(L)
      /\ i = 0 => \A j \in 1..Len(L) : ~IsPrefix(Paths[b][j], r.uri)
      /\ i # 0 => /\ IsPrefix(Paths[b][i], r.uri)
                  /\ \A j \in 1..Len(L) : IsPrefix(Paths[b][j], r.uri) => Len(Paths[b][j]) <= Len(Paths[b][i])
  <2> HIDE DEF b
  <2> QED
    BY <1>2, <1>3, <1>4, LocationForIs
<1>6. r.matched => /\ server_config' = Servers[b]
                   /\ location_config' = IF i = 0 THEN NULL ELSE L[i]
  OBVIOUS
<1>7. server_config' \in ToSet(Servers) \cup {NoServer} /\ location_config' \in ToSet(server_config'.locations) \cup {NULL}
  <2>1. CASE r.matched
    <3> HIDE DEF i, b
    <3>1. i # 0 => L[i] \in ToSet(L)
      BY <1>4, <1>5 DEF ToSet
    <3> QED
      BY <1>3, <1>6, <2>1, <3>1
  <2>2. CASE ~r.matched
    BY <2>2
  <2> QED
    BY <2>1, <2>2
<1>8. asked + 1 \in 0..MaxRequests
  BY SiteAssumption DEF IInv, Typed, Configured
<1>9. Typed'
  <2>1. request' \in Requests /\ asked' \in 0..MaxRequests /\ pc' \in Places /\ parts' = <<>>
    BY <1>8 DEF Places
  <2>2. response'.status = 0 /\ disturbed' \in BOOLEAN
    BY DEF Reply
  <2>3. clock' \in DOMAIN Stamps /\ meddling' \in 0..MaxMeddling
    BY DEF IInv, Typed
  <2> QED
    BY <1>7, <2>1, <2>2, <2>3 DEF Typed
<1>10. Reached' /\ FormSoFar' /\ Unanswered' /\ AnswerTellsEffects' /\ ScriptsNotServed'
  BY DEF Reached, FormSoFar, Unanswered, AnswerTellsEffects, ScriptsNotServed
<1>11. ASSUME r.matched PROVE RoutedRight'
  <2> DEFINE matching == {l \in ToSet(server_config'.locations) :
                            IsPrefix(normalize_path(l.location), r.uri)}
  <2>1. server_config' = Servers[b] /\ location_config' = (IF i = 0 THEN NULL ELSE L[i]) /\ request' = r
    BY <1>6, <1>11
  <2>2. r.host \in UNION {Servers[j].serverNames : j \in DOMAIN Servers}
          => r.host \in Servers[b].serverNames
    BY ServerForIs
  <2>3. ASSUME NEW l \in matching
        PROVE  \E j \in 1..Len(L) : /\ IsPrefix(Paths[b][j], r.uri)
                                    /\ normalize_path(l.location) = Paths[b][j]
    <3>1. l \in ToSet(L) /\ IsPrefix(normalize_path(l.location), r.uri)
      BY <2>1
    <3>2. PICK j \in 1..Len(L) : l = L[j]
      BY <1>4, <3>1 DEF ToSet
    <3> QED
      BY <1>4, <3>1, <3>2
  <2>4. CASE i = 0
    <3>1. matching = {}
      BY <1>5, <2>3, <2>4
    <3> QED
      BY <2>1, <2>2, <2>4, <3>1 DEF RoutedRight
  <2>5. CASE i # 0
    <3> HIDE DEF i
    <3>1. i \in 1..Len(L) /\ L[i] \in ToSet(L) /\ L[i] \in Location
      BY <1>4, <1>5, <2>5 DEF ToSet
    <3>2. L[i] # NULL
      <4>1. "root" \in DOMAIN L[i]
        BY <3>1 DEF Location
      <4>2. "root" \notin DOMAIN NULL
        BY DEF NULL
      <4> QED
        BY <4>1, <4>2
    <3>3. normalize_path(L[i].location) = Paths[b][i]
      BY <1>4, <3>1
    <3>4. L[i] \in matching
      BY <1>5, <2>1, <2>5, <3>1, <3>3
    <3>5. \A l \in matching : Len(normalize_path(l.location)) <= Len(normalize_path(L[i].location))
      <4> HIDE DEF matching
      <4> QED
        BY <1>5, <2>3, <2>5, <3>3
    <3>6. location_config' = L[i] /\ location_config' # NULL
      BY <2>1, <2>5, <3>2
    <3> HIDE DEF L, b
    <3> QED
      BY <2>1, <2>2, <3>4, <3>5, <3>6 DEF RoutedRight
  <2> QED
    BY <2>4, <2>5
<1>12. ASSUME ~r.matched PROVE RoutedRight'
  BY <1>12 DEF RoutedRight
<1> QED
  BY <1>1, <1>9, <1>10, <1>11, <1>12 DEF IInv

\* build_response and processCGIRequest, up to the method or the script.
LEMMA BuildStep ==
  ASSUME IInv, Build
  PROVE  IInv'
<1>1. Typed /\ request \in Requests
  BY DEF IInv, Typed
<1>2. ASSUME pc = "build" PROVE effects = <<>> /\ parts = <<>> /\ pc # "part"
  BY <1>2 DEF IInv, Reached, Typed
<1>3. ASSUME BuildingFor
      PROVE  /\ pc = "build" /\ Undisturbed /\ effects = <<>> /\ parts = <<>> /\ pc # "part"
             /\ location_config # NULL /\ request.error = 0 /\ ~ForScript
  BY <1>2, <1>3 DEF BuildingFor, Building
<1>4. CASE ParseError
  <2> DEFINE s == IF request.error # 0 THEN request.error ELSE 404
  <2>1. s \in KnownStatus \ {201, 204} /\ s \in Nat
    BY <1>1, RequestIs, Codes
  <2>2. /\ Undisturbed /\ effects = <<>> /\ pc # "part" /\ ~ForScript
        /\ request.error # 0 \/ location_config = NULL
    BY <1>2, <1>4 DEF ParseError, Building
  <2>3. generate_response_only(Reply(s, generate_error_page(s), NoHeaders))
    BY <1>4 DEF ParseError, Error
  <2> HIDE DEF s
  <2> QED
    BY <2>1, <2>2, <2>3, QuietSent
<1>5. CASE ReturnDirective
  <2>1. location_config # NULL /\ BuildingFor /\ location_config.has_return
    BY <1>5 DEF ReturnDirective, BuildingFor
  <2>2. location_config.return_code \in Nat
    BY <1>1, <2>1, LocationFields
  <2>3. Answer(Reply(location_config.return_code, location_config.return_message, NoHeaders))
    BY <1>5 DEF ReturnDirective
  <2> QED
    BY <1>3, <2>1, <2>2, <2>3, QuietAnswer
<1>6. CASE NotAllowed
  <2>1. BuildingFor /\ Answer(Reply(405, generate_error_page(405), NoHeaders))
    BY <1>6 DEF NotAllowed, Calls, Error
  <2>2. 405 \in Nat /\ 405 \in KnownStatus \ {201, 204}
    BY Codes
  <2> QED
    BY <1>3, <2>1, <2>2, QuietAnswer
<1>7. CASE DefaultRoot
  <2>1. BuildingFor /\ Answer(Reply(200, Page, NoHeaders))
    BY <1>7 DEF DefaultRoot, Calls
  <2>2. 200 \in Nat /\ 200 \in KnownStatus \ {201, 204}
    BY Codes
  <2> QED
    BY <1>3, <2>1, <2>2, QuietAnswer
<1>8. CASE CallMethod
  <2>1. /\ BuildingFor /\ ~location_config.has_return /\ request.method \in Routes
        /\ path' = (IF request.method = "POST" THEN location_config.uploadStore ELSE Asked)
        /\ Goto(request.method)
    BY <1>8 DEF CallMethod, Calls, Asked
  <2>2. Called(request.method) /\ request.method \in {"GET", "POST", "DELETE"}
    BY <1>3, <2>1 DEF Called, Routes, Methods
  <2>3. pc' = request.method /\ UNCHANGED routing /\ UNCHANGED effects /\ effects = <<>>
    BY <1>3, <2>1 DEF Goto, Undisturbed
  <2>4. Called(request.method)' /\ request' = request /\ Asked' = Asked
    BY <2>2, <2>3, RoutingKept DEF routing, Called
  <2>5. request.method \in Places \ {"part", "build", "done"}
    BY <2>2 DEF Places
  <2>6. Reached'
    <3>1. CASE request.method = "GET"
      BY <2>1, <2>3, <2>4, <3>1 DEF Reached
    <3>2. CASE request.method = "POST"
      BY <2>1, <2>3, <2>4, <3>2 DEF Reached
    <3>3. CASE request.method = "DELETE"
      BY <2>1, <2>3, <2>4, <3>3 DEF Reached
    <3> QED
      BY <2>2, <3>1, <3>2, <3>3
  <2>7. ScriptsNotServed'
    BY <2>2, <2>3 DEF ScriptsNotServed
  <2> QED
    BY <1>3, <2>1, <2>5, <2>6, <2>7, Going
<1>9. CASE Crash
  <2>1. pc = "build" /\ Undisturbed /\ Goto("crashed") /\ effects = <<>> /\ pc # "part"
    BY <1>2, <1>9 DEF Crash
  <2>2. pc' = "crashed" /\ effects' = <<>>
    BY <2>1 DEF Goto, Undisturbed
  <2>3. Reached' /\ ScriptsNotServed'
    BY <2>2 DEF Reached, ScriptsNotServed
  <2>4. "crashed" \in Places \ {"part", "build", "done"}
    BY DEF Places
  <2> QED
    BY <2>1, <2>3, <2>4, Going
<1>10. CASE ScriptRefused \/ ScriptFails
  <2>1. /\ Undisturbed /\ effects = <<>> /\ pc # "part" /\ ForScript
        /\ \E s \in {405, 500} : generate_response_only(Reply(s, generate_error_page(s), NoHeaders))
    BY <1>2, <1>10 DEF ScriptRefused, ScriptFails, ScriptCalled, Error
  <2>2. PICK s \in {405, 500} : generate_response_only(Reply(s, generate_error_page(s), NoHeaders))
    BY <2>1
  <2>3. s \in Nat /\ s # 0
    OBVIOUS
  <2> QED
    BY <2>1, <2>2, <2>3, QuietSent
<1>11. CASE ScriptStarts
  <2>1. /\ pc = "build" /\ Undisturbed /\ Goto("script") /\ effects = <<>> /\ pc # "part"
        /\ ForScript /\ location_config # NULL
    BY <1>2, <1>11 DEF ScriptStarts, ScriptCalled
  <2>2. pc' = "script" /\ effects' = <<>> /\ UNCHANGED routing
    BY <2>1 DEF Goto, Undisturbed
  <2>3. ForScript' /\ location_config' # NULL
    BY <2>1, <2>2, RoutingKept DEF routing
  <2>4. Reached' /\ ScriptsNotServed'
    BY <2>2, <2>3 DEF Reached, ScriptsNotServed
  <2>5. "script" \in Places \ {"part", "build", "done"}
    BY DEF Places
  <2> QED
    BY <2>1, <2>4, <2>5, Going
<1> QED
  BY <1>4, <1>5, <1>6, <1>7, <1>8, <1>9, <1>10, <1>11 DEF Build

\* A file that GET finds for the URI is no script, since the URI names none.
LEMMA FileNotScript ==
  ASSUME IInv, Called("GET"), path = Asked, Found("file")
  PROVE  ~IsScript(path)
<1>1. /\ location_config.root \in Text /\ request.uri \in Text
      /\ request.uri # <<>> /\ request.uri[1] = "/"
  BY LocationFields, RequestIs DEF IInv, Typed, Called
<1>2. ~Slashed(path)
  BY StatIs DEF IInv, Found
<1>3. ~Slashed(request.uri)
  BY <1>1, <1>2, SlashedJoin DEF Asked
<1>4. Len(request.uri) >= 2
  <2>1. request.uri \in Seq(Pieces) /\ Len(request.uri) \in Nat /\ Len(request.uri) > 0
    BY <1>1 DEF Text
  <2>2. Len(request.uri) # 1
    BY <1>1, <1>3 DEF Slashed, Last
  <2> DEFINE n == Len(request.uri)
  <2>3. n \in Nat /\ n > 0 /\ n # 1
    BY <2>1, <2>2
  <2> HIDE DEF n
  <2>4. n >= 2
    BY <2>3
  <2> QED
    BY <2>4 DEF n
<1>5. ~IsScript(request.uri)
  BY <1>3 DEF Called, ForScript, is_cgi_request
<1> QED
  BY <1>1, <1>4, <1>5, ScriptSuffix DEF Asked

\* Nor is the index file of a directory, since it was looked at, too.
LEMMA IndexNotScript ==
  ASSUME IInv, Called("GET"), Slashed(request.uri)
  PROVE  ~IsScript(Asked \o location_config.index)
<1> DEFINE root == location_config.root
           uri == request.uri
           index == location_config.index
<1>1. root \in Text /\ uri \in Text /\ index \in Text /\ uri # <<>>
  BY LocationFields, RequestIs DEF IInv, Typed, Called
<1>2. ~IsScript(uri \o index)
  BY DEF Called, ForScript, is_cgi_request
<1>3. Asked \in Text /\ Slashed(Asked)
  <2> HIDE DEF root, uri
  <2>1. root \o uri \in Text
    BY <1>1, Joined
  <2>2. Slashed(root \o uri)
    BY <1>1, SlashedJoin DEF uri
  <2> QED
    BY <2>1, <2>2 DEF Asked, root, uri
<1>4. CASE index = <<>>
  <2>1. Asked \o index = Asked
    <3>1. Asked \in Seq(Pieces)
      BY <1>3 DEF Text
    <3> QED
      BY <1>4, <3>1
  <2>2. Asked[Len(Asked)] = "/"
    BY <1>3 DEF Slashed, Last
  <2>3. ~IsScript(Asked)
    BY <1>3, <2>2, ScriptEnd
  <2> QED
    BY <2>1, <2>3
<1>5. CASE index # <<>>
  <2> HIDE DEF root, uri, index
  <2>1. uri \o index \in Text /\ Len(uri \o index) = Len(uri) + Len(index)
    BY <1>1, Joined
  <2>2. Len(uri) > 0 /\ Len(index) > 0 /\ Len(uri) \in Nat /\ Len(index) \in Nat
    BY <1>1, <1>5 DEF Text
  <2>3. Len(uri \o index) >= 2
    BY <2>1, <2>2
  <2>4. ~IsScript(root \o (uri \o index))
    BY <1>1, <1>2, <2>1, <2>3, ScriptSuffix DEF uri, index
  <2>5. (root \o uri) \o index = root \o (uri \o index)
    BY <1>1, ConcatAssociative DEF Text
  <2> QED
    BY <2>4, <2>5 DEF Asked, root, uri, index
<1> QED
  BY <1>4, <1>5

\* doGET.
LEMMA GetStep ==
  ASSUME IInv, doGET
  PROVE  IInv'
<1> DEFINE AtGet == pc \in {"GET", "index", "opendir", "read"} /\ Undisturbed
<1>1. ASSUME AtGet
      PROVE  /\ Called("GET") /\ effects = <<>> /\ pc # "part" /\ pc # "done"
             /\ location_config # NULL /\ request.error = 0 /\ ~ForScript
  BY <1>1 DEF IInv, Reached, Called
<1>2. ASSUME AtGet, NEW s \in {200, 301, 403, 404}, NEW b, NEW h, Answer(Reply(s, b, h))
      PROVE  IInv'
  <2>1. s \in Nat /\ s \in KnownStatus \ {201, 204}
    BY Codes
  <2> QED
    BY <1>1, <1>2, <2>1, QuietAnswer
<1>3. ASSUME AtGet, NEW p, ~IsScript(p), Serve(p)
      PROVE  IInv'
  <2>1. CASE "r" \in Stat(p).mode
    <3>1. path' = p /\ Goto("read")
      BY <1>3, <2>1 DEF Serve
    <3>2. pc' = "read" /\ UNCHANGED routing /\ effects' = <<>>
      BY <1>1, <1>3, <3>1 DEF Goto, Undisturbed
    <3>3. Called("GET")'
      BY <1>1, <1>3, <3>2, RoutingKept
    <3>4. Reached' /\ ScriptsNotServed'
      BY <1>3, <3>1, <3>2, <3>3 DEF Reached, ScriptsNotServed
    <3>5. "read" \in Places \ {"part", "build", "done"}
      BY DEF Places
    <3> QED
      BY <1>1, <1>3, <3>1, <3>4, <3>5, Going
  <2>2. CASE "r" \notin Stat(p).mode
    <3>1. Answer(Reply(403, generate_error_page(403), NoHeaders))
      BY <1>3, <2>2 DEF Serve, Error
    <3> QED
      BY <1>2, <1>3, <3>1
  <2> QED
    BY <2>1, <2>2
<1>4. CASE GetMissing
  <2>1. AtGet /\ Answer(Reply(404, generate_error_page(404), NoHeaders))
    BY <1>4 DEF GetMissing, At, Error
  <2> QED
    BY <1>2, <2>1
<1>5. CASE GetFile
  <2>1. AtGet /\ Found("file") /\ Serve(path) /\ path = Asked
    BY <1>5 DEF GetFile, At, IInv, Reached
  <2>2. ~IsScript(path)
    BY <1>1, <2>1, FileNotScript
  <2> QED
    BY <1>3, <2>1, <2>2
<1>6. CASE GetUnslashed
  <2>1. AtGet /\ \E h : Answer(Reply(301, generate_error_page(301), h))
    BY <1>6 DEF GetUnslashed, At
  <2>2. PICK h : Answer(Reply(301, generate_error_page(301), h))
    BY <2>1
  <2> QED
    BY <1>2, <2>1, <2>2
<1>7. CASE GetDirectory
  <2>1. AtGet /\ path = Asked /\ Slashed(request.uri) /\ Goto("index") /\ path' = path
    BY <1>7 DEF GetDirectory, At, IInv, Reached
  <2>2. pc' = "index" /\ UNCHANGED routing /\ effects' = <<>> /\ request' = request
    BY <1>1, <2>1 DEF Goto, Undisturbed, routing
  <2>3. Called("GET")' /\ Asked' = Asked
    BY <1>1, <2>1, <2>2, RoutingKept
  <2>4. Reached' /\ ScriptsNotServed'
    BY <2>1, <2>2, <2>3 DEF Reached, ScriptsNotServed
  <2>5. "index" \in Places \ {"part", "build", "done"}
    BY DEF Places
  <2> QED
    BY <1>1, <2>1, <2>4, <2>5, Going
<1>8. CASE GetIndex
  <2>1. /\ AtGet /\ Serve(path \o location_config.index)
        /\ path = Asked /\ Slashed(request.uri)
    BY <1>8 DEF GetIndex, At, IInv, Reached
  <2>2. ~IsScript(path \o location_config.index)
    BY <1>1, <2>1, IndexNotScript
  <2> QED
    BY <1>3, <2>1, <2>2
<1>9. CASE GetNoIndex
  <2>1. AtGet /\ path = Asked /\ Slashed(request.uri)
    BY <1>9 DEF GetNoIndex, At, IInv, Reached
  <2>2. CASE location_config.autoindex
    <3>1. Goto("opendir") /\ path' = path
      BY <1>9, <2>2 DEF GetNoIndex
    <3>2. pc' = "opendir" /\ UNCHANGED routing /\ effects' = <<>> /\ request' = request
      BY <1>1, <2>1, <3>1 DEF Goto, Undisturbed, routing
    <3>3. Called("GET")' /\ Asked' = Asked
      BY <1>1, <2>1, <3>2, RoutingKept
    <3>4. Reached' /\ ScriptsNotServed'
      BY <2>1, <3>1, <3>2, <3>3 DEF Reached, ScriptsNotServed
    <3>5. "opendir" \in Places \ {"part", "build", "done"}
      BY DEF Places
    <3> QED
      BY <1>1, <2>1, <3>1, <3>4, <3>5, Going
  <2>3. CASE ~location_config.autoindex
    <3>1. Answer(Reply(403, generate_error_page(403), NoHeaders))
      BY <1>9, <2>3 DEF GetNoIndex, Error
    <3> QED
      BY <1>2, <2>1, <3>1
  <2> QED
    BY <2>2, <2>3
<1>10. CASE GetListing
  <2>1. AtGet /\ Answer(IF Found("dir") /\ "r" \in Stat(path).mode THEN Reply(200, Page, NoHeaders)
                         ELSE Error(403))
    BY <1>10 DEF GetListing, At
  <2>2. \E s \in {200, 403} : \E b : Answer(Reply(s, b, NoHeaders))
    <3>1. CASE Found("dir") /\ "r" \in Stat(path).mode
      BY <2>1, <3>1
    <3>2. CASE ~(Found("dir") /\ "r" \in Stat(path).mode)
      BY <2>1, <3>2 DEF Error
    <3> QED
      BY <3>1, <3>2
  <2>3. PICK s \in {200, 403} : \E b : Answer(Reply(s, b, NoHeaders))
    BY <2>2
  <2>4. PICK b : Answer(Reply(s, b, NoHeaders))
    BY <2>3
  <2> QED
    BY <1>2, <2>1, <2>4
<1>11. CASE ReadFile
  <2>1. AtGet /\ Answer(Reply(200, Read(path), NoHeaders))
    BY <1>11 DEF ReadFile, At
  <2> QED
    BY <1>2, <2>1
<1> QED
  BY <1>4, <1>5, <1>6, <1>7, <1>8, <1>9, <1>10, <1>11 DEF doGET

\* The path of an upload (the second is one of the clock's).
LEMMA NameIs ==
  ASSUME Typed, location_config # NULL, NEW name \in Text, "/" \notin ToSet(name)
  PROVE  /\ Spelt(Name(name)) /\ Parent(Name(name)) = location_config.uploadStore
         /\ Stamps[clock] \in ToSet(Name(name))
<1>1. location_config.uploadStore \in Text /\ ~Slashed(location_config.uploadStore)
  BY LocationIs, LocationFields
<1>2. Stamps[clock] \in Pieces \ {"/"}
  <2>1. Stamps \in Seq(Pieces \ {"/"}) /\ clock \in DOMAIN Stamps
    BY SiteAssumption DEF Typed, Configured
  <2> QED
    BY <2>1
<1> DEFINE p == Name(name)
<1>3. p \in Text /\ ~Slashed(p) /\ Parent(p) = location_config.uploadStore /\ Stamps[clock] \in ToSet(p)
  BY <1>1, <1>2, Named DEF Name
<1> QED
  BY <1>1, <1>3 DEF Spelt

\* A file that may be written is written in a directory, and replaces none.
LEMMA Written ==
  ASSUME Disk, NEW p, Spelt(p), NEW data \in Text, Writable(p), Writes(p, File(data))
  PROVE  /\ Disk' /\ fs' = Put(p, File(data)) /\ UNCHANGED <<meddling, disturbed>>
         /\ effects' = Append(effects, [path |-> p, entry |-> File(data)])
<1>1. fs' = Put(p, File(data)) /\ UNCHANGED <<meddling, disturbed>>
      /\ effects' = Append(effects, [path |-> p, entry |-> File(data)])
  BY DEF Writes
<1>2. File(data) \in Entry /\ File(data).type = "file"
  BY DEF File, Entry
<1>3. Parent(p) \in DOMAIN fs /\ fs[Parent(p)].type = "dir"
  <2>1. Stat(Parent(p)).type = "dir" /\ ~Slashed(Parent(p))
    BY DEF Writable, Spelt
  <2>2. Strip(Parent(p)) = Parent(p)
    BY <2>1, StripOf
  <2> QED
    BY <2>1, <2>2, StatIs
<1>4. ASSUME p \in DOMAIN fs PROVE fs[p].type # "dir"
  BY <1>4, StatOfEntry DEF Writable
<1>5. Disk'
  BY <1>1, <1>2, <1>3, <1>4, DiskPut
<1> QED
  BY <1>1, <1>5

\* Some texts without a slash.
LEMMA Words ==
  /\ <<".bin">> \in Text /\ "/" \notin ToSet(<<".bin">>)
  /\ \A t \in Text : Append(t, "CRLF") \in Text
<1>1. <<".bin">> \in Seq(Pieces) /\ Len(<<".bin">>) = 1 /\ <<".bin">>[1] = ".bin"
  BY Literals
<1>2. "/" \notin ToSet(<<".bin">>)
  BY DEF ToSet
<1>3. \A t \in Seq(Pieces) : Append(t, "CRLF") \in Seq(Pieces)
  BY Literals
<1> QED
  BY <1>1, <1>2, <1>3 DEF Text

\* Save: the body is one file.
LEMMA SaveStep ==
  ASSUME IInv, Save
  PROVE  IInv'
<1> DEFINE full_path == Name(<<".bin">>)
<1>1. /\ pc = "save" /\ Called("POST") /\ effects = <<>> /\ pc # "part" /\ Typed /\ Disk
      /\ location_config # NULL /\ request.error = 0 /\ ~ForScript /\ request.body \in Text
  BY RequestIs DEF Save, IInv, Reached, Called, Typed
<1>2. CASE Writable(full_path)
  <2>1. Writes(full_path, File(request.body)) /\ Answer(Reply(201, Saved(full_path), NoHeaders))
    BY <1>2 DEF Save
  <2>2. Spelt(full_path) /\ Parent(full_path) = location_config.uploadStore
    BY <1>1, Words, NameIs
  <2> HIDE DEF full_path
  <2>3. /\ Disk' /\ UNCHANGED <<meddling, disturbed>>
        /\ effects' = Append(effects, [path |-> full_path, entry |-> File(request.body)])
    BY <1>1, <1>2, <2>1, <2>2, Written
  <2>4. effects' = <<[path |-> full_path, entry |-> File(request.body)]>>
    BY <1>1, <2>3
  <2>5. /\ effects' # <<>> /\ Last(effects').path = full_path
        /\ \A i \in DOMAIN effects' : Parent(effects'[i].path) = location_config.uploadStore
    BY <2>2, <2>4 DEF Last
  <2> HIDE DEF Saved
  <2>6. AnswerTellsEffects'
    <3> DEFINE b == Saved(full_path)
    <3>1. b = Saved(Last(effects').path) /\ 201 \in Nat
      BY <2>5
    <3>2. Answer(Reply(201, b, NoHeaders))
      BY <2>1
    <3> HIDE DEF b
    <3> QED
      BY <1>1, <2>5, <3>1, <3>2, Told
  <2>7. /\ pc' = "done" /\ UNCHANGED <<clock, routing, path, parts>>
        /\ location_config.isRedirect => response'.status \in {301, 302}
        /\ ~location_config.isRedirect => response'.status = 201
    BY <1>1, <2>1, AnswerIs
  <2>8. response'.status \in Nat
    BY <2>7
  <2> QED
    BY <1>1, <2>3, <2>6, <2>7, <2>8, Ended
<1>3. CASE ~Writable(full_path)
  <2>1. Undisturbed /\ Answer(Reply(403, generate_error_page(403), NoHeaders))
    BY <1>3 DEF Save, Error
  <2>2. 403 \in Nat /\ 403 \in KnownStatus \ {201, 204}
    BY Codes
  <2> QED
    BY <1>1, <2>1, <2>2, QuietAnswer
<1> QED
  BY <1>2, <1>3

\* The parts that are left of a form are parts of it.
Sound(ps) ==
  /\ ps \in Seq(FormPart)
  /\ \A i \in DOMAIN ps : ps[i].form = "good" => "/" \notin ToSet(ps[i].name)

\* The first part of a form is a part, and the others are a form's.
LEMMA Rest ==
  ASSUME NEW ps, Sound(ps), ps # <<>>
  PROVE  /\ Sound(Tail(ps)) /\ Head(ps) \in FormPart
         /\ Head(ps).form = "good" => "/" \notin ToSet(Head(ps).name)
<1>1. ps \in Seq(FormPart) /\ Len(ps) \in Nat /\ Len(ps) > 0 /\ DOMAIN ps = 1..Len(ps)
  BY DEF Sound
<1>2. Tail(ps) \in Seq(FormPart) /\ Len(Tail(ps)) = Len(ps) - 1
  BY <1>1
<1>3. Head(ps) = ps[1] /\ 1 \in DOMAIN ps /\ Head(ps) \in FormPart
  BY <1>1
<1>4. ASSUME NEW i \in DOMAIN Tail(ps), Tail(ps)[i].form = "good" PROVE "/" \notin ToSet(Tail(ps)[i].name)
  <2>1. i \in 1..(Len(ps) - 1)
    BY <1>2
  <2>2. Tail(ps)[i] = ps[i + 1] /\ i + 1 \in DOMAIN ps
    BY <1>1, <2>1
  <2> QED
    BY <1>4, <2>2 DEF Sound
<1> QED
  BY <1>2, <1>3, <1>4 DEF Sound

\* What a form's upload leaves to be done stays a form's.
LEMMA PartStep ==
  ASSUME IInv, SkipsPart \/ SavePart
  PROVE  IInv'
<1>1. /\ pc = "part" /\ pc' = "part" /\ parts # <<>> /\ UNCHANGED <<clock, routing, path>>
      /\ Typed /\ Disk /\ Called("POST") /\ location_config # NULL
  BY DEF SkipsPart, SavePart, At, IInv, Reached, Called
<1>2. /\ request.kind = "multipart" /\ effects \in Seq(Effect) /\ Sound(parts)
      /\ \A i \in DOMAIN effects : Spelt(effects[i].path) /\ Parent(effects[i].path) = location_config.uploadStore
      /\ response = Reply(response.status, response.body, response.headers)
      /\ \/ effects = <<>> /\ response.status = 0
         \/ effects # <<>> /\ response.status = 201 /\ response.body = Saved(Last(effects).path)
  BY <1>1 DEF IInv, FormSoFar, Sound
<1>3. Called("POST")' /\ location_config' = location_config /\ request' = request
  BY <1>1, RoutingKept DEF routing
<1>4. Reached' /\ Unanswered' /\ RoutedRight' /\ AnswerTellsEffects' /\ ScriptsNotServed'
  BY <1>1, <1>3 DEF Reached, Unanswered, RoutedRight, AnswerTellsEffects, ScriptsNotServed
<1>5. Sound(Tail(parts)) /\ Sound(<<>>)
  BY <1>1, <1>2, Rest DEF Sound
<1>6. ASSUME response'.status \in Nat, disturbed' = disturbed, meddling' = meddling PROVE Typed'
  BY <1>1, <1>6 DEF Typed, routing
<1>7. CASE SkipsPart
  <2>1. UNCHANGED <<files, effects, response>> /\ Sound(parts)'
    BY <1>5, <1>7 DEF SkipsPart, At, Undisturbed
  <2>2. Disk'
    BY <1>1, <2>1 DEF files, Disk
  <2>3. Typed'
    BY <1>1, <1>6, <2>1 DEF files, Typed
  <2>4. FormSoFar'
    BY <1>2, <1>3, <2>1 DEF FormSoFar, Sound
  <2> QED
    BY <1>4, <2>2, <2>3, <2>4 DEF IInv
<1>8. CASE SavePart
  <2> DEFINE name == Head(parts).name
             full_path == Name(name)
             data == Append(Head(parts).data, "CRLF")
             b == Saved(full_path)
             h == Set(response.headers, "Location", full_path)
             e == [path |-> full_path, entry |-> File(data)]
  <2>1. /\ Writable(full_path) /\ Writes(full_path, File(data)) /\ Head(parts).form = "good"
        /\ response' = Reply(201, b, h) /\ parts' = Tail(parts)
    BY <1>8 DEF SavePart
  <2>2. name \in Text /\ "/" \notin ToSet(name) /\ data \in Text
    <3>1. Head(parts) \in FormPart /\ "/" \notin ToSet(name)
      BY <1>1, <1>2, <2>1, Rest
    <3>2. name \in Text /\ Head(parts).data \in Text
      BY <3>1 DEF FormPart
    <3> QED
      BY <3>1, <3>2, Words
  <2> HIDE DEF name, data
  <2>3. Spelt(full_path) /\ Parent(full_path) = location_config.uploadStore
    BY <1>1, <2>2, NameIs
  <2> HIDE DEF full_path
  <2>4. Disk' /\ UNCHANGED <<meddling, disturbed>> /\ effects' = Append(effects, e)
    BY <1>1, <2>1, <2>2, <2>3, Written
  <2>5. e \in Effect /\ e.path = full_path
    <3>1. full_path \in Text /\ File(data) \in Info
      BY <2>2, <2>3 DEF Spelt, File, Info
    <3> QED
      BY <3>1 DEF Effect
  <2> HIDE DEF e
  <2>6. /\ effects' \in Seq(Effect) /\ effects' # <<>> /\ Last(effects') = e
        /\ \A i \in DOMAIN effects' :
             (i \in DOMAIN effects /\ effects'[i] = effects[i]) \/ effects'[i] = e
    <3>1. effects \in Seq(Effect) /\ effects' = Append(effects, e)
      BY <1>2, <2>4
    <3>2. effects' \in Seq(Effect) /\ Len(effects') = Len(effects) + 1 /\ effects'[Len(effects) + 1] = e
      BY <2>5, <3>1
    <3>3. \A i \in 1..Len(effects) : effects'[i] = effects[i]
      BY <2>5, <3>1
    <3>4. Len(effects) \in Nat /\ DOMAIN effects = 1..Len(effects) /\ DOMAIN effects' = 1..(Len(effects) + 1)
      BY <3>1, <3>2
    <3>5. \A i \in 1..(Len(effects) + 1) : i \in 1..Len(effects) \/ i = Len(effects) + 1
      BY <3>4
    <3> QED
      BY <3>2, <3>3, <3>4, <3>5 DEF Last
  <2>7. \A i \in DOMAIN effects' : /\ Spelt(effects'[i].path)
                                   /\ Parent(effects'[i].path) = location_config.uploadStore
    BY <1>2, <2>3, <2>5, <2>6
  <2>8. /\ response'.status = 201 /\ response'.body = Saved(Last(effects').path)
        /\ response' = Reply(response'.status, response'.body, response'.headers)
    BY <2>1, <2>5, <2>6 DEF Reply
  <2>9. Typed'
    BY <1>6, <2>4, <2>8
  <2>10. Sound(parts')
    BY <1>5, <2>1
  <2>11. FormSoFar'
    BY <1>2, <1>3, <2>6, <2>7, <2>8, <2>10 DEF FormSoFar, Sound
  <2> QED
    BY <1>4, <2>4, <2>9, <2>11 DEF IInv
<1> QED
  BY <1>7, <1>8

\* doPOST.
LEMMA PostStep ==
  ASSUME IInv, doPOST
  PROVE  IInv'
<1>1. ASSUME pc = "POST"
      PROVE  /\ Called("POST") /\ effects = <<>> /\ pc # "part" /\ pc # "done"
             /\ location_config # NULL /\ request.error = 0 /\ ~ForScript
  BY <1>1 DEF IInv, Reached, Called
<1>2. CASE PostNowhere \/ PostNoBoundary
  <2>1. pc = "POST" /\ Undisturbed /\ \E s \in {403, 500} : Answer(Reply(s, generate_error_page(s), NoHeaders))
    BY <1>2 DEF PostNowhere, PostNoBoundary, At, Error
  <2>2. PICK s \in {403, 500} : Answer(Reply(s, generate_error_page(s), NoHeaders))
    BY <2>1
  <2>3. s \in Nat /\ s \in KnownStatus \ {201, 204}
    BY Codes
  <2> QED
    BY <1>1, <2>1, <2>2, <2>3, QuietAnswer
<1>3. CASE PostUpload
  <2>1. /\ pc = "POST" /\ UNCHANGED <<files, effects>> /\ parts' = request.parts
        /\ pc' = (IF request.kind = "multipart" THEN "part" ELSE "save")
        /\ UNCHANGED <<clock, routing, path, response>>
    BY <1>3 DEF PostUpload, At, Undisturbed
  <2>2. Disk'
    BY <2>1 DEF IInv, files, Disk
  <2>3. /\ request.kind # "multipart" => request.parts = <<>>
        /\ request.parts \in Seq(FormPart)
        /\ \A i \in DOMAIN request.parts :
              request.parts[i].form = "good" => "/" \notin ToSet(request.parts[i].name)
    BY RequestIs DEF IInv, Typed
  <2>4. Typed'
    BY <2>1, <2>3 DEF IInv, Typed, files, routing, Places
  <2>5. Called("POST")' /\ effects' = <<>> /\ request' = request
    BY <1>1, <2>1, RoutingKept DEF routing
  <2>6. response' = Reply(0, <<>>, NoHeaders)
    BY <2>1 DEF IInv, Unanswered
  <2>7. Reached' /\ Unanswered' /\ RoutedRight' /\ AnswerTellsEffects' /\ ScriptsNotServed'
    BY <2>1, <2>5, <2>6 DEF Reached, Unanswered, RoutedRight, AnswerTellsEffects, ScriptsNotServed
  <2>8. /\ response'.status = 0
        /\ response' = Reply(response'.status, response'.body, response'.headers)
    BY <2>6 DEF Reply
  <2>9. <<>> \in Seq(Effect) /\ DOMAIN <<>> = {}
    OBVIOUS
  <2>10. FormSoFar'
    BY <2>1, <2>3, <2>5, <2>8, <2>9 DEF FormSoFar
  <2> QED
    BY <2>2, <2>4, <2>7, <2>10 DEF IInv
<1>4. CASE PartsEnd
  <2>1. pc = "part" /\ Undisturbed /\ parts = <<>> /\ Answer(response)
    BY <1>4 DEF PartsEnd, At
  <2>2. /\ Called("POST") /\ Typed /\ Disk /\ location_config # NULL /\ request.error = 0 /\ ~ForScript
    BY <2>1 DEF IInv, Reached, Called
  <2> DEFINE s == response.status
             b == response.body
             h == response.headers
  <2>3. /\ request.kind = "multipart" /\ s \in Nat
        /\ Answer(Reply(s, b, h))
        /\ \A i \in DOMAIN effects : Parent(effects[i].path) = location_config.uploadStore
        /\ \/ effects = <<>> /\ s = 0
           \/ effects # <<>> /\ s = 201 /\ b = Saved(Last(effects).path)
    <3>1. FormSoFar /\ Typed
      BY DEF IInv
    <3>2. response = Reply(s, b, h)
      BY <2>1, <3>1 DEF FormSoFar
    <3>3. Answer(Reply(s, b, h))
      BY <2>1, <3>2
    <3>4. s \in Nat
      BY <3>1 DEF Typed
    <3> QED
      BY <2>1, <3>1, <3>3, <3>4 DEF FormSoFar
  <2> HIDE DEF s, b, h
  <2>4. effects' = effects /\ UNCHANGED files
    BY <2>1 DEF Undisturbed
  <2>5. AnswerTellsEffects'
    BY <2>2, <2>3, <2>4, Told
  <2>6. /\ pc' = "done" /\ UNCHANGED <<clock, routing, path, parts>>
        /\ location_config.isRedirect => response'.status \in {301, 302}
        /\ ~location_config.isRedirect => response'.status = s
    BY <2>2, <2>3, AnswerIs
  <2>7. response'.status \in Nat
    BY <2>3, <2>6
  <2>8. Disk'
    BY <2>2, <2>4 DEF Disk, files
  <2> QED
    BY <2>1, <2>4, <2>5, <2>6, <2>7, <2>8, Ended DEF files
<1> QED
  BY <1>2, <1>3, <1>4, SaveStep, PartStep DEF doPOST

\* What may be removed is there, and nothing is in it.
LEMMA Removed ==
  ASSUME Disk, NEW p, Removable(p)
  PROVE  Strip(p) \in DOMAIN fs /\ Entries(Strip(p)) = {}
<1>1. Stat(p).type # "none" /\ (Stat(p).type = "dir" => Entries(Strip(p)) = {})
  BY DEF Removable
<1>2. Strip(p) \in DOMAIN fs /\ Stat(p) = fs[Strip(p)]
  BY <1>1, StatIs
<1> QED
  BY <1>1, <1>2, NoEntries

\* doDELETE.
LEMMA DeleteStep ==
  ASSUME IInv, doDELETE
  PROVE  IInv'
<1> DEFINE AtDelete == pc \in {"DELETE", "readdir", "access", "rmdir", "remove"}
<1>1. ASSUME AtDelete
      PROVE  /\ Called("DELETE") /\ effects = <<>> /\ pc # "part" /\ pc # "done" /\ path = Asked
             /\ location_config # NULL /\ request.error = 0 /\ ~ForScript
  BY <1>1 DEF IInv, Reached, Called
<1>2. ASSUME AtDelete, Undisturbed, NEW s \in {301, 403, 404, 409, 500}, NEW b, NEW h, Answer(Reply(s, b, h))
      PROVE  IInv'
  <2>1. s \in Nat /\ s \in KnownStatus \ {201, 204}
    BY Codes
  <2> QED
    BY <1>1, <1>2, <2>1, QuietAnswer
<1>3. ASSUME AtDelete, Undisturbed, NEW step \in {"readdir", "access", "rmdir", "remove"}, Goto(step), path' = path
      PROVE  IInv'
  <2>1. pc' = step /\ UNCHANGED routing /\ effects' = <<>>
    BY <1>1, <1>3 DEF Goto, Undisturbed
  <2>2. Called("DELETE")' /\ path' = Asked'
    BY <1>1, <1>3, <2>1, RoutingKept
  <2>3. Reached' /\ ScriptsNotServed'
    BY <2>1, <2>2 DEF Reached, ScriptsNotServed
  <2>4. step \in Places \ {"part", "build", "done"}
    BY DEF Places
  <2> QED
    BY <1>1, <1>3, <2>3, <2>4, Going
<1>4. CASE DeleteMissing \/ DeleteUnslashed \/ DeleteUnreadable \/ DeleteNotEmpty
  <2>1. AtDelete /\ Undisturbed /\ \E s \in {301, 403, 404, 409} : \E b, h : Answer(Reply(s, b, h))
    BY <1>4 DEF DeleteMissing, DeleteUnslashed, DeleteUnreadable, DeleteNotEmpty, At, Error
  <2> HIDE DEF AtDelete
  <2>2. PICK s \in {301, 403, 404, 409} : \E b, h : Answer(Reply(s, b, h))
    BY <2>1
  <2>3. PICK b, h : Answer(Reply(s, b, h))
    BY <2>2
  <2>4. s \in {301, 403, 404, 409, 500}
    OBVIOUS
  <2> QED
    BY <1>2, <2>1, <2>3, <2>4
<1>5. CASE DeleteGoesOn \/ DeleteEmpty
  <2>1. AtDelete /\ Undisturbed /\ path' = path /\ \E step \in {"readdir", "access", "remove"} : Goto(step)
    BY <1>5 DEF DeleteGoesOn, DeleteEmpty, At
  <2> HIDE DEF AtDelete
  <2>2. PICK step \in {"readdir", "access", "remove"} : Goto(step)
    BY <2>1
  <2>3. step \in {"readdir", "access", "rmdir", "remove"}
    OBVIOUS
  <2> QED
    BY <1>3, <2>1, <2>2, <2>3
<1>6. CASE DeleteAccess
  <2>1. AtDelete /\ Undisturbed
    BY <1>6 DEF DeleteAccess, At
  <2>2. CASE "w" \in Stat(path).mode
    <3>1. Goto("rmdir") /\ path' = path
      BY <1>6, <2>2 DEF DeleteAccess
    <3> QED
      BY <1>3, <2>1, <3>1
  <2>3. CASE "w" \notin Stat(path).mode
    <3>1. Answer(Reply(403, generate_error_page(403), NoHeaders))
      BY <1>6, <2>3 DEF DeleteAccess, Error
    <3> QED
      BY <1>2, <2>1, <3>1
  <2> QED
    BY <2>2, <2>3
<1>7. CASE Delete
  <2>1. AtDelete /\ Typed /\ Disk
    BY <1>7 DEF Delete, IInv
  <2>2. CASE Removable(path) /\ (pc = "rmdir" => Found("dir"))
    <3>1. Removes(path) /\ Answer(Reply(204, <<>>, NoHeaders))
      BY <1>7, <2>2 DEF Delete
    <3>2. /\ fs' = Without(Strip(path)) /\ UNCHANGED <<meddling, disturbed>>
          /\ effects' = Append(effects, [path |-> Strip(path), entry |-> Missing])
      BY <3>1 DEF Removes
    <3>3. Entries(Strip(path)) = {}
      BY <2>1, <2>2, Removed
    <3>4. Disk'
      BY <2>1, <3>2, <3>3, DiskWithout
    <3>5. Strip(path) = Target
      BY <1>1, <2>1 DEF Target, Asked
    <3>6. effects' = <<[path |-> Target, entry |-> Missing]>>
      <4> DEFINE e == [path |-> Target, entry |-> Missing]
      <4>1. effects = <<>> /\ effects' = Append(effects, e)
        BY <1>1, <2>1, <3>2, <3>5
      <4> HIDE DEF e
      <4>2. effects' = <<e>>
        BY <4>1
      <4> QED
        BY <4>2 DEF e
    <3>7. AnswerTellsEffects'
      <4>1. 204 \in Nat
        OBVIOUS
      <4> QED
        BY <1>1, <2>1, <3>1, <3>6, <4>1, Told
    <3>8. /\ pc' = "done" /\ UNCHANGED <<clock, routing, path, parts>>
          /\ location_config.isRedirect => response'.status \in {301, 302}
          /\ ~location_config.isRedirect => response'.status = 204
      BY <1>1, <2>1, <3>1, AnswerIs
    <3>9. response'.status \in Nat
      BY <3>8
    <3> QED
      BY <1>1, <2>1, <3>2, <3>4, <3>7, <3>8, <3>9, Ended
  <2>3. CASE ~(Removable(path) /\ (pc = "rmdir" => Found("dir")))
    <3>1. Undisturbed /\ Answer(Reply(500, generate_error_page(500), NoHeaders))
      BY <1>7, <2>3 DEF Delete, Error
    <3> QED
      BY <1>2, <2>1, <3>1
  <2> QED
    BY <2>2, <2>3
<1> QED
  BY <1>4, <1>5, <1>6, <1>7 DEF doDELETE

\* A script's status is no less than 100 (processCGIOutput).
LEMMA ScriptStatusIs ==
  ASSUME NEW codes \in Seq(Nat)
  PROVE  ScriptStatus(codes) \in Nat /\ ScriptStatus(codes) # 0
<1> DEFINE good == {i \in DOMAIN codes : codes[i] \in 100..599}
<1>1. ScriptStatus(codes) = IF good = {} THEN 200 ELSE codes[Max(good)]
  BY DEF ScriptStatus
<1>2. Len(codes) \in Nat /\ good \subseteq 0..Len(codes)
  OBVIOUS
<1>3. \A i \in good : codes[i] \in 100..599
  OBVIOUS
<1> HIDE DEF good
<1>4. good # {} => Max(good) \in good
  BY <1>2, GreatestNumber
<1>5. good # {} => codes[Max(good)] \in 100..599
  BY <1>3, <1>4
<1>6. 200 \in Nat \ {0} /\ 100..599 \subseteq Nat \ {0}
  OBVIOUS
<1>7. ScriptStatus(codes) \in Nat \ {0}
  <2>1. CASE good = {}
    <3>1. ScriptStatus(codes) = 200
      BY <1>1, <2>1
    <3> QED
      BY <1>6, <3>1
  <2>2. CASE good # {}
    <3>1. ScriptStatus(codes) = codes[Max(good)]
      BY <1>1, <2>2
    <3> DEFINE s == ScriptStatus(codes)
    <3>2. s \in 100..599
      BY <1>5, <2>2, <3>1
    <3> HIDE DEF s
    <3>3. s \in Nat \ {0}
      BY <3>2
    <3> QED
      BY <3>3 DEF s
  <2> QED
    BY <2>1, <2>2
<1> QED
  BY <1>7

\* The script's output comes.
LEMMA ScriptStep ==
  ASSUME IInv, NEW out \in Outputs, ScriptEnds(out)
  PROVE  IInv'
<1>1. /\ pc = "script" /\ Undisturbed /\ ForScript /\ effects = <<>>
      /\ generate_response_only(Reply(ScriptStatus(out.status), out.body, out.headers))
  BY DEF ScriptEnds, At, IInv, Reached
<1>2. out.status \in Seq(Nat)
  BY SiteAssumption DEF Configured
<1> DEFINE s == ScriptStatus(out.status)
<1>3. s \in Nat /\ s # 0
  BY <1>2, ScriptStatusIs
<1> HIDE DEF s
<1> QED
  BY <1>1, <1>3, QuietSent DEF s

\* What others do to the files, and the clock, are nothing to the request.
LEMMA Aside ==
  ASSUME IInv, Disk', Typed', UNCHANGED <<routing, path, parts, response, pc, effects>>
  PROVE  IInv'
<1>1. Reached'
  <2>1. request' = request /\ \A m : Called(m)' <=> Called(m)
    BY RoutingKept DEF routing
  <2>2. Asked' = Asked /\ (ForScript' <=> ForScript) /\ location_config' = location_config
    BY RoutingKept DEF routing
  <2> QED
    BY <2>1, <2>2 DEF IInv, Reached
<1>2. FormSoFar' /\ Unanswered'
  BY DEF IInv, FormSoFar, Unanswered, routing
<1>3. RoutedRight'
  BY DEF IInv, RoutedRight, routing
<1>4. AnswerTellsEffects'
  <2>1. /\ ForScript' <=> ForScript
        /\ Redirects' <=> Redirects
        /\ Routes' = Routes /\ Target' = Target
    BY RoutingKept
  <2> QED
    BY <2>1 DEF IInv, AnswerTellsEffects, routing
<1>5. ScriptsNotServed'
  BY DEF IInv, ScriptsNotServed
<1> QED
  BY <1>1, <1>2, <1>3, <1>4, <1>5 DEF IInv

\* Scripts create, rewrite, remove and lock files.
LEMMA OthersStep ==
  ASSUME IInv, Others
  PROVE  IInv'
<1>1. PICK p \in ScriptFiles : Creates(p) \/ Rewrites(p) \/ Withdraws(p) \/ Locks(p)
  BY DEF Others
<1>2. PICK tree : Meddles(p, tree)
  BY <1>1 DEF Creates, Rewrites, Withdraws, Locks
<1>3. UNCHANGED <<routing, path, parts, response, pc, effects>>
  BY <1>2 DEF Meddles
<1>4. Typed'
  <2>1. meddling' \in 0..MaxMeddling
    <3>1. meddling \in 0..MaxMeddling /\ meddling < MaxMeddling /\ meddling' = meddling + 1 /\ MaxMeddling \in Nat
      BY <1>2, SiteAssumption DEF Meddles, IInv, Typed, Configured
    <3> QED
      BY <3>1
  <2> QED
    BY <1>2, <2>1 DEF Meddles, IInv, Typed, routing
<1>5. Disk /\ Spelt(p)
  BY SiteAssumption DEF Configured, IInv
<1>6. Disk'
  <2>1. /\ <<"other">> \in Text
        /\ \A type \in {"file", "dir"} : /\ [File(<<"other">>) EXCEPT !.type = type] \in Entry
                                         /\ [File(<<"other">>) EXCEPT !.type = type].type = type
        /\ File(<<"other">>) \in Entry /\ File(<<"other">>).type = "file"
    <3>1. <<"other">> \in Text
      BY Literals DEF Text
    <3> QED
      BY <3>1 DEF File, Entry
  <2>2. CASE Creates(p)
    <3>1. PICK type \in {"file", "dir"} : fs' = Put(p, [File(<<"other">>) EXCEPT !.type = type])
      BY <2>2 DEF Creates, Meddles
    <3>2. p \notin DOMAIN fs /\ Stat(Parent(p)).type = "dir" /\ ~Slashed(Parent(p))
      BY <1>5, <2>2 DEF Creates, Spelt
    <3>3. Parent(p) \in DOMAIN fs /\ fs[Parent(p)].type = "dir"
      <4>1. Strip(Parent(p)) = Parent(p)
        BY <3>2, StripOf
      <4> QED
        BY <1>5, <3>2, <4>1, StatIs
    <3> DEFINE e == [File(<<"other">>) EXCEPT !.type = type]
    <3>4. e \in Entry /\ fs' = Put(p, e)
      BY <2>1, <3>1
    <3> HIDE DEF e
    <3> QED
      BY <1>5, <3>2, <3>3, <3>4, DiskPut
  <2>3. CASE Rewrites(p)
    <3>1. fs' = Put(p, File(<<"other">>)) /\ Stat(p).type = "file"
      BY <2>3 DEF Rewrites, Meddles
    <3>2. p \in DOMAIN fs /\ fs[p].type = "file"
      BY <1>5, <3>1, StatIs
    <3>3. p # <<>> => Parent(p) \in DOMAIN fs /\ fs[Parent(p)].type = "dir"
      BY <1>5, <3>2 DEF Disk
    <3> QED
      BY <1>5, <2>1, <3>1, <3>2, <3>3, DiskPut
  <2>4. CASE Withdraws(p)
    <3>1. fs' = Without(p) /\ Entries(p) = {}
      BY <2>4 DEF Withdraws, Meddles
    <3> QED
      BY <1>5, <3>1, DiskWithout
  <2>5. CASE Locks(p)
    <3> DEFINE e == [fs[p] EXCEPT !.mode = {}]
    <3>1. p \in DOMAIN fs /\ fs' = [fs EXCEPT ![p].mode = {}]
      BY <2>5 DEF Locks, Meddles
    <3>2. fs[p] \in Entry
      BY <1>5, <3>1 DEF Disk
    <3>3. e \in Entry /\ e.type = fs[p].type
      BY <3>2 DEF Entry
    <3>4. fs' = Put(p, e)
      BY <3>1 DEF Put
    <3>5. p # <<>> => Parent(p) \in DOMAIN fs /\ fs[Parent(p)].type = "dir"
      BY <1>5, <3>1 DEF Disk
    <3> HIDE DEF e
    <3> QED
      BY <1>5, <3>3, <3>4, <3>5, DiskPut
  <2> QED
    BY <1>1, <2>2, <2>3, <2>4, <2>5
<1> QED
  BY <1>3, <1>4, <1>6, Aside

\* A second passes.
LEMMA TickStep ==
  ASSUME IInv, Tick
  PROVE  IInv'
<1>1. UNCHANGED <<files, routing, path, parts, response, pc, effects>> /\ clock < Len(Stamps) /\ clock' = clock + 1
  BY DEF Tick
<1>2. clock' \in DOMAIN Stamps
  <2>1. Stamps \in Seq(Pieces \ {"/"})
    BY SiteAssumption DEF Configured
  <2>2. DOMAIN Stamps = 1..Len(Stamps) /\ Len(Stamps) \in Nat
    BY <2>1
  <2>3. clock \in 1..Len(Stamps)
    BY <2>2 DEF IInv, Typed
  <2> QED
    BY <1>1, <2>2, <2>3
<1>3. Typed'
  BY <1>1, <1>2 DEF IInv, Typed, files, routing
<1>4. Disk'
  BY <1>1 DEF IInv, Disk, files
<1> QED
  BY <1>1, <1>3, <1>4, Aside

\* Before the first request, the tree is in order and nothing is known.
LEMMA Start ==
  ASSUME Init
  PROVE  IInv
<1> USE DEF Init
<1>1. Disk
  BY SiteAssumption DEF Disk, Configured
<1>2. clock \in DOMAIN Stamps
  <2>1. Stamps \in Seq(Pieces \ {"/"}) /\ Stamps # <<>>
    BY SiteAssumption DEF Configured
  <2>2. DOMAIN Stamps = 1..Len(Stamps) /\ Len(Stamps) \in Nat /\ Len(Stamps) > 0
    BY <2>1
  <2> QED
    BY <2>2
<1>3. request \in Requests
  <2>1. \E r : r \in Requests
    BY RequestsAssumption DEF Parsed
  <2> QED
    BY <2>1
<1>4. server_config \in ToSet(Servers)
  BY Blocks DEF ToSet
<1>5. MaxRequests \in Nat /\ MaxMeddling \in Nat
  BY SiteAssumption DEF Configured
<1>6. asked \in 0..MaxRequests /\ meddling \in 0..MaxMeddling
  BY <1>5
<1>7. response.status = 0 /\ disturbed \in BOOLEAN /\ pc \in Places /\ parts = <<>> /\ location_config = NULL
  BY DEF Reply, Places
<1>8. Typed
  BY <1>2, <1>3, <1>4, <1>6, <1>7 DEF Typed
<1>9. Reached /\ FormSoFar /\ Unanswered /\ RoutedRight /\ AnswerTellsEffects /\ ScriptsNotServed
  BY DEF Reached, FormSoFar, Unanswered, RoutedRight, AnswerTellsEffects, ScriptsNotServed
<1> QED
  BY <1>1, <1>8, <1>9 DEF IInv

\* Every step keeps the invariant.
LEMMA Kept ==
  ASSUME IInv, [Next]_vars
  PROVE  IInv'
<1>1. CASE \E r \in Requests : Receive(r)
  BY <1>1, ReceiveStep
<1>2. CASE ServerStep
  BY <1>2, BuildStep, GetStep, PostStep, DeleteStep DEF ServerStep
<1>3. CASE \E out \in Outputs : ScriptEnds(out)
  BY <1>3, ScriptStep
<1>4. CASE Others
  BY <1>4, OthersStep
<1>5. CASE Tick
  BY <1>5, TickStep
<1>6. CASE UNCHANGED vars
  <2>1. UNCHANGED <<files, clock, routing, path, parts, response, pc, effects>>
    BY <1>6 DEF vars
  <2>2. Disk' /\ Typed'
    BY <2>1 DEF IInv, Disk, Typed, files, routing
  <2> QED
    BY <2>1, <2>2, Aside
<1> QED
  BY <1>1, <1>2, <1>3, <1>4, <1>5, <1>6 DEF Next

\* The invariant always holds.
THEOREM Invariance == Spec => []IInv
<1>1. Init => IInv
  BY Start
<1>2. IInv /\ [Next]_vars => IInv'
  BY Kept
<1> QED
  BY <1>1, <1>2, PTL DEF Spec

(* What it gives.                                                           *)

\* Every variable keeps its type, and no file is an orphan.
THEOREM TypeCorrect == Spec => []TypeOK
<1>1. ASSUME IInv PROVE TypeOK
  <2>1. Disk /\ Typed
    BY <1>1 DEF IInv
  <2>2. \A p \in DOMAIN fs : fs[p].type \in {"file", "dir"} /\ fs[p].mode \subseteq {"r", "w"}
    BY <2>1 DEF Disk, Entry
  <2>3. ASSUME NEW p \in DOMAIN fs \ {<<>>} PROVE Stat(Parent(p)).type = "dir"
    <3>1. Parent(p) \in DOMAIN fs /\ fs[Parent(p)].type = "dir"
      BY <2>1 DEF Disk
    <3> QED
      BY <2>1, <3>1, StatOfEntry
  <2> QED
    BY <2>1, <2>2, <2>3 DEF TypeOK, Typed, Places
<1> QED
  BY <1>1, Invariance, PTL

\* The host's block and the longest location are chosen, whatever the file
\* (match_location).
THEOREM RoutedRightHolds == Spec => []RoutedRight
<1>1. IInv => RoutedRight
  BY DEF IInv
<1> QED
  BY <1>1, Invariance, PTL

\* Every response says what happened to the files (build_response, doGET,
\* doPOST, doDELETE).
THEOREM AnswerTellsEffectsHolds == Spec => []AnswerTellsEffects
<1>1. IInv => AnswerTellsEffects
  BY DEF IInv
<1> QED
  BY <1>1, Invariance, PTL

\* No script is sent as a file (is_cgi_request, doGET).
THEOREM ScriptsNotServedHolds == Spec => []ScriptsNotServed
<1>1. IInv => ScriptsNotServed
  BY DEF IInv
<1> QED
  BY <1>1, Invariance, PTL

\* What a step of the server may do to the files.
Keeps ==
  /\ \A p \in DOMAIN fs \ DOMAIN fs' :
       request.method = "DELETE" /\ p = Target /\ Entries(p) = {}
  /\ \A p \in DOMAIN fs' :
       \/ p \in DOMAIN fs /\ fs'[p] = fs[p]
       \/ request.method = "POST" /\ Stamps[clock] \in ToSet(p)

\* A written upload is named after the second; everything else stays.
LEMMA WrittenKeeps ==
  ASSUME Typed, Called("POST"), NEW name \in Text, "/" \notin ToSet(name), NEW entry, fs' = Put(Name(name), entry)
  PROVE  Keeps
<1>1. Stamps[clock] \in ToSet(Name(name))
  BY NameIs DEF Called
<1> DEFINE full_path == Name(name)
<1>2. Stamps[clock] \in ToSet(full_path) /\ fs' = Put(full_path, entry) /\ request.method = "POST"
  BY <1>1 DEF Called
<1> HIDE DEF full_path
<1>3. DOMAIN fs' = DOMAIN fs \cup {full_path} /\ \A q \in DOMAIN fs \ {full_path} : fs'[q] = fs[q]
  BY <1>2 DEF Put
<1> QED
  BY <1>2, <1>3 DEF Keeps

\* The server touches only the file a request is about.
LEMMA ServerKeeps ==
  ASSUME IInv, ServerStep
  PROVE  Keeps
<1>1. Typed /\ Disk
  BY DEF IInv
<1>2. CASE fs' = fs
  BY <1>2 DEF Keeps
<1>3. CASE Save /\ fs' # fs
  <2>1. pc = "save" /\ fs' = Put(Name(<<".bin">>), File(request.body))
    BY <1>3 DEF Save, Writes, Undisturbed, files
  <2>2. Called("POST")
    BY <2>1 DEF IInv, Reached
  <2> QED
    BY <1>1, <2>1, <2>2, Words, WrittenKeeps
<1>4. CASE SavePart
  <2> DEFINE name == Head(parts).name
             entry == File(Append(Head(parts).data, "CRLF"))
  <2>1. pc = "part" /\ parts # <<>> /\ Head(parts).form = "good" /\ fs' = Put(Name(name), entry)
    BY <1>4 DEF SavePart, Writes
  <2>2. Called("POST") /\ Sound(parts)
    BY <2>1 DEF IInv, Reached, FormSoFar, Sound
  <2>3. Head(parts) \in FormPart /\ "/" \notin ToSet(name)
    BY <2>1, <2>2, Rest
  <2>4. name \in Text
    BY <2>3 DEF FormPart
  <2> HIDE DEF name, entry
  <2> QED
    BY <1>1, <2>1, <2>2, <2>3, <2>4, WrittenKeeps
<1>5. CASE Delete /\ fs' # fs
  <2>1. /\ pc \in {"rmdir", "remove"} /\ Removable(path) /\ fs' = Without(Strip(path))
    BY <1>5 DEF Delete, Removes, Undisturbed, files
  <2>2. request.method = "DELETE" /\ path = Asked
    BY <2>1 DEF IInv, Reached, Called
  <2>3. Strip(path) = Target /\ Entries(Strip(path)) = {}
    BY <1>1, <2>1, <2>2, Removed DEF Target, Asked
  <2>4. DOMAIN fs' = DOMAIN fs \ {Target} /\ \A p \in DOMAIN fs' : fs'[p] = fs[p]
    BY <2>1, <2>3 DEF Without
  <2>5. \A p \in DOMAIN fs \ DOMAIN fs' : p = Target
    BY <2>4
  <2> QED
    BY <2>2, <2>3, <2>4, <2>5 DEF Keeps
<1>6. fs' = fs \/ (Save /\ fs' # fs) \/ SavePart \/ (Delete /\ fs' # fs)
  <2>1. CASE Undisturbed
    BY <2>1 DEF Undisturbed, files
  <2>2. CASE Build
    BY <2>2 DEF Build, ParseError, ReturnDirective, NotAllowed, DefaultRoot, CallMethod, Crash,
                ScriptRefused, ScriptFails, ScriptStarts, ScriptCalled, Calls, BuildingFor, Building,
                Undisturbed, files
  <2>3. CASE doGET
    BY <2>3 DEF doGET, GetMissing, GetFile, GetUnslashed, GetDirectory, GetIndex, GetNoIndex,
                GetListing, ReadFile, At, Undisturbed, files
  <2>4. CASE doPOST
    BY <2>4 DEF doPOST, PostNowhere, PostNoBoundary, PostUpload, SkipsPart, PartsEnd, At, Undisturbed, files
  <2>5. CASE doDELETE
    BY <2>5 DEF doDELETE, DeleteMissing, DeleteUnslashed, DeleteGoesOn, DeleteUnreadable,
                DeleteNotEmpty, DeleteEmpty, DeleteAccess, At, Undisturbed, files
  <2> QED
    BY <2>2, <2>3, <2>4, <2>5 DEF ServerStep
<1> QED
  BY <1>2, <1>3, <1>4, <1>5, <1>6

\* DELETE removes its target and no directory with entries; POST overwrites
\* only uploads of the same second (doDELETE, doPOST, get_timestamp_str).
THEOREM UploadsKeptHolds == Spec => UploadsKept
<1>1. IInv /\ [Next]_vars => [meddling' = meddling => Keeps]_vars
  <2> SUFFICES ASSUME IInv, Next, meddling' = meddling PROVE Keeps
    OBVIOUS
  <2>1. CASE \E r \in Requests : Receive(r)
    BY <2>1 DEF Receive, Keeps
  <2>2. CASE ServerStep
    BY <2>2, ServerKeeps
  <2>3. CASE \E out \in Outputs : ScriptEnds(out)
    BY <2>3 DEF ScriptEnds, At, Undisturbed, files, Keeps
  <2>4. CASE Others
    <3>1. meddling' = meddling + 1 /\ meddling \in 0..MaxMeddling
      BY <2>4 DEF Others, Creates, Rewrites, Withdraws, Locks, Meddles, IInv, Typed
    <3> QED
      BY <3>1
  <2>5. CASE Tick
    BY <2>5 DEF Tick, files, Keeps
  <2> QED
    BY <2>1, <2>2, <2>3, <2>4, <2>5 DEF Next
<1>2. Spec => [][meddling' = meddling => Keeps]_vars
  BY <1>1, Invariance, PTL DEF Spec
<1> QED
  BY <1>2 DEF UploadsKept, Keeps

(* The response and the files.                                              *)

\* The last that a request wrote to a path is there.
WritesStand ==
  \A i \in DOMAIN effects :
    (\A j \in DOMAIN effects : effects[j].path = effects[i].path => j <= i)
      => Stat(effects[i].path) = effects[i].entry

\* A response with this status and body would fit the files.
Fitting(status, body) ==
  LET there == Stat(Asked)
      index == Stat(Asked \o location_config.index)
  IN  /\ status = 404 => there.type = "none"
      /\ status = 301 => there.type = "dir" /\ ~Slashed(request.uri)
      /\ status = 200 =>
           \/ there.type = "file" /\ body = there.data
           \/ there.type = "dir" /\ index.type # "none" /\ body = index.data
           \/ there.type = "dir" /\ index.type = "none" /\ location_config.autoindex
           \/ location_config.root = <<>> /\ request.uri = <<"/">>
      /\ status = 204 => there.type = "none"
      /\ status = 409 => Entries(Target) # {}

\* What a method has seen of the files, while nobody changes them.
Seen ==
  ~disturbed =>
    /\ pc \in {"index", "opendir"} => Found("dir")
    /\ pc = "opendir" => Stat(Asked \o location_config.index).type = "none" /\ location_config.autoindex
    /\ pc = "read" => /\ "r" \in Stat(path).mode
                      /\ \/ path = Asked /\ Found("file")
                         \/ /\ path = Asked \o location_config.index /\ ~Found("none")
                            /\ Stat(Asked).type = "dir"
    /\ pc = "part" => WritesStand

\* While the files and the request stay, so does what is said of them.
LEMMA FilesKept ==
  ASSUME fs' = fs, UNCHANGED routing
  PROVE  /\ \A p : Stat(p)' = Stat(p)
         /\ \A p : Entries(p)' = Entries(p)
         /\ \A s, b : Fitting(s, b)' <=> Fitting(s, b)
         /\ effects' = effects => (WritesStand' <=> WritesStand)
<1>1. \A p : Stat(p)' = Stat(p)
  BY DEF Stat
<1>2. \A p : Entries(p)' = Entries(p)
  BY DEF Entries
<1>3. request' = request /\ location_config' = location_config /\ Asked' = Asked /\ Target' = Target
  BY RoutingKept DEF routing
<1>4. Stat(Asked)' = Stat(Asked) /\ Entries(Target)' = Entries(Target)
      /\ Stat(Asked \o location_config.index)' = Stat(Asked \o location_config.index)
  BY <1>1, <1>2, <1>3
<1>5. \A s, b : Fitting(s, b)' <=> Fitting(s, b)
  BY <1>3, <1>4 DEF Fitting
<1>6. ASSUME effects' = effects PROVE WritesStand' <=> WritesStand
  BY <1>1, <1>6 DEF WritesStand
<1> QED
  BY <1>1, <1>2, <1>5, <1>6

\* An answer that fits the files at its end fits them.
LEMMA FitsAnswer ==
  ASSUME location_config # NULL, NEW s, NEW b, NEW h, Answer(Reply(s, b, h)),
         Plain /\ ~disturbed' => Fitting(s, b)' /\ WritesStand'
  PROVE  Seen' /\ AnswerFitsFiles'
<1>1. /\ pc' = "done" /\ UNCHANGED routing
      /\ ~location_config.isRedirect => response'.status = s /\ response'.body = b
  BY AnswerIs
<1>2. request' = request /\ location_config' = location_config /\ (Plain' <=> Plain)
  <2>1. request' = request /\ location_config' = location_config /\ (ForScript' <=> ForScript)
    BY <1>1, RoutingKept DEF routing
  <2> QED
    BY <2>1 DEF Plain
<1>3. Seen'
  BY <1>1 DEF Seen
<1>4. ASSUME Plain, ~disturbed' PROVE AnswerFitsFiles'
  <2>1. response'.status = s /\ response'.body = b
    BY <1>1, <1>4 DEF Plain
  <2>2. Fitting(s, b)' /\ WritesStand'
    BY <1>4
  <2> QED
    BY <2>1, <2>2 DEF AnswerFitsFiles, Fitting, WritesStand, Asked
<1>5. ASSUME ~ (Plain /\ ~disturbed') PROVE AnswerFitsFiles'
  BY <1>2, <1>5 DEF AnswerFitsFiles
<1> QED
  BY <1>3, <1>4, <1>5

\* The files are as they were, and nothing was written.
LEMMA FitsQuietly ==
  ASSUME location_config # NULL, NEW s, NEW b, NEW h, Answer(Reply(s, b, h)), Undisturbed,
         effects = <<>>, Plain /\ ~disturbed => Fitting(s, b)
  PROVE  Seen' /\ AnswerFitsFiles'
<1>1. fs' = fs /\ disturbed' = disturbed /\ effects' = <<>> /\ UNCHANGED routing
  BY AnswerIs DEF Undisturbed, files
<1>2. Fitting(s, b)' <=> Fitting(s, b)
  BY <1>1, FilesKept
<1>3. WritesStand'
  BY <1>1 DEF WritesStand
<1> QED
  BY <1>1, <1>2, <1>3, FitsAnswer

\* Codes that say nothing of the files fit them.
LEMMA Indifferent ==
  ASSUME NEW s, s \notin {200, 204, 301, 404, 409}, NEW b
  PROVE  Fitting(s, b)
BY DEF Fitting

\* What is sent as it is is no answer of a method.
LEMMA FitsSent ==
  ASSUME NEW r, generate_response_only(r), ~Plain
  PROVE  Seen' /\ AnswerFitsFiles'
<1>1. pc' = "done" /\ UNCHANGED routing
  BY DEF generate_response_only
<1>2. ~Plain'
  <2>1. request' = request /\ location_config' = location_config /\ (ForScript' <=> ForScript)
    BY <1>1, RoutingKept DEF routing
  <2> QED
    BY <2>1 DEF Plain
<1> QED
  BY <1>1, <1>2 DEF Seen, AnswerFitsFiles

\* Where nothing is known yet, or no longer.
LEMMA FitsElsewhere ==
  ASSUME pc' \notin {"index", "opendir", "read", "part", "done"} \/ disturbed' = TRUE
  PROVE  Seen' /\ AnswerFitsFiles'
BY DEF Seen, AnswerFitsFiles

\* build_response, up to the method.
LEMMA BuildFits ==
  ASSUME IInv, Build
  PROVE  Seen' /\ AnswerFitsFiles'
<1>1. ASSUME BuildingFor
      PROVE  /\ pc = "build" /\ Undisturbed /\ effects = <<>> /\ location_config # NULL
  BY <1>1 DEF BuildingFor, Building, IInv, Reached
<1>2. CASE ParseError
  <2>1. ~Plain /\ \E r : generate_response_only(r)
    BY <1>2 DEF ParseError, Plain
  <2> QED
    BY <2>1, FitsSent
<1>3. CASE ReturnDirective
  <2>1. /\ BuildingFor /\ ~Plain
        /\ Answer(Reply(location_config.return_code, location_config.return_message, NoHeaders))
    BY <1>3 DEF ReturnDirective, Plain
  <2> QED
    BY <1>1, <2>1, FitsQuietly
<1>4. CASE NotAllowed
  <2>1. BuildingFor /\ Answer(Reply(405, generate_error_page(405), NoHeaders))
    BY <1>4 DEF NotAllowed, Calls, Error
  <2>2. Fitting(405, generate_error_page(405))
    BY Indifferent
  <2> QED
    BY <1>1, <2>1, <2>2, FitsQuietly
<1>5. CASE DefaultRoot
  <2>1. /\ BuildingFor /\ Answer(Reply(200, Page, NoHeaders))
        /\ location_config.root = <<>> /\ request.uri = <<"/">>
    BY <1>5 DEF DefaultRoot, Calls
  <2>2. Fitting(200, Page)
    BY <2>1 DEF Fitting
  <2> QED
    BY <1>1, <2>1, <2>2, FitsQuietly
<1>6. CASE CallMethod
  <2>1. pc' \in Methods
    BY <1>6 DEF CallMethod, Calls, Routes, Goto
  <2> QED
    BY <2>1, FitsElsewhere DEF Methods
<1>7. CASE Crash \/ ScriptStarts
  <2>1. pc' \in {"crashed", "script"}
    BY <1>7 DEF Crash, ScriptStarts, Goto
  <2> QED
    BY <2>1, FitsElsewhere
<1>8. CASE ScriptRefused \/ ScriptFails
  <2>1. ~Plain /\ \E r : generate_response_only(r)
    BY <1>8 DEF ScriptRefused, ScriptFails, ScriptCalled, Plain
  <2> QED
    BY <2>1, FitsSent
<1> QED
  BY <1>2, <1>3, <1>4, <1>5, <1>6, <1>7, <1>8 DEF Build

\* doGET, from one system call to the next.
LEMMA GetFits ==
  ASSUME IInv, Seen, doGET
  PROVE  Seen' /\ AnswerFitsFiles'
<1> DEFINE AtGet == pc \in {"GET", "index", "opendir", "read"} /\ Undisturbed
<1>1. ASSUME AtGet
      PROVE  effects = <<>> /\ location_config # NULL
  BY <1>1 DEF IInv, Reached, Called
<1>2. ASSUME AtGet, NEW s, NEW b, NEW h, Answer(Reply(s, b, h)), ~disturbed => Fitting(s, b)
      PROVE  Seen' /\ AnswerFitsFiles'
  BY <1>1, <1>2, FitsQuietly
<1>3. ASSUME AtGet, NEW s \in {403, 405}, NEW b, NEW h, Answer(Reply(s, b, h))
      PROVE  Seen' /\ AnswerFitsFiles'
  BY <1>2, <1>3, Indifferent
<1>4. ASSUME AtGet
      PROVE  /\ fs' = fs /\ disturbed' = disturbed
             /\ \A p : Stat(p)' = Stat(p)
  BY <1>4 DEF Undisturbed, files, Stat
<1>5. ASSUME AtGet, NEW p, Serve(p),
             ~disturbed => \/ p = Asked /\ Stat(p).type = "file"
                           \/ /\ p = Asked \o location_config.index /\ Stat(p).type # "none"
                              /\ Stat(Asked).type = "dir"
      PROVE  Seen' /\ AnswerFitsFiles'
  <2>1. CASE "r" \in Stat(p).mode
    <3>1. path' = p /\ pc' = "read" /\ UNCHANGED routing
      BY <1>5, <2>1 DEF Serve, Goto
    <3>2. Asked' = Asked /\ location_config' = location_config
      BY <3>1, RoutingKept DEF routing
    <3>3. Stat(path)' = Stat(p) /\ Stat(Asked)' = Stat(Asked) /\ disturbed' = disturbed
      BY <1>4, <1>5, <3>1, <3>2
    <3>4. Seen'
      BY <1>5, <2>1, <3>1, <3>2, <3>3 DEF Seen, Found
    <3> QED
      BY <3>1, <3>4 DEF AnswerFitsFiles
  <2>2. CASE "r" \notin Stat(p).mode
    <3>1. Answer(Reply(403, generate_error_page(403), NoHeaders))
      BY <1>5, <2>2 DEF Serve, Error
    <3> QED
      BY <1>3, <1>5, <3>1
  <2> QED
    BY <2>1, <2>2
<1>6. CASE GetMissing
  <2>1. AtGet /\ path = Asked /\ Found("none") /\ Answer(Reply(404, generate_error_page(404), NoHeaders))
    BY <1>6 DEF GetMissing, At, Error, IInv, Reached
  <2>2. Fitting(404, generate_error_page(404))
    BY <2>1 DEF Fitting, Found
  <2> QED
    BY <1>2, <2>1, <2>2
<1>7. CASE GetFile
  <2>1. AtGet /\ path = Asked /\ Stat(path).type = "file" /\ Serve(path)
    BY <1>7 DEF GetFile, At, Found, IInv, Reached
  <2> QED
    BY <1>5, <2>1
<1>8. CASE GetUnslashed
  <2>1. /\ AtGet /\ path = Asked /\ Found("dir") /\ ~Slashed(request.uri)
        /\ \E h : Answer(Reply(301, generate_error_page(301), h))
    BY <1>8 DEF GetUnslashed, At, IInv, Reached
  <2>2. Fitting(301, generate_error_page(301))
    BY <2>1 DEF Fitting, Found
  <2>3. PICK h : Answer(Reply(301, generate_error_page(301), h))
    BY <2>1
  <2> QED
    BY <1>2, <2>1, <2>2, <2>3
<1>9. CASE GetDirectory
  <2>1. AtGet /\ Found("dir") /\ pc' = "index" /\ path' = path
    BY <1>9 DEF GetDirectory, At, Goto
  <2>2. Found("dir")'
    BY <1>4, <2>1 DEF Found, Stat
  <2> QED
    BY <2>1, <2>2 DEF Seen, AnswerFitsFiles
<1>10. CASE GetIndex
  <2>1. /\ AtGet /\ pc = "index" /\ path = Asked /\ Stat(path \o location_config.index).type # "none"
        /\ Serve(path \o location_config.index)
    BY <1>10 DEF GetIndex, At, IInv, Reached
  <2>2. ~disturbed => Stat(Asked).type = "dir"
    BY <2>1 DEF Seen, Found
  <2> QED
    BY <1>5, <2>1, <2>2
<1>11. CASE GetNoIndex
  <2>1. /\ AtGet /\ pc = "index" /\ path = Asked /\ Stat(Asked \o location_config.index).type = "none"
    BY <1>11 DEF GetNoIndex, At, IInv, Reached
  <2>2. CASE location_config.autoindex
    <3>1. pc' = "opendir" /\ path' = path /\ UNCHANGED routing
      BY <1>11, <2>2 DEF GetNoIndex, Goto
    <3>2. Asked' = Asked /\ location_config' = location_config
      BY <3>1, RoutingKept DEF routing
    <3>3. /\ Stat(path)' = Stat(path) /\ disturbed' = disturbed
          /\ Stat(Asked \o location_config.index)' = Stat(Asked \o location_config.index)
      BY <1>4, <2>1, <3>1, <3>2
    <3>4. Seen'
      BY <2>1, <2>2, <3>1, <3>2, <3>3 DEF Seen, Found
    <3> QED
      BY <3>1, <3>4 DEF AnswerFitsFiles
  <2>3. CASE ~location_config.autoindex
    <3>1. Answer(Reply(403, generate_error_page(403), NoHeaders))
      BY <1>11, <2>3 DEF GetNoIndex, Error
    <3> QED
      BY <1>3, <2>1, <3>1
  <2> QED
    BY <2>2, <2>3
<1>12. CASE GetListing
  <2>1. /\ AtGet /\ pc = "opendir" /\ path = Asked
        /\ Answer(IF Found("dir") /\ "r" \in Stat(path).mode THEN Reply(200, Page, NoHeaders) ELSE Error(403))
    BY <1>12 DEF GetListing, At, IInv, Reached
  <2>2. CASE Found("dir") /\ "r" \in Stat(path).mode
    <3>1. ~disturbed => Fitting(200, Page)
      BY <2>1, <2>2 DEF Seen, Fitting, Found
    <3> QED
      BY <1>2, <2>1, <2>2, <3>1
  <2>3. CASE ~(Found("dir") /\ "r" \in Stat(path).mode)
    <3>1. Answer(Reply(403, generate_error_page(403), NoHeaders))
      BY <2>1, <2>3 DEF Error
    <3> QED
      BY <1>3, <2>1, <3>1
  <2> QED
    BY <2>2, <2>3
<1>13. CASE ReadFile
  <2>1. AtGet /\ pc = "read" /\ Answer(Reply(200, Read(path), NoHeaders))
    BY <1>13 DEF ReadFile, At
  <2>2. ASSUME ~disturbed PROVE Fitting(200, Read(path))
    <3>1. Read(path) = Stat(path).data
      BY <2>1, <2>2 DEF Seen, Read
    <3> DEFINE b == Read(path)
    <3>2. \/ b = Stat(Asked).data /\ Stat(Asked).type = "file"
          \/ /\ b = Stat(Asked \o location_config.index).data
             /\ Stat(Asked \o location_config.index).type # "none"
             /\ Stat(Asked).type = "dir"
      BY <2>1, <2>2, <3>1 DEF Seen, Found
    <3> HIDE DEF b
    <3>3. Fitting(200, b)
      BY <3>2 DEF Fitting
    <3> QED
      BY <3>3 DEF b
  <2> QED
    BY <1>2, <2>1, <2>2
<1> QED
  BY <1>6, <1>7, <1>8, <1>9, <1>10, <1>11, <1>12, <1>13 DEF doGET

\* doPOST: what was last written to a path is there.
LEMMA PostFits ==
  ASSUME IInv, Seen, doPOST
  PROVE  Seen' /\ AnswerFitsFiles'
<1>1. Typed /\ Disk
  BY DEF IInv
<1>2. CASE PostNowhere \/ PostNoBoundary
  <2>1. /\ pc = "POST" /\ Undisturbed
        /\ \E s \in {403, 500} : Answer(Reply(s, generate_error_page(s), NoHeaders))
    BY <1>2 DEF PostNowhere, PostNoBoundary, At, Error
  <2>2. effects = <<>> /\ location_config # NULL
    BY <2>1 DEF IInv, Reached, Called
  <2>3. PICK s \in {403, 500} : Answer(Reply(s, generate_error_page(s), NoHeaders))
    BY <2>1
  <2>4. Fitting(s, generate_error_page(s))
    BY Indifferent
  <2> QED
    BY <2>1, <2>2, <2>3, <2>4, FitsQuietly
<1>3. CASE PostUpload
  <2>1. pc' \in {"part", "save"} /\ effects' = <<>>
    BY <1>3 DEF PostUpload, At, Undisturbed, IInv, Reached
  <2>2. WritesStand'
    BY <2>1 DEF WritesStand
  <2> QED
    BY <2>1, <2>2 DEF Seen, AnswerFitsFiles
<1>4. CASE Save
  <2> DEFINE full_path == Name(<<".bin">>)
  <2>1. pc = "save" /\ effects = <<>> /\ location_config # NULL /\ request.body \in Text
    BY <1>4, RequestIs DEF Save, IInv, Reached, Called, Typed
  <2>2. Spelt(full_path)
    BY <1>1, <2>1, Words, NameIs
  <2>3. CASE Writable(full_path)
    <3> DEFINE e == File(request.body)
               b == Saved(full_path)
    <3>1. Writes(full_path, e) /\ Answer(Reply(201, b, NoHeaders))
      BY <1>4, <2>3 DEF Save
    <3> HIDE DEF full_path, e, b
    <3>2. fs' = Put(full_path, e) /\ effects' = Append(effects, [path |-> full_path, entry |-> e])
      BY <3>1 DEF Writes
    <3>3. effects' = <<[path |-> full_path, entry |-> e]>>
      BY <2>1, <3>2
    <3>4. \A q : ~Slashed(q) => Stat(q)' = IF q = full_path THEN e ELSE Stat(q)
      BY <2>2, <3>2, StatAfterPut DEF Spelt
    <3>5. WritesStand'
      <4>1. DOMAIN effects' = {1} /\ effects'[1].path = full_path /\ effects'[1].entry = e
        BY <3>3
      <4>2. \A q : q = full_path => Stat(q)' = e
        BY <2>2, <3>4 DEF Spelt
      <4>3. (\A i \in DOMAIN effects : Stat(effects[i].path) = effects[i].entry)'
        BY <4>1, <4>2 DEF Stat
      <4> QED
        BY <4>3 DEF WritesStand, Stat
    <3>6. PICK c : Answer(Reply(201, c, NoHeaders))
      BY <3>1
    <3>7. Fitting(201, c)'
      BY DEF Fitting
    <3> QED
      BY <2>1, <3>5, <3>6, <3>7, FitsAnswer
  <2>4. CASE ~Writable(full_path)
    <3>1. Undisturbed /\ Answer(Reply(403, generate_error_page(403), NoHeaders))
      BY <1>4, <2>4 DEF Save, Error
    <3>2. Fitting(403, generate_error_page(403))
      BY Indifferent
    <3> QED
      BY <2>1, <3>1, <3>2, FitsQuietly
  <2> QED
    BY <2>3, <2>4
<1>5. CASE SkipsPart
  <2>1. pc = "part" /\ pc' = "part" /\ fs' = fs /\ effects' = effects /\ disturbed' = disturbed /\ UNCHANGED routing
    BY <1>5 DEF SkipsPart, At, Undisturbed, files
  <2>2. WritesStand' <=> WritesStand
    BY <2>1, FilesKept
  <2> QED
    BY <2>1, <2>2 DEF Seen, AnswerFitsFiles
<1>6. CASE SavePart
  <2> DEFINE name == Head(parts).name
             full_path == Name(name)
             entry == File(Append(Head(parts).data, "CRLF"))
             e == [path |-> full_path, entry |-> entry]
  <2>1. /\ pc = "part" /\ pc' = "part" /\ parts # <<>> /\ Head(parts).form = "good" /\ disturbed' = disturbed
        /\ fs' = Put(full_path, entry) /\ effects' = Append(effects, e)
    BY <1>6 DEF SavePart, Writes
  <2>2. /\ effects \in Seq(Effect) /\ Sound(parts) /\ location_config # NULL
        /\ \A i \in DOMAIN effects : Spelt(effects[i].path)
    BY <2>1 DEF IInv, Reached, Called, FormSoFar, Sound
  <2>3. Head(parts) \in FormPart /\ "/" \notin ToSet(name)
    BY <2>1, <2>2, Rest
  <2>4. name \in Text
    BY <2>3 DEF FormPart
  <2>5. Spelt(full_path)
    BY <1>1, <2>2, <2>3, <2>4, NameIs
  <2> HIDE DEF name, full_path, entry
  <2>6. ~Slashed(full_path) /\ e.path = full_path /\ e.entry = entry
    BY <2>5 DEF Spelt
  <2>7. \A q : ~Slashed(q) => Stat(q)' = IF q = full_path THEN entry ELSE Stat(q)
    BY <2>1, <2>6, StatAfterPut
  <2> HIDE DEF e
  <2>8. /\ DOMAIN effects = 1..Len(effects) /\ Len(effects) \in Nat
        /\ DOMAIN effects' = 1..(Len(effects) + 1) /\ effects'[Len(effects) + 1] = e
        /\ \A i \in DOMAIN effects : effects'[i] = effects[i]
    BY <2>1, <2>2
  <2>9. ASSUME WritesStand, NEW i \in DOMAIN effects',
               \A j \in DOMAIN effects' : effects'[j].path = effects'[i].path => j <= i
        PROVE  \A q : q = effects'[i].path => Stat(q)' = effects'[i].entry
    <3>1. CASE i = Len(effects) + 1
      <4>1. effects'[i].path = full_path /\ effects'[i].entry = entry
        BY <2>6, <2>8, <3>1
      <4> QED
        BY <2>6, <2>7, <4>1
    <3>2. CASE i # Len(effects) + 1
      <4>1. i \in DOMAIN effects /\ effects'[i] = effects[i] /\ ~Slashed(effects[i].path)
        BY <2>2, <2>8, <3>2 DEF Spelt
      <4>2. effects[i].path # full_path
        <5>1. effects'[Len(effects) + 1].path = full_path /\ Len(effects) + 1 \in DOMAIN effects'
          BY <2>6, <2>8
        <5>2. ~(Len(effects) + 1 <= i)
          BY <2>8, <4>1
        <5> QED
          BY <2>9, <4>1, <5>1, <5>2
      <4>3. \A j \in DOMAIN effects : effects[j].path = effects[i].path => j <= i
        BY <2>8, <2>9, <4>1
      <4>4. Stat(effects[i].path) = effects[i].entry
        BY <2>9, <4>1, <4>3 DEF WritesStand
      <4> QED
        BY <2>7, <4>1, <4>2, <4>4
    <3> QED
      BY <3>1, <3>2
  <2>10. WritesStand => WritesStand'
    <3>1. ASSUME WritesStand
          PROVE  \A i \in DOMAIN effects' :
                   (\A j \in DOMAIN effects' : effects'[j].path = effects'[i].path => j <= i)
                     => \A q : q = effects'[i].path => Stat(q)' = effects'[i].entry
      BY <2>9, <3>1
    <3> QED
      BY <3>1 DEF WritesStand, Stat
  <2> QED
    BY <2>1, <2>10 DEF Seen, AnswerFitsFiles
<1>7. CASE PartsEnd
  <2>1. pc = "part" /\ Undisturbed /\ Answer(response)
    BY <1>7 DEF PartsEnd, At
  <2>2. /\ response = Reply(response.status, response.body, response.headers)
        /\ response.status \in {0, 201} /\ location_config # NULL
    BY <2>1 DEF IInv, Reached, Called, FormSoFar
  <2>3. PICK s, b, h : s \in {0, 201} /\ Answer(Reply(s, b, h))
    BY <2>1, <2>2
  <2>4. fs' = fs /\ disturbed' = disturbed /\ effects' = effects /\ UNCHANGED routing
    BY <2>1, <2>2, <2>3, AnswerIs DEF Undisturbed, files
  <2>5. Fitting(s, b)' /\ (WritesStand' <=> WritesStand)
    <3>1. Fitting(s, b)
      BY <2>3, Indifferent
    <3> QED
      BY <2>4, <3>1, FilesKept
  <2>6. ~disturbed => WritesStand
    BY <2>1 DEF Seen
  <2> QED
    BY <2>2, <2>3, <2>4, <2>5, <2>6, FitsAnswer
<1> QED
  BY <1>2, <1>3, <1>4, <1>5, <1>6, <1>7 DEF doPOST

\* doDELETE: what was removed is gone.
LEMMA DeleteFits ==
  ASSUME IInv, Seen, doDELETE
  PROVE  Seen' /\ AnswerFitsFiles'
<1> DEFINE AtDelete == pc \in {"DELETE", "readdir", "access", "rmdir", "remove"}
<1>1. ASSUME AtDelete
      PROVE  effects = <<>> /\ location_config # NULL /\ path = Asked /\ Typed /\ Disk
  BY <1>1 DEF IInv, Reached, Called
<1>2. ASSUME AtDelete, Undisturbed, NEW s, NEW b, NEW h, Answer(Reply(s, b, h)), Fitting(s, b)
      PROVE  Seen' /\ AnswerFitsFiles'
  BY <1>1, <1>2, FitsQuietly
<1>3. CASE DeleteMissing
  <2>1. AtDelete /\ Undisturbed /\ Found("none") /\ Answer(Reply(404, generate_error_page(404), NoHeaders))
    BY <1>3 DEF DeleteMissing, At, Error
  <2>2. Fitting(404, generate_error_page(404))
    BY <1>1, <2>1 DEF Fitting, Found
  <2> QED
    BY <1>2, <2>1, <2>2
<1>4. CASE DeleteUnslashed
  <2>1. /\ AtDelete /\ Undisturbed /\ Found("dir") /\ ~Slashed(request.uri)
        /\ \E h : Answer(Reply(301, <<>>, h))
    BY <1>4 DEF DeleteUnslashed, At
  <2>2. Fitting(301, <<>>)
    BY <1>1, <2>1 DEF Fitting, Found
  <2>3. PICK h : Answer(Reply(301, <<>>, h))
    BY <2>1
  <2> QED
    BY <1>2, <2>1, <2>2, <2>3
<1>5. CASE DeleteGoesOn \/ DeleteEmpty
  <2>1. pc' \in {"readdir", "remove", "access"}
    BY <1>5 DEF DeleteGoesOn, DeleteEmpty, Goto
  <2> QED
    BY <2>1, FitsElsewhere
<1>6. CASE DeleteUnreadable
  <2>1. AtDelete /\ Undisturbed /\ Answer(Reply(403, generate_error_page(403), NoHeaders))
    BY <1>6 DEF DeleteUnreadable, At, Error
  <2> QED
    BY <1>2, <2>1, Indifferent
<1>7. CASE DeleteNotEmpty
  <2>1. /\ AtDelete /\ Undisturbed /\ Entries(Strip(path)) # {}
        /\ Answer(Reply(409, generate_error_page(409), NoHeaders))
    BY <1>7 DEF DeleteNotEmpty, At, Error
  <2>2. Fitting(409, generate_error_page(409))
    <3>1. Strip(path) = Target
      BY <1>1, <2>1 DEF Target, Asked
    <3> QED
      BY <2>1, <3>1 DEF Fitting
  <2> QED
    BY <1>2, <2>1, <2>2
<1>8. CASE DeleteAccess
  <2>1. AtDelete /\ Undisturbed
    BY <1>8 DEF DeleteAccess, At
  <2>2. CASE "w" \in Stat(path).mode
    <3>1. pc' = "rmdir"
      BY <1>8, <2>2 DEF DeleteAccess, Goto
    <3> QED
      BY <3>1, FitsElsewhere
  <2>3. CASE "w" \notin Stat(path).mode
    <3>1. Answer(Reply(403, generate_error_page(403), NoHeaders))
      BY <1>8, <2>3 DEF DeleteAccess, Error
    <3> QED
      BY <1>2, <2>1, <3>1, Indifferent
  <2> QED
    BY <2>2, <2>3
<1>9. CASE Delete
  <2>1. AtDelete
    BY <1>9 DEF Delete
  <2>2. CASE Removable(path) /\ (pc = "rmdir" => Found("dir"))
    <3> DEFINE e == [path |-> Strip(path), entry |-> Missing]
    <3>1. Answer(Reply(204, <<>>, NoHeaders)) /\ fs' = Without(Strip(path)) /\ effects' = Append(effects, e)
      BY <1>9, <2>2 DEF Delete, Removes
    <3>2. e.path = Strip(path) /\ e.entry = Missing
      OBVIOUS
    <3>3. effects = <<>>
      BY <1>1, <2>1
    <3> HIDE DEF e
    <3>4. UNCHANGED routing /\ Asked' = Asked
      BY <1>1, <2>1, <3>1, AnswerIs, RoutingKept
    <3>5. Stat(Asked)' = Missing
      <4>1. Stat(path)' = Missing \/ path' # path
        BY <3>1, StatAfterWithout
      <4>2. path' = path
        BY <1>1, <2>1, <3>1, AnswerIs
      <4> QED
        BY <1>1, <2>1, <3>4, <4>1, <4>2 DEF Stat
    <3>6. Fitting(204, <<>>)'
      BY <3>5 DEF Fitting, Missing
    <3>7. WritesStand'
      <4>1. Strip(path) \in DOMAIN fs
        BY <1>1, <2>1, <2>2, Removed
      <4>2. Strip(Strip(path)) = Strip(path)
        BY <1>1, <2>1, <4>1, StatOfEntry
      <4>3. DOMAIN effects' = {1} /\ effects'[1] = e
        BY <3>1, <3>3
      <4> DEFINE q == Strip(path)
      <4>4. Strip(q) = q /\ fs' = Without(q) /\ e.path = q
        BY <3>1, <3>2, <4>2
      <4> HIDE DEF q
      <4>5. DOMAIN fs' = DOMAIN fs \ {q}
        BY <4>4 DEF Without
      <4>6. \A i \in DOMAIN effects' : effects'[i].path = q /\ effects'[i].entry = Missing
        BY <3>2, <4>3, <4>4
      <4>7. \A x : x = q => Stat(x)' = Missing
        BY <4>4, <4>5 DEF Stat
      <4>8. (\A i \in DOMAIN effects : Stat(effects[i].path) = effects[i].entry)'
        BY <4>6, <4>7 DEF Stat
      <4> QED
        BY <4>8 DEF WritesStand, Stat
    <3> QED
      BY <1>1, <2>1, <3>1, <3>6, <3>7, FitsAnswer
  <2>3. CASE ~(Removable(path) /\ (pc = "rmdir" => Found("dir")))
    <3>1. Undisturbed /\ Answer(Reply(500, generate_error_page(500), NoHeaders))
      BY <1>9, <2>3 DEF Delete, Error
    <3> QED
      BY <1>2, <2>1, <3>1, Indifferent
  <2> QED
    BY <2>2, <2>3
<1> QED
  BY <1>3, <1>4, <1>5, <1>6, <1>7, <1>8, <1>9 DEF doDELETE

\* When nobody changed the files, the response fits them.
THEOREM AnswerFitsFilesHolds == Spec => []AnswerFitsFiles
<1>1. Init => Seen /\ AnswerFitsFiles
  BY DEF Init, Seen, AnswerFitsFiles
<1>2. IInv /\ Seen /\ AnswerFitsFiles /\ [Next]_vars => Seen' /\ AnswerFitsFiles'
  <2> SUFFICES ASSUME IInv, Seen, AnswerFitsFiles, [Next]_vars PROVE Seen' /\ AnswerFitsFiles'
    OBVIOUS
  <2>1. CASE \E r \in Requests : Receive(r)
    <3>1. pc' = "build"
      BY <2>1 DEF Receive
    <3> QED
      BY <3>1, FitsElsewhere
  <2>2. CASE ServerStep
    BY <2>2, BuildFits, GetFits, PostFits, DeleteFits DEF ServerStep
  <2>3. CASE \E out \in Outputs : ScriptEnds(out)
    <3>1. ForScript /\ \E r : generate_response_only(r)
      BY <2>3 DEF ScriptEnds, At, IInv, Reached
    <3> QED
      BY <3>1, FitsSent DEF Plain
  <2>4. CASE Others
    <3>1. disturbed' = TRUE
      BY <2>4 DEF Others, Creates, Rewrites, Withdraws, Locks, Meddles
    <3> QED
      BY <3>1, FitsElsewhere
  <2>5. CASE Tick \/ UNCHANGED vars
    <3>1. UNCHANGED <<files, routing, path, response, pc, effects>>
      BY <2>5 DEF Tick, vars
    <3>2. /\ fs' = fs /\ disturbed' = disturbed /\ request' = request /\ location_config' = location_config
          /\ Asked' = Asked /\ Target' = Target /\ (ForScript' <=> ForScript)
          /\ \A p : Stat(p)' = Stat(p)
          /\ \A p : Entries(p)' = Entries(p)
          /\ (WritesStand' <=> WritesStand)
      BY <3>1, RoutingKept, FilesKept DEF files, routing
    <3>3. Stat(path)' = Stat(path) /\ Stat(Asked)' = Stat(Asked)
          /\ Stat(Asked \o location_config.index)' = Stat(Asked \o location_config.index)
      BY <3>1, <3>2 DEF Stat
    <3>4. Seen'
      BY <3>1, <3>2, <3>3 DEF Seen, Found
    <3>5. AnswerFitsFiles'
      BY <3>1 DEF AnswerFitsFiles, Plain, ForScript, is_cgi_request, Stat, Entries, Target, files, routing
    <3> QED
      BY <3>4, <3>5
  <2> QED
    BY <2>1, <2>2, <2>3, <2>4, <2>5 DEF Next
<1>3. Spec => [](Seen /\ AnswerFitsFiles)
  BY <1>1, <1>2, Invariance, PTL DEF Spec
<1> QED
  BY <1>3, PTL

=============================================================================
