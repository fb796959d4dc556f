---------------------------- MODULE RequestReply ----------------------------
(* What a kept-alive HTTP connection promises: the peer asks, and gets one  *)
(* response to what it asked, whole and in order, before it asks again; an  *)
(* interim response may come before, never inside it.                       *)
EXTENDS Integers, Sequences

VARIABLES
  status,   \* "closed", "open", or "broken": no promise any more
  count,    \* the requests so far
  stream    \* what the peer has received: replies of a kind to a request

avars == <<status, count, stream>>

Reply(n, kind) == [req |-> n, kind |-> kind]
LastKind == IF stream = <<>> THEN "final" ELSE stream[Len(stream)].kind

\* The last request has no complete response yet.
Unanswered ==
  /\ count > 0
  /\ stream = <<>> \/ stream[Len(stream)] # Reply(count, "final")

Init == status = "closed" /\ count = 0 /\ stream = <<>>

Open == status # "open" /\ status' = "open" /\ count' = 0 /\ stream' = <<>>

Ask == /\ status = "open" /\ ~Unanswered
       /\ count' = count + 1
       /\ UNCHANGED <<status, stream>>

Interim == /\ status = "open" /\ Unanswered /\ LastKind # "part"
           /\ stream' = Append(stream, Reply(count, "interim"))
           /\ UNCHANGED <<status, count>>

Answer(kind) == /\ status = "open" /\ Unanswered
                /\ stream' = Append(stream, Reply(count, kind))
                /\ status' \in IF kind = "final" THEN {"open", "closed"} ELSE {"open"}
                /\ UNCHANGED count

Close == status = "open" /\ status' = "closed" /\ UNCHANGED <<count, stream>>

Break == status' = "broken" /\ count' = 0 /\ stream' = <<>>

Next == Open \/ Ask \/ Interim \/ Answer("part") \/ Answer("final") \/ Close \/ Break

Spec == Init /\ [][Next]_avars
=============================================================================
