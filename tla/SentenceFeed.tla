---------------------------- MODULE SentenceFeed ----------------------------
(***************************************************************************)
(* What a continuous synthesis session promises its client, whatever the   *)
(* queue, the deadlines and the locks do: accepted sentences are spoken in *)
(* order, nothing is accepted once the session is sealed, and a session    *)
(* completes only when it is sealed and has spoken all it accepted.        *)
(* Sessions are independent: one step may move several of them, as when an *)
(* enqueue in one session expires another.                                 *)
(***************************************************************************)
EXTENDS Sequences, Naturals

CONSTANTS Sessions, Sentences
VARIABLE feed   \* [Sessions -> [phase, accepted, spoken]]

Absent == [phase |-> "absent", accepted |-> <<>>, spoken |-> <<>>]

Opens(a, b)  == \E x \in Sentences :
  a = Absent /\ b = [phase |-> "open", accepted |-> <<x>>, spoken |-> <<>>]

Accepts(a, b) == \E x \in Sentences :
  a.phase = "open" /\ b = [a EXCEPT !.accepted = Append(@, x)]

Seals(a, b)  == a.phase = "open" /\ b = [a EXCEPT !.phase = "sealed"]

Speaks(a, b) ==
  /\ Len(a.spoken) < Len(a.accepted)
  /\ b = [a EXCEPT !.spoken = Append(@, a.accepted[Len(a.spoken) + 1])]

Completes(a, b) ==
  /\ a.phase = "sealed" /\ a.spoken = a.accepted
  /\ b = [a EXCEPT !.phase = "completed"]

Breaks(a, b) == a.phase \in {"open", "sealed"} /\ b = [a EXCEPT !.phase = "broken"]

Moves(a, b) ==
  \/ Opens(a, b) \/ Accepts(a, b) \/ Seals(a, b)
  \/ Speaks(a, b) \/ Completes(a, b) \/ Breaks(a, b)

Init == feed = [s \in Sessions |-> Absent]
Next == \A s \in Sessions : feed'[s] = feed[s] \/ Moves(feed[s], feed'[s])
Spec == Init /\ [][Next]_feed
=============================================================================
