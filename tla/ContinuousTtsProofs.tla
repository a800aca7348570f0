------------------------ MODULE ContinuousTtsProofs ------------------------
(***************************************************************************)
(* The safety of one spoken reply, for replies of any length, queues of    *)
(* any size and any number of slots in the bridge.                         *)
(***************************************************************************)
EXTENDS ContinuousTts, FiniteSetTheorems, TLAPS

Feeds == [phase : {"absent", "open", "sealed", "completed", "broken"},
          accepted : Seq(1..MaxSentences), spoken : Seq(1..MaxSentences)]

-----------------------------------------------------------------------------
(* The bridge: every way a call can go keeps the account of the slots.     *)

LEMMA CallFacts ==
  /\ {CreateCall, AudioCall, FinishCall, DeleteCall} \subseteq Calls
  /\ CreateCall # AudioCall /\ CreateCall # FinishCall /\ CreateCall # DeleteCall
  /\ AudioCall # FinishCall /\ AudioCall # DeleteCall /\ FinishCall # DeleteCall
  /\ \A n \in 2..MaxSentences :
       /\ TextCall(n) \in Calls
       /\ TextCall(n) \notin {CreateCall, AudioCall, FinishCall, DeleteCall}
  /\ \A m, n \in 2..MaxSentences : TextCall(m) = TextCall(n) => m = n
BY DEF Calls, TextCalls, TextCall, CreateCall, AudioCall, FinishCall, DeleteCall

LEMMA CallsFinite == IsFiniteSet(Calls)
<1>1. MaxSentences \in Nat
  BY TtsAssumption
<1>2. IsFiniteSet(2..MaxSentences)
  BY <1>1, FS_Interval
<1> DEFINE f == [n \in 2..MaxSentences |-> TextCall(n)]
<1>3. f \in Surjection(2..MaxSentences, TextCalls)
  BY DEF Surjection, TextCalls
<1>4. IsFiniteSet(TextCalls)
  BY <1>2, <1>3, FS_Surjection
<1>5. Calls = ((((TextCalls \cup {CreateCall}) \cup {AudioCall}) \cup {FinishCall}) \cup {DeleteCall})
  BY DEF Calls
<1> HIDE DEF f
<1>6. /\ IsFiniteSet(TextCalls \cup {CreateCall})
      /\ IsFiniteSet((TextCalls \cup {CreateCall}) \cup {AudioCall})
  BY <1>4, FS_AddElement
<1>7. IsFiniteSet(((TextCalls \cup {CreateCall}) \cup {AudioCall}) \cup {FinishCall})
  BY <1>6, FS_AddElement
<1> QED
  BY <1>5, <1>7, FS_AddElement

LEMMA PoolType ==
  /\ \A c : Pool(c) \in {"proxy", "control"}
  /\ DOMAIN Slots = {"proxy", "control"}
  /\ \A p \in {"proxy", "control"} : Slots[p] \in Nat
BY TtsAssumption DEF Pool, Slots

LEMMA HeldFinite ==
  ASSUME NEW p PROVE IsFiniteSet(Held(p)) /\ Cardinality(Held(p)) \in Nat
<1>1. Held(p) \in SUBSET Calls
  BY DEF Held
<1>2. IsFiniteSet(Held(p))
  BY <1>1, CallsFinite, FS_Subset
<1> QED
  BY <1>2, FS_CardinalityType

Holding == {"forwarded", "flowing", "answered"}

\* A call that holds a slot before it moves holds it after, and one that
\* holds none takes none.
LEMMA KeepsSlot ==
  ASSUME BridgeTypeOK, UNCHANGED free, hop' \in [Calls -> Hops], reply' \in [Calls -> Replies],
         \A c \in Calls : hop[c] \in Holding <=> hop'[c] \in Holding
  PROVE  BridgeTypeOK'
<1>1. \A p : Held(p)' = Held(p)
  BY DEF Held, Holding
<1> QED
  BY <1>1 DEF BridgeTypeOK

LEMMA MoveKeeps ==
  ASSUME BridgeTypeOK, NEW c \in Calls, NEW from \in Hops, NEW to \in Hops, NEW r \in Replies,
         Advance(c, from, to, r), UNCHANGED free, from \in Holding <=> to \in Holding
  PROVE  BridgeTypeOK'
<1>1. /\ hop' \in [Calls -> Hops] /\ reply' \in [Calls -> Replies]
      /\ \A d \in Calls : hop[d] \in Holding <=> hop'[d] \in Holding
  BY DEF BridgeTypeOK, Advance
<1> QED
  BY <1>1, KeepsSlot

LEMMA QuietBridge == BridgeTypeOK /\ UNCHANGED bridge => BridgeTypeOK'
BY DEF bridge, BridgeTypeOK, Held

LEMMA SendKeeps ==
  ASSUME BridgeTypeOK, NEW c \in Calls, hop[c] = "unsent", Send({c})
  PROVE  BridgeTypeOK'
<1>1. /\ hop' \in [Calls -> Hops] /\ reply' \in [Calls -> Replies] /\ UNCHANGED free
      /\ \A d \in Calls : hop[d] \in Holding <=> hop'[d] \in Holding
  BY DEF BridgeTypeOK, Send, Hops, Holding
<1> QED
  BY <1>1, KeepsSlot

LEMMA EnterKeeps ==
  ASSUME BridgeTypeOK, NEW c \in Calls, Enter(c)
  PROVE  BridgeTypeOK'
<1> DEFINE P == Pool(c)
<1>1. /\ P \in {"proxy", "control"} /\ free[P] \in Nat /\ free[P] > 0
      /\ free' = [free EXCEPT ![P] = free[P] - 1]
      /\ hop' = [hop EXCEPT ![c] = "forwarded"] /\ hop[c] = "sent"
      /\ reply' = [reply EXCEPT ![c] = "none"]
  BY PoolType DEF BridgeTypeOK, Enter, Advance
<1>2. /\ hop' \in [Calls -> Hops] /\ reply' \in [Calls -> Replies]
      /\ free' \in [{"proxy", "control"} -> Nat]
  BY <1>1 DEF BridgeTypeOK, Hops, Replies
<1>3. Held(P)' = Held(P) \cup {c} /\ c \notin Held(P)
  BY <1>1 DEF Held, BridgeTypeOK
<1>4. \A p \in {"proxy", "control"} \ {P} : Held(p)' = Held(p)
  BY <1>1 DEF Held, BridgeTypeOK
<1> HIDE DEF P
<1>5. Cardinality(Held(P)') = Cardinality(Held(P)) + 1
  BY <1>3, HeldFinite, FS_AddElement
<1>6. free'[P] + Cardinality(Held(P)') = Slots[P]
  BY <1>1, <1>5, HeldFinite DEF BridgeTypeOK
<1> QED
  BY <1>1, <1>2, <1>4, <1>6 DEF BridgeTypeOK

LEMMA ReleaseKeeps ==
  ASSUME BridgeTypeOK, NEW c \in Calls, Release(c)
  PROVE  BridgeTypeOK'
<1> DEFINE P == Pool(c)
<1>1. /\ P \in {"proxy", "control"} /\ free[P] \in Nat
      /\ free' = [free EXCEPT ![P] = free[P] + 1]
      /\ hop' = [hop EXCEPT ![c] = "done"] /\ hop[c] = "answered"
      /\ reply' = [reply EXCEPT ![c] = reply[c]]
  BY PoolType DEF BridgeTypeOK, Release, Advance
<1>2. /\ hop' \in [Calls -> Hops] /\ reply' \in [Calls -> Replies]
      /\ free' \in [{"proxy", "control"} -> Nat]
  BY <1>1 DEF BridgeTypeOK, Hops, Replies
<1>3. Held(P)' = Held(P) \ {c} /\ c \in Held(P)
  BY <1>1 DEF Held, BridgeTypeOK
<1>4. \A p \in {"proxy", "control"} \ {P} : Held(p)' = Held(p)
  BY <1>1 DEF Held, BridgeTypeOK
<1> HIDE DEF P
<1>5. Cardinality(Held(P)') = Cardinality(Held(P)) - 1
  BY <1>3, HeldFinite, FS_RemoveElement
<1>6. free'[P] + Cardinality(Held(P)') = Slots[P]
  BY <1>1, <1>5, HeldFinite DEF BridgeTypeOK
<1> QED
  BY <1>1, <1>2, <1>4, <1>6 DEF BridgeTypeOK
-----------------------------------------------------------------------------
(* The inductive invariant.                                                *)

\* No call is sent a second time, as each goes with a place that its sender
\* leaves for good.
SentInTurn ==
  /\ main = "first" => \A c \in Calls : hop[c] = "unsent"
  /\ producer = "none" => \A c \in Calls \ {CreateCall} : hop[c] = "unsent"
  /\ producer \in {"none", "reading", "posting"} => hop[FinishCall] = "unsent"
  /\ \A n \in 2..MaxSentences : hop[TextCall(n)] # "unsent" => n <= received
  /\ hop[DeleteCall] # "unsent" =>
       main \in {"discarding", "deleting", "fallback", "spoken", "raised", "closed"}

\* The producer runs when the session exists, and the reply goes one way
\* with a producer and another way without.
ProducerHasSession ==
  /\ feed.phase = "absent" => feed = Session!Absent
  /\ feed.phase # "absent" => Len(feed.accepted) >= 1
  /\ hop[CreateCall] \in {"unsent", "sent", "forwarded"} => feed = Session!Absent
  /\ hop[CreateCall] # "unsent" => received >= 1
  /\ producer # "none" => feed.phase # "absent" /\ received >= 1
  /\ main \in {"first", "creating", "draining"} => producer = "none"
  /\ main \in {"opening", "joining", "streaming", "settling", "cancelling", "leaving"} =>
       producer # "none"
  /\ main = "first" => received = 0
  /\ main = "creating" => received = 1
  /\ main \in {"discarding", "deleting", "ended"} => producer = "done"

\* A text call on its way is the next sentence of the session.
PostsInOrder ==
  /\ \A n \in 2..MaxSentences :
       hop[TextCall(n)] \in {"sent", "forwarded"} => Len(feed.accepted) = n - 1
  /\ producer = "none" => Len(feed.accepted) <= 1
  /\ producer = "posting" => failure = "none" /\ received >= 2
  /\ producer \in {"reading", "finishing", "done"} /\ failure = "none" =>
       Len(feed.accepted) = received

\* What an answer says of the session, then and later.
AnswersHold ==
  /\ reply[CreateCall] = "ok" => feed.phase # "absent"
  /\ reply[CreateCall] = "error" => faults
  /\ \A n \in 2..MaxSentences : reply[TextCall(n)] = "ok" => Len(feed.accepted) >= n
  /\ reply[AudioCall] = "whole" => feed.phase = "completed"
  /\ reply[DeleteCall] = "ok" \/ (reply[DeleteCall] = "error" /\ ~faults) =>
       feed.phase # "absent" /\ ~Live
  /\ feed.phase = "completed" => feed.spoken = feed.accepted

\* Where the reply ends, and what must have come before.
EndsKnow ==
  /\ producer \in {"finishing", "done"} /\ failure = "none" => source = "ended"
  /\ producer \in {"finishing", "done"} /\ source = "open" =>
       main \in {"cancelling", "leaving", "deleting", "closed", "raised"}
  /\ main \in {"fallback", "spoken"} => source # "open"
  /\ main = "draining" => faults
  /\ main \in {"settling", "ended"} => feed.phase = "completed"
  /\ main \in {"fallback", "spoken", "closed"} /\ ~faults => feed.phase # "absent" /\ ~Live
  /\ main = "ended" => producer = "done"

TtsInv ==
  /\ TtsTypeOK /\ feed \in Feeds
  /\ SentInTurn /\ ProducerHasSession
  /\ AcceptedIsPrefix /\ PostsInOrder
  /\ AnswersHold /\ EndsKnow

LEMMA InvStarts == Init => TtsInv
<1> SUFFICES ASSUME Init PROVE TtsInv
  OBVIOUS
<1>1. Session!Absent = [phase |-> "absent", accepted |-> <<>>, spoken |-> <<>>]
  BY DEF Session!Absent
<1>2. \A p \in {"proxy", "control"} : Held(p) = {}
  BY DEF Init, BridgeInit, Held
<1>3. BridgeTypeOK
  <2>1. Slots \in [{"proxy", "control"} -> Nat]
    BY TtsAssumption DEF Slots
  <2>2. \A p \in {"proxy", "control"} : Cardinality(Held(p)) = 0
    BY <1>2, FS_EmptySet
  <2>3. \A p \in {"proxy", "control"} : free[p] + Cardinality(Held(p)) = Slots[p]
    BY <2>1, <2>2 DEF Init, BridgeInit
  <2> QED
    BY <2>1, <2>3 DEF Init, BridgeInit, BridgeTypeOK, Hops, Replies
<1>4. TtsTypeOK /\ feed \in Feeds
  <2>1. <<>> \in Seq(1..MaxSentences)
    OBVIOUS
  <2>2. feed = [phase |-> "absent", accepted |-> <<>>, spoken |-> <<>>]
    BY <1>1 DEF Init
  <2>3. feed \in Feeds
    BY <2>1, <2>2 DEF Feeds
  <2>4. MaxSentences \in Nat
    BY TtsAssumption
  <2>5. feed.phase = "absent" /\ feed.accepted = <<>> /\ feed.spoken = <<>>
    BY <2>2
  <2>6. /\ feed.phase \in {"absent", "open", "sealed", "completed", "broken"}
        /\ feed.accepted \in Seq(1..MaxSentences) /\ feed.spoken \in Seq(1..MaxSentences)
    BY <2>1, <2>5
  <2>7. source = "open" /\ producer = "none" /\ main = "first" /\ failure = "none" /\ faults = FALSE
    BY DEF Init
  <2>8. received \in 0..MaxSentences
    BY <2>4 DEF Init
  <2>9. main \in Places /\ failure \in Failures
    BY <2>7 DEF Places, Failures
  <2> QED
    BY <1>3, <2>3, <2>6, <2>7, <2>8, <2>9 DEF TtsTypeOK
<1>5. AcceptedIsPrefix
  BY <1>1 DEF Init, AcceptedIsPrefix
<1>6. \A c \in Calls : hop[c] = "unsent" /\ reply[c] = "none"
  BY DEF Init, BridgeInit
<1>7. /\ feed.phase = "absent" /\ Len(feed.accepted) = 0
      /\ source = "open" /\ received = 0 /\ main = "first" /\ producer = "none" /\ failure = "none"
  BY <1>1 DEF Init
<1>8. SentInTurn
  BY <1>6, <1>7, CallFacts DEF SentInTurn
<1>9. ProducerHasSession
  BY <1>6, <1>7, CallFacts DEF Init, ProducerHasSession
<1>10. PostsInOrder
  BY <1>6, <1>7, CallFacts DEF PostsInOrder
<1>11. AnswersHold
  BY <1>6, <1>7, CallFacts DEF AnswersHold
<1>12. EndsKnow
  BY <1>6, <1>7, CallFacts DEF EndsKnow
<1> QED
  BY <1>3, <1>4, <1>5, <1>8, <1>9, <1>10, <1>11, <1>12 DEF TtsInv
-----------------------------------------------------------------------------
(* Steps of the tasks: the session is left alone, and at most one call is  *)
(* sent.                                                                   *)

\* Where the reply goes on with nothing sent and nothing asked of the producer.
MovesOn ==
  \/ NoSession \/ NoAudio \/ Discarded \/ Fallback \/ StreamEnds \/ Settled
  \/ Deleted \/ Drop \/ Left \/ AudioOpens
Tasks == ProducerStep \/ MainStep \/ Drop \/ Abandon

\* Each call is sent in a place that is left for good with it.
LEMMA SendsUnsent ==
  ASSUME TtsInv
  PROVE  /\ ReadSentence => received \in 1..MaxSentences /\ received' = received + 1
         /\ ReadSentence => received' \in 2..MaxSentences /\ hop[TextCall(received')] = "unsent"
         /\ main = "first" => hop[CreateCall] = "unsent"
         /\ main = "creating" => hop[AudioCall] = "unsent"
         /\ producer \in {"reading", "posting"} => hop[FinishCall] = "unsent"
         /\ main \in {"joining", "cancelling"} => hop[DeleteCall] = "unsent"
<1>1. MaxSentences \in Nat
  BY TtsAssumption
<1>2. ReadSentence => received \in 1..MaxSentences /\ received' = received + 1 /\ received' \in 2..MaxSentences
  BY <1>1 DEF TtsInv, TtsTypeOK, ReadSentence, TakeSentence, ProducerHasSession
<1>3. ReadSentence => hop[TextCall(received')] = "unsent"
  BY <1>2 DEF TtsInv, SentInTurn
<1> QED
  BY <1>2, <1>3, CallFacts DEF TtsInv, SentInTurn, ProducerHasSession

LEMMA TasksFrame ==
  ASSUME TtsInv, Tasks
  PROVE  /\ UNCHANGED <<feed, reply>> /\ (faults => faults')
         /\ TtsTypeOK' /\ AcceptedIsPrefix' /\ AnswersHold'
<1> USE SendsUnsent, CallFacts DEF TtsInv
<1>1. UNCHANGED feed /\ (faults => faults') /\ faults' \in BOOLEAN
  BY DEF Tasks, ProducerStep, MainStep, TtsTypeOK,
     ReadSentence, SentencePosted, SourceOver, Finished, Produces, Succeeds, Fails,
     FirstSentence, Created, NoSession, Drain, NoAudio, Joined, Discarded, Fallback, StreamEnds, Settled,
     BreakOff, Cancelled, Deleted, Left, AudioOpens, Drop, Abandon
<1>2. UNCHANGED reply
  BY DEF Tasks, ProducerStep, MainStep, Send, bridge,
     ReadSentence, SentencePosted, SourceOver, Finished, CancelProducer,
     FirstSentence, Created, NoSession, Drain, NoAudio, Joined, Discarded, Fallback, StreamEnds, Settled,
     BreakOff, Cancelled, Deleted, Left, AudioOpens, Drop, Abandon
<1>3. \/ UNCHANGED bridge
      \/ \E c \in Calls : hop[c] = "unsent" /\ Send({c})
  BY DEF Tasks, ProducerStep, MainStep, Goto,
     ReadSentence, SentencePosted, SourceOver, Finished, CancelProducer,
     FirstSentence, Created, NoSession, Drain, NoAudio, Joined, Discarded, Fallback, StreamEnds, Settled,
     BreakOff, Cancelled, Deleted, Left, AudioOpens, Drop, Abandon
<1>4. BridgeTypeOK'
  BY <1>3, QuietBridge, SendKeeps DEF TtsTypeOK
<1>5. source' \in {"open", "ended", "failed"} /\ received' \in 0..MaxSentences /\ received <= received'
  BY TtsAssumption DEF Tasks, ProducerStep, MainStep, TtsTypeOK, TakeSentence, EndOfSource,
     ReadSentence, SentencePosted, SourceOver, Finished,
     FirstSentence, Created, NoSession, Drain, NoAudio, Joined, Discarded, Fallback, StreamEnds, Settled,
     BreakOff, Cancelled, Deleted, Left, AudioOpens, Drop, Abandon
<1>6. main' \in Places
  BY DEF Tasks, ProducerStep, MainStep, TtsTypeOK, Goto, Places, Over,
     ReadSentence, SentencePosted, SourceOver, Finished, Produces,
     FirstSentence, Created, NoSession, Drain, NoAudio, Joined, Discarded, Fallback, StreamEnds, Settled,
     BreakOff, Cancelled, Deleted, Left, AudioOpens, Drop, Abandon
<1>7. producer' \in {"none", "reading", "posting", "finishing", "done"} /\ failure' \in Failures
  BY DEF Tasks, ProducerStep, MainStep, TtsTypeOK, Produces, CancelProducer, Failures,
     ReadSentence, SentencePosted, SourceOver, Finished,
     FirstSentence, Created, NoSession, Drain, NoAudio, Joined, Discarded, Fallback, StreamEnds, Settled,
     BreakOff, Cancelled, Deleted, Left, AudioOpens, Drop, Abandon
<1>8. TtsTypeOK'
  BY <1>1, <1>4, <1>5, <1>6, <1>7 DEF TtsTypeOK
<1>9. AcceptedIsPrefix'
  BY <1>1, <1>5 DEF AcceptedIsPrefix, TtsTypeOK
<1>10. AnswersHold'
  BY <1>1, <1>2 DEF AnswersHold, Live
<1> QED
  BY <1>1, <1>2, <1>8, <1>9, <1>10

LEMMA SentInTurnKept ==
  ASSUME TtsInv, Tasks
  PROVE  SentInTurn'
<1> USE SendsUnsent, CallFacts DEF TtsInv
<1>0. received \in 0..MaxSentences /\ MaxSentences \in Nat
  BY TtsAssumption DEF TtsTypeOK
<1>1. ASSUME ReadSentence PROVE SentInTurn'
  <2>1. /\ received \in 1..MaxSentences /\ received' = received + 1 /\ received' \in 2..MaxSentences
        /\ producer = "reading" /\ producer' \in {"reading", "posting"} /\ UNCHANGED main
    BY <1>1 DEF ReadSentence, Produces
  <2>2. \/ UNCHANGED hop
        \/ \A c \in Calls : hop'[c] = IF c = TextCall(received') THEN "sent" ELSE hop[c]
    BY <1>1 DEF ReadSentence, Send, bridge
  <2>3. \A n \in 2..MaxSentences : hop'[TextCall(n)] # "unsent" => n <= received'
    BY <1>0, <2>1, <2>2 DEF SentInTurn
  <2> QED
    BY <2>1, <2>2, <2>3 DEF SentInTurn, ProducerHasSession
<1>2. ASSUME SentencePosted \/ Finished PROVE SentInTurn'
  BY <1>2 DEF SentencePosted, Finished, Produces, bridge, SentInTurn
<1>3. ASSUME SourceOver PROVE SentInTurn'
  BY <1>3 DEF SourceOver, Produces, EndOfSource, Send, SentInTurn, ProducerHasSession
<1>4. ASSUME FirstSentence PROVE SentInTurn'
  BY <1>0, <1>4 DEF FirstSentence, TakeSentence, EndOfSource, Goto, Send, bridge, SentInTurn, ProducerHasSession
<1>5. ASSUME Created PROVE SentInTurn'
  BY <1>5 DEF Created, Goto, Send, SentInTurn, ProducerHasSession
<1>6. ASSUME MovesOn PROVE SentInTurn'
  BY <1>6 DEF MovesOn, NoSession, NoAudio, Discarded, Fallback, StreamEnds, Settled, Deleted, Drop,
              Left, AudioOpens, Goto, bridge, SentInTurn
<1>7. ASSUME Drain PROVE SentInTurn'
  BY <1>0, <1>7 DEF Drain, TakeSentence, EndOfSource, Goto, bridge, SentInTurn
<1>8. ASSUME Joined \/ Cancelled PROVE SentInTurn'
  BY <1>8 DEF Joined, Cancelled, Goto, Send, bridge, SentInTurn, ProducerHasSession
<1>9. ASSUME BreakOff PROVE SentInTurn'
  BY <1>9 DEF BreakOff, CancelProducer, Goto, Send, bridge, SentInTurn, ProducerHasSession
<1>10. ASSUME Abandon PROVE SentInTurn'
  BY <1>10 DEF Abandon, CancelProducer, Goto, Send, bridge, SentInTurn, ProducerHasSession
<1> QED
  BY <1>1, <1>2, <1>3, <1>4, <1>5, <1>6, <1>7, <1>8, <1>9, <1>10
  DEF Tasks, ProducerStep, MainStep, MovesOn

LEMMA ProducerHasSessionKept ==
  ASSUME TtsInv, Tasks
  PROVE  ProducerHasSession'
<1> USE SendsUnsent, CallFacts, TasksFrame DEF TtsInv
<1>0. received \in 0..MaxSentences /\ MaxSentences \in Nat
  BY TtsAssumption DEF TtsTypeOK
<1>1. ASSUME ReadSentence PROVE ProducerHasSession'
  <2>1. /\ received \in 1..MaxSentences /\ received' = received + 1
        /\ producer = "reading" /\ producer' # "none" /\ UNCHANGED <<main, feed>>
        /\ UNCHANGED hop \/ \A c \in Calls : hop'[c] = IF c = TextCall(received') THEN "sent" ELSE hop[c]
    BY <1>1 DEF ReadSentence, Produces, Send, bridge
  <2>2. UNCHANGED producer \/ producer' = "posting"
    BY <1>1 DEF ReadSentence, Produces
  <2>3. hop'[CreateCall] = hop[CreateCall]
    BY <1>1, <2>1
  <2> QED
    BY <2>1, <2>2, <2>3 DEF ProducerHasSession
<1>2. ASSUME SentencePosted \/ Finished PROVE ProducerHasSession'
  BY <1>2 DEF SentencePosted, Finished, Produces, bridge, ProducerHasSession
<1>3. ASSUME SourceOver PROVE ProducerHasSession'
  BY <1>3 DEF SourceOver, Produces, EndOfSource, Send, ProducerHasSession
<1>4. ASSUME FirstSentence PROVE ProducerHasSession'
  <2>1. main = "first" /\ received = 0 /\ received' \in {0, 1} /\ UNCHANGED <<feed, producer>>
    BY <1>0, <1>4 DEF FirstSentence, TakeSentence, EndOfSource, Goto, ProducerHasSession
  <2>2. \/ main' = "creating" /\ received' = 1 /\ hop'[CreateCall] = "sent"
        \/ main' = "raised" /\ UNCHANGED hop
    BY <1>4, <2>1 DEF FirstSentence, TakeSentence, EndOfSource, Goto, Send, bridge
  <2> QED
    BY <2>1, <2>2 DEF SentInTurn, ProducerHasSession
<1>5. ASSUME Created PROVE ProducerHasSession'
  BY <1>5 DEF Created, Goto, Send, Succeeds, AnswersHold, ProducerHasSession
<1>6. ASSUME MovesOn PROVE ProducerHasSession'
  BY <1>6 DEF MovesOn, NoSession, NoAudio, Discarded, Fallback, StreamEnds, Settled, Deleted, Drop,
              Left, AudioOpens, Goto, bridge, ProducerHasSession
<1>7. ASSUME Drain PROVE ProducerHasSession'
  BY <1>0, <1>7 DEF Drain, TakeSentence, EndOfSource, Goto, bridge, ProducerHasSession
<1>8. ASSUME Joined \/ Cancelled PROVE ProducerHasSession'
  BY <1>8 DEF Joined, Cancelled, Goto, Send, bridge, ProducerHasSession
<1>9. ASSUME BreakOff PROVE ProducerHasSession'
  BY <1>9 DEF BreakOff, CancelProducer, Goto, Send, bridge, ProducerHasSession
<1>10. ASSUME Abandon PROVE ProducerHasSession'
  BY <1>10 DEF Abandon, CancelProducer, Goto, Send, bridge, ProducerHasSession
<1> QED
  BY <1>1, <1>2, <1>3, <1>4, <1>5, <1>6, <1>7, <1>8, <1>9, <1>10
  DEF Tasks, ProducerStep, MainStep, MovesOn

LEMMA PostsInOrderKept ==
  ASSUME TtsInv, Tasks
  PROVE  PostsInOrder'
<1> USE SendsUnsent, CallFacts, TasksFrame DEF TtsInv
<1>0. received \in 0..MaxSentences /\ MaxSentences \in Nat /\ Len(feed.accepted) \in 0..received
  BY TtsAssumption DEF TtsTypeOK, AcceptedIsPrefix
<1>1. ASSUME ReadSentence PROVE PostsInOrder'
  <2>1. /\ received \in 1..MaxSentences /\ received' = received + 1 /\ received' \in 2..MaxSentences
        /\ producer = "reading"
    BY <1>1 DEF ReadSentence, Produces
  <2>2. \/ /\ UNCHANGED hop /\ producer' = "reading" /\ failure' # "none"
        \/ /\ \A c \in Calls : hop'[c] = IF c = TextCall(received') THEN "sent" ELSE hop[c]
           /\ producer' = "posting" /\ failure = "none" /\ failure' = "none"
    BY <1>1 DEF ReadSentence, Produces, Send, bridge
  <2> QED
    BY <1>0, <2>1, <2>2 DEF PostsInOrder
<1>2. ASSUME SentencePosted PROVE PostsInOrder'
  <2>1. /\ UNCHANGED <<hop, received>> /\ producer = "posting" /\ producer' = "reading"
        /\ failure' = "none" => reply[TextCall(received)] = "ok"
    BY <1>2 DEF SentencePosted, Succeeds, Fails, bridge, Produces
  <2>2. received \in 2..MaxSentences
    BY <1>0, <2>1 DEF PostsInOrder
  <2>3. failure' = "none" => Len(feed.accepted) = received
    BY <1>0, <2>1, <2>2 DEF AnswersHold
  <2> QED
    BY <2>1, <2>3 DEF PostsInOrder
<1>3. ASSUME Finished PROVE PostsInOrder'
  BY <1>3 DEF Finished, Produces, bridge, PostsInOrder
<1>4. ASSUME SourceOver PROVE PostsInOrder'
  BY <1>4 DEF SourceOver, Produces, EndOfSource, Send, PostsInOrder
<1>5. ASSUME FirstSentence PROVE PostsInOrder'
  <2>1. producer = "none" /\ UNCHANGED producer /\ (\A n \in 2..MaxSentences : hop'[TextCall(n)] = hop[TextCall(n)])
    BY <1>5 DEF FirstSentence, Goto, Send, bridge, ProducerHasSession
  <2> QED
    BY <2>1 DEF PostsInOrder
<1>6. ASSUME Created PROVE PostsInOrder'
  <2>1. /\ main = "creating" /\ producer' = "reading" /\ UNCHANGED received /\ reply[CreateCall] = "ok"
        /\ \A n \in 2..MaxSentences : hop'[TextCall(n)] = hop[TextCall(n)]
    BY <1>6 DEF Created, Goto, Send, Succeeds
  <2>2. received = 1 /\ Len(feed.accepted) = 1
    <3>1. received = 1 /\ producer = "none" /\ feed.phase # "absent"
      BY <2>1 DEF AnswersHold, ProducerHasSession
    <3>2. Len(feed.accepted) <= 1 /\ Len(feed.accepted) >= 1
      BY <3>1 DEF PostsInOrder, ProducerHasSession
    <3> QED
      BY <1>0, <3>1, <3>2
  <2> QED
    BY <2>1, <2>2 DEF PostsInOrder
<1>7. ASSUME MovesOn PROVE PostsInOrder'
  BY <1>7 DEF MovesOn, NoSession, NoAudio, Discarded, Fallback, StreamEnds, Settled, Deleted, Drop,
              Left, AudioOpens, Goto, bridge, PostsInOrder
<1>8. ASSUME Drain PROVE PostsInOrder'
  BY <1>0, <1>8 DEF Drain, TakeSentence, EndOfSource, Goto, bridge, PostsInOrder, ProducerHasSession
<1>9. ASSUME Joined \/ Cancelled PROVE PostsInOrder'
  BY <1>9 DEF Joined, Cancelled, Goto, Send, bridge, PostsInOrder
<1>10. ASSUME BreakOff PROVE PostsInOrder'
  BY <1>10 DEF BreakOff, CancelProducer, Goto, Send, bridge, PostsInOrder
<1>11. ASSUME Abandon PROVE PostsInOrder'
  BY <1>11 DEF Abandon, CancelProducer, Goto, Send, bridge, PostsInOrder
<1> QED
  BY <1>1, <1>2, <1>3, <1>4, <1>5, <1>6, <1>7, <1>8, <1>9, <1>10, <1>11
  DEF Tasks, ProducerStep, MainStep, MovesOn

LEMMA EndsKnowKept ==
  ASSUME TtsInv, Tasks
  PROVE  EndsKnow'
<1> USE TasksFrame DEF TtsInv
<1>1. ASSUME ReadSentence PROVE EndsKnow'
  BY <1>1 DEF ReadSentence, TakeSentence, Produces, EndsKnow, Live
<1>2. ASSUME SentencePosted \/ Finished PROVE EndsKnow'
  BY <1>2 DEF SentencePosted, Finished, Fails, Produces, EndsKnow, Live
<1>3. ASSUME SourceOver PROVE EndsKnow'
  BY <1>3 DEF SourceOver, Produces, EndOfSource, EndsKnow, Live
<1>4. ASSUME FirstSentence PROVE EndsKnow'
  BY <1>4 DEF FirstSentence, TakeSentence, EndOfSource, Goto, ProducerHasSession, EndsKnow, Live
<1>5. ASSUME Created PROVE EndsKnow'
  BY <1>5 DEF Created, Goto, EndsKnow, Live
<1>6. ASSUME Drain PROVE EndsKnow'
  BY <1>6 DEF Drain, TakeSentence, EndOfSource, Goto, ProducerHasSession, EndsKnow, Live
<1>7. ASSUME NoSession \/ NoAudio PROVE EndsKnow'
  BY <1>7 DEF NoSession, NoAudio, Fails, Goto, AnswersHold, ProducerHasSession, EndsKnow, Live
<1>8. ASSUME Discarded \/ Deleted PROVE EndsKnow'
  BY <1>8 DEF Discarded, Deleted, Succeeds, Fails, Goto, AnswersHold, ProducerHasSession, EndsKnow, Live
<1>9. ASSUME Fallback \/ Drop \/ Left \/ AudioOpens PROVE EndsKnow'
  BY <1>9 DEF Fallback, Drop, Left, AudioOpens, Goto, EndsKnow, Live
<1>10. ASSUME StreamEnds \/ Settled PROVE EndsKnow'
  BY <1>10 DEF StreamEnds, Settled, Goto, AnswersHold, EndsKnow, Live
<1>11. ASSUME Joined \/ Cancelled PROVE EndsKnow'
  BY <1>11 DEF Joined, Cancelled, Goto, EndsKnow, Live
<1>12. ASSUME BreakOff PROVE EndsKnow'
  BY <1>12 DEF BreakOff, CancelProducer, Goto, EndsKnow, Live
<1>13. ASSUME Abandon PROVE EndsKnow'
  BY <1>13 DEF Abandon, CancelProducer, Goto, EndsKnow, Live
<1> QED
  BY <1>1, <1>2, <1>3, <1>4, <1>5, <1>6, <1>7, <1>8, <1>9, <1>10, <1>11, <1>12, <1>13
  DEF Tasks, ProducerStep, MainStep
-----------------------------------------------------------------------------
(* Steps of the runtime and of the bridge: the tasks are left alone.       *)

\* A call moves on, with the session as it was or as it became.
LEMMA Moved ==
  ASSUME TtsInv, NEW c \in Calls, NEW from, NEW to, NEW r, Advance(c, from, to, r)
  PROVE  /\ hop[c] = from /\ hop'[c] = to /\ reply'[c] = r
         /\ \A d \in Calls \ {c} : hop'[d] = hop[d] /\ reply'[d] = reply[d]
BY DEF TtsInv, TtsTypeOK, BridgeTypeOK, Advance

\* What becomes of the session, and of the call that does it.
Outside == Served \/ Speak \/ Break \/ Relay \/ Forwarded

Opened  == /\ feed = Session!Absent
           /\ feed' = [phase |-> "open", accepted |-> <<1>>, spoken |-> <<>>]
           /\ hop[CreateCall] = "forwarded" /\ hop'[CreateCall] = "answered"
Grown(n) == /\ feed.phase = "open" /\ feed' = [feed EXCEPT !.accepted = Append(@, n)]
            /\ hop[TextCall(n)] = "forwarded" /\ hop'[TextCall(n)] = "answered"
Shut == Live /\ \E p \in {"sealed", "broken"} : feed' = [feed EXCEPT !.phase = p]
Spoken == /\ Len(feed.spoken) < Len(feed.accepted)
          /\ feed' = [feed EXCEPT !.spoken = Append(@, feed.accepted[Len(feed.spoken) + 1])]
Completed == /\ feed.phase = "sealed" /\ feed.spoken = feed.accepted
             /\ feed' = [feed EXCEPT !.phase = "completed"]
FeedMoves == \/ UNCHANGED feed \/ Opened \/ Shut \/ Spoken \/ Completed
             \/ \E n \in 2..MaxSentences : Grown(n)

LEMMA CallFate ==
  ASSUME TtsInv, NEW c \in Calls, Applies(c), hop[c] = "forwarded", hop'[c] = "answered"
  PROVE  /\ c = CreateCall => Opened
         /\ \A n \in 2..MaxSentences : c = TextCall(n) => Grown(n)
         /\ c = DeleteCall => Live /\ feed' = [feed EXCEPT !.phase = "broken"]
         /\ Opened \/ Shut \/ \E n \in 2..MaxSentences : Grown(n)
<1> USE CallFacts
<1>1. CASE c = CreateCall /\ Session!Opens(feed, feed') /\ feed'.accepted = <<1>>
  <2>1. PICK x \in 1..MaxSentences :
          feed' = [phase |-> "open", accepted |-> <<x>>, spoken |-> <<>>] /\ feed = Session!Absent
    BY <1>1 DEF Session!Opens
  <2>2. feed' = [phase |-> "open", accepted |-> <<1>>, spoken |-> <<>>]
    BY <1>1, <2>1
  <2>3. Opened
    BY <1>1, <2>1, <2>2 DEF Opened
  <2> QED
    BY <1>1, <2>3
<1>2. ASSUME NEW n \in 2..MaxSentences, c = TextCall(n), feed.phase = "open",
             feed' = [feed EXCEPT !.accepted = Append(@, n)]
      PROVE  /\ c # CreateCall /\ c # DeleteCall
             /\ \A m \in 2..MaxSentences : c = TextCall(m) => Grown(m)
             /\ \E m \in 2..MaxSentences : Grown(m)
  <2>1. Grown(n)
    BY <1>2 DEF Grown
  <2> QED
    BY <1>2, <2>1
<1>3. CASE c = FinishCall /\ Live /\ feed' = [feed EXCEPT !.phase = "sealed"]
  BY <1>3 DEF Shut
<1>4. CASE c = DeleteCall /\ Live /\ feed' = [feed EXCEPT !.phase = "broken"]
  BY <1>4 DEF Shut
<1> QED
  BY <1>1, <1>2, <1>3, <1>4 DEF Applies

LEMMA OutsideMoves ==
  ASSUME TtsInv, Outside
  PROVE  /\ UNCHANGED taskVars /\ FeedMoves
         /\ BridgeTypeOK' /\ faults' \in BOOLEAN /\ (faults => faults')
         /\ \A c \in Calls : /\ hop'[c] = "unsent" <=> hop[c] = "unsent"
                             /\ hop'[c] \in {"unsent", "sent"} => hop'[c] = hop[c]
                             /\ hop'[c] = "forwarded" => hop[c] \in {"sent", "forwarded"}
<1> USE CallFacts
<1> DEFINE Steady == \A c \in Calls : /\ hop'[c] = "unsent" <=> hop[c] = "unsent"
                                      /\ hop'[c] \in {"unsent", "sent"} => hop'[c] = hop[c]
                                      /\ hop'[c] = "forwarded" => hop[c] \in {"sent", "forwarded"}
           Fine == BridgeTypeOK' /\ Steady
<1>0. BridgeTypeOK /\ faults \in BOOLEAN
  BY DEF TtsInv, TtsTypeOK
<1>1. ASSUME NEW c \in Calls, NEW r \in Replies, Answer(c, r) PROVE Fine
  <2>1. Advance(c, "forwarded", "answered", r) /\ UNCHANGED free
    BY <1>1 DEF Answer
  <2>2. Steady
    BY <2>1, Moved
  <2> QED
    BY <1>0, <2>1, <2>2, MoveKeeps DEF Hops, Holding
<1>2. ASSUME Begin(AudioCall) PROVE Fine
  <2>1. Advance(AudioCall, "forwarded", "flowing", "none") /\ UNCHANGED free
    BY <1>2 DEF Begin
  <2>2. Steady
    BY <2>1, Moved
  <2> QED
    BY <1>0, <2>1, <2>2, MoveKeeps DEF Hops, Holding, Replies
<1>3. ASSUME Terminate(AudioCall) \/ CutOff(AudioCall) PROVE Fine
  <2>1. PICK r \in {"whole", "cut"} : Advance(AudioCall, "flowing", "answered", r) /\ UNCHANGED free
    BY <1>3 DEF Terminate, CutOff
  <2>2. Steady
    BY <2>1, Moved
  <2> QED
    BY <1>0, <2>1, <2>2, MoveKeeps DEF Hops, Holding, Replies
<1>4. ASSUME NEW c \in Calls, Lose(c) \/ TurnAway(c) PROVE Fine
  <2>1. Advance(c, "sent", "done", "error") /\ UNCHANGED free
    BY <1>4 DEF Lose, TurnAway
  <2>2. Steady
    BY <2>1, Moved
  <2> QED
    BY <1>0, <2>1, <2>2, MoveKeeps DEF Hops, Holding, Replies
<1>5. ASSUME NEW c \in Calls, Enter(c) PROVE Fine
  <2>1. Advance(c, "sent", "forwarded", "none")
    BY <1>5 DEF Enter
  <2>2. Steady
    BY <2>1, Moved
  <2> QED
    BY <1>0, <1>5, <2>2, EnterKeeps
<1>6. ASSUME NEW c \in Calls, Release(c) PROVE Fine
  <2>1. Advance(c, "answered", "done", reply[c])
    BY <1>6 DEF Release
  <2>2. Steady
    BY <2>1, Moved
  <2> QED
    BY <1>0, <1>6, <2>2, ReleaseKeeps
<1>7. ASSUME UNCHANGED bridge PROVE Fine
  BY <1>0, <1>7, QuietBridge DEF bridge
<1> HIDE DEF Fine
<1>8. ASSUME NEW c \in Calls, Serve(c) PROVE UNCHANGED taskVars /\ FeedMoves /\ Fine /\ (UNCHANGED faults \/ faults' = TRUE)
  <2>1. PICK r \in {"ok", "error"} : Answer(c, r)
    BY <1>8 DEF Serve
  <2>2. hop[c] = "forwarded" /\ hop'[c] = "answered"
    BY <2>1, Moved DEF Answer
  <2>3. Fine
    BY <1>1, <2>1 DEF Replies
  <2>4. Applies(c) \/ UNCHANGED feed
    BY <1>8 DEF Serve
  <2>5. FeedMoves
    BY <2>2, <2>4, CallFate DEF FeedMoves
  <2> QED
    BY <1>8, <2>3, <2>5 DEF Serve
<1>9. ASSUME ServeAudio PROVE UNCHANGED taskVars /\ FeedMoves /\ Fine /\ (UNCHANGED faults \/ faults' = TRUE)
  BY <1>1, <1>2, <1>9 DEF ServeAudio, FeedMoves, Replies
<1>10. ASSUME Speak \/ Break PROVE UNCHANGED taskVars /\ FeedMoves /\ Fine /\ (UNCHANGED faults \/ faults' = TRUE)
  <2>1. UNCHANGED <<taskVars, bridge, faults>>
    BY <1>10 DEF Speak, Break
  <2>2. Session!Speaks(feed, feed') \/ Session!Completes(feed, feed') \/ Session!Breaks(feed, feed')
    BY <1>10 DEF Speak, Break
  <2>3. Spoken \/ Completed \/ Shut
    BY <2>2 DEF Session!Speaks, Session!Completes, Session!Breaks, Spoken, Completed, Shut, Live
  <2> QED
    BY <1>7, <2>1, <2>3 DEF FeedMoves
<1>11. ASSUME Relay PROVE UNCHANGED taskVars /\ FeedMoves /\ Fine /\ (UNCHANGED faults \/ faults' = TRUE)
  BY <1>3, <1>11 DEF Relay, FeedMoves
<1>12. ASSUME NEW c \in Calls, Forward(c) PROVE UNCHANGED taskVars /\ FeedMoves /\ Fine /\ (UNCHANGED faults \/ faults' = TRUE)
  BY <1>4, <1>5, <1>6, <1>12 DEF Forward, FeedMoves
<1>13. UNCHANGED taskVars /\ FeedMoves /\ Fine /\ (UNCHANGED faults \/ faults' = TRUE)
  BY <1>8, <1>9, <1>10, <1>11, <1>12 DEF Outside, Served, Forwarded
<1>14. faults' \in BOOLEAN /\ (faults => faults')
  <2>1. UNCHANGED faults => faults' \in BOOLEAN /\ (faults => faults')
    BY <1>0
  <2>2. faults' = TRUE => faults' \in BOOLEAN /\ (faults => faults')
    OBVIOUS
  <2> QED
    BY <1>13, <2>1, <2>2
<1>15. BridgeTypeOK' /\ Steady
  BY <1>13 DEF Fine
<1> HIDE DEF Steady
<1>16. UNCHANGED taskVars /\ FeedMoves
  BY <1>13
<1> QED
  BY <1>14, <1>15, <1>16 DEF Steady

\* A session grows at its end, and one that is over stays over.
LEMMA FeedType ==
  ASSUME TtsInv
  PROVE  /\ feed = [phase |-> feed.phase, accepted |-> feed.accepted, spoken |-> feed.spoken]
         /\ feed.phase \in {"absent", "open", "sealed", "completed", "broken"}
         /\ feed.accepted \in Seq(1..MaxSentences) /\ feed.spoken \in Seq(1..MaxSentences)
         /\ Len(feed.accepted) \in Nat /\ Len(feed.spoken) \in Nat
         /\ Session!Absent = [phase |-> "absent", accepted |-> <<>>, spoken |-> <<>>]
         /\ 1 \in 1..MaxSentences
BY TtsAssumption DEF TtsInv, Feeds, Session!Absent

Record(p, a, b) == [phase |-> p, accepted |-> a, spoken |-> b]

LEMMA RecordFacts ==
  ASSUME NEW p \in {"absent", "open", "sealed", "completed", "broken"},
         NEW a \in Seq(1..MaxSentences), NEW b \in Seq(1..MaxSentences)
  PROVE  /\ Record(p, a, b) \in Feeds
         /\ Record(p, a, b).phase = p /\ Record(p, a, b).accepted = a /\ Record(p, a, b).spoken = b
BY DEF Record, Feeds

LEMMA WhenOpened ==
  ASSUME TtsInv, Opened
  PROVE  /\ feed' \in Feeds /\ feed'.phase = "open" /\ feed'.accepted = <<1>>
         /\ Len(feed'.accepted) = 1 /\ feed.phase = "absent" /\ Len(feed.accepted) = 0
<1>1. feed' = Record("open", <<1>>, <<>>)
  BY DEF Opened, Record
<1>2. <<1>> \in Seq(1..MaxSentences) /\ <<>> \in Seq(1..MaxSentences)
  BY FeedType
<1> DEFINE one == <<1>>
           none == <<>>
<1> HIDE DEF one, none
<1>a. one \in Seq(1..MaxSentences) /\ none \in Seq(1..MaxSentences) /\ feed' = Record("open", one, none)
  BY <1>1, <1>2 DEF one, none
<1>b. feed' \in Feeds /\ feed'.phase = "open" /\ feed'.accepted = one
  BY <1>a, RecordFacts
<1>3. feed' \in Feeds /\ feed'.phase = "open" /\ feed'.accepted = <<1>>
  BY <1>b DEF one
<1>4. feed.phase = "absent" /\ feed.accepted = <<>>
  BY FeedType DEF Opened
<1> QED
  BY <1>3, <1>4

LEMMA WhenGrown ==
  ASSUME TtsInv, NEW n \in 2..MaxSentences, Grown(n)
  PROVE  /\ feed' \in Feeds /\ feed'.phase = "open" /\ feed.phase = "open"
         /\ Len(feed'.accepted) = Len(feed.accepted) + 1
         /\ \A i \in 1..Len(feed.accepted) : feed'.accepted[i] = feed.accepted[i]
         /\ feed'.accepted[Len(feed.accepted) + 1] = n
<1> DEFINE S == 1..MaxSentences
<1>1. n \in S /\ feed.accepted \in Seq(S) /\ feed.spoken \in Seq(S)
  BY FeedType, TtsAssumption
<1>2. feed' = Record("open", Append(feed.accepted, n), feed.spoken)
  BY FeedType DEF Grown, Record
<1> DEFINE grown == Append(feed.accepted, n)
<1>3. feed' = Record("open", grown, feed.spoken)
  BY <1>2
<1> HIDE DEF S
<1>4. grown \in Seq(S)
  BY <1>1
<1> HIDE DEF grown
<1>5. grown \in Seq(1..MaxSentences) /\ feed.spoken \in Seq(1..MaxSentences)
  BY <1>1, <1>4 DEF S
<1>6. feed' \in Feeds /\ feed'.phase = "open" /\ feed'.accepted = grown
  BY <1>3, <1>5, RecordFacts
<1>7. /\ Len(grown) = Len(feed.accepted) + 1 /\ grown[Len(feed.accepted) + 1] = n
      /\ \A i \in 1..Len(feed.accepted) : grown[i] = feed.accepted[i]
  BY <1>1 DEF grown
<1> QED
  BY <1>6, <1>7 DEF Grown

\* A session that neither opens nor grows.
LEMMA WhenSettled ==
  ASSUME TtsInv, FeedMoves, ~Opened, \A n \in 2..MaxSentences : ~Grown(n)
  PROVE  /\ feed' \in Feeds /\ feed'.accepted = feed.accepted
         /\ feed'.phase # "absent" <=> feed.phase # "absent"
         /\ feed'.phase = "absent" => UNCHANGED feed
         /\ ~Live => ~(Live')
         /\ feed.phase = "completed" => feed'.phase = "completed"
         /\ feed'.phase = "completed" => feed'.spoken = feed'.accepted
<1>1. /\ feed.phase = "completed" => feed.spoken = feed.accepted
      /\ feed.phase = "absent" => feed = Session!Absent
      /\ feed \in Feeds
  BY DEF TtsInv, AnswersHold, ProducerHasSession
<1>2. CASE UNCHANGED feed
  BY <1>1, <1>2 DEF Live
<1>3. ASSUME Shut PROVE \E p \in {"sealed", "broken"} : feed' = Record(p, feed.accepted, feed.spoken) /\ Live
  BY <1>3, FeedType DEF Shut, Record
<1>4. CASE Shut
  BY <1>3, <1>4, FeedType, RecordFacts DEF Live
<1>5. CASE Spoken
  <2> DEFINE more == Append(feed.spoken, feed.accepted[Len(feed.spoken) + 1])
  <2>1. feed' = Record(feed.phase, feed.accepted, more)
        /\ Len(feed.spoken) < Len(feed.accepted)
    BY <1>5, FeedType DEF Spoken, Record
  <2>2. more \in Seq(1..MaxSentences)
    <3> DEFINE S == 1..MaxSentences
    <3>1. feed.accepted \in Seq(S) /\ feed.spoken \in Seq(S)
      BY FeedType
    <3>2. Len(feed.spoken) + 1 \in 1..Len(feed.accepted)
      BY <2>1, FeedType
    <3> HIDE DEF S
    <3>3. feed.accepted[Len(feed.spoken) + 1] \in S
      BY <3>1, <3>2
    <3>4. more \in Seq(S)
      BY <3>1, <3>3
    <3> QED
      BY <3>4 DEF S
  <2>3. feed.phase # "absent" /\ feed.phase # "completed"
    BY <1>1, <2>1, FeedType
  <2> HIDE DEF more
  <2>4. feed' \in Feeds /\ feed'.phase = feed.phase /\ feed'.accepted = feed.accepted
    BY <2>1, <2>2, FeedType, RecordFacts
  <2> QED
    BY <2>3, <2>4 DEF Live
<1>6. CASE Completed
  <2>1. feed' = Record("completed", feed.accepted, feed.spoken)
    BY <1>6, FeedType DEF Completed, Record
  <2> QED
    BY <1>6, <2>1, FeedType, RecordFacts DEF Completed, Live
<1> QED
  BY <1>2, <1>4, <1>5, <1>6 DEF FeedMoves

LEMMA FeedGrows ==
  ASSUME TtsInv, FeedMoves
  PROVE  /\ feed' \in Feeds
         /\ Len(feed.accepted) <= Len(feed'.accepted)
         /\ feed'.phase = "absent" => UNCHANGED feed
         /\ feed.phase # "absent" => feed'.phase # "absent" /\ (~Live => ~(Live'))
         /\ feed.phase = "completed" => feed'.phase = "completed"
         /\ feed'.phase = "completed" => feed'.spoken = feed'.accepted
         /\ feed'.phase # "absent" => feed.phase # "absent" \/ Len(feed'.accepted) = 1
<1>1. CASE Opened
  BY <1>1, WhenOpened
<1>2. ASSUME NEW n \in 2..MaxSentences, Grown(n)
      PROVE  /\ feed' \in Feeds /\ Len(feed.accepted) <= Len(feed'.accepted)
             /\ feed'.phase = "open" /\ feed.phase = "open"
  BY <1>2, WhenGrown, FeedType
<1>3. CASE \E n \in 2..MaxSentences : Grown(n)
  BY <1>2, <1>3 DEF Live
<1>4. CASE ~Opened /\ \A n \in 2..MaxSentences : ~Grown(n)
  BY <1>4, WhenSettled, FeedType
<1> QED
  BY <1>1, <1>3, <1>4

LEMMA OutsideInOrder ==
  ASSUME TtsInv, Outside
  PROVE  SentInTurn' /\ ProducerHasSession' /\ AcceptedIsPrefix' /\ PostsInOrder'
<1> DEFINE Texts == 2..MaxSentences
<1>0. UNCHANGED <<source, received, main, producer, failure>> /\ FeedMoves
  BY OutsideMoves DEF taskVars
<1>1. \A c \in Calls : /\ hop'[c] = "unsent" <=> hop[c] = "unsent"
                       /\ hop'[c] \in {"unsent", "sent"} => hop'[c] = hop[c]
                       /\ hop'[c] = "forwarded" => hop[c] \in {"sent", "forwarded"}
  BY OutsideMoves
<1>2. SentInTurn'
  BY <1>0, <1>1, CallFacts DEF TtsInv, SentInTurn
<1>3. ProducerHasSession'
  <2>1. hop'[CreateCall] \in {"unsent", "sent", "forwarded"} => feed = Session!Absent /\ ~Opened
    BY <1>1, CallFacts DEF TtsInv, ProducerHasSession, Opened
  <2>2. feed = Session!Absent => feed.phase = "absent" /\ Len(feed.accepted) = 0
    BY FeedType
  <2>3. hop'[CreateCall] \in {"unsent", "sent", "forwarded"} => UNCHANGED feed
    BY <1>0, <2>1, <2>2, WhenSettled, WhenGrown
  <2>4. feed'.phase # "absent" => Len(feed'.accepted) >= 1
    <3>1. CASE Opened
      <4>1. Len(feed'.accepted) = 1
        BY <3>1, WhenOpened
      <4> QED
        BY <4>1
    <3>2. CASE ~Opened /\ feed.phase # "absent"
      BY <1>0, <3>2, FeedGrows, FeedType DEF TtsInv, ProducerHasSession, Feeds
    <3>3. CASE ~Opened /\ feed.phase = "absent"
      BY <1>0, <3>3, WhenSettled, WhenGrown
    <3> QED
      BY <3>1, <3>2, <3>3
  <2>5. /\ feed'.phase = "absent" => UNCHANGED feed
        /\ feed.phase # "absent" => feed'.phase # "absent"
    BY <1>0, FeedGrows
  <2>6. hop'[CreateCall] # "unsent" => hop[CreateCall] # "unsent"
    BY <1>1, CallFacts
  <2> QED
    BY <1>0, <2>1, <2>3, <2>4, <2>5, <2>6 DEF TtsInv, ProducerHasSession
<1>4. AcceptedIsPrefix' /\ PostsInOrder'
  <2>0. received \in Nat /\ MaxSentences \in Nat /\ Len(feed.accepted) \in Nat /\ Len(feed.accepted) <= received
        /\ \A i \in 1..Len(feed.accepted) : feed.accepted[i] = i
    BY FeedType, TtsAssumption DEF TtsInv, TtsTypeOK, AcceptedIsPrefix
  <2>1. CASE Opened
    <3>1. received >= 1 /\ producer = "none" /\ feed'.accepted = <<1>> /\ Len(feed'.accepted) = 1
      BY <2>1, WhenOpened DEF TtsInv, ProducerHasSession, Opened
    <3>2. \A n \in Texts : hop'[TextCall(n)] = "unsent"
      BY <1>1, <3>1, CallFacts DEF TtsInv, SentInTurn
    <3>3. AcceptedIsPrefix'
      BY <1>0, <3>1 DEF AcceptedIsPrefix
    <3> QED
      BY <1>0, <3>1, <3>2, <3>3 DEF PostsInOrder
  <2>2. ASSUME NEW n \in Texts, Grown(n) PROVE AcceptedIsPrefix' /\ PostsInOrder'
    <3>1. /\ hop[TextCall(n)] = "forwarded" /\ hop'[TextCall(n)] = "answered" /\ n <= received
          /\ producer # "none" /\ Len(feed.accepted) = n - 1
      BY <2>2, CallFacts DEF TtsInv, SentInTurn, PostsInOrder, Grown
    <3>2. /\ Len(feed'.accepted) = n /\ feed'.accepted[n] = n
          /\ \A i \in 1..(n - 1) : feed'.accepted[i] = i
      <4>1. /\ Len(feed'.accepted) = (n - 1) + 1
            /\ \A i \in 1..(n - 1) : feed'.accepted[i] = feed.accepted[i]
            /\ feed'.accepted[(n - 1) + 1] = n
        BY <2>2, <3>1, WhenGrown
      <4>2. (n - 1) + 1 = n
        BY <2>0
      <4>3. \A i \in 1..(n - 1) : feed.accepted[i] = i
        BY <2>0, <3>1
      <4> QED
        BY <4>1, <4>2, <4>3
    <3>3. AcceptedIsPrefix'
      <4>1. \A i \in 1..n : i = n \/ i \in 1..(n - 1)
        BY <2>0
      <4> QED
        BY <1>0, <3>1, <3>2, <4>1 DEF AcceptedIsPrefix
    <3>4. \A m \in Texts : hop'[TextCall(m)] \notin {"sent", "forwarded"}
      <4>1. ASSUME NEW m \in Texts, hop'[TextCall(m)] \in {"sent", "forwarded"} PROVE m = n
        <5>1. hop[TextCall(m)] \in {"sent", "forwarded"}
          BY <1>1, <4>1, CallFacts
        <5> QED
          BY <3>1, <5>1 DEF TtsInv, PostsInOrder
      <4> QED
        BY <3>1, <4>1
    <3>5. ~(producer \in {"reading", "finishing", "done"} /\ failure = "none")
      BY <2>0, <3>1 DEF TtsInv, PostsInOrder
    <3> QED
      BY <1>0, <3>1, <3>3, <3>4, <3>5 DEF TtsInv, PostsInOrder
  <2>3. CASE ~Opened /\ \A n \in Texts : ~Grown(n)
    <3>1. feed'.accepted = feed.accepted
      BY <1>0, <2>3, WhenSettled
    <3>2. \A n \in Texts : hop'[TextCall(n)] \in {"sent", "forwarded"} => hop[TextCall(n)] \in {"sent", "forwarded"}
      BY <1>1, CallFacts
    <3> QED
      BY <1>0, <3>1, <3>2 DEF TtsInv, AcceptedIsPrefix, PostsInOrder
  <2> QED
    BY <2>1, <2>2, <2>3
<1> QED
  BY <1>2, <1>3, <1>4

LEMMA OutsideAnswers ==
  ASSUME TtsInv, Outside
  PROVE  AnswersHold'
<1> USE CallFacts
<1>0. FeedMoves /\ (faults => faults')
  BY OutsideMoves
<1>1. /\ feed.phase # "absent" => feed'.phase # "absent" /\ (~Live => ~(Live'))
      /\ feed.phase = "completed" => feed'.phase = "completed"
      /\ feed'.phase = "completed" => feed'.spoken = feed'.accepted
      /\ Len(feed.accepted) <= Len(feed'.accepted) /\ Len(feed.accepted) \in Nat /\ Len(feed'.accepted) \in Nat
      /\ MaxSentences \in Nat
  BY <1>0, FeedGrows, FeedType, TtsAssumption DEF Feeds
\* An answer that was there holds on, so it is enough to look at new ones.
<1> DEFINE Stays(c) == reply'[c] \in {reply[c], "none"}
<1>2. ASSUME Stays(CreateCall) PROVE /\ reply'[CreateCall] = "ok" => feed'.phase # "absent"
                                     /\ reply'[CreateCall] = "error" => faults'
  BY <1>0, <1>1, <1>2 DEF TtsInv, AnswersHold
<1>3. ASSUME NEW n \in 2..MaxSentences, Stays(TextCall(n))
      PROVE  reply'[TextCall(n)] = "ok" => Len(feed'.accepted) >= n
  BY <1>0, <1>1, <1>3 DEF TtsInv, AnswersHold
<1>4. ASSUME Stays(AudioCall) PROVE reply'[AudioCall] = "whole" => feed'.phase = "completed"
  BY <1>1, <1>4 DEF TtsInv, AnswersHold
<1>5. ASSUME Stays(DeleteCall)
      PROVE  reply'[DeleteCall] = "ok" \/ (reply'[DeleteCall] = "error" /\ ~(faults')) =>
               feed'.phase # "absent" /\ ~(Live')
  BY <1>0, <1>1, <1>5 DEF TtsInv, AnswersHold
<1>6. ASSUME NEW c \in Calls, NEW from, NEW to, NEW r, Advance(c, from, to, r)
      PROVE  reply'[c] = r /\ \A d \in Calls \ {c} : Stays(d)
  BY <1>6, Moved
<1>7. ASSUME NEW c \in Calls, Serve(c) PROVE AnswersHold'
  <2>1. PICK r \in {"ok", "error"} : Advance(c, "forwarded", "answered", r)
    BY <1>7 DEF Serve, Answer
  <2>2. reply'[c] = r /\ hop[c] = "forwarded" /\ hop'[c] = "answered" /\ \A d \in Calls \ {c} : Stays(d)
    BY <1>6, <2>1, Moved
  <2>3. r = "ok" => Applies(c)
    BY <1>7, <2>1, <2>2, Moved DEF Serve, Answer
  <2>4. r = "error" => faults' \/ (Refuses(c) /\ UNCHANGED feed)
    BY <1>7, <2>1, <2>2, Moved DEF Serve, Answer
  <2>5. c = CreateCall => /\ reply'[CreateCall] = "ok" => feed'.phase # "absent"
                          /\ reply'[CreateCall] = "error" => faults'
    <3>1. c = CreateCall /\ r = "ok" => feed'.phase # "absent"
      BY <2>2, <2>3, CallFate, WhenOpened
    <3>2. c = CreateCall /\ r = "error" => faults'
      BY <2>4 DEF Refuses, TextCalls
    <3> QED
      BY <2>2, <3>1, <3>2
  <2>6. ASSUME NEW n \in 2..MaxSentences, c = TextCall(n)
        PROVE  reply'[c] = "ok" => Len(feed'.accepted) >= n
    <3>1. Len(feed.accepted) = n - 1
      BY <2>2, <2>6 DEF TtsInv, PostsInOrder
    <3>2. r = "ok" => Len(feed'.accepted) = Len(feed.accepted) + 1
      BY <2>2, <2>3, <2>6, CallFate, WhenGrown
    <3> QED
      BY <1>1, <2>2, <3>1, <3>2
  <2>7. c = DeleteCall => (reply'[DeleteCall] = "ok" \/ (reply'[DeleteCall] = "error" /\ ~(faults')) =>
                             feed'.phase # "absent" /\ ~(Live'))
    <3>1. c = DeleteCall => feed.phase # "absent"
      BY <2>2 DEF TtsInv, SentInTurn, ProducerHasSession
    <3>2. c = DeleteCall /\ r = "ok" => feed'.phase = "broken"
      BY <2>2, <2>3, CallFate, FeedType
    <3>3. c = DeleteCall /\ r = "error" => faults' \/ (~Live /\ UNCHANGED feed)
      BY <2>4 DEF Refuses, TextCalls
    <3> QED
      BY <1>1, <2>2, <3>1, <3>2, <3>3 DEF Live
  <2>8. c # AudioCall
    BY <1>7 DEF Serve
  <2> HIDE DEF Stays
  <2>9. /\ reply'[CreateCall] = "ok" => feed'.phase # "absent"
        /\ reply'[CreateCall] = "error" => faults'
    BY <1>2, <2>2, <2>5
  <2>10. ASSUME NEW n \in 2..MaxSentences PROVE reply'[TextCall(n)] = "ok" => Len(feed'.accepted) >= n
    BY <1>3, <2>2, <2>6
  <2>11. reply'[AudioCall] = "whole" => feed'.phase = "completed"
    BY <1>4, <2>2, <2>8
  <2>12. reply'[DeleteCall] = "ok" \/ (reply'[DeleteCall] = "error" /\ ~(faults')) =>
           feed'.phase # "absent" /\ ~(Live')
    BY <1>5, <2>2, <2>7
  <2> QED
    BY <1>1, <2>9, <2>10, <2>11, <2>12 DEF AnswersHold
\* Elsewhere an answer is none, an error that was not due, or the audio's.
<1>8. ASSUME \A c \in Calls : \/ Stays(c) \/ (c # AudioCall /\ reply'[c] = "error" /\ faults')
                              \/ (c = AudioCall /\ (reply'[c] = "whole" => feed'.phase = "completed"))
      PROVE  AnswersHold'
  <2>1. /\ reply'[CreateCall] = "ok" => feed'.phase # "absent"
        /\ reply'[CreateCall] = "error" => faults'
    BY <1>2, <1>8
  <2>2. ASSUME NEW n \in 2..MaxSentences PROVE reply'[TextCall(n)] = "ok" => Len(feed'.accepted) >= n
    BY <1>3, <1>8
  <2>3. reply'[AudioCall] = "whole" => feed'.phase = "completed"
    BY <1>4, <1>8
  <2>4. reply'[DeleteCall] = "ok" \/ (reply'[DeleteCall] = "error" /\ ~(faults')) =>
           feed'.phase # "absent" /\ ~(Live')
    BY <1>5, <1>8
  <2> QED
    BY <1>1, <2>1, <2>2, <2>3, <2>4 DEF AnswersHold
<1> DEFINE Harmless(c) == \/ Stays(c) \/ (c # AudioCall /\ reply'[c] = "error" /\ faults')
                          \/ (c = AudioCall /\ (reply'[c] = "whole" => feed'.phase = "completed"))
<1>9. ASSUME ServeAudio PROVE \A c \in Calls : Harmless(c)
  BY <1>6, <1>9 DEF ServeAudio, Begin, Answer
<1>10. ASSUME Speak \/ Break PROVE \A c \in Calls : Harmless(c)
  BY <1>10 DEF Speak, Break, bridge
<1>11. ASSUME Relay PROVE \A c \in Calls : Harmless(c)
  BY <1>6, <1>11 DEF Relay, Terminate, CutOff
<1>12. ASSUME NEW c \in Calls, Forward(c) PROVE \A d \in Calls : Harmless(d)
  BY <1>6, <1>12 DEF Forward, Enter, TurnAway, Lose, Release
<1> QED
  BY <1>7, <1>8, <1>9, <1>10, <1>11, <1>12 DEF Outside, Served, Forwarded

LEMMA OutsideEnds ==
  ASSUME TtsInv, Outside
  PROVE  EndsKnow'
<1>1. UNCHANGED <<source, main, producer, failure>> /\ FeedMoves /\ (faults => faults')
  BY OutsideMoves DEF taskVars
<1>2. /\ feed.phase # "absent" => feed'.phase # "absent" /\ (~Live => ~(Live'))
      /\ feed.phase = "completed" => feed'.phase = "completed"
  BY <1>1, FeedGrows
<1> QED
  BY <1>1, <1>2 DEF TtsInv, EndsKnow
-----------------------------------------------------------------------------

LEMMA InvKeeps == TtsInv /\ [Next]_vars => TtsInv'
<1> SUFFICES ASSUME TtsInv, [Next]_vars PROVE TtsInv'
  OBVIOUS
<1>1. CASE Tasks
  <2>1. feed' \in Feeds
    BY <1>1, TasksFrame DEF TtsInv
  <2> QED
    BY <1>1, <2>1, TasksFrame, SentInTurnKept, ProducerHasSessionKept, PostsInOrderKept, EndsKnowKept
    DEF TtsInv
<1>2. CASE Outside
  <2>1. feed' \in Feeds
    BY <1>2, OutsideMoves, FeedGrows
  <2>2. TtsTypeOK'
    <3>1. /\ feed'.phase \in {"absent", "open", "sealed", "completed", "broken"}
          /\ feed'.accepted \in Seq(1..MaxSentences) /\ feed'.spoken \in Seq(1..MaxSentences)
      BY <2>1 DEF Feeds
    <3> QED
      BY <1>2, <3>1, OutsideMoves DEF TtsInv, TtsTypeOK, taskVars
  <2> QED
    BY <1>2, <2>1, <2>2, OutsideInOrder, OutsideAnswers, OutsideEnds DEF TtsInv
<1>3. CASE UNCHANGED vars
  <2>1. UNCHANGED <<source, received, main, producer, failure, feed, hop, reply, free, faults>>
    BY <1>3 DEF vars, taskVars, bridge
  <2>2. BridgeTypeOK'
    BY <2>1, QuietBridge DEF TtsInv, TtsTypeOK, bridge
  <2>3. TtsTypeOK' /\ feed' \in Feeds
    BY <2>1, <2>2 DEF TtsInv, TtsTypeOK
  <2>4. SentInTurn' /\ ProducerHasSession' /\ AcceptedIsPrefix' /\ PostsInOrder'
    BY <2>1 DEF TtsInv, SentInTurn, ProducerHasSession, AcceptedIsPrefix, PostsInOrder
  <2>5. AnswersHold' /\ EndsKnow'
    BY <2>1 DEF TtsInv, AnswersHold, EndsKnow, Live
  <2> QED
    BY <2>3, <2>4, <2>5 DEF TtsInv
<1> QED
  BY <1>1, <1>2, <1>3 DEF Next, Tasks, Outside

\* In every reachable state of a reply (_async_stream_continuous_sentences and
\* the bridge under it) the invariant holds that the others are read from.
THEOREM TtsInvariant == Spec => []TtsInv
<1>1. Init => TtsInv
  BY InvStarts
<1>2. TtsInv /\ [Next]_vars => TtsInv'
  BY InvKeeps
<1> QED
  BY <1>1, <1>2, PTL DEF Spec
-----------------------------------------------------------------------------
(* What it is good for.                                                    *)

\* Every variable has its type, and no slot of the bridge is lost or returned
\* twice, for any number of slots and calls.
THEOREM TtsTypeCorrect == Spec => []TtsTypeOK
<1>1. TtsInv => TtsTypeOK
  BY DEF TtsInv
<1> QED
  BY <1>1, TtsInvariant, PTL

\* The runtime holds the beginning of the reply, in order and without a gap.
THEOREM AcceptedStaysPrefix == Spec => []AcceptedIsPrefix
<1>1. TtsInv => AcceptedIsPrefix
  BY DEF TtsInv
<1> QED
  BY <1>1, TtsInvariant, PTL

\* The fallback engine gets what the source gave, to its end.
THEOREM FallbackGetsWhole == Spec => []FallbackIsWhole
<1>1. TtsInv => FallbackIsWhole
  BY DEF TtsInv, EndsKnow, FallbackIsWhole
<1> QED
  BY <1>1, TtsInvariant, PTL

\* Audio that ends by itself without a failure was the whole reply.
THEOREM EndingIsWhole == Spec => []EndIsWhole
<1>1. TtsInv => EndIsWhole
  BY DEF TtsInv, EndsKnow, ProducerHasSession, PostsInOrder, AnswersHold, EndIsWhole
<1> QED
  BY <1>1, TtsInvariant, PTL

\* A reply that is over leaves no session behind unless a call was lost.
THEOREM NoneOrphaned == Spec => []NoOrphan
<1>1. TtsInv => NoOrphan
  BY DEF TtsInv, EndsKnow, NoOrphan, Live
<1> QED
  BY <1>1, TtsInvariant, PTL
-----------------------------------------------------------------------------
(* What the client relies on in the runtime is no more than SentenceFeed.  *)

LEMMA FeedStep == TtsInv /\ [Next]_vars => [Session!Next]_[s \in {1} |-> feed]
<1> SUFFICES ASSUME TtsInv, [Next]_vars PROVE UNCHANGED feed \/ Session!Moves(feed, feed')
  BY DEF Session!Next
<1> USE DEF Session!Moves
<1>1. CASE Tasks \/ UNCHANGED vars
  BY <1>1, TasksFrame DEF vars
<1>2. CASE Outside
  <2>1. FeedMoves
    BY <1>2, OutsideMoves
  <2>2. CASE Opened
    <3>1. 1 \in 1..MaxSentences
      BY FeedType
    <3> QED
      BY <2>2, <3>1 DEF Opened, Session!Opens
  <2>3. ASSUME NEW n \in 2..MaxSentences, Grown(n) PROVE Session!Accepts(feed, feed')
    <3>1. n \in 1..MaxSentences
      BY TtsAssumption
    <3> QED
      BY <2>3, <3>1 DEF Grown, Session!Accepts
  <2>4. CASE Shut
    <3>1. PICK p \in {"sealed", "broken"} : feed' = [feed EXCEPT !.phase = p]
      BY <2>4 DEF Shut
    <3>2. feed.phase = "sealed" /\ p = "sealed" => feed' = feed
      BY <3>1, FeedType
    <3> QED
      BY <2>4, <3>1, <3>2 DEF Shut, Live, Session!Seals, Session!Breaks
  <2>5. Spoken => Session!Speaks(feed, feed')
    BY DEF Spoken, Session!Speaks
  <2>6. Completed => Session!Completes(feed, feed')
    BY DEF Completed, Session!Completes
  <2> QED
    BY <2>1, <2>2, <2>3, <2>4, <2>5, <2>6 DEF FeedMoves
<1> QED
  BY <1>1, <1>2 DEF Next, Tasks, Outside

\* Whatever becomes of the calls, the session only does what SentenceFeed says
\* a session does, which is what the runtime is proved to implement.
THEOREM TtsFollowsFeed == Spec => Session!Spec
<1>1. Init => Session!Init
  BY DEF Init, Session!Init
<1>2. TtsInv /\ [Next]_vars => [Session!Next]_[s \in {1} |-> feed]
  BY FeedStep
<1> QED
  BY <1>1, <1>2, TtsInvariant, PTL DEF Spec, Session!Spec
=============================================================================
