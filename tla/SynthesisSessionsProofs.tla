---------------------- MODULE SynthesisSessionsProofs ----------------------
(***************************************************************************)
(* Theorems about the session store, for every set of ids and sentences    *)
(* and every limit.                                                        *)
(***************************************************************************)
EXTENDS SynthesisSessions, SumFacts, SequenceTheorems

Limits == /\ Bytes \in [Sentences -> Nat \ {0}]
          /\ MaxSessions \in Nat /\ MaxQueueSentences \in Nat \ {0} /\ MaxTextBytes \in Nat
          /\ IdleTimeout \in Nat \ {0} /\ TotalTimeout \in Nat \ {0}

LEMMA LimitsHold == Limits
BY LimitsAssumption DEF Limits

-----------------------------------------------------------------------------
(* Sequences as the store uses them: appended to, and taken from the head. *)

LEMMA ConcatRegroup ==
  \A a, b, c \in Seq(Sentences) : (a \o b) \o c = a \o (b \o c)
BY ConcatAssociative

\* Appending at the queue's end appends to what was accepted.
LEMMA ConcatAppend ==
  \A a, q \in Seq(Sentences) : \A x \in Sentences : Append(a \o q, x) = a \o Append(q, x)
<1> SUFFICES ASSUME NEW a \in Seq(Sentences), NEW q \in Seq(Sentences), NEW x \in Sentences
             PROVE  Append(a \o q, x) = a \o Append(q, x)
  OBVIOUS
<1>1. Append(q, x) = q \o <<x>> /\ Append(a \o q, x) = (a \o q) \o <<x>>
  BY AppendIsConcat, ConcatProperties
<1>2. <<x>> \in Seq(Sentences)
  OBVIOUS
<1> QED
  BY <1>1, <1>2, ConcatAssociative

\* Taking the head of the queue leaves hand and queue together what they were.
LEMMA ConcatHeadTail ==
  ASSUME NEW S, NEW q \in Seq(S), q # <<>>
  PROVE  /\ <<Head(q)>> \in Seq(S) /\ Tail(q) \in Seq(S)
         /\ Len(Tail(q)) = Len(q) - 1
         /\ <<Head(q)>> \o Tail(q) = q
<1>1. /\ Head(q) \in S /\ Tail(q) \in Seq(S) /\ Len(Tail(q)) = Len(q) - 1
      /\ Len(q) \in Nat /\ Len(q) >= 1
  BY HeadTailProperties, EmptySeq, LenProperties
<1>2. SubSeq(q, 1, Len(q)) = <<q[1]>> \o SubSeq(q, 2, Len(q))
  BY <1>1, SubSeqRecursiveFirst
<1>3. SubSeq(q, 1, Len(q)) = q /\ Tail(q) = SubSeq(q, 2, Len(q))
  BY SubSeqFull, TailIsSubSeq
<1>4. Head(q) = q[1]
  OBVIOUS
<1> QED
  BY <1>1, <1>2, <1>3, <1>4
-----------------------------------------------------------------------------
(* The inductive invariant.                                                *)

\* A session that was not created yet has been touched by no one, and only a
\* claimed one has an iterator.
Fresh == \A s \in Sessions :
  /\ where[s] = "new" =>
       /\ queue[s] = <<>> /\ accepted[s] = <<>>
       /\ hand[s] = <<>> /\ spoken[s] = <<>>
       /\ ~claimed[s] /\ ~finished[s]
  /\ ~claimed[s] => iter[s] = "idle"

\* The iterator has a sentence in its hand from the get to the resumption.
Hands == \A s \in Sessions :
  /\ iter[s] \in {"got", "out"} => Len(hand[s]) = 1
  /\ iter[s] \in {"idle", "check", "wait", "end"} => hand[s] = <<>>

IInv == TypeOK /\ Fresh /\ Hands /\ InOrder

\* Expiry and cleanup keep the registry's type, and create no session.
LEMMA ExpireKeepsRegistry ==
  ASSUME TypeOK, ExpireLocked
  PROVE  RegistryOK' /\ \A s \in Sessions : where'[s] = "new" => where[s] = "new"
<1>1. IsFiniteSet(Lapsed)
  BY LimitsAssumption, FS_Subset DEF Lapsed, Live
<1>2. Cardinality(Lapsed) \in Nat
  BY <1>1, FS_CardinalityType
<1>3. stats' \in [Counters -> Nat]
  BY <1>2 DEF TypeOK, RegistryOK, ExpireLocked, ReapedStats, Counters, Outcomes
<1>4. where' \in [Sessions -> {"new", "live"} \cup Outcomes]
  BY DEF TypeOK, RegistryOK, ExpireLocked, Reaped, Outcomes
<1>5. \A s \in Sessions : where'[s] = "new" => where[s] = "new"
  BY DEF TypeOK, RegistryOK, ExpireLocked, Reaped, Outcomes
<1> QED
  BY <1>3, <1>4, <1>5 DEF RegistryOK

LEMMA CleanupKeepsRegistry ==
  ASSUME TypeOK, NEW s \in Live, NEW outcome \in Outcomes, CleanupLocked(s, outcome)
  PROVE  RegistryOK' /\ \A t \in Sessions : where'[t] = "new" => where[t] = "new"
BY DEF TypeOK, RegistryOK, CleanupLocked, Live, Outcomes, Counters

LEMMA TouchKeepsClocks ==
  ASSUME TypeOK, NEW s \in Sessions, Touched(s)
  PROVE  ClocksOK'
BY LimitsHold DEF Touched, TypeOK, ClocksOK, Limits

LEMMA InitInv == StoreInit => IInv
<1> SUFFICES ASSUME StoreInit PROVE IInv
  OBVIOUS
<1> USE LimitsHold DEF StoreInit, Every
<1>1. TypeOK
  BY EmptySeq DEF TypeOK, RegistryOK, TextOK, ClocksOK, ReaderOK, FlagsOK, IterStates, Limits
<1>2. Fresh /\ Hands
  BY DEF Fresh, Hands
<1>3. InOrder
  BY EmptySeq, ConcatEmptySeq DEF InOrder
<1> QED
  BY <1>1, <1>2, <1>3 DEF IInv

\* The calls of the HTTP handlers keep the invariant.
LEMMA HandlerInv ==
  ASSUME IInv, NEW s \in Sessions, HandlerStep(s)
  PROVE  IInv'
<1> USE LimitsHold DEF IInv
<1>1. ASSUME NEW x \in Sentences, Create(s, x) PROVE IInv'
  <2>1. /\ stats' = [ReapedStats EXCEPT !["created"] = @ + 1]
        /\ where' = [Reaped EXCEPT ![s] = "live"]
        /\ where[s] = "new"
    BY <1>1 DEF Create
  <2>2. RegistryOK' /\ \A t \in Sessions : where'[t] = "new" => where[t] = "new"
    <3>1. Cardinality(Lapsed) \in Nat
      BY LimitsAssumption, FS_Subset, FS_CardinalityType DEF Lapsed, Live
    <3> QED
      BY <2>1, <3>1 DEF TypeOK, RegistryOK, Reaped, ReapedStats, Counters, Outcomes
  <2>3. TextOK'
    BY <1>1 DEF Create, TypeOK, TextOK, Limits
  <2>4. TypeOK'
    BY <1>1, <2>2, <2>3 DEF Create, TypeOK, ClocksOK, ReaderOK, FlagsOK, clocks, flags, reader
  <2>5. Fresh' /\ Hands'
    BY <1>1, <2>2 DEF Create, Fresh, Hands, TypeOK, RegistryOK, TextOK, Reaped, flags, reader
  <2>6. InOrder'
    <3>1. /\ accepted' = [accepted EXCEPT ![s] = <<x>>] /\ queue' = [queue EXCEPT ![s] = <<x>>]
          /\ hand' = hand /\ spoken' = spoken /\ hand[s] = <<>> /\ spoken[s] = <<>>
      BY <1>1, <2>1 DEF Create, Fresh, reader
    <3>2. <<>> \o <<>> \o <<x>> = <<x>>
      BY EmptySeq, ConcatEmptySeq
    <3> QED
      BY <3>1, <3>2 DEF InOrder, TypeOK, TextOK
  <2> QED
    BY <2>4, <2>5, <2>6
<1>2. ASSUME NEW x \in Sentences, Enqueue(s, x) PROVE IInv'
  <2>1. RegistryOK' /\ \A t \in Sessions : where'[t] = "new" => where[t] = "new"
    BY <1>2, ExpireKeepsRegistry DEF Enqueue, Put
  <2>2. TextOK'
    BY <1>2, AppendProperties DEF Enqueue, Put, TypeOK, TextOK, Limits
  <2>3. TypeOK'
    BY <1>2, <2>1, <2>2, TouchKeepsClocks DEF Enqueue, Put, TypeOK, ReaderOK, FlagsOK, flags, reader
  <2>4. where[s] # "new"
    BY <1>2 DEF Enqueue, Active, Live
  <2>5. Fresh' /\ Hands'
    BY <1>2, <2>1, <2>4 DEF Enqueue, Put, Fresh, Hands, TypeOK, TextOK, flags, reader
  <2>6. InOrder'
    <3>1. /\ accepted' = [accepted EXCEPT ![s] = Append(@, x)] /\ queue' = [queue EXCEPT ![s] = Append(@, x)]
          /\ hand' = hand /\ spoken' = spoken
      BY <1>2 DEF Enqueue, Put, reader
    <3>2. spoken[s] \o hand[s] \in Seq(Sentences) /\ queue[s] \in Seq(Sentences)
      BY ConcatProperties DEF TypeOK, TextOK, ReaderOK
    <3>3. Append((spoken[s] \o hand[s]) \o queue[s], x) = (spoken[s] \o hand[s]) \o Append(queue[s], x)
      BY <3>2, ConcatAppend
    <3> QED
      BY <3>1, <3>3 DEF InOrder, TypeOK, TextOK
  <2> QED
    BY <2>3, <2>5, <2>6
<1>3. CASE Finish(s)
  <2>1. RegistryOK' /\ \A t \in Sessions : where'[t] = "new" => where[t] = "new"
    BY <1>3, ExpireKeepsRegistry DEF Finish
  <2>2. TypeOK'
    BY <1>3, <2>1, TouchKeepsClocks DEF Finish, TypeOK, TextOK, ReaderOK, FlagsOK, text, reader
  <2>3. Fresh' /\ Hands' /\ InOrder'
    BY <1>3, <2>1 DEF Finish, Fresh, Hands, InOrder, Active, Live, TypeOK, FlagsOK, text, reader
  <2> QED
    BY <2>2, <2>3
<1>4. CASE ClaimStream(s)
  <2>1. RegistryOK' /\ \A t \in Sessions : where'[t] = "new" => where[t] = "new"
    BY <1>4, ExpireKeepsRegistry DEF ClaimStream
  <2>2. TypeOK'
    BY <1>4, <2>1, TouchKeepsClocks DEF ClaimStream, TypeOK, TextOK, ReaderOK, FlagsOK, text, reader
  <2>3. Fresh' /\ Hands' /\ InOrder'
    BY <1>4, <2>1 DEF ClaimStream, Fresh, Hands, InOrder, Active, Live, TypeOK, FlagsOK, text, reader
  <2> QED
    BY <2>2, <2>3
<1>5. CASE Cancel(s)
  <2>1. RegistryOK' /\ \A t \in Sessions : where'[t] = "new" => where[t] = "new"
    BY <1>5, CleanupKeepsRegistry DEF Cancel, Outcomes
  <2>2. TypeOK'
    BY <1>5, <2>1 DEF Cancel, TypeOK, TextOK, ClocksOK, ReaderOK, FlagsOK, text, reader, flags, clocks
  <2>3. Fresh' /\ Hands' /\ InOrder'
    BY <1>5, <2>1 DEF Cancel, Fresh, Hands, InOrder, text, reader, flags
  <2> QED
    BY <2>2, <2>3
<1> QED
  BY <1>1, <1>2, <1>3, <1>4, <1>5 DEF HandlerStep

\* The calls of the audio stream keep the invariant.
LEMMA StreamInv ==
  ASSUME IInv, NEW s \in Sessions, StreamStep(s)
  PROVE  IInv'
<1> USE LimitsHold DEF IInv
<1>1. CASE Touch(s)
  <2>1. RegistryOK' /\ \A t \in Sessions : where'[t] = "new" => where[t] = "new"
    BY <1>1, ExpireKeepsRegistry DEF Touch
  <2>2. TypeOK'
    BY <1>1, <2>1, TouchKeepsClocks DEF Touch, TypeOK, TextOK, ReaderOK, FlagsOK, text, reader, flags
  <2>3. Fresh' /\ Hands' /\ InOrder'
    BY <1>1, <2>1 DEF Touch, Fresh, Hands, InOrder, text, reader, flags
  <2> QED
    BY <2>2, <2>3
<1>2. ASSUME NEW outcome \in Outcomes, Cleanup(s, outcome) PROVE IInv'
  <2>1. RegistryOK' /\ \A t \in Sessions : where'[t] = "new" => where[t] = "new"
    <3>1. CASE s \in Live
      BY <1>2, <3>1, CleanupKeepsRegistry DEF Cleanup
    <3>2. CASE s \notin Live
      BY <1>2, <3>2 DEF Cleanup, registry, TypeOK, RegistryOK
    <3> QED
      BY <3>1, <3>2
  <2>2. TypeOK'
    BY <1>2, <2>1 DEF Cleanup, TypeOK, TextOK, ClocksOK, ReaderOK, FlagsOK, text, reader, flags, clocks
  <2>3. Fresh' /\ Hands' /\ InOrder'
    BY <1>2, <2>1 DEF Cleanup, Fresh, Hands, InOrder, text, reader, flags
  <2> QED
    BY <2>2, <2>3
<1>3. CASE IterStart(s)
  <2>1. TypeOK'
    BY <1>3 DEF IterStart, TypeOK, RegistryOK, TextOK, ClocksOK, ReaderOK, FlagsOK, registry, text, flags, clocks, IterStates
  <2>2. Fresh' /\ Hands' /\ InOrder'
    BY <1>3 DEF IterStart, Fresh, Hands, InOrder, TypeOK, ReaderOK, registry, text, flags
  <2> QED
    BY <2>1, <2>2
<1>4. CASE IterCheck(s)
  <2>1. RegistryOK' /\ \A t \in Sessions : where'[t] = "new" => where[t] = "new"
    BY <1>4, ExpireKeepsRegistry DEF IterCheck
  <2>2. TypeOK'
    BY <1>4, <2>1 DEF IterCheck, TypeOK, TextOK, ClocksOK, ReaderOK, FlagsOK, text, flags, clocks, IterStates
  <2>3. Fresh' /\ Hands' /\ InOrder'
    BY <1>4, <2>1 DEF IterCheck, Fresh, Hands, InOrder, TypeOK, ReaderOK, text, flags
  <2> QED
    BY <2>2, <2>3
<1>5. CASE IterGet(s)
  <2>1. /\ <<Head(queue[s])>> \in Seq(Sentences) /\ Tail(queue[s]) \in Seq(Sentences)
        /\ Len(Tail(queue[s])) = Len(queue[s]) - 1
        /\ <<Head(queue[s])>> \o Tail(queue[s]) = queue[s]
        /\ Len(queue[s]) \in Nat
    BY <1>5, ConcatHeadTail, LenProperties DEF IterGet, TypeOK, TextOK
  <2>2. TextOK'
    BY <1>5, <2>1 DEF IterGet, TypeOK, TextOK, Limits
  <2>3. ReaderOK'
    BY <1>5, <2>1 DEF IterGet, TypeOK, ReaderOK, IterStates
  <2>4. TypeOK'
    BY <1>5, <2>2, <2>3 DEF IterGet, TypeOK, RegistryOK, ClocksOK, FlagsOK, registry, flags, clocks
  <2>5. Fresh' /\ Hands'
    BY <1>5 DEF IterGet, Fresh, Hands, TypeOK, TextOK, ReaderOK, registry, flags
  <2>6. InOrder'
    <3>1. /\ hand[s] = <<>>
          /\ hand' = [hand EXCEPT ![s] = <<Head(queue[s])>>] /\ queue' = [queue EXCEPT ![s] = Tail(@)]
          /\ accepted' = accepted /\ spoken' = spoken
      BY <1>5 DEF IterGet, Hands
    <3>2. spoken[s] \in Seq(Sentences) /\ spoken[s] \o <<>> = spoken[s]
      BY ConcatEmptySeq DEF TypeOK, ReaderOK
    <3>3. (spoken[s] \o <<Head(queue[s])>>) \o Tail(queue[s])
           = spoken[s] \o (<<Head(queue[s])>> \o Tail(queue[s]))
      BY <2>1, <3>2, ConcatRegroup
    <3> QED
      BY <2>1, <3>1, <3>2, <3>3 DEF InOrder, TypeOK, TextOK, ReaderOK
  <2> QED
    BY <2>4, <2>5, <2>6
<1>6. CASE IterTimeout(s)
  <2>1. RegistryOK' /\ \A t \in Sessions : where'[t] = "new" => where[t] = "new"
    BY <1>6, ExpireKeepsRegistry DEF IterTimeout
  <2>2. TypeOK'
    BY <1>6, <2>1 DEF IterTimeout, TypeOK, TextOK, ClocksOK, ReaderOK, FlagsOK, text, flags, clocks, IterStates
  <2>3. Fresh' /\ Hands' /\ InOrder'
    BY <1>6, <2>1 DEF IterTimeout, Fresh, Hands, InOrder, TypeOK, ReaderOK, text, flags
  <2> QED
    BY <2>2, <2>3
<1>7. CASE IterTake(s)
  <2>1. RegistryOK' /\ \A t \in Sessions : where'[t] = "new" => where[t] = "new"
    BY <1>7, ExpireKeepsRegistry DEF IterTake
  <2>2. queuedBytes' \in [Sessions -> Int]
    <3>1. Len(hand[s]) = 1 /\ hand[s] \in Seq(Sentences)
      BY <1>7 DEF IterTake, Hands, TypeOK, ReaderOK
    <3>2. Bytes[Head(hand[s])] \in Int
      BY <3>1, HeadTailProperties, EmptySeq DEF Limits
    <3> QED
      BY <1>7, <3>2 DEF IterTake, TypeOK, TextOK
  <2>3. TypeOK'
    BY <1>7, <2>1, <2>2, TouchKeepsClocks DEF IterTake, TypeOK, TextOK, ReaderOK, FlagsOK, flags, IterStates
  <2>4. Fresh' /\ Hands' /\ InOrder'
    BY <1>7, <2>1 DEF IterTake, Fresh, Hands, InOrder, TypeOK, ReaderOK, flags
  <2> QED
    BY <2>3, <2>4
<1>8. CASE IterResume(s)
  <2>1. RegistryOK' /\ \A t \in Sessions : where'[t] = "new" => where[t] = "new"
    BY <1>8, ExpireKeepsRegistry DEF IterResume
  <2>2. /\ spoken[s] \in Seq(Sentences) /\ hand[s] \in Seq(Sentences)
        /\ spoken[s] \o hand[s] \in Seq(Sentences)
        /\ (spoken[s] \o hand[s]) \o <<>> = spoken[s] \o hand[s]
    BY ConcatProperties, ConcatEmptySeq DEF TypeOK, ReaderOK
  <2>3. ReaderOK'
    BY <1>8, <2>2, EmptySeq DEF IterResume, TypeOK, ReaderOK, IterStates
  <2>4. TypeOK'
    BY <1>8, <2>1, <2>3, TouchKeepsClocks DEF IterResume, TypeOK, TextOK, FlagsOK, text, flags
  <2>5. Fresh' /\ Hands'
    BY <1>8, <2>1 DEF IterResume, Fresh, Hands, TypeOK, ReaderOK, text, flags, Active, Live
  <2>6. InOrder'
    BY <1>8, <2>2 DEF IterResume, InOrder, TypeOK, ReaderOK, text
  <2> QED
    BY <2>4, <2>5, <2>6
<1>9. CASE IterRaise(s)
  <2>1. RegistryOK' /\ \A t \in Sessions : where'[t] = "new" => where[t] = "new"
    BY <1>9, ExpireKeepsRegistry DEF IterRaise
  <2>2. TypeOK'
    BY <1>9, <2>1 DEF IterRaise, TypeOK, TextOK, ClocksOK, ReaderOK, FlagsOK, text, flags, clocks, IterStates
  <2>3. Fresh' /\ Hands' /\ InOrder'
    BY <1>9, <2>1 DEF IterRaise, Fresh, Hands, InOrder, TypeOK, ReaderOK, text, flags
  <2> QED
    BY <2>2, <2>3
<1>10. CASE IterDrop(s)
  <2>1. RegistryOK' /\ \A t \in Sessions : where'[t] = "new" => where[t] = "new"
    BY <1>10, ExpireKeepsRegistry DEF IterDrop, registry, TypeOK, RegistryOK
  <2>2. TypeOK'
    BY <1>10, <2>1 DEF IterDrop, TypeOK, TextOK, ClocksOK, ReaderOK, FlagsOK, text, flags, clocks, IterStates
  <2>3. Fresh' /\ Hands' /\ InOrder'
    BY <1>10, <2>1 DEF IterDrop, Fresh, Hands, InOrder, TypeOK, ReaderOK, text, flags
  <2> QED
    BY <2>2, <2>3
<1> QED
  BY <1>1, <1>2, <1>3, <1>4, <1>5, <1>6, <1>7, <1>8, <1>9, <1>10 DEF StreamStep

\* So do expiry, shutdown, time, and a step that is not the store's.
LEMMA OtherInv ==
  ASSUME IInv, Snapshot \/ StopStore \/ Tick \/ UNCHANGED storeVars
  PROVE  IInv'
<1> USE LimitsHold DEF IInv
<1>1. CASE Snapshot
  <2>1. RegistryOK' /\ \A t \in Sessions : where'[t] = "new" => where[t] = "new"
    BY <1>1, ExpireKeepsRegistry DEF Snapshot
  <2>2. TypeOK'
    BY <1>1, <2>1 DEF Snapshot, TypeOK, TextOK, ClocksOK, ReaderOK, FlagsOK, text, reader, flags, clocks
  <2>3. Fresh' /\ Hands' /\ InOrder'
    BY <1>1, <2>1 DEF Snapshot, Fresh, Hands, InOrder, text, reader, flags
  <2> QED
    BY <2>2, <2>3
<1>2. CASE StopStore
  <2>1. Cardinality(Live) \in Nat
    BY LimitsAssumption, FS_Subset, FS_CardinalityType DEF Live
  <2>2. RegistryOK' /\ \A t \in Sessions : where'[t] = "new" => where[t] = "new"
    BY <1>2, <2>1 DEF StopStore, TypeOK, RegistryOK, Counters, Outcomes
  <2>3. TypeOK'
    BY <1>2, <2>2 DEF StopStore, TypeOK, TextOK, ClocksOK, ReaderOK, FlagsOK, text, reader, flags, clocks
  <2>4. Fresh' /\ Hands' /\ InOrder'
    BY <1>2, <2>2 DEF StopStore, Fresh, Hands, InOrder, text, reader, flags
  <2> QED
    BY <2>3, <2>4
<1>3. CASE Tick
  <2>1. ClocksOK'
    BY <1>3 DEF Tick, TypeOK, ClocksOK, Limits
  <2>2. TypeOK'
    BY <1>3, <2>1 DEF Tick, TypeOK, RegistryOK, TextOK, ReaderOK, FlagsOK, registry, text, reader, flags
  <2>3. Fresh' /\ Hands' /\ InOrder'
    BY <1>3 DEF Tick, Fresh, Hands, InOrder, registry, text, reader, flags
  <2> QED
    BY <2>2, <2>3
<1>4. CASE UNCHANGED storeVars
  <2>1. TypeOK'
    BY <1>4 DEF storeVars, TypeOK, RegistryOK, TextOK, ClocksOK, ReaderOK, FlagsOK, registry, text, reader, flags, clocks
  <2>2. Fresh' /\ Hands' /\ InOrder'
    BY <1>4 DEF storeVars, Fresh, Hands, InOrder, registry, text, reader, flags
  <2> QED
    BY <2>1, <2>2
<1> QED
  BY <1>1, <1>2, <1>3, <1>4

LEMMA StepInv == IInv /\ [StoreNext]_storeVars => IInv'
BY HandlerInv, StreamInv, OtherInv DEF StoreNext, Janitor

\* Every variable keeps its type, and the queue and the retained text their
\* bounds.
THEOREM StoreTyped == StoreSpec => []TypeOK
<1>1. IInv => TypeOK
  BY DEF IInv
<1> QED
  BY <1>1, InitInv, StepInv, PTL DEF StoreSpec

\* Sentences come out in order, none lost and none twice, through every race
\* between enqueue, the unlocked get, and the session's removal.
THEOREM StoreInOrder == StoreSpec => []InOrder
<1>1. IInv => InOrder
  BY DEF IInv
<1> QED
  BY <1>1, InitInv, StepInv, PTL DEF StoreSpec
-----------------------------------------------------------------------------
(* Counting.                                                               *)

Places == {"new", "live"} \cup Outcomes
At(w, place) == {s \in Sessions : w[s] = place}

\* StatsBalance, of any registry.
Balanced(w, st) ==
  /\ st["created"] = Cardinality({s \in Sessions : w[s] # "new"})
  /\ \A o \in Outcomes : st[o] = Cardinality(At(w, o))

LEMMA FiniteParts ==
  \A T \in SUBSET Sessions : IsFiniteSet(T) /\ Cardinality(T) \in Nat
BY LimitsAssumption, FS_Subset, FS_CardinalityType

\* Disjoint sets of sessions add up.
LEMMA DisjointUnion ==
  ASSUME NEW S \in SUBSET Sessions, NEW T \in SUBSET Sessions, S \cap T = {}
  PROVE  Cardinality(S \cup T) = Cardinality(S) + Cardinality(T)
<1>1. /\ IsFiniteSet(S) /\ IsFiniteSet(T)
      /\ Cardinality(S) \in Nat /\ Cardinality(T) \in Nat
  BY FiniteParts
<1>2. Cardinality(S \cup T) = Cardinality(S) + Cardinality(T) - Cardinality(S \cap T)
  BY <1>1, FS_Union
<1>3. Cardinality(S \cap T) = 0
  BY FS_EmptySet
<1> QED
  BY <1>1, <1>2, <1>3

\* Taking live sessions out of the store, all under one outcome.
LEMMA DepartureBalances ==
  ASSUME NEW w \in [Sessions -> Places], NEW st \in [Counters -> Nat], Balanced(w, st),
         NEW M \in SUBSET At(w, "live"), NEW out \in Outcomes
  PROVE  Balanced([s \in Sessions |-> IF s \in M THEN out ELSE w[s]],
                  [st EXCEPT ![out] = @ + Cardinality(M)])
<1> DEFINE v == [s \in Sessions |-> IF s \in M THEN out ELSE w[s]]
           sv == [st EXCEPT ![out] = @ + Cardinality(M)]
<1>1. sv["created"] = st["created"]
  BY DEF Outcomes, Counters
<1>2. {s \in Sessions : v[s] # "new"} = {s \in Sessions : w[s] # "new"}
  BY DEF At, Outcomes
<1>3. ASSUME NEW o \in Outcomes PROVE sv[o] = Cardinality(At(v, o))
  <2>1. CASE o # out
    <3>1. At(v, o) = At(w, o)
      BY <2>1 DEF At, Outcomes
    <3> QED
      BY <1>3, <2>1, <3>1 DEF Balanced, Counters
  <2>2. CASE o = out
    <3>1. At(v, o) = At(w, o) \cup M /\ At(w, o) \cap M = {}
      BY <2>2 DEF At, Outcomes
    <3>2. Cardinality(At(v, o)) = Cardinality(At(w, o)) + Cardinality(M)
      BY <3>1, DisjointUnion DEF At
    <3> QED
      BY <1>3, <2>2, <3>2 DEF Balanced, Counters
  <2> QED
    BY <2>1, <2>2
<1> QED
  BY <1>1, <1>2, <1>3 DEF Balanced

\* Admitting a new one.
LEMMA AdmissionBalances ==
  ASSUME NEW w \in [Sessions -> Places], NEW st \in [Counters -> Nat], Balanced(w, st),
         NEW s \in Sessions, w[s] = "new"
  PROVE  Balanced([w EXCEPT ![s] = "live"], [st EXCEPT !["created"] = @ + 1])
<1> DEFINE v == [w EXCEPT ![s] = "live"]
           sv == [st EXCEPT !["created"] = @ + 1]
           Old == {t \in Sessions : w[t] # "new"}
<1>1. {t \in Sessions : v[t] # "new"} = Old \cup {s} /\ s \notin Old
  OBVIOUS
<1>2. Cardinality(Old \cup {s}) = Cardinality(Old) + 1
  BY <1>1, FiniteParts, FS_AddElement
<1>3. sv["created"] = Cardinality({t \in Sessions : v[t] # "new"})
  BY <1>1, <1>2 DEF Balanced, Counters
<1>4. \A o \in Outcomes : sv[o] = st[o] /\ At(v, o) = At(w, o)
  BY DEF At, Outcomes, Counters
<1> QED
  BY <1>3, <1>4 DEF Balanced

\* What a step does to the registry: a set of sessions departs under one
\* outcome, or expiry runs and one is admitted below capacity.
Departs(M, out) ==
  /\ where' = [s \in Sessions |-> IF s \in M THEN out ELSE where[s]]
  /\ stats' = [stats EXCEPT ![out] = @ + Cardinality(M)]

Admits(s) ==
  /\ where[s] = "new" /\ Cardinality(Active) < MaxSessions
  /\ where' = [Reaped EXCEPT ![s] = "live"]
  /\ stats' = [ReapedStats EXCEPT !["created"] = @ + 1]

RegistryStep ==
  \/ UNCHANGED registry
  \/ \E M \in SUBSET Live, out \in Outcomes : Departs(M, out)
  \/ \E s \in Sessions : Admits(s)

LEMMA StepOfRegistry ==
  ASSUME TypeOK, [StoreNext]_storeVars
  PROVE  RegistryStep
<1>1. ExpireLocked => RegistryStep
  <2>1. ExpireLocked => Departs(Lapsed, "timed_out")
    BY DEF ExpireLocked, Reaped, ReapedStats, Departs
  <2>2. Lapsed \in SUBSET Live /\ "timed_out" \in Outcomes
    BY DEF Lapsed, Outcomes
  <2> QED
    BY <2>1, <2>2 DEF RegistryStep
<1>2. ASSUME NEW s \in Live, NEW out \in Outcomes, CleanupLocked(s, out) PROVE RegistryStep
  <2>1. Cardinality({s}) = 1 /\ {s} \in SUBSET Live /\ s \in Sessions
    BY FS_Singleton DEF Live
  <2>2. [where EXCEPT ![s] = out] = [t \in Sessions |-> IF t \in {s} THEN out ELSE where[t]]
    BY DEF TypeOK, RegistryOK
  <2>3. Departs({s}, out)
    BY <1>2, <2>1, <2>2 DEF CleanupLocked, Departs
  <2> QED
    BY <2>1, <2>3 DEF RegistryStep
<1>3. ASSUME NEW s \in Sessions, HandlerStep(s) PROVE RegistryStep
  <2>1. ASSUME NEW x \in Sentences, Create(s, x) PROVE RegistryStep
    BY <2>1 DEF Create, Admits, RegistryStep
  <2>2. CASE (\E x \in Sentences : Enqueue(s, x)) \/ Finish(s) \/ ClaimStream(s)
    BY <1>1, <2>2 DEF Enqueue, Put, Finish, ClaimStream
  <2>3. CASE Cancel(s)
    BY <1>2, <2>3 DEF Cancel, Outcomes
  <2> QED
    BY <1>3, <2>1, <2>2, <2>3 DEF HandlerStep
<1>4. ASSUME NEW s \in Sessions, StreamStep(s) PROVE RegistryStep
  <2>1. ASSUME NEW out \in Outcomes, Cleanup(s, out) PROVE RegistryStep
    BY <1>2, <2>1 DEF Cleanup, RegistryStep
  <2>2. CASE Touch(s) \/ IterCheck(s) \/ IterTimeout(s) \/ IterTake(s) \/ IterResume(s) \/ IterRaise(s)
    BY <1>1, <2>2 DEF Touch, IterCheck, IterTimeout, IterTake, IterResume, IterRaise
  <2>3. CASE IterStart(s) \/ IterGet(s)
    BY <2>3 DEF IterStart, IterGet, RegistryStep
  <2>4. CASE IterDrop(s)
    BY <1>1, <2>4 DEF IterDrop, RegistryStep
  <2> QED
    BY <1>4, <2>1, <2>2, <2>3, <2>4 DEF StreamStep
<1>5. CASE Snapshot
  BY <1>1, <1>5 DEF Snapshot
<1>6. CASE StopStore
  <2>1. Departs(Live, "cancelled")
    BY <1>6 DEF StopStore, Departs
  <2> QED
    BY <2>1 DEF RegistryStep, Outcomes
<1>7. CASE Tick \/ UNCHANGED storeVars
  BY <1>7 DEF Tick, storeVars, RegistryStep
<1> QED
  BY <1>3, <1>4, <1>5, <1>6, <1>7 DEF StoreNext, Janitor

\* Counters and registry agree after every step.
LEMMA BalanceStep ==
  ASSUME TypeOK, StatsBalance, RegistryStep
  PROVE  StatsBalance'
<1> USE DEF RegistryOK, TypeOK
<1>1. /\ where \in [Sessions -> Places] /\ stats \in [Counters -> Nat]
      /\ Balanced(where, stats) /\ Live = At(where, "live")
  BY DEF StatsBalance, Balanced, At, Live, Places
<1>2. Balanced(where', stats') => StatsBalance'
  BY DEF StatsBalance, Balanced, At
<1>3. CASE UNCHANGED registry
  BY <1>3 DEF registry, StatsBalance
<1>4. ASSUME NEW M \in SUBSET Live, NEW out \in Outcomes, Departs(M, out) PROVE StatsBalance'
  BY <1>1, <1>2, <1>4, DepartureBalances DEF Departs
<1>5. ASSUME NEW s \in Sessions, Admits(s) PROVE StatsBalance'
  <2>1. Lapsed \in SUBSET At(where, "live") /\ "timed_out" \in Outcomes
    BY <1>1 DEF Lapsed, Outcomes
  <2>2. Balanced(Reaped, ReapedStats)
    BY <1>1, <2>1, DepartureBalances DEF Reaped, ReapedStats
  <2>3. /\ Reaped \in [Sessions -> Places] /\ ReapedStats \in [Counters -> Nat]
        /\ Reaped[s] = "new"
    <3>1. Cardinality(Lapsed) \in Nat
      BY FiniteParts DEF Lapsed, Live
    <3> QED
      BY <1>5, <3>1 DEF Admits, Reaped, ReapedStats, Places, Counters, Outcomes, Lapsed, Live
  <2> QED
    BY <1>2, <1>5, <2>2, <2>3, AdmissionBalances DEF Admits
<1> QED
  BY <1>3, <1>4, <1>5 DEF RegistryStep

\* The store is never above capacity.
LEMMA CapacityStep ==
  ASSUME TypeOK, Capacity, RegistryStep
  PROVE  Capacity'
<1> USE LimitsHold DEF RegistryOK, TypeOK, Limits
<1>1. ASSUME NEW T, T = Live', T \subseteq Live PROVE Capacity'
  <2>1. IsFiniteSet(Live) /\ Cardinality(Live) \in Nat /\ Live \in SUBSET Sessions
    BY FiniteParts DEF Live
  <2>2. Cardinality(T) <= Cardinality(Live) /\ Cardinality(T) \in Nat
    BY <1>1, <2>1, FiniteParts, FS_Subset
  <2> QED
    BY <1>1, <2>1, <2>2 DEF Capacity
<1>2. CASE UNCHANGED registry
  BY <1>2 DEF registry, Capacity, Live
<1>3. ASSUME NEW M \in SUBSET Live, NEW out \in Outcomes, Departs(M, out) PROVE Capacity'
  BY <1>1, <1>3 DEF Departs, Live, Outcomes
<1>4. ASSUME NEW s \in Sessions, Admits(s) PROVE Capacity'
  <2>1. Live' = Active \cup {s} /\ s \notin Active
    BY <1>4 DEF Admits, Reaped, Active, Lapsed, Live
  <2>2. Cardinality(Active \cup {s}) = Cardinality(Active) + 1 /\ Cardinality(Active) \in Nat
    BY <2>1, FiniteParts, FS_AddElement DEF Active, Live
  <2> QED
    BY <1>4, <2>1, <2>2 DEF Capacity, Admits
<1> QED
  BY <1>2, <1>3, <1>4 DEF RegistryStep

\* Every session is in the store or was counted once under one outcome.
THEOREM StoreBalanced == StoreSpec => []StatsBalance
<1>1. StoreInit => StatsBalance
  <2> SUFFICES ASSUME StoreInit PROVE StatsBalance
    OBVIOUS
  <2>1. {s \in Sessions : where[s] # "new"} = {}
    BY DEF StoreInit, Every
  <2>2. \A o \in Outcomes : {s \in Sessions : where[s] = o} = {}
    BY DEF StoreInit, Every, Outcomes
  <2> QED
    BY <2>1, <2>2, FS_EmptySet DEF StoreInit, StatsBalance, Counters
<1>2. TypeOK /\ StatsBalance /\ [StoreNext]_storeVars => StatsBalance'
  BY StepOfRegistry, BalanceStep
<1> QED
  BY <1>1, <1>2, StoreTyped, PTL DEF StoreSpec

\* Create's expire-then-admit never lets the store above max_sessions.
THEOREM StoreCapacity == StoreSpec => []Capacity
<1>1. StoreInit => Capacity
  <2> SUFFICES ASSUME StoreInit PROVE Capacity
    OBVIOUS
  <2>1. Live = {}
    BY DEF StoreInit, Every, Live
  <2> QED
    BY <2>1, FS_EmptySet, LimitsHold DEF Capacity, Limits
<1>2. TypeOK /\ Capacity /\ [StoreNext]_storeVars => Capacity'
  BY StepOfRegistry, CapacityStep
<1> QED
  BY <1>1, <1>2, StoreTyped, PTL DEF StoreSpec
-----------------------------------------------------------------------------
(* The end of the iterator.                                                *)

\* The iterator only returns from a sealed, drained session.
Sealed == \A s \in Sessions : iter[s] = "end" => finished[s] /\ queue[s] = <<>>

\* What the iterator's return saw stays so: no text and no sentence follows.
EndLasts == \A s \in Sessions : iter[s] = "end" =>
  /\ iter'[s] = "end" /\ finished'[s]
  /\ queue'[s] = queue[s] /\ accepted'[s] = accepted[s] /\ spoken'[s] = spoken[s]

LEMMA SealedStep ==
  ASSUME IInv, Sealed, [StoreNext]_storeVars
  PROVE  Sealed' /\ EndLasts
<1> USE DEF IInv, TypeOK, FlagsOK, TextOK, ReaderOK, Sealed, EndLasts
<1>1. ASSUME NEW s \in Sessions, HandlerStep(s) PROVE Sealed' /\ EndLasts
  <2>1. ASSUME NEW x \in Sentences, Create(s, x) PROVE Sealed' /\ EndLasts
    <3>1. iter[s] # "end"
      BY <2>1 DEF Create, Fresh
    <3> QED
      BY <2>1, <3>1 DEF Create, flags, reader
  <2>2. ASSUME NEW x \in Sentences, Enqueue(s, x) PROVE Sealed' /\ EndLasts
    BY <2>2 DEF Enqueue, Put, flags, reader
  <2>3. CASE Finish(s) \/ ClaimStream(s) \/ Cancel(s)
    BY <2>3 DEF Finish, ClaimStream, Cancel, text, flags, reader
  <2> QED
    BY <1>1, <2>1, <2>2, <2>3 DEF HandlerStep
<1>2. ASSUME NEW s \in Sessions, StreamStep(s) PROVE Sealed' /\ EndLasts
  <2>1. CASE Touch(s) \/ \E out \in Outcomes : Cleanup(s, out)
    BY <2>1 DEF Touch, Cleanup, text, flags, reader
  <2>2. CASE IterStart(s) \/ IterCheck(s) \/ IterTimeout(s) \/ IterRaise(s) \/ IterDrop(s)
    BY <2>2 DEF IterStart, IterCheck, IterTimeout, IterRaise, IterDrop, text, flags
  <2>3. CASE IterGet(s) \/ IterTake(s) \/ IterResume(s)
    BY <2>3 DEF IterGet, IterTake, IterResume, text, flags
  <2> QED
    BY <1>2, <2>1, <2>2, <2>3 DEF StreamStep
<1>3. CASE Snapshot \/ StopStore \/ Tick \/ UNCHANGED storeVars
  BY <1>3 DEF Snapshot, StopStore, Tick, storeVars, text, flags, reader
<1> QED
  BY <1>1, <1>2, <1>3 DEF StoreNext, Janitor
-----------------------------------------------------------------------------
(* The byte counters.                                                      *)

BytesIn(q) == [i \in DOMAIN q |-> Bytes[q[i]]]

LEMMA BytesInFacts ==
  ASSUME NEW q \in Seq(Sentences)
  PROVE  /\ BytesOf(q) = SumFunction(BytesIn(q))
         /\ DOMAIN BytesIn(q) = 1..Len(q) /\ Len(q) \in Nat
         /\ \A i \in 1..Len(q) : BytesIn(q)[i] = Bytes[q[i]] /\ BytesIn(q)[i] \in Int
<1>1. DOMAIN q = 1..Len(q) /\ Len(q) \in Nat /\ \A i \in 1..Len(q) : q[i] \in Sentences
  BY ElementOfSeq, LenProperties
<1>2. \A x \in Sentences : Bytes[x] \in Int
  BY LimitsHold DEF Limits
<1> QED
  BY <1>1, <1>2 DEF BytesOf, BytesIn

LEMMA BytesOfNone == BytesOf(<<>>) = 0
<1>1. <<>> \in Seq(Sentences) /\ Len(<<>>) = 0 /\ 1..0 = {}
  OBVIOUS
<1> QED
  BY <1>1, BytesInFacts, SumOfNone

LEMMA BytesInt == \A q \in Seq(Sentences) : BytesOf(q) \in Int
BY BytesInFacts, SumOfInts

LEMMA BytesAppend ==
  ASSUME NEW q \in Seq(Sentences), NEW x \in Sentences
  PROVE  BytesOf(Append(q, x)) = BytesOf(q) + Bytes[x]
<1> DEFINE r == Append(q, x)
           f == BytesIn(r)
           g == BytesIn(q)
           n == Len(q)
           p == n + 1
<1>1. /\ r \in Seq(Sentences) /\ Len(r) = n + 1 /\ n \in Nat
      /\ \A i \in 1..n : r[i] = q[i]
      /\ r[p] = x
  BY AppendProperties, LenProperties
<1> HIDE DEF r
<1>2. \A i \in 1..n : i \in 1..(n + 1) /\ i < p
  BY <1>1
<1>3. /\ DOMAIN f = 1..(n + 1) /\ \A i \in 1..(n + 1) : f[i] = Bytes[r[i]] /\ f[i] \in Int
      /\ BytesOf(r) = SumFunction(f)
  BY <1>1, BytesInFacts
<1>4. /\ DOMAIN g = 1..n /\ \A i \in 1..n : g[i] = Bytes[q[i]]
      /\ BytesOf(q) = SumFunction(g) /\ SumFunction(g) \in Int
  BY BytesInFacts, BytesInt
<1>5. p \in 1..(n + 1)
  BY <1>1
<1> HIDE DEF f, g, n, p
<1>6. Loses(f, g, p, n)
  BY <1>1, <1>2, <1>3, <1>4, <1>5 DEF Loses
<1>7. SumFunction(f) = f[p] + SumFunction(g)
  BY <1>6, SumWithout
<1>8. f[p] = Bytes[x] /\ f[p] \in Int
  BY <1>1, <1>3, <1>5
<1> QED
  BY <1>3, <1>4, <1>7, <1>8 DEF r

LEMMA BytesHead ==
  ASSUME NEW q \in Seq(Sentences), q # <<>>
  PROVE  BytesOf(q) = Bytes[Head(q)] + BytesOf(Tail(q))
<1> DEFINE r == Tail(q)
           f == BytesIn(q)
           g == BytesIn(r)
           n == Len(q) - 1
           p == 1
<1>1. /\ r \in Seq(Sentences) /\ Len(r) = n /\ n \in Nat /\ n + 1 = Len(q)
      /\ \A i \in 1..n : r[i] = q[i + 1]
      /\ q[p] = Head(q)
  BY HeadTailProperties, LenProperties, EmptySeq
<1> HIDE DEF r, n
<1>2. \A i \in 1..n : i + 1 \in 1..(n + 1) /\ ~(i < p)
  BY <1>1
<1>3. /\ DOMAIN f = 1..(n + 1) /\ \A i \in 1..(n + 1) : f[i] = Bytes[q[i]] /\ f[i] \in Int
      /\ BytesOf(q) = SumFunction(f)
  BY <1>1, BytesInFacts
<1>4. /\ DOMAIN g = 1..n /\ \A i \in 1..n : g[i] = Bytes[r[i]]
      /\ BytesOf(r) = SumFunction(g)
  BY <1>1, BytesInFacts
<1>5. p \in 1..(n + 1)
  BY <1>1
<1> HIDE DEF f, g, p
<1>6. \A i \in 1..n : g[i] = f[i + 1]
  <2> SUFFICES ASSUME NEW i \in 1..n PROVE g[i] = f[i + 1]
    OBVIOUS
  <2>1. g[i] = Bytes[q[i + 1]]
    BY <1>1, <1>4
  <2>2. f[i + 1] = Bytes[q[i + 1]]
    BY <1>2, <1>3
  <2> QED
    BY <2>1, <2>2
<1>7. Loses(f, g, p, n)
  BY <1>1, <1>2, <1>3, <1>4, <1>5, <1>6 DEF Loses
<1>8. SumFunction(f) = f[p] + SumFunction(g)
  BY <1>7, SumWithout
<1> QED
  BY <1>1, <1>3, <1>4, <1>5, <1>8 DEF r

LEMMA BytesOfOne ==
  ASSUME NEW q \in Seq(Sentences), Len(q) = 1
  PROVE  BytesOf(q) = Bytes[Head(q)] /\ Bytes[Head(q)] \in Int
<1>1. q # <<>> /\ Tail(q) = <<>> /\ Head(q) \in Sentences
  <2>1. q # <<>>
    BY EmptySeq
  <2>2. Head(q) \in Sentences /\ Tail(q) \in Seq(Sentences) /\ Len(Tail(q)) = 0
    BY <2>1, HeadTailProperties
  <2> QED
    BY <2>1, <2>2, EmptySeq
<1>2. Bytes[Head(q)] \in Int
  BY <1>1, LimitsHold DEF Limits
<1>3. BytesOf(q) = Bytes[Head(q)] + 0
  BY <1>1, BytesHead, BytesOfNone
<1> QED
  BY <1>2, <1>3

\* ByteAccounts, of one session, and without the bound that TypeOK has.
Accounted(s) ==
  /\ totalBytes[s] = BytesOf(accepted[s])
  /\ queuedBytes[s] = BytesOf(queue[s]) + (IF iter[s] = "got" THEN BytesOf(hand[s]) ELSE 0)

SameText(s) ==
  /\ queue'[s] = queue[s] /\ accepted'[s] = accepted[s]
  /\ totalBytes'[s] = totalBytes[s] /\ queuedBytes'[s] = queuedBytes[s]
SameReader(s) == hand'[s] = hand[s] /\ iter'[s] = iter[s]

LEMMA SameAccount ==
  ASSUME NEW s, Accounted(s), SameText(s), SameReader(s)
  PROVE  Accounted(s)'
BY DEF Accounted, SameText, SameReader

\* No call brings a session back.
LEMMA StaysOut ==
  ASSUME TypeOK
  PROVE  /\ ExpireLocked => Live' \subseteq Live
         /\ \A s \in Live, out \in Outcomes : CleanupLocked(s, out) => Live' \subseteq Live
         /\ UNCHANGED registry => Live' \subseteq Live
<1>1. ExpireLocked => Live' \subseteq Live
  BY DEF ExpireLocked, Reaped, Live
<1>2. ASSUME NEW s \in Live, NEW out \in Outcomes, CleanupLocked(s, out) PROVE Live' \subseteq Live
  BY <1>2 DEF TypeOK, RegistryOK, CleanupLocked, Live, Outcomes
<1>3. UNCHANGED registry => Live' \subseteq Live
  BY DEF registry, Live
<1> QED
  BY <1>1, <1>2, <1>3

LEMMA HandlerAccounts ==
  ASSUME IInv, \A t \in Live : Accounted(t), NEW s \in Sessions, HandlerStep(s), NEW t \in Live'
  PROVE  Accounted(t)'
<1> USE DEF IInv, TypeOK, TextOK, ReaderOK
<1>0. t \in Sessions
  BY DEF Live
<1>1. ASSUME NEW x \in Sentences, Create(s, x) PROVE Accounted(t)'
  <2>1. CASE t = s
    <3>1. iter'[s] # "got"
      BY <1>1 DEF Create, Fresh, reader
    <3>2. <<x>> \in Seq(Sentences) /\ Len(<<x>>) = 1 /\ Head(<<x>>) = x
      OBVIOUS
    <3> DEFINE one == <<x>>
    <3>3. queue'[s] = one /\ accepted'[s] = one /\ queuedBytes'[s] = Bytes[x] /\ totalBytes'[s] = Bytes[x]
      BY <1>1 DEF Create
    <3> HIDE DEF one
    <3>4. BytesOf(one) = Bytes[x] /\ Bytes[x] \in Int
      BY <3>2, BytesOfOne DEF one
    <3> QED
      BY <2>1, <3>1, <3>3, <3>4 DEF Accounted
  <2>2. CASE t # s
    <3>1. t \in Live
      BY <1>1, <2>2 DEF Create, Reaped, Live
    <3>2. SameText(t) /\ SameReader(t)
      BY <1>0, <1>1, <2>2 DEF Create, reader, SameText, SameReader
    <3> QED
      BY <3>1, <3>2, SameAccount
  <2> QED
    BY <2>1, <2>2
<1>2. ASSUME NEW x \in Sentences, Enqueue(s, x) PROVE Accounted(t)'
  <2>0. t \in Live /\ Accounted(t)
    BY <1>2, StaysOut DEF Enqueue, Put
  <2>1. CASE t = s
    <3>1. /\ queue'[s] = Append(queue[s], x) /\ accepted'[s] = Append(accepted[s], x)
          /\ queuedBytes'[s] = queuedBytes[s] + Bytes[x] /\ totalBytes'[s] = totalBytes[s] + Bytes[x]
          /\ hand'[s] = hand[s] /\ iter'[s] = iter[s]
      BY <1>2 DEF Enqueue, Put, reader
    <3>2. /\ BytesOf(queue'[s]) = BytesOf(queue[s]) + Bytes[x]
          /\ BytesOf(accepted'[s]) = BytesOf(accepted[s]) + Bytes[x]
      BY <3>1, BytesAppend
    <3>3. BytesOf(queue[s]) \in Int /\ BytesOf(hand[s]) \in Int /\ Bytes[x] \in Int
      BY BytesInt, LimitsHold DEF Limits
    <3> DEFINE held == IF iter[s] = "got" THEN BytesOf(hand[s]) ELSE 0
    <3>4. held \in Int
      BY <3>3
    <3>5. queuedBytes[s] = BytesOf(queue[s]) + held /\ totalBytes[s] = BytesOf(accepted[s])
      BY <2>0, <2>1 DEF Accounted
    <3>6. held' = held
      BY <3>1
    <3> HIDE DEF held
    <3>7. queuedBytes'[s] = BytesOf(queue'[s]) + held
      BY <3>1, <3>2, <3>3, <3>4, <3>5
    <3> QED
      BY <2>1, <3>1, <3>2, <3>5, <3>6, <3>7 DEF Accounted, held
  <2>2. CASE t # s
    <3>1. SameText(t) /\ SameReader(t)
      BY <1>0, <1>2, <2>2 DEF Enqueue, Put, reader, SameText, SameReader
    <3> QED
      BY <2>0, <3>1, SameAccount
  <2> QED
    BY <2>1, <2>2
<1>3. CASE Finish(s) \/ ClaimStream(s) \/ Cancel(s)
  <2>1. t \in Live
    BY <1>3, StaysOut DEF Finish, ClaimStream, Cancel, Outcomes
  <2>2. SameText(t) /\ SameReader(t)
    BY <1>3 DEF Finish, ClaimStream, Cancel, text, reader, SameText, SameReader
  <2> QED
    BY <2>1, <2>2, SameAccount
<1> QED
  BY <1>1, <1>2, <1>3 DEF HandlerStep

LEMMA StreamAccounts ==
  ASSUME IInv, \A t \in Live : Accounted(t), NEW s \in Sessions, StreamStep(s), NEW t \in Live'
  PROVE  Accounted(t)'
<1> USE DEF IInv, TypeOK, TextOK, ReaderOK
<1>0. t \in Sessions /\ s \in Sessions
  BY DEF Live
<1>1. t \in Live /\ Accounted(t)
  <2>1. ASSUME NEW out \in Outcomes, Cleanup(s, out) PROVE Live' \subseteq Live
    BY <2>1, StaysOut DEF Cleanup
  <2>2. CASE Touch(s) \/ IterCheck(s) \/ IterTimeout(s) \/ IterTake(s) \/ IterResume(s) \/ IterRaise(s)
    BY <2>2, StaysOut DEF Touch, IterCheck, IterTimeout, IterTake, IterResume, IterRaise
  <2>3. CASE IterStart(s) \/ IterGet(s) \/ IterDrop(s)
    BY <2>3, StaysOut DEF IterStart, IterGet, IterDrop
  <2> QED
    BY <2>1, <2>2, <2>3 DEF StreamStep
<1>2. CASE t # s
  <2>1. SameText(t)
    BY <1>0, <1>2 DEF StreamStep, Touch, Cleanup, IterStart, IterCheck, IterGet, IterTimeout, IterTake,
       IterResume, IterRaise, IterDrop, text, SameText
  <2>2. SameReader(t)
    BY <1>0, <1>2 DEF StreamStep, Touch, Cleanup, IterStart, IterCheck, IterGet, IterTimeout, IterTake,
       IterResume, IterRaise, IterDrop, reader, SameReader
  <2> QED
    BY <1>1, <2>1, <2>2, SameAccount
<1>3. CASE t = s
  <2>1. CASE Touch(s) \/ \E out \in Outcomes : Cleanup(s, out)
    <3>1. SameText(t) /\ SameReader(t)
      BY <2>1 DEF Touch, Cleanup, text, reader, SameText, SameReader
    <3> QED
      BY <1>1, <3>1, SameAccount
  <2>2. CASE IterStart(s) \/ IterCheck(s) \/ IterTimeout(s) \/ IterDrop(s)
    <3>1. SameText(s) /\ iter[s] # "got" /\ iter'[s] # "got"
      BY <2>2 DEF IterStart, IterCheck, IterTimeout, IterDrop, text, SameText
    <3> QED
      BY <1>1, <1>3, <3>1 DEF Accounted, SameText
  <2>3. CASE IterGet(s)
    <3>1. /\ iter[s] # "got" /\ iter'[s] = "got" /\ queue[s] # <<>>
          /\ queue'[s] = Tail(queue[s]) /\ hand'[s] = <<Head(queue[s])>>
          /\ accepted'[s] = accepted[s] /\ totalBytes'[s] = totalBytes[s]
          /\ queuedBytes'[s] = queuedBytes[s]
      BY <2>3 DEF IterGet
    <3> DEFINE x == Head(queue[s])
               rest == Tail(queue[s])
               one == <<x>>
    <3>2. x \in Sentences /\ rest \in Seq(Sentences)
      BY <3>1, HeadTailProperties
    <3>3. BytesOf(queue[s]) = Bytes[x] + BytesOf(rest)
      BY <3>1, BytesHead
    <3> HIDE DEF x, rest
    <3>4. one \in Seq(Sentences) /\ Len(one) = 1 /\ Head(one) = x
      BY <3>2
    <3> HIDE DEF one
    <3>5. BytesOf(one) = Bytes[x] /\ Bytes[x] \in Int /\ BytesOf(rest) \in Int
      BY <3>2, <3>4, BytesOfOne, BytesInt
    <3>6. queue'[s] = rest /\ hand'[s] = one
      BY <3>1 DEF x, rest, one
    <3>7. /\ queuedBytes[s] = BytesOf(queue[s]) + 0
          /\ totalBytes[s] = BytesOf(accepted[s])
      BY <1>1, <1>3, <3>1 DEF Accounted
    <3>8. queuedBytes'[s] = BytesOf(queue'[s]) + BytesOf(hand'[s])
      <4>1. BytesOf(queue'[s]) = BytesOf(rest) /\ BytesOf(hand'[s]) = BytesOf(one)
        BY <3>6
      <4>2. queuedBytes'[s] = Bytes[x] + BytesOf(rest) + 0
        BY <3>1, <3>3, <3>7
      <4> QED
        BY <3>5, <4>1, <4>2
    <3> QED
      BY <1>3, <3>1, <3>7, <3>8 DEF Accounted
  <2>4. CASE IterTake(s)
    <3>1. /\ iter[s] = "got" /\ iter'[s] = "out" /\ queue'[s] = queue[s]
          /\ accepted'[s] = accepted[s] /\ totalBytes'[s] = totalBytes[s]
          /\ queuedBytes'[s] = queuedBytes[s] - Bytes[Head(hand[s])]
      BY <2>4 DEF IterTake
    <3>2. BytesOf(hand[s]) = Bytes[Head(hand[s])] /\ Bytes[Head(hand[s])] \in Int
      BY <3>1, BytesOfOne DEF Hands
    <3>3. BytesOf(queue[s]) \in Int
      BY BytesInt
    <3> QED
      BY <1>1, <1>3, <3>1, <3>2, <3>3 DEF Accounted
  <2>5. CASE IterResume(s)
    <3>1. SameText(s) /\ iter[s] # "got" /\ iter'[s] # "got"
      BY <2>5 DEF IterResume, text, SameText
    <3> QED
      BY <1>1, <1>3, <3>1 DEF Accounted, SameText
  <2>6. CASE IterRaise(s)
    <3>1. s \notin Live'
      BY <2>6 DEF IterRaise, ExpireLocked, Reaped, Active, Live
    <3> QED
      BY <1>3, <3>1
  <2> QED
    BY <2>1, <2>2, <2>3, <2>4, <2>5, <2>6 DEF StreamStep
<1> QED
  BY <1>2, <1>3

LEMMA ByteStep ==
  ASSUME IInv, \A s \in Live : Accounted(s), [StoreNext]_storeVars
  PROVE  (\A s \in Live : Accounted(s))'
<1> SUFFICES ASSUME NEW t \in Live' PROVE Accounted(t)'
  OBVIOUS
<1>1. ASSUME NEW s \in Sessions, HandlerStep(s) PROVE Accounted(t)'
  BY <1>1, HandlerAccounts
<1>2. ASSUME NEW s \in Sessions, StreamStep(s) PROVE Accounted(t)'
  BY <1>2, StreamAccounts
<1>3. CASE Snapshot \/ StopStore \/ Tick \/ UNCHANGED storeVars
  <2>1. t \in Live
    <3>1. CASE StopStore
      BY <3>1 DEF StopStore, Live
    <3>2. CASE Snapshot \/ Tick \/ UNCHANGED storeVars
      BY <3>2, StaysOut DEF IInv, Snapshot, Tick, storeVars
    <3> QED
      BY <1>3, <3>1, <3>2
  <2>2. SameText(t) /\ SameReader(t)
    BY <1>3 DEF Snapshot, StopStore, Tick, storeVars, text, reader, SameText, SameReader
  <2> QED
    BY <2>1, <2>2, SameAccount
<1> QED
  BY <1>1, <1>2, <1>3 DEF StoreNext, Janitor

\* total_bytes and queued_bytes are what a live session's text weighs, also
\* between the unlocked get and its bookkeeping.
THEOREM StoreAccounts == StoreSpec => []ByteAccounts
<1> DEFINE J == IInv /\ \A s \in Live : Accounted(s)
<1>1. StoreInit => J
  <2>1. StoreInit => Live = {}
    BY DEF StoreInit, Every, Live
  <2> QED
    BY <2>1, InitInv
<1>2. J /\ [StoreNext]_storeVars => J'
  BY StepInv, ByteStep
<1>3. J => ByteAccounts
  BY DEF IInv, TypeOK, TextOK, Accounted, ByteAccounts, Live
<1> QED
  BY <1>1, <1>2, <1>3, PTL DEF StoreSpec
=============================================================================
