------------------------- MODULE SessionAudioProofs -------------------------
(***************************************************************************)
(* Theorems about the audio routes, for every set of ids, sentences and    *)
(* competing requests and every limit of the store; the last one is that   *)
(* the store under its routes implements SentenceFeed, the contract of the *)
(* client.                                                                 *)
(***************************************************************************)
EXTENDS SessionAudio, SynthesisSessionsProofs

\* The routes' own invariant rests on the store's.
AInv == IInv /\ AudioTypeOK /\ LockDiscipline

LEMMA AudioInit == Init => AInv
<1> SUFFICES ASSUME Init PROVE AInv
  OBVIOUS
<1> USE DEF Init
<1>1. IInv
  BY InitInv
<1>2. AudioTypeOK
  BY DEF AudioTypeOK, Lockstep, Stages, InHand, Within, StoreInit, Every
<1>3. LockDiscipline
  BY HoldersAssumption DEF LockDiscipline, Holding, Within, InHand
<1> QED
  BY <1>1, <1>2, <1>3 DEF AInv

\* Losing the session at a touch is, to the store, an expiry with or without
\* the end of the iterator.
LEMMA LossIsStoreStep ==
  ASSUME AInv, NEW s \in Sessions, LoseSession(s)
  PROVE  [StoreNext]_storeVars
<1> USE DEF AInv, IInv, LoseSession
<1>1. CASE iter[s] = "out"
  BY <1>1 DEF IterDrop, StreamStep, StoreNext
<1>2. CASE iter[s] # "out" /\ Lapsed # {}
  BY <1>2 DEF Snapshot, StoreNext, reader
<1>3. CASE iter[s] # "out" /\ Lapsed = {}
  <2>1. Cardinality(Lapsed) = 0
    BY <1>3, FS_EmptySet
  <2>2. where' = where /\ stats' = stats
    BY <1>3, <2>1 DEF ExpireLocked, Reaped, ReapedStats, TypeOK, RegistryOK, Counters, Outcomes
  <2> QED
    BY <1>3, <2>2 DEF storeVars, registry, reader
<1> QED
  BY <1>1, <1>2, <1>3

\* Every step of the routes is a step of the store, or none.
LEMMA RoutesStepStore ==
  ASSUME AInv, [Next]_vars
  PROVE  [StoreNext]_storeVars
<1> USE DEF AInv
<1>1. ASSUME NEW s \in Sessions, ClientStep(s) PROVE [StoreNext]_storeVars
  <2>1. CASE Post(s)
    BY <2>1 DEF Post, HandlerStep, StoreNext
  <2>2. CASE GetAudio(s)
    BY <2>2 DEF GetAudio, HandlerStep, StoreNext
  <2>3. CASE NeverStarted(s) \/ Read(s) \/ Disconnect(s)
    BY <2>3 DEF NeverStarted, Read, Disconnect
  <2> QED
    BY <1>1, <2>1, <2>2, <2>3 DEF ClientStep
<1>2. ASSUME NEW s \in Sessions, AudioStep(s) PROVE [StoreNext]_storeVars
  <2>1. CASE Start(s) \/ ConsumePreview(s) \/ SendHeader(s) \/ SendChunk(s)
    BY <2>1 DEF Start, ConsumePreview, SendHeader, SendChunk
  <2>2. CASE Acquire(s) \/ BeginSentence(s) \/ TakeChunk(s)
    BY <2>2 DEF Acquire, BeginSentence, TakeChunk, StreamStep, StoreNext
  <2>3. CASE Conditioned(s) \/ Iterate(s) \/ IterateRaises(s) \/ EndSentence(s)
    BY <2>3 DEF Conditioned, Iterate, IterateRaises, EndSentence, StreamStep, StoreNext
  <2>4. CASE LoseSession(s)
    BY <2>4, LossIsStoreStep
  <2>5. CASE Fail(s)
    <3>1. CASE iter[s] = "out"
      BY <2>5, <3>1 DEF Fail, IterDrop, StreamStep, StoreNext
    <3>2. CASE iter[s] # "out"
      BY <2>5, <3>2 DEF Fail, storeVars, reader
    <3> QED
      BY <3>1, <3>2
  <2>6. CASE Close(s)
    <3>1. outcome[s] \in Outcomes \ {"timed_out"}
      BY <2>6 DEF Close, AudioTypeOK, Lockstep, Outcomes
    <3> QED
      BY <2>6, <3>1 DEF Close, StreamStep, StoreNext
  <2>7. CASE Unwind(s)
    <3>1. iter[s] = "out"
      BY <2>7 DEF Unwind, AudioTypeOK, Lockstep, Within
    <3> QED
      BY <2>7, <3>1 DEF Unwind, IterDrop, StreamStep, StoreNext
  <2> QED
    BY <1>2, <2>1, <2>2, <2>3, <2>4, <2>5, <2>6, <2>7 DEF AudioStep
<1>3. CASE \E r \in Requests : RequestAcquires(r) \/ RequestReleases(r)
  BY <1>3 DEF RequestAcquires, RequestReleases
<1>4. CASE Reap \/ Shutdown \/ Time
  BY <1>4 DEF Reap, Shutdown, Time, StoreNext
<1>5. CASE UNCHANGED vars
  BY <1>5 DEF vars
<1> QED
  BY <1>1, <1>2, <1>3, <1>4, <1>5 DEF Next
-----------------------------------------------------------------------------
(* Types, the lockstep of response and iterator, and the GPU lock.         *)

\* The store's calls leave the iterator alone, unless they are its own.
LEMMA CallsLeaveIterator ==
  ASSUME NEW s \in Sessions,
         \/ \E x \in Sentences : Create(s, x) \/ Enqueue(s, x)
         \/ Finish(s) \/ Cancel(s) \/ Touch(s) \/ Snapshot \/ StopStore \/ Tick
         \/ \E out \in Outcomes : Cleanup(s, out)
  PROVE  iter' = iter /\ claimed' = claimed
BY DEF Create, Enqueue, Put, Finish, Cancel, Touch, Cleanup, Snapshot, StopStore, Tick, reader, flags

LEMMA ClientTypes ==
  ASSUME AInv, NEW s \in Sessions, ClientStep(s)
  PROVE  AudioTypeOK' /\ LockDiscipline'
<1> USE DEF AInv, AudioTypeOK, Lockstep, LockDiscipline, Stages, InHand, AtYield, Within, Holding, Move, Goto
<1>1. CASE Post(s)
  BY <1>1, CallsLeaveIterator DEF Post, audioVars
<1>2. CASE GetAudio(s)
  <2>1. claimed' = [claimed EXCEPT ![s] = TRUE] /\ ~claimed[s] /\ iter' = iter
    BY <1>2 DEF GetAudio, ClaimStream, reader
  <2>2. stage[s] = "none" /\ claimed \in [Sessions -> BOOLEAN]
    BY <2>1 DEF IInv, TypeOK, FlagsOK
  <2> QED
    BY <1>2, <2>1, <2>2 DEF GetAudio
<1>3. CASE NeverStarted(s)
  BY <1>3 DEF NeverStarted, storeVars, flags, reader
<1>4. CASE Read(s)
  BY <1>4, HoldersAssumption DEF Read, storeVars, flags, reader
<1>5. CASE Disconnect(s)
  BY <1>5 DEF Disconnect, storeVars, flags, reader
<1> QED
  BY <1>1, <1>2, <1>3, <1>4, <1>5 DEF ClientStep

LEMMA ResponseTypes ==
  ASSUME AInv, NEW s \in Sessions, AudioStep(s)
  PROVE  AudioTypeOK' /\ LockDiscipline'
<1> USE HoldersAssumption
    DEF AInv, AudioTypeOK, Lockstep, LockDiscipline, Stages, InHand, Within, Holding, Move, Goto
<1>0. iter \in [Sessions -> IterStates]
  BY DEF IInv, TypeOK, ReaderOK
<1>1. CASE Start(s)
  BY <1>0, <1>1 DEF Start, storeVars, flags, reader
<1>2. CASE Acquire(s)
  BY <1>2, CallsLeaveIterator DEF Acquire
<1>3. CASE Conditioned(s)
  BY <1>0, <1>3 DEF Conditioned, IterStart, flags
<1>4. CASE Iterate(s)
  BY <1>0, <1>4 DEF Iterate, IterCheck, IterGet, IterTimeout, IterTake, audioVars, flags
<1>5. CASE IterateRaises(s)
  BY <1>0, <1>5 DEF IterateRaises, IterRaise, Leave, flags
<1>6. CASE BeginSentence(s)
  BY <1>6, CallsLeaveIterator DEF BeginSentence
<1>7. CASE TakeChunk(s)
  BY <1>7, CallsLeaveIterator DEF TakeChunk
<1>7a. CASE SendHeader(s)
  BY <1>7a DEF SendHeader, storeVars, flags, reader
<1>7b. CASE SendChunk(s)
  BY <1>7b DEF SendChunk, storeVars, flags, reader
<1>8. CASE EndSentence(s)
  BY <1>0, <1>8 DEF EndSentence, IterResume, flags
<1>9. CASE LoseSession(s)
  BY <1>0, <1>9 DEF LoseSession, AtTouch, Leave, flags
<1>10. CASE Fail(s)
  BY <1>0, <1>10 DEF Fail, Leave, flags
<1>11. CASE ConsumePreview(s)
  BY <1>0, <1>11 DEF ConsumePreview, storeVars, flags, reader
<1>12. CASE Close(s)
  <2>1. outcome[s] \in Outcomes
    BY <1>12 DEF Close, Outcomes
  <2> QED
    BY <1>12, <2>1, CallsLeaveIterator DEF Close
<1>13. CASE Unwind(s)
  BY <1>0, <1>13 DEF Unwind, flags
<1> QED
  BY <1>1, <1>2, <1>3, <1>4, <1>5, <1>6, <1>7, <1>7a, <1>7b, <1>8, <1>9, <1>10, <1>11, <1>12, <1>13
     DEF AudioStep

LEMMA OthersTypes ==
  ASSUME AInv,
         \/ \E r \in Requests : RequestAcquires(r) \/ RequestReleases(r)
         \/ Reap \/ Shutdown \/ Time \/ UNCHANGED vars
  PROVE  AudioTypeOK' /\ LockDiscipline'
<1> USE HoldersAssumption DEF AInv, AudioTypeOK, Lockstep, LockDiscipline, InHand, Within, Holding
<1>1. ASSUME NEW r \in Requests, RequestAcquires(r) PROVE AudioTypeOK' /\ LockDiscipline'
  BY <1>1 DEF RequestAcquires, storeVars, flags, reader
<1>2. ASSUME NEW r \in Requests, RequestReleases(r) PROVE AudioTypeOK' /\ LockDiscipline'
  BY <1>2 DEF RequestReleases, storeVars, flags, reader
<1>3. CASE Reap \/ Shutdown \/ Time \/ UNCHANGED vars
  BY <1>3 DEF Reap, Shutdown, Time, Janitor, Snapshot, StopStore, Tick, audioVars, vars, storeVars, flags, reader
<1> QED
  BY <1>1, <1>2, <1>3

LEMMA AudioStepInv == AInv /\ [Next]_vars => AInv'
<1> SUFFICES ASSUME AInv, [Next]_vars PROVE AInv'
  OBVIOUS
<1>1. IInv'
  BY RoutesStepStore, StepInv DEF AInv
<1>2. AudioTypeOK' /\ LockDiscipline'
  BY ClientTypes, ResponseTypes, OthersTypes DEF Next
<1> QED
  BY <1>1, <1>2 DEF AInv

\* The routes use the store as its specification allows.
THEOREM AudioUsesStore == Spec => StoreSpec
<1>1. Init => StoreInit
  BY DEF Init
<1>2. AInv /\ [Next]_vars => [StoreNext]_storeVars
  BY RoutesStepStore
<1> QED
  BY <1>1, <1>2, AudioInit, AudioStepInv, PTL DEF Spec, StoreSpec

\* The variables of the routes keep their types, and each response keeps in
\* step with its session's iterator.
THEOREM AudioTyped == Spec => []AudioTypeOK
<1>1. AInv => AudioTypeOK
  BY DEF AInv
<1> QED
  BY <1>1, AudioInit, AudioStepInv, PTL DEF Spec

\* The GPU lock is held by exactly the response or request that stands where
\* the code holds it, through every exception, disconnect and expiry.
THEOREM AudioLock == Spec => []LockDiscipline
<1>1. AInv => LockDiscipline
  BY DEF AInv
<1> QED
  BY <1>1, AudioInit, AudioStepInv, PTL DEF Spec
-----------------------------------------------------------------------------
(* Completion.                                                             *)

\* A completion is only ever declared after the iterator's own end.
Done == \A s \in Sessions :
  consumed[s] \/ outcome[s] = "completed" \/ where[s] = "completed" =>
    iter[s] = "end" /\ heard[s]

CInv == AInv /\ Sealed /\ Done

\* Only the cleanup of a completed response completes a session.
LEMMA OthersDoNotComplete ==
  ASSUME TypeOK,
         \/ UNCHANGED registry
         \/ ExpireLocked
         \/ \E s \in Sessions, x \in Sentences : Create(s, x)
         \/ \E s \in Sessions : Cancel(s)
         \/ StopStore,
         NEW s \in Sessions, where'[s] = "completed"
  PROVE  where[s] = "completed"
BY DEF TypeOK, RegistryOK, registry, ExpireLocked, Reaped, Create, Cancel, CleanupLocked,
       StopStore, Outcomes

LEMMA DoneStep ==
  ASSUME CInv, [Next]_vars
  PROVE  Done'
<1> USE DEF CInv, AInv, IInv, AudioTypeOK, Done
<1>0. EndLasts
  BY RoutesStepStore, SealedStep
<1>1. ASSUME NEW s \in Sessions, ClientStep(s) PROVE Done'
  <2>1. CASE Post(s)
    <3>1. \A t \in Sessions : where'[t] = "completed" => where[t] = "completed"
      BY <2>1, OthersDoNotComplete DEF Post, Enqueue, Put, Finish
    <3> QED
      BY <1>0, <2>1, <3>1 DEF Post, audioVars, EndLasts
  <2>2. CASE GetAudio(s)
    <3>1. \A t \in Sessions : where'[t] = "completed" => where[t] = "completed"
      BY <2>2, OthersDoNotComplete DEF GetAudio, ClaimStream
    <3> QED
      BY <1>0, <2>2, <3>1 DEF GetAudio, EndLasts
  <2>3. CASE NeverStarted(s) \/ Read(s) \/ Disconnect(s)
    BY <2>3 DEF NeverStarted, Read, Disconnect, storeVars, registry, reader
  <2> QED
    BY <1>1, <2>1, <2>2, <2>3 DEF ClientStep
<1>2. ASSUME NEW s \in Sessions, AudioStep(s) PROVE Done'
  <2>1. CASE Start(s) \/ SendHeader(s) \/ SendChunk(s)
    BY <2>1 DEF Start, SendHeader, SendChunk, storeVars, registry, reader
  <2>2. CASE Acquire(s) \/ BeginSentence(s) \/ TakeChunk(s) \/ Conditioned(s) \/ Iterate(s) \/ EndSentence(s)
    <3>1. \A t \in Sessions : where'[t] = "completed" => where[t] = "completed"
      BY <2>2, OthersDoNotComplete
      DEF Acquire, BeginSentence, TakeChunk, Conditioned, Iterate, EndSentence, Touch, IterStart,
          IterCheck, IterGet, IterTimeout, IterTake, IterResume
    <3>2. outcome' = outcome /\ consumed' = consumed /\ \A t \in Sessions : heard[t] => heard'[t]
      BY <2>2 DEF Acquire, BeginSentence, TakeChunk, Conditioned, Iterate, EndSentence, audioVars
    <3> QED
      BY <1>0, <3>1, <3>2 DEF EndLasts
  <2>3. CASE IterateRaises(s) \/ LoseSession(s) \/ Fail(s)
    <3>1. \A t \in Sessions : where'[t] = "completed" => where[t] = "completed"
      BY <2>3, OthersDoNotComplete DEF IterateRaises, LoseSession, Fail, IterRaise
    <3>2. /\ consumed' = consumed /\ heard' = heard
          /\ \A t \in Sessions : outcome'[t] = "completed" => outcome[t] = "completed"
      BY <2>3 DEF IterateRaises, LoseSession, Fail, Leave
    <3> QED
      BY <1>0, <3>1, <3>2 DEF EndLasts
  <2>4. CASE ConsumePreview(s)
    BY <2>4 DEF ConsumePreview, storeVars, registry, reader
  <2>5. CASE Close(s)
    <3>1. \A t \in Sessions : where'[t] = "completed" => where[t] = "completed" \/ (t = s /\ outcome[s] = "completed")
      BY <2>5 DEF Close, Cleanup, CleanupLocked, registry, TypeOK, RegistryOK
    <3> QED
      BY <1>0, <2>5, <3>1 DEF Close, EndLasts
  <2>6. CASE Unwind(s)
    BY <1>0, <2>6 DEF Unwind, registry, EndLasts
  <2> QED
    BY <1>2, <2>1, <2>2, <2>3, <2>4, <2>5, <2>6 DEF AudioStep
<1>3. CASE \E r \in Requests : RequestAcquires(r) \/ RequestReleases(r)
  BY <1>3 DEF RequestAcquires, RequestReleases, storeVars, registry, reader
<1>4. CASE Reap \/ Shutdown \/ Time
  <2>1. \A t \in Sessions : where'[t] = "completed" => where[t] = "completed"
    BY <1>4, OthersDoNotComplete DEF Reap, Shutdown, Time, Janitor, Snapshot, Tick
  <2> QED
    BY <1>0, <1>4, <2>1 DEF Reap, Shutdown, Time, audioVars, EndLasts
<1>5. CASE UNCHANGED vars
  BY <1>5 DEF vars, audioVars, storeVars, registry, reader
<1> QED
  BY <1>1, <1>2, <1>3, <1>4, <1>5 DEF Next

LEMMA CompletionInit == Init => CInv
BY AudioInit DEF CInv, Sealed, Done, Init, StoreInit, Every

LEMMA CompletionStep == CInv /\ [Next]_vars => CInv'
BY AudioStepInv, RoutesStepStore, SealedStep, DoneStep DEF CInv, AInv

LEMMA DoneIsHonest == CInv => CompletionIsHonest
<1> SUFFICES ASSUME CInv, NEW s \in Sessions, iter[s] = "end"
             PROVE  finished[s] /\ spoken[s] = accepted[s]
  BY DEF CInv, Done, CompletionIsHonest
<1>1. finished[s] /\ queue[s] = <<>> /\ hand[s] = <<>>
  BY DEF CInv, AInv, IInv, Sealed, Hands
<1>2. spoken[s] \in Seq(Sentences) /\ accepted[s] = spoken[s] \o hand[s] \o queue[s]
  BY DEF CInv, AInv, IInv, TypeOK, ReaderOK, InOrder
<1>3. spoken[s] \o <<>> = spoken[s]
  BY <1>2, ConcatEmptySeq
<1> QED
  BY <1>1, <1>2, <1>3

\* A preview is consumed, and a session completed, only when the client
\* sealed it and every accepted sentence was spoken.
THEOREM AudioHonest == Spec => []CompletionIsHonest
BY CompletionInit, CompletionStep, DoneIsHonest, PTL DEF Spec

-----------------------------------------------------------------------------
(* What still goes out for a session that was removed.                     *)

\* A chunk that went out late was the last one: its session is gone, and no
\* other chunk of it is in hand.
LateFits == \A s \in Sessions :
  /\ late[s] \in {0, 1}
  /\ late[s] = 1 => where[s] \in Outcomes /\ stage[s] \notin InHand

\* A session that has left the store is never in it again.
LEMMA GoneStays ==
  ASSUME TypeOK, [StoreNext]_storeVars, NEW s \in Sessions, where[s] \in Outcomes
  PROVE  where'[s] \in Outcomes
<1> USE DEF TypeOK, RegistryOK, Outcomes
<1>1. ASSUME UNCHANGED registry PROVE where'[s] \in Outcomes
  BY <1>1 DEF registry
<1>2. ASSUME ExpireLocked PROVE where'[s] \in Outcomes
  BY <1>2 DEF ExpireLocked, Reaped
<1>3. ASSUME NEW t \in Sessions, NEW out \in Outcomes, t \in Live, CleanupLocked(t, out)
      PROVE  where'[s] \in Outcomes
  BY <1>3 DEF CleanupLocked, Live
<1>4. ASSUME NEW t \in Sessions, HandlerStep(t) PROVE where'[s] \in Outcomes
  <2>1. ASSUME NEW x \in Sentences, Create(t, x) PROVE where'[s] \in Outcomes
    BY <2>1 DEF Create, Reaped, Lapsed, Live
  <2>2. ASSUME NEW x \in Sentences, Enqueue(t, x) PROVE where'[s] \in Outcomes
    BY <1>2, <2>2 DEF Enqueue, Put
  <2>3. CASE Finish(t) \/ ClaimStream(t)
    BY <1>2, <2>3 DEF Finish, ClaimStream
  <2>4. CASE Cancel(t)
    BY <1>3, <2>4 DEF Cancel
  <2> QED
    BY <1>4, <2>1, <2>2, <2>3, <2>4 DEF HandlerStep
<1>5. ASSUME NEW t \in Sessions, StreamStep(t) PROVE where'[s] \in Outcomes
  <2>1. CASE \E out \in Outcomes \ {"timed_out"} : Cleanup(t, out)
    BY <1>1, <1>3, <2>1 DEF Cleanup
  <2>2. CASE IterStart(t) \/ IterGet(t)
    BY <1>1, <2>2 DEF IterStart, IterGet
  <2>3. CASE Touch(t) \/ IterCheck(t) \/ IterTimeout(t) \/ IterTake(t) \/ IterResume(t)
             \/ IterRaise(t) \/ IterDrop(t)
    BY <1>1, <1>2, <2>3 DEF Touch, IterCheck, IterTimeout, IterTake, IterResume, IterRaise, IterDrop
  <2> QED
    BY <1>5, <2>1, <2>2, <2>3 DEF StreamStep
<1>6. CASE Janitor \/ Snapshot
  BY <1>2, <1>6 DEF Janitor, Snapshot
<1>7. CASE StopStore
  BY <1>7 DEF StopStore, Live
<1>8. CASE Tick
  BY <1>1, <1>8 DEF Tick
<1>9. CASE UNCHANGED storeVars
  BY <1>1, <1>9 DEF storeVars
<1> QED
  BY <1>4, <1>5, <1>6, <1>7, <1>8, <1>9 DEF StoreNext

\* A chunk is taken in hand only for a session in the store.
LEMMA InHandIsLive ==
  ASSUME AInv, [Next]_vars, NEW s \in Sessions, stage[s] \notin InHand, stage'[s] \in InHand
  PROVE  s \in Active
<1> USE DEF AInv, AudioTypeOK, Move, Goto, InHand, AtYield
<1>1. ASSUME NEW t \in Sessions, ClientStep(t) PROVE FALSE
  BY <1>1 DEF ClientStep, Post, GetAudio, NeverStarted, Read, Disconnect, audioVars
<1>2. ASSUME NEW t \in Sessions, AudioStep(t) PROVE TakeChunk(s)
  BY <1>2 DEF AudioStep, Start, Acquire, Conditioned, Iterate, IterateRaises, Leave,
     BeginSentence, TakeChunk, SendHeader, SendChunk, EndSentence, LoseSession, Fail,
     ConsumePreview, Close, Unwind, audioVars
<1>3. ~\E r \in Requests : RequestAcquires(r) \/ RequestReleases(r)
  BY DEF RequestAcquires, RequestReleases
<1>4. ~(Reap \/ Shutdown \/ Time \/ UNCHANGED vars)
  BY DEF Reap, Shutdown, Time, audioVars, vars
<1>5. TakeChunk(s)
  BY <1>1, <1>2, <1>3, <1>4 DEF Next
<1> QED
  BY <1>5 DEF TakeChunk, Touch

\* Only SendChunk counts a late chunk.
LEMMA LateMoves ==
  ASSUME AInv, [Next]_vars
  PROVE  late' = late \/ \E s \in Sessions : SendChunk(s)
<1>1. ASSUME NEW t \in Sessions, ClientStep(t) PROVE late' = late
  BY <1>1 DEF ClientStep, Post, GetAudio, NeverStarted, Read, Disconnect, audioVars
<1>2. ASSUME NEW t \in Sessions, AudioStep(t) PROVE late' = late \/ SendChunk(t)
  BY <1>2 DEF AudioStep, Start, Acquire, Conditioned, Iterate, IterateRaises, Leave,
     BeginSentence, TakeChunk, SendHeader, EndSentence, LoseSession, Fail, ConsumePreview,
     Close, Unwind, audioVars
<1>3. ASSUME NEW r \in Requests, RequestAcquires(r) \/ RequestReleases(r) PROVE late' = late
  BY <1>3 DEF RequestAcquires, RequestReleases
<1>4. CASE Reap \/ Shutdown \/ Time \/ UNCHANGED vars
  BY <1>4 DEF Reap, Shutdown, Time, audioVars, vars
<1> QED
  BY <1>1, <1>2, <1>3, <1>4 DEF Next

LEMMA LateStep == AInv /\ LateFits /\ [Next]_vars => LateFits'
<1> SUFFICES ASSUME AInv, LateFits, [Next]_vars PROVE LateFits'
  OBVIOUS
<1>1. [StoreNext]_storeVars /\ TypeOK
  BY RoutesStepStore DEF AInv, IInv
<1>2. ASSUME NEW t \in Sessions, late'[t] = late[t]
      PROVE  late'[t] \in {0, 1} /\ (late'[t] = 1 => where'[t] \in Outcomes /\ stage'[t] \notin InHand)
  <2>1. CASE late[t] = 1
    <3>1. where[t] \in Outcomes /\ stage[t] \notin InHand
      BY <2>1 DEF LateFits
    <3>2. where'[t] \in Outcomes
      BY <1>1, <3>1, GoneStays
    <3>3. t \notin Active
      BY <3>1 DEF Outcomes, Active, Live
    <3>4. stage'[t] \notin InHand
      BY <3>1, <3>3, InHandIsLive
    <3> QED
      BY <1>2, <2>1, <3>2, <3>4
  <2> QED
    BY <1>2, <2>1 DEF LateFits
<1>3. CASE late' = late
  BY <1>2, <1>3 DEF LateFits
<1>4. ASSUME NEW s \in Sessions, SendChunk(s) PROVE LateFits'
  <2>1. /\ stage[s] = "sending" /\ stage'[s] = "paused" /\ where' = where
        /\ late \in [Sessions -> Nat]
    BY <1>4 DEF SendChunk, Move, Goto, AInv, AudioTypeOK, storeVars, registry
  <2>2. late[s] = 0
    BY <2>1 DEF LateFits, InHand
  <2>3. where[s] \in {"new", "live"} \cup Outcomes
    BY <1>1 DEF TypeOK, RegistryOK
  <2>4. where[s] # "new"
    <3>1. claimed[s]
      BY <2>1 DEF AInv, AudioTypeOK, Lockstep
    <3> QED
      BY <3>1 DEF AInv, IInv, Fresh
  <2>5. \A t \in Sessions \ {s} : late'[t] = late[t]
    BY <1>4, <2>1 DEF SendChunk
  <2>6. CASE where[s] = "live"
    BY <1>2, <1>4, <2>5, <2>6 DEF SendChunk, LateFits
  <2>7. CASE where[s] # "live"
    <3>1. late'[s] = 1 /\ where'[s] \in Outcomes /\ stage'[s] \notin InHand
      BY <1>4, <2>1, <2>2, <2>3, <2>4, <2>7 DEF SendChunk, InHand
    <3> QED
      BY <1>2, <2>5, <3>1 DEF LateFits
  <2> QED
    BY <2>6, <2>7
<1> QED
  BY <1>3, <1>4, LateMoves

\* At most the chunk that was in hand goes out for a session that has left
\* the store, however long its reader lets the header and the silence wait.
THEOREM AudioStopsSoon == Spec => []OneChunkLate
<1>1. Init => LateFits
  BY DEF Init, LateFits
<1>2. AInv /\ LateFits => OneChunkLate
  BY DEF LateFits, OneChunkLate
<1> QED
  BY <1>1, <1>2, AudioInit, AudioStepInv, LateStep, PTL DEF Spec
-----------------------------------------------------------------------------
(* The contract of the client.                                             *)

\* The client's view of one session, as SessionAudio maps it.
View(s) == [phase |-> Phase(s), accepted |-> accepted[s], spoken |-> spoken[s]]

\* A step of the contract for one session.
Follows(s) == View(s)' = View(s) \/ Feed!Moves(View(s), View(s)')

\* A step that leaves a session's text alone, and at most breaks it, is one.
Quiet(s) ==
  /\ accepted'[s] = accepted[s] /\ spoken'[s] = spoken[s] /\ finished'[s] = finished[s]
  /\ \/ where'[s] = where[s]
     \/ where[s] = "live" /\ where'[s] \in Outcomes \ {"completed"}

LEMMA QuietFollows ==
  ASSUME TypeOK, NEW s \in Sessions, Quiet(s)
  PROVE  Follows(s)
<1>1. CASE where'[s] = where[s]
  BY <1>1 DEF Quiet, Follows, View, Phase
<1>2. CASE where[s] = "live" /\ where'[s] \in Outcomes \ {"completed"}
  <2>1. Phase(s) \in {"open", "sealed"} /\ Phase(s)' = "broken"
    BY <1>2 DEF Phase, Outcomes
  <2>2. Feed!Breaks(View(s), View(s)')
    BY <1>2, <2>1 DEF Quiet, View, Feed!Breaks
  <2> QED
    BY <2>2 DEF Follows, Feed!Moves
<1> QED
  BY <1>1, <1>2 DEF Quiet

\* Expiry, alone or with the loss or refusal it explains, is quiet for all.
LEMMA ExpiryIsQuiet ==
  ASSUME TypeOK, ExpireLocked, NEW s \in Sessions,
         accepted'[s] = accepted[s], spoken'[s] = spoken[s], finished'[s] = finished[s]
  PROVE  Quiet(s)
BY DEF Quiet, ExpireLocked, Reaped, Lapsed, Live, TypeOK, RegistryOK, Outcomes

\* A sequence of one, a sequence after it, and a sequence before another.
LEMMA Single == \A h \in Seq(Sentences) : Len(h) = 1 => h = <<h[1]>> /\ h[1] \in Sentences
OBVIOUS

LEMMA AfterFirst == \A sp, h \in Seq(Sentences) : Len(h) = 1 =>
  sp \o h \in Seq(Sentences) /\ Len(sp \o h) = Len(sp) + 1 /\ (sp \o h)[Len(sp) + 1] = h[1]
BY ConcatProperties, LenProperties

LEMMA Prefix == \A a, q \in Seq(Sentences) : Len(a) <= Len(a \o q) /\ \A i \in 1 .. Len(a) : (a \o q)[i] = a[i]
BY ConcatProperties, LenProperties

\* The contract's Accepts, field by field.
LEMMA AcceptsNext ==
  ASSUME NEW acc, NEW sp, NEW x \in Sentences
  PROVE  Feed!Accepts([phase |-> "open", accepted |-> acc, spoken |-> sp],
                      [phase |-> "open", accepted |-> Append(acc, x), spoken |-> sp])
<1> DEFINE v == [phase |-> "open", accepted |-> acc, spoken |-> sp]
<1>1. v.phase = "open" /\ v.accepted = acc
  OBVIOUS
<1>2. ASSUME NEW y PROVE [v EXCEPT !.accepted = y] = [phase |-> "open", accepted |-> y, spoken |-> sp]
  OBVIOUS
<1> HIDE DEF v
<1>3. Feed!Accepts(v, [v EXCEPT !.accepted = Append(acc, x)])
  BY <1>1, Zenon DEF Feed!Accepts
<1> QED
  BY <1>2, <1>3 DEF v

\* The next sentence spoken is the next one accepted.
LEMMA NextSpoken ==
  \A sp, h, q, a \in Seq(Sentences) : Len(h) = 1 /\ a = (sp \o h) \o q =>
    Len(sp) < Len(a) /\ sp \o h = Append(sp, a[Len(sp) + 1])
<1> SUFFICES ASSUME NEW sp \in Seq(Sentences), NEW h \in Seq(Sentences),
                    NEW q \in Seq(Sentences), Len(h) = 1
             PROVE  /\ Len(sp) < Len((sp \o h) \o q)
                    /\ sp \o h = Append(sp, ((sp \o h) \o q)[Len(sp) + 1])
  OBVIOUS
<1>1. h = <<h[1]>> /\ h[1] \in Sentences
  BY Single
<1>2. sp \o h \in Seq(Sentences) /\ Len(sp \o h) = Len(sp) + 1 /\ (sp \o h)[Len(sp) + 1] = h[1]
  BY AfterFirst
<1>3. Append(sp, h[1]) = sp \o h
  BY <1>1, AppendIsConcat
<1>4. Len(sp) \in Nat /\ Len((sp \o h) \o q) \in Nat /\ Len(sp) + 1 <= Len((sp \o h) \o q)
  BY <1>2, Prefix, LenProperties, ConcatProperties
<1>5. ((sp \o h) \o q)[Len(sp) + 1] = (sp \o h)[Len(sp) + 1]
  BY <1>2, <1>4, Prefix
<1> QED
  BY <1>2, <1>3, <1>4, <1>5

\* The contract's Speaks, field by field.
LEMMA SpeaksNext ==
  ASSUME NEW p, NEW a, NEW sp, NEW sp2,
         Len(sp) < Len(a), sp2 = Append(sp, a[Len(sp) + 1])
  PROVE  Feed!Speaks([phase |-> p, accepted |-> a, spoken |-> sp],
                     [phase |-> p, accepted |-> a, spoken |-> sp2])
<1> DEFINE v == [phase |-> p, accepted |-> a, spoken |-> sp]
<1>1. v.spoken = sp /\ v.accepted = a
  OBVIOUS
<1>2. ASSUME NEW y PROVE [v EXCEPT !.spoken = y] = [phase |-> p, accepted |-> a, spoken |-> y]
  OBVIOUS
<1> HIDE DEF v
<1>3. Feed!Speaks(v, [v EXCEPT !.spoken = sp2])
  BY <1>1, Zenon DEF Feed!Speaks
<1> QED
  BY <1>2, <1>3 DEF v

LEMMA HandlerFollows ==
  ASSUME IInv, NEW s \in Sessions, HandlerStep(s), NEW t \in Sessions
  PROVE  Follows(t)
<1> USE DEF IInv
<1>1. ASSUME NEW x \in Sentences, Create(s, x) PROVE Follows(t)
  <2>1. CASE t = s
    <3>1. View(s) = Feed!Absent
      BY <1>1 DEF Create, View, Phase, Fresh, Feed!Absent
    <3>2. View(s)' = [phase |-> "open", accepted |-> <<x>>, spoken |-> <<>>]
      BY <1>1 DEF Create, View, Phase, Fresh, TypeOK, RegistryOK, TextOK, Reaped, flags, reader
    <3>3. Feed!Opens(View(s), View(s)')
      BY <3>1, <3>2 DEF Feed!Opens
    <3> QED
      BY <2>1, <3>3 DEF Follows, Feed!Moves
  <2>2. CASE t # s
    <3>1. Quiet(t)
      BY <1>1, <2>2 DEF Create, Quiet, Reaped, Lapsed, Live, TypeOK, RegistryOK, TextOK, Outcomes, flags, reader
    <3> QED
      BY <3>1, QuietFollows
  <2> QED
    BY <2>1, <2>2
<1>2. ASSUME NEW x \in Sentences, Enqueue(s, x) PROVE Follows(t)
  <2>1. CASE t = s
    <3>1. where[s] = "live" /\ where'[s] = "live" /\ ~finished[s] /\ finished' = finished
      BY <1>2 DEF Enqueue, Put, ExpireLocked, Reaped, Active, Live, flags
    <3>2. Phase(s) = "open" /\ Phase(s)' = "open"
      BY <3>1 DEF Phase
    <3>3. accepted'[s] = Append(accepted[s], x) /\ spoken'[s] = spoken[s]
      BY <1>2 DEF Enqueue, Put, TypeOK, TextOK, reader
    <3>4. View(s) = [phase |-> "open", accepted |-> accepted[s], spoken |-> spoken[s]]
      BY <3>2 DEF View
    <3>5. View(s)' = [phase |-> "open", accepted |-> Append(accepted[s], x), spoken |-> spoken[s]]
      BY <3>2, <3>3 DEF View
    <3>6. Feed!Accepts(View(s), View(s)')
      BY <3>4, <3>5, AcceptsNext
    <3> QED
      BY <2>1, <3>6 DEF Follows, Feed!Moves
  <2>2. CASE t # s
    <3>1. Quiet(t)
      BY <1>2, <2>2, ExpiryIsQuiet DEF Enqueue, Put, TypeOK, TextOK, flags, reader
    <3> QED
      BY <3>1, QuietFollows
  <2> QED
    BY <2>1, <2>2
<1>3. CASE Finish(s)
  <2>1. CASE t = s /\ ~finished[s]
    <3>1. /\ where[s] = "live" /\ where'[s] = "live" /\ ~finished[s] /\ finished'[s]
          /\ accepted' = accepted /\ spoken' = spoken
      BY <1>3, <2>1 DEF Finish, ExpireLocked, Reaped, Active, Live, TypeOK, FlagsOK, text, reader
    <3>2. Phase(s) = "open" /\ Phase(s)' = "sealed"
      BY <3>1 DEF Phase
    <3>3. Feed!Seals(View(s), View(s)')
      BY <3>1, <3>2 DEF View, Feed!Seals
    <3> QED
      BY <2>1, <3>3 DEF Follows, Feed!Moves
  <2>2. CASE t # s \/ finished[s]
    <3>1. Quiet(t)
      BY <1>3, <2>2, ExpiryIsQuiet DEF Finish, TypeOK, FlagsOK, text, reader
    <3> QED
      BY <3>1, QuietFollows
  <2> QED
    BY <2>1, <2>2
<1>4. CASE ClaimStream(s)
  BY <1>4, ExpiryIsQuiet, QuietFollows DEF ClaimStream, text, reader
<1>5. CASE Cancel(s)
  <2>1. Quiet(t)
    BY <1>5 DEF Cancel, CleanupLocked, Quiet, Live, TypeOK, RegistryOK, Outcomes, text, flags, reader
  <2> QED
    BY <2>1, QuietFollows
<1> QED
  BY <1>1, <1>2, <1>3, <1>4, <1>5 DEF HandlerStep

\* A response that completes its session has ended honestly.
LEMMA CleanupFollows ==
  ASSUME CInv, NEW s \in Sessions, Close(s), NEW t \in Sessions
  PROVE  Follows(t)
<1> USE DEF CInv, AInv, IInv
<1>0. Cleanup(s, outcome[s]) /\ outcome[s] \in {"completed", "cancelled", "errors"}
  BY DEF Close, AudioTypeOK, Lockstep
<1>1. accepted' = accepted /\ spoken' = spoken /\ finished' = finished
  BY <1>0 DEF Cleanup, text, reader, flags
<1>2. CASE t = s /\ s \in Live /\ outcome[s] = "completed"
  <2>1. finished[s] /\ spoken[s] = accepted[s]
    BY <1>2, DoneIsHonest DEF CompletionIsHonest
  <2>2. where[s] = "live" /\ where'[s] = "completed"
    BY <1>0, <1>2 DEF Cleanup, CleanupLocked, Live, TypeOK, RegistryOK
  <2>3. Phase(s) = "sealed" /\ Phase(s)' = "completed"
    BY <2>1, <2>2 DEF Phase
  <2>4. Feed!Completes(View(s), View(s)')
    BY <1>1, <2>1, <2>3 DEF View, Feed!Completes
  <2> QED
    BY <1>2, <2>4 DEF Follows, Feed!Moves
<1>3. CASE ~(t = s /\ s \in Live /\ outcome[s] = "completed")
  <2>1. Quiet(t)
    BY <1>0, <1>1, <1>3 DEF Quiet, Cleanup, CleanupLocked, Live, TypeOK, RegistryOK, Outcomes, registry
  <2> QED
    BY <2>1, QuietFollows
<1> QED
  BY <1>2, <1>3

LEMMA StreamFollows ==
  ASSUME IInv, NEW s \in Sessions, NEW t \in Sessions,
         \/ Touch(s) \/ IterStart(s) \/ IterCheck(s) \/ IterGet(s) \/ IterTimeout(s)
         \/ IterTake(s) \/ IterResume(s) \/ IterRaise(s) \/ IterDrop(s)
  PROVE  Follows(t)
<1> USE DEF IInv
<1>1. CASE Touch(s) \/ IterCheck(s) \/ IterTimeout(s) \/ IterTake(s) \/ IterRaise(s)
  BY <1>1, ExpiryIsQuiet, QuietFollows
  DEF Touch, IterCheck, IterTimeout, IterTake, IterRaise, text, reader, flags
<1>2. CASE IterStart(s) \/ IterGet(s)
  <2>1. Quiet(t)
    BY <1>2 DEF IterStart, IterGet, Quiet, registry, text, flags
  <2> QED
    BY <2>1, QuietFollows
<1>3. CASE IterDrop(s)
  <2>1. Quiet(t)
    BY <1>3, ExpiryIsQuiet DEF IterDrop, Quiet, registry, text, flags
  <2> QED
    BY <2>1, QuietFollows
<1>4. CASE IterResume(s)
  <2>1. CASE t = s
    <3>1. /\ accepted[s] = (spoken[s] \o hand[s]) \o queue[s]
          /\ accepted[s] \in Seq(Sentences)
          /\ spoken[s] \in Seq(Sentences) /\ hand[s] \in Seq(Sentences) /\ queue[s] \in Seq(Sentences)
          /\ Len(hand[s]) = 1
      BY <1>4 DEF IterResume, InOrder, Hands, TypeOK, TextOK, ReaderOK
    <3>2. /\ Len(spoken[s]) < Len(accepted[s])
          /\ spoken[s] \o hand[s] = Append(spoken[s], accepted[s][Len(spoken[s]) + 1])
      BY <3>1, NextSpoken, ZenonT(60)
    <3>3. /\ accepted' = accepted /\ finished' = finished /\ where'[s] = where[s]
          /\ spoken'[s] = spoken[s] \o hand[s]
      BY <1>4 DEF IterResume, ExpireLocked, Reaped, Active, Live, TypeOK, ReaderOK, text, flags
    <3>4. Phase(s)' = Phase(s)
      BY <3>3 DEF Phase
    <3>5. View(s)' = [phase |-> Phase(s), accepted |-> accepted[s], spoken |-> spoken[s] \o hand[s]]
      BY <3>3, <3>4 DEF View
    <3>6. Feed!Speaks(View(s), [phase |-> Phase(s), accepted |-> accepted[s],
                                spoken |-> spoken[s] \o hand[s]])
      BY <3>2, SpeaksNext, Zenon DEF View
    <3>7. Feed!Speaks(View(s), View(s)')
      BY <3>5, <3>6
    <3> QED
      BY <2>1, <3>7 DEF Follows, Feed!Moves
  <2>2. CASE t # s
    <3>1. Quiet(t)
      BY <1>4, <2>2, ExpiryIsQuiet DEF IterResume, TypeOK, ReaderOK, text, flags
    <3> QED
      BY <3>1, QuietFollows
  <2> QED
    BY <2>1, <2>2
<1> QED
  BY <1>1, <1>2, <1>3, <1>4

\* Losing the session, failing, unwinding, and the steps of everyone else.
LEMMA OthersFollow ==
  ASSUME IInv, NEW t \in Sessions,
         \/ \E s \in Sessions : LoseSession(s) \/ Fail(s) \/ Unwind(s)
         \/ Snapshot \/ StopStore \/ Tick \/ UNCHANGED storeVars
  PROVE  Follows(t)
<1> USE DEF IInv
<1>1. CASE (\E s \in Sessions : LoseSession(s)) \/ Snapshot
  BY <1>1, ExpiryIsQuiet, QuietFollows DEF LoseSession, Snapshot, text, reader, flags
<1>2. CASE (\E s \in Sessions : Fail(s) \/ Unwind(s)) \/ Tick \/ UNCHANGED storeVars
  <2>1. Quiet(t)
    BY <1>2 DEF Fail, Unwind, Tick, Quiet, storeVars, registry, text, reader, flags
  <2> QED
    BY <2>1, QuietFollows
<1>3. CASE StopStore
  <2>1. Quiet(t)
    BY <1>3 DEF StopStore, Quiet, Live, TypeOK, RegistryOK, Outcomes, text, reader, flags
  <2> QED
    BY <2>1, QuietFollows
<1> QED
  BY <1>1, <1>2, <1>3

LEMMA StepFollows ==
  ASSUME CInv, [Next]_vars, NEW t \in Sessions
  PROVE  Follows(t)
<1> USE DEF CInv, AInv
<1>1. ASSUME NEW s \in Sessions, ClientStep(s) PROVE Follows(t)
  <2>1. CASE Post(s) \/ GetAudio(s)
    BY <2>1, HandlerFollows DEF Post, GetAudio, HandlerStep
  <2>2. CASE NeverStarted(s) \/ Read(s) \/ Disconnect(s)
    BY <2>2, OthersFollow DEF NeverStarted, Read, Disconnect
  <2> QED
    BY <1>1, <2>1, <2>2 DEF ClientStep
<1>2. ASSUME NEW s \in Sessions, AudioStep(s) PROVE Follows(t)
  <2>1. CASE Start(s) \/ ConsumePreview(s) \/ SendHeader(s) \/ SendChunk(s)
    BY <2>1, OthersFollow DEF Start, ConsumePreview, SendHeader, SendChunk
  <2>2. CASE Acquire(s) \/ BeginSentence(s) \/ TakeChunk(s) \/ Conditioned(s) \/ Iterate(s)
             \/ IterateRaises(s) \/ EndSentence(s)
    BY <2>2, StreamFollows
    DEF Acquire, BeginSentence, TakeChunk, Conditioned, Iterate, IterateRaises, EndSentence
  <2>3. CASE LoseSession(s) \/ Fail(s) \/ Unwind(s)
    BY <2>3, OthersFollow
  <2>4. CASE Close(s)
    BY <2>4, CleanupFollows
  <2> QED
    BY <1>2, <2>1, <2>2, <2>3, <2>4 DEF AudioStep
<1>3. CASE \E r \in Requests : RequestAcquires(r) \/ RequestReleases(r)
  BY <1>3, OthersFollow DEF RequestAcquires, RequestReleases
<1>4. CASE Reap \/ Shutdown \/ Time \/ UNCHANGED vars
  BY <1>4, OthersFollow DEF Reap, Shutdown, Time, Janitor, vars
<1> QED
  BY <1>1, <1>2, <1>3, <1>4 DEF Next

\* Every behaviour of the store under its routes, with all their races, is a
\* behaviour the client was promised.
THEOREM AudioImplementsFeed == Spec => FeedSpec
<1>1. Init => Feed!Init
  BY DEF Init, StoreInit, Every, Feed!Init, Feed!Absent, Phase
<1>2. CInv /\ [Next]_vars => [Feed!Next]_[s \in Sessions |-> View(s)]
  <2> SUFFICES ASSUME CInv, [Next]_vars PROVE Feed!Next
    BY DEF View, Feed!Next
  <2> QED
    BY StepFollows DEF Follows, View, Feed!Next
<1> QED
  BY <1>1, <1>2, CompletionInit, CompletionStep, PTL DEF Spec, FeedSpec, Feed!Spec, View
=============================================================================
