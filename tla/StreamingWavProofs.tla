------------------------ MODULE StreamingWavProofs --------------------------
(***************************************************************************)
(* Theorems about the streamed responses.  Every step of StreamingWav is,  *)
(* as far as the guard can see, a step of one generator or of one language *)
(* model's thread (GuardStep), and the guard's invariant is kept by those. *)
(***************************************************************************)
EXTENDS StreamingWav, SequenceTheorems, TLAPS

Recorded(r) == \E i \in 1..Len(errors) : errors[i] = r

\* A generator whose turn has not come has started no thread.
Unstarted == \A r \in Requests : gen[r] \in {"new", "waiting"} => llm[r] = "none"

\* A flag is set by a thread that is over.
FlagsTrue == \A r \in Requests : flag[r] = "set" => llm[r] \in {"ended", "died"}

\* A generator leaves its loop after its thread is over.
Finishing == \A r \in Requests : gen[r] = "finishing" => llm[r] \in {"ended", "died"}

\* As long as a generator holds the lock, the error of its thread is there to
\* be raised: the only one to take errors is the holder, on its way out.
ErrorKept == \A r \in Requests :
  gen[r] \in Holding /\ llm[r] \in {"recorded", "died"} => Recorded(r)

GInv == GuardTypeOK /\ Unstarted /\ FlagsTrue /\ Finishing /\ ErrorKept /\ NoFalseSuccess

GuardStep(r) ==
  \/ Enter(r) /\ UNCHANGED <<gpu, made, llm, flag, errors>>
  \/ Resume(r) /\ UNCHANGED <<gpu, made, llm, flag, errors>>
  \/ Acquire(r) \/ ConditioningFails(r) \/ Yield(r) \/ Exhaust(r)
  \/ Finish(r) \/ ModelFails(r) \/ Close(r)
  \/ Llm(r)

-----------------------------------------------------------------------------
\* What a client, a producer, ffmpeg or an iterator does is a step of one
\* generator or one thread, or none of the guard's business.
LEMMA GuardSteps ==
  [Next]_vars => (\E r \in Requests : GuardStep(r)) \/ UNCHANGED guardVars
<1>1. SUFFICES ASSUME NEW r \in Requests,
                      \/ Client(r) \/ Thread(r) \/ Model(r)
                      \/ CloseStdin(r) \/ DecoderExits(r) \/ DecoderCrashes(r) \/ Iterator(r)
               PROVE  GuardStep(r) \/ UNCHANGED guardVars
  BY DEF Next, vars
<1>2. CASE Client(r)
  BY <1>2 DEF Client, ReadHeader, Start, Read, HangUp, GuardStep, guardVars
<1>3. CASE Thread(r)
  BY <1>3 DEF Thread, Works, DirectYield, Produce, Look, Write, Ends, DirectEnds, ProducerEnds,
              Raises, GuardStep, guardVars
<1>4. CASE Model(r)
  BY <1>4 DEF Model, GuardStep
<1>5. CASE CloseStdin(r) \/ DecoderExits(r) \/ DecoderCrashes(r) \/ Iterator(r)
  BY <1>5 DEF CloseStdin, DecoderExits, DecoderCrashes, Iterator,
              ReadChunk, EndOfAudio, Judge, Stop, guardVars
<1> QED
  BY <1>1, <1>2, <1>3, <1>4, <1>5

\* Who leaves gives the lock back and takes at most the youngest error.
LEMMA LeaveEffect ==
  ASSUME GuardTypeOK, NEW r \in Requests, NEW how \in GenOver, Leave(r, how)
  PROVE  /\ gpu' = Free /\ llm' = llm /\ made' = made
         /\ \E over \in GenOver : gen' = [gen EXCEPT ![r] = over]
                                  /\ (over = "done" => how = "done" /\ errors = <<>>)
         /\ flag' = flag \/ \E q \in Requests : flag' = [flag EXCEPT ![q] = "none"]
         /\ errors' \in Seq(Requests)
<1>1. CASE errors = <<>>
  BY <1>1 DEF Leave, GenOver, GuardTypeOK
<1>2. CASE errors # <<>>
  <2>1. Last(errors) \in Requests /\ Front(errors) \in Seq(Requests)
    BY <1>2 DEF GuardTypeOK, Front, Last
  <2>2. errors' = Front(errors) /\ flag' = [flag EXCEPT ![Last(errors)] = "none"]
    BY <1>2 DEF Leave
  <2>3. PICK over \in GenOver : over # "done" /\ gen' = [gen EXCEPT ![r] = over]
    BY <1>2 DEF Leave, GenOver
  <2> QED
    BY <2>1, <2>2, <2>3 DEF Leave
<1> QED
  BY <1>1, <1>2

-----------------------------------------------------------------------------
\* The guard's invariant is kept by each step of a generator or a thread.
LEMMA GInvStep ==
  ASSUME GInv, NEW r \in Requests, GuardStep(r)
  PROVE  GInv'
<1> USE GuardAssumption DEF GInv, GenOver, GenPlaces, Holding
<1>1. CASE Enter(r) /\ UNCHANGED <<gpu, made, llm, flag, errors>>
  <2>1. GuardTypeOK'
    BY <1>1 DEF Enter, GuardTypeOK
  <2>2. Unstarted' /\ FlagsTrue' /\ Finishing' /\ NoFalseSuccess'
    BY <1>1 DEF Enter, GuardTypeOK, Unstarted, FlagsTrue, Finishing, NoFalseSuccess
  <2>3. ErrorKept'
    BY <1>1 DEF Enter, GuardTypeOK, ErrorKept, Recorded
  <2> QED
    BY <2>1, <2>2, <2>3
<1>2. CASE Resume(r) /\ UNCHANGED <<gpu, made, llm, flag, errors>>
  BY <1>2 DEF Resume, GuardTypeOK, Unstarted, FlagsTrue, Finishing, ErrorKept, NoFalseSuccess, Recorded
<1>3. CASE Acquire(r)
  BY <1>3 DEF Acquire, GuardTypeOK, Unstarted, FlagsTrue, Finishing, ErrorKept, NoFalseSuccess, Recorded
<1>4. CASE ConditioningFails(r)
  BY <1>4 DEF ConditioningFails, GuardTypeOK, Unstarted, FlagsTrue, Finishing, ErrorKept, NoFalseSuccess, Recorded
<1>5. CASE Yield(r)
  BY <1>5 DEF Yield, GuardTypeOK, Unstarted, FlagsTrue, Finishing, ErrorKept, NoFalseSuccess, Recorded
<1>6. CASE Exhaust(r)
  BY <1>6 DEF Exhaust, GuardTypeOK, Unstarted, FlagsTrue, Finishing, ErrorKept, NoFalseSuccess, Recorded
<1>7. ASSUME NEW how \in GenOver, Leave(r, how), gen[r] \in Holding,
             how = "done" => gen[r] = "finishing"
      PROVE  GInv'
  <2>1. PICK over \in GenOver : /\ gen' = [gen EXCEPT ![r] = over]
                                /\ over = "done" => how = "done" /\ errors = <<>>
    BY <1>7, LeaveEffect
  <2>2. /\ gpu' = Free /\ llm' = llm /\ made' = made /\ errors' \in Seq(Requests)
        /\ flag' = flag \/ \E q \in Requests : flag' = [flag EXCEPT ![q] = "none"]
    BY <1>7, LeaveEffect
  <2>3. \A q \in Requests : gen'[q] \notin Holding
    BY <1>7, <2>1 DEF GuardTypeOK
  <2>4. GuardTypeOK'
    BY <2>1, <2>2, <2>3 DEF GuardTypeOK
  <2>5. Unstarted' /\ Finishing' /\ ErrorKept'
    BY <2>1, <2>2, <2>3 DEF Unstarted, Finishing, ErrorKept, GuardTypeOK
  <2>6. FlagsTrue'
    BY <2>2 DEF FlagsTrue, GuardTypeOK
  <2>7. over = "done" => llm[r] = "ended"
    BY <1>7, <2>1 DEF Finishing, ErrorKept, Recorded
  <2>8. NoFalseSuccess'
    BY <2>1, <2>2, <2>7 DEF NoFalseSuccess, GuardTypeOK
  <2> QED
    BY <2>4, <2>5, <2>6, <2>8
<1>8. CASE Finish(r) \/ ModelFails(r) \/ Close(r)
  BY <1>7, <1>8 DEF Finish, ModelFails, Close
<1>9. CASE LlmEnds(r)
  <2>1. GuardTypeOK'
    BY <1>9 DEF LlmEnds, GuardTypeOK
  <2>2. Unstarted' /\ FlagsTrue' /\ Finishing' /\ NoFalseSuccess'
    BY <1>9 DEF LlmEnds, GuardTypeOK, Unstarted, FlagsTrue, Finishing, NoFalseSuccess
  <2>3. ErrorKept'
    BY <1>9 DEF LlmEnds, GuardTypeOK, ErrorKept, Recorded
  <2> QED
    BY <2>1, <2>2, <2>3
<1>10. CASE LlmDies(r)
  <2>1. errors' = Append(errors, r) /\ errors \in Seq(Requests)
    BY <1>10 DEF LlmDies, GuardTypeOK
  <2>2. Recorded(r)' /\ \A q \in Requests : Recorded(q) => Recorded(q)'
    BY <2>1 DEF Recorded
  <2>3. GuardTypeOK'
    BY <1>10, <2>1 DEF LlmDies, GuardTypeOK
  <2>4. ErrorKept'
    BY <1>10, <2>2 DEF LlmDies, ErrorKept, GuardTypeOK
  <2>5. Unstarted' /\ FlagsTrue' /\ Finishing' /\ NoFalseSuccess'
    BY <1>10 DEF LlmDies, GuardTypeOK, Unstarted, FlagsTrue, Finishing, NoFalseSuccess
  <2> QED
    BY <2>3, <2>4, <2>5
<1>11. CASE FlagDead(r)
  BY <1>11 DEF FlagDead, GuardTypeOK, Unstarted, FlagsTrue, Finishing, ErrorKept, NoFalseSuccess, Recorded
<1> HIDE DEF GInv, GenOver, GenPlaces, Holding
<1> QED
  BY <1>1, <1>2, <1>3, <1>4, <1>5, <1>6, <1>8, <1>9, <1>10, <1>11 DEF GuardStep, Llm

\* The guard's invariant holds at every moment, for any number of requests.
THEOREM GuardInvariant == Spec => []GInv
<1>1. Init => GInv
  BY GuardAssumption DEF Init, GuardInit, GInv, GuardTypeOK, Unstarted, FlagsTrue, Finishing, ErrorKept,
     NoFalseSuccess, Holding, GenOver, GenPlaces
<1>2. GInv /\ [Next]_vars => GInv'
  <2> SUFFICES ASSUME GInv, [Next]_vars PROVE GInv'
    OBVIOUS
  <2>1. CASE UNCHANGED guardVars
    BY <2>1 DEF guardVars, GInv, GuardTypeOK, Unstarted, FlagsTrue, Finishing, ErrorKept, NoFalseSuccess,
       Recorded
  <2> QED
    BY <2>1, GuardSteps, GInvStep
<1> QED
  BY <1>1, <1>2, PTL DEF Spec

\* An error in CosyVoice's language model thread is never lost: a generation
\* counts as done, and its preview is consumed, only if the thread ended well.
THEOREM ErrorsReachSomeone == Spec => []NoFalseSuccess
<1>1. GInv => NoFalseSuccess
  BY DEF GInv
<1> QED
  BY <1>1, GuardInvariant, PTL

-----------------------------------------------------------------------------
(* What a client hears.                                                    *)

Pending(r) == IF gen[r] = "yielding" THEN 1 ELSE 0

WTyped ==
  /\ body \in [Requests -> Places] /\ verdict \in [Requests -> BodyOver]
  /\ heard \in [Requests -> Nat]
  /\ decoder \in [Requests -> {"none", "running", "exited", "crashed", "killed"}]
  /\ piped \in [Requests -> 0..PipeChunks]
  /\ writing \in [Requests -> BOOLEAN] /\ closed \in [Requests -> BOOLEAN]
  /\ stopped \in [Requests -> BOOLEAN] /\ failures \in [Requests -> BOOLEAN]

\* At speed 1.0 the client is given every chunk as it is made, and the response
\* stands where the generator does.
Direct(r) ==
  /\ decoder[r] = "none" /\ ~writing[r] /\ piped[r] = 0 /\ heard[r] = made[r]
  /\ body[r] \notin {"joining", "stopping"}
  /\ body[r] \in {"opened", "header"} => gen[r] = "new"
  /\ gen[r] \in {"waiting", "generating", "finishing"} => body[r] = "reading"
  /\ gen[r] = "yielding" <=> body[r] = "paused"
  /\ body[r] = "ended" => gen[r] = "done"

\* Before the second read there is nothing.
Unopened(r) == body[r] \in {"opened", "header"} =>
  /\ gen[r] = "new" /\ made[r] = 0 /\ heard[r] = 0 /\ decoder[r] = "none"
  /\ ~stopped[r] /\ ~closed[r]

\* The producer has not closed ffmpeg's input before it has said how the
\* generation ended, and is in a write only with a chunk.
Produced(r) ==
  /\ gen[r] # "closed" /\ failures[r] = (gen[r] = "raised")
  /\ closed[r] => gen[r] \in GenOver
  /\ writing[r] => gen[r] = "yielding"

\* No chunk is made up, and as long as ffmpeg is sound none is lost.
Conserved(r) ==
  /\ heard[r] + piped[r] + Pending(r) <= made[r]
  /\ decoder[r] \in {"running", "exited"} /\ body[r] \notin BodyOver =>
       ~stopped[r] /\ heard[r] + piped[r] + Pending(r) = made[r]

\* ffmpeg ends by itself when its input is closed, and is there as long as the
\* iterator is.
Decoded(r) ==
  /\ decoder[r] = "exited" => closed[r]
  /\ body[r] \in {"reading", "paused", "joining", "stopping"} =>
       decoder[r] \in {"running", "exited", "crashed"}
  /\ body[r] \in BodyOver => decoder[r] # "running"
  /\ body[r] = "joining" => decoder[r] # "running" /\ piped[r] = 0

\* The verdict "ended" is right, unless ffmpeg has crashed.
Judgement(r) ==
  (body[r] = "stopping" /\ verdict[r] = "ended") \/ body[r] = "ended" =>
    /\ decoder[r] \in {"exited", "crashed"}
    /\ decoder[r] = "exited" => gen[r] = "done" /\ heard[r] = made[r]

Filtered(r) == Unopened(r) /\ Produced(r) /\ Conserved(r) /\ Decoded(r) /\ Judgement(r)

WInv == /\ GInv /\ WTyped
        /\ \A r \in Requests \ Adjusted : Direct(r)
        /\ \A r \in Adjusted : Filtered(r)

Step(r) == \/ Client(r) \/ Thread(r) \/ Model(r)
           \/ CloseStdin(r) \/ DecoderExits(r) \/ DecoderCrashes(r) \/ Iterator(r)

Fields(r) == <<body[r], verdict[r], heard[r], gen[r], made[r], writing[r], decoder[r], piped[r],
               closed[r], stopped[r], failures[r]>>

\* A step of one request leaves the others alone.
LEMMA Others ==
  ASSUME GInv, WTyped, NEW r \in Requests, Step(r), NEW q \in Requests, q # r
  PROVE  UNCHANGED Fields(q)
<1> USE DEF GInv, GuardTypeOK, WTyped, Fields, bodyVars, ffmpegVars, guardVars, Body, Hears, Judged
<1>1. CASE Client(r)
  BY <1>1 DEF Client, ReadHeader, Start, Read, HangUp, Enter, Resume, Close, Leave
<1>2. CASE Works(r) \/ DirectYield(r) \/ Produce(r) \/ Look(r) \/ Write(r)
  BY <1>2 DEF Works, Acquire, Exhaust, DirectYield, Produce, Yield, Look, Write, Resume
<1>3. CASE Ends(r)
  BY <1>3 DEF Ends, DirectEnds, ProducerEnds, Raises, Finish, ModelFails, ConditioningFails, Leave
<1>4. CASE Model(r)
  BY <1>4 DEF Model, Llm, LlmEnds, LlmDies, FlagDead
<1>5. CASE CloseStdin(r) \/ DecoderExits(r) \/ DecoderCrashes(r) \/ Iterator(r)
  BY <1>5 DEF CloseStdin, DecoderExits, DecoderCrashes, Iterator, ReadChunk, EndOfAudio, Judge, Stop
<1> HIDE DEF GInv, GuardTypeOK, WTyped, Fields
<1> QED
  BY <1>1, <1>2, <1>3, <1>4, <1>5 DEF Step, Thread

\* A generator's exit at Leave, as far as a client can hear of it.
LEMMA LeaveGen ==
  ASSUME GInv, NEW r \in Requests, NEW how \in GenOver, Leave(r, how)
  PROVE  /\ made' = made
         /\ gen'[r] \in GenOver /\ (how = "closed" => gen'[r] = "closed")
         /\ how # "closed" => gen'[r] \in {"done", "raised"}
  BY DEF Leave, GInv, GuardTypeOK, GenOver

\* The types of the response's variables are kept.
LEMMA WTypedStep ==
  ASSUME GInv, WTyped, NEW r \in Requests, Step(r)
  PROVE  WTyped'
<1> USE WavAssumption DEF WTyped, Body, Hears, Judged, Places, BodyOver, bodyVars, ffmpegVars
<1>1. CASE Client(r)
  BY <1>1 DEF Client, ReadHeader, Start, Read, HangUp
<1>2. CASE Works(r) \/ Produce(r) \/ Model(r)
  BY <1>2 DEF Works, Produce, Model
<1>3. CASE DirectYield(r)
  BY <1>3 DEF DirectYield
<1>4. CASE Look(r)
  BY <1>4 DEF Look
<1>5. CASE Write(r)
  <2>1. piped[r] < PipeChunks => piped[r] + 1 \in 0..PipeChunks
    OBVIOUS
  <2>2. piped' \in [Requests -> 0..PipeChunks] /\ stopped' \in [Requests -> BOOLEAN]
    BY <1>5, <2>1 DEF Write
  <2> QED
    BY <1>5, <2>2 DEF Write
<1>6. CASE Ends(r)
  BY <1>6 DEF Ends, DirectEnds, ProducerEnds
<1>7. CASE CloseStdin(r)
  BY <1>7 DEF CloseStdin
<1>8. CASE DecoderExits(r)
  BY <1>8 DEF DecoderExits
<1>9. CASE DecoderCrashes(r)
  <2>1. PICK left \in 0..piped[r] : piped' = [piped EXCEPT ![r] = left]
    BY <1>9 DEF DecoderCrashes
  <2>2. left \in 0..PipeChunks
    BY <2>1
  <2> QED
    BY <1>9, <2>1, <2>2 DEF DecoderCrashes
<1>10. CASE ReadChunk(r)
  BY <1>10 DEF ReadChunk
<1>11. CASE EndOfAudio(r) \/ Judge(r)
  BY <1>11 DEF EndOfAudio, Judge
<1>12. CASE Stop(r)
  BY <1>12 DEF Stop
<1> HIDE DEF WTyped
<1> QED
  BY <1>1, <1>2, <1>3, <1>4, <1>5, <1>6, <1>7, <1>8, <1>9, <1>10, <1>11, <1>12
  DEF Step, Thread, Iterator

\* A response at speed 1.0 goes on giving its client all that is made.
LEMMA DirectStep ==
  ASSUME GInv, WTyped, NEW r \in Requests \ Adjusted, Direct(r), Step(r)
  PROVE  Direct(r)'
<1> USE WavAssumption DEF GInv, GuardTypeOK, WTyped, Direct, Body, Hears, Judged,
                         bodyVars, ffmpegVars, guardVars
<1>1. CASE ReadHeader(r) \/ Start(r) \/ Read(r)
  BY <1>1 DEF ReadHeader, Start, Read, Enter, Resume, GenPlaces, Holding, GenOver
<1>2. CASE HangUp(r)
  <2>1. CASE Close(r) /\ Body(r, "closed") /\ UNCHANGED <<verdict, heard, ffmpegVars>>
    BY <2>1, LeaveGen DEF Close, GenOver
  <2>2. CASE body[r] \in {"opened", "header"} /\ Body(r, "closed") /\ UNCHANGED <<guardVars, heard, ffmpegVars>>
    BY <2>2
  <2> QED
    BY <1>2, <2>1, <2>2 DEF HangUp
<1>3. CASE Works(r) \/ DirectYield(r)
  BY <1>3 DEF Works, Acquire, Exhaust, DirectYield, Yield
<1>4. CASE DirectEnds(r)
  <2>1. /\ gen'[r] \in {"done", "raised"} /\ made' = made
        /\ gen[r] \in {"waiting", "generating", "finishing"}
    BY <1>4, LeaveGen DEF DirectEnds, Raises, Finish, ModelFails, ConditioningFails, GenOver
  <2> QED
    BY <1>4, <2>1 DEF DirectEnds
<1>5. CASE Model(r)
  BY <1>5 DEF Model, Llm, LlmEnds, LlmDies, FlagDead
<1>6. ~Produce(r) /\ ~Look(r) /\ ~Write(r) /\ ~ProducerEnds(r) /\ ~CloseStdin(r)
  BY DEF Produce, Look, Write, ProducerEnds, CloseStdin
<1>7. ~DecoderExits(r) /\ ~DecoderCrashes(r) /\ ~Iterator(r)
  BY DEF DecoderExits, DecoderCrashes, Iterator, ReadChunk, EndOfAudio, Judge, Stop, Running
<1> HIDE DEF GInv, GuardTypeOK, WTyped, Direct
<1> QED
  BY <1>1, <1>2, <1>3, <1>4, <1>5, <1>6, <1>7 DEF Step, Thread, Client, Ends

\* A response through ffmpeg keeps its account of the chunks.
LEMMA FilteredStep ==
  ASSUME GInv, WTyped, NEW r \in Adjusted, Filtered(r), Step(r)
  PROVE  Filtered(r)'
<1> r \in Requests
  BY WavAssumption
<1> USE DEF GInv, GuardTypeOK, WTyped, Filtered, Unopened, Produced, Conserved, Decoded, Judgement, Pending,
            Body, Hears, Judged, Running, BodyOver, Places, bodyVars, ffmpegVars, guardVars
<1>1. CASE ReadHeader(r) \/ Start(r) \/ Read(r) \/ HangUp(r)
  BY <1>1 DEF ReadHeader, Start, Read, HangUp, Enter, GenOver
<1>2. CASE Works(r)
  BY <1>2 DEF Works, Acquire, Exhaust, GenOver
<1>3. CASE Produce(r)
  BY <1>3 DEF Produce, Yield, GenOver
<1>4. CASE Look(r)
  BY <1>4 DEF Look, Resume, GenOver
<1>5. CASE Write(r)
  BY <1>5 DEF Write, Resume, GenOver
<1>6. CASE ProducerEnds(r)
  <2>1. /\ gen'[r] \in {"done", "raised"} /\ made' = made
        /\ gen[r] \in {"waiting", "generating", "finishing"}
    BY <1>6, LeaveGen DEF ProducerEnds, Raises, Finish, ModelFails, ConditioningFails, GenOver
  <2> QED
    BY <1>6, <2>1 DEF ProducerEnds, GenOver
<1>7. CASE Model(r)
  BY <1>7 DEF Model, Llm, LlmEnds, LlmDies, FlagDead
<1>8. CASE CloseStdin(r)
  BY <1>8 DEF CloseStdin, GenOver
<1>14. CASE DecoderExits(r)
  BY <1>14 DEF DecoderExits
<1>9. CASE DecoderCrashes(r)
  BY <1>9 DEF DecoderCrashes
<1>10. CASE ReadChunk(r)
  <2>1. /\ heard'[r] = heard[r] + 1 /\ piped'[r] = piped[r] - 1
        /\ body[r] = "reading" /\ body'[r] = "paused"
        /\ UNCHANGED <<gen, made, verdict, writing, decoder, closed, stopped, failures>>
    BY <1>10 DEF ReadChunk
  <2>2. heard[r] \in Nat /\ piped[r] \in Nat /\ made[r] \in Nat
    OBVIOUS
  <2>3. Unopened(r)' /\ Produced(r)' /\ Decoded(r)' /\ Judgement(r)'
    BY <2>1
  <2>4. Conserved(r)'
    <3>1. Conserved(r) /\ body[r] = "reading" /\ Pending(r) \in Nat /\ Pending(r)' = Pending(r)
      BY <2>1
    <3> HIDE DEF GInv, GuardTypeOK, WTyped, Filtered, Unopened, Produced, Decoded, Judgement, Pending
    <3>2. (heard[r] + piped[r] + Pending(r))' = heard[r] + piped[r] + Pending(r)
      BY <2>1, <2>2, <3>1
    <3> QED
      BY <2>1, <3>1, <3>2
  <2> QED
    BY <2>3, <2>4
<1>15. CASE EndOfAudio(r)
  BY <1>15 DEF EndOfAudio
<1>11. CASE Judge(r)
  BY <1>11 DEF Judge, GenOver
<1>12. CASE Stop(r)
  BY <1>12 DEF Stop
<1>13. ~DirectYield(r) /\ ~DirectEnds(r)
  BY DEF DirectYield, DirectEnds
<1> HIDE DEF GInv, GuardTypeOK, WTyped, Filtered
<1> QED
  BY <1>1, <1>2, <1>3, <1>4, <1>5, <1>6, <1>7, <1>8, <1>9, <1>10, <1>11, <1>12, <1>13,
     <1>14, <1>15
  DEF Step, Thread, Client, Ends, Iterator

-----------------------------------------------------------------------------
\* The account of one request is the same wherever its fields are.
LEMMA FieldsDetermine ==
  ASSUME NEW q \in Requests, UNCHANGED Fields(q)
  PROVE  (Direct(q) => Direct(q)') /\ (Filtered(q) => Filtered(q)')
<1>1. Direct(q) => Direct(q)'
  BY DEF Fields, Direct
<1>2. Filtered(q) => Filtered(q)'
  BY DEF Fields, Filtered, Unopened, Produced, Conserved, Decoded, Judgement, Pending
<1> QED
  BY <1>1, <1>2

LEMMA WInvStep == WInv /\ [Next]_vars => WInv'
<1> SUFFICES ASSUME WInv, [Next]_vars PROVE WInv'
  OBVIOUS
<1>1. CASE UNCHANGED vars
  <2>1. GInv' /\ WTyped'
    BY <1>1 DEF WInv, vars, guardVars, bodyVars, ffmpegVars, GInv, GuardTypeOK, Unstarted, FlagsTrue,
       Finishing, ErrorKept, NoFalseSuccess, Recorded, WTyped
  <2>2. \A q \in Requests : UNCHANGED Fields(q)
    BY <1>1 DEF vars, guardVars, bodyVars, ffmpegVars, Fields
  <2> QED
    BY <2>1, <2>2, FieldsDetermine, WavAssumption DEF WInv
<1>2. ASSUME NEW r \in Requests, Step(r)
      PROVE  WInv'
  <2>1. GInv /\ WTyped /\ (\A q \in Requests \ Adjusted : Direct(q)) /\ \A q \in Adjusted : Filtered(q)
    BY DEF WInv
  <2>2. GInv'
    <3>1. CASE UNCHANGED guardVars
      BY <2>1, <3>1 DEF guardVars, GInv, GuardTypeOK, Unstarted, FlagsTrue, Finishing, ErrorKept,
         NoFalseSuccess, Recorded
    <3> QED
      BY <2>1, <3>1, GuardSteps, GInvStep
  <2>3. WTyped'
    BY <1>2, <2>1, WTypedStep
  <2>4. \A q \in Requests \ Adjusted : Direct(q)'
    BY <1>2, <2>1, DirectStep, Others, FieldsDetermine
  <2>5. \A q \in Adjusted : Filtered(q)'
    BY <1>2, <2>1, FilteredStep, Others, FieldsDetermine, WavAssumption
  <2> QED
    BY <2>2, <2>3, <2>4, <2>5 DEF WInv
<1> QED
  BY <1>1, <1>2 DEF Next, Step

LEMMA WInvInit == Init => WInv
<1> SUFFICES ASSUME Init PROVE WInv
  OBVIOUS
<1>1. GInv
  BY GuardAssumption DEF Init, GuardInit, GInv, GuardTypeOK, Unstarted, FlagsTrue, Finishing, ErrorKept,
     NoFalseSuccess, Holding, GenOver, GenPlaces
<1>2. WTyped
  BY WavAssumption DEF Init, WTyped, Places, BodyOver
<1>3. \A r \in Requests \ Adjusted : Direct(r)
  BY DEF Init, GuardInit, Direct
<1>4. ASSUME NEW r \in Adjusted PROVE Filtered(r)
  <2>1. /\ body[r] = "opened" /\ gen[r] = "new" /\ decoder[r] = "none"
        /\ made[r] = 0 /\ heard[r] = 0 /\ piped[r] = 0
        /\ ~closed[r] /\ ~stopped[r] /\ ~writing[r] /\ failures[r] = FALSE
    BY WavAssumption DEF Init, GuardInit
  <2>2. Unopened(r) /\ Produced(r) /\ Decoded(r) /\ Judgement(r)
    BY <2>1 DEF Unopened, Produced, Decoded, Judgement, BodyOver
  <2>3. Conserved(r)
    BY <2>1 DEF Conserved, Pending
  <2> QED
    BY <2>2, <2>3 DEF Filtered
<1> QED
  BY <1>1, <1>2, <1>3, <1>4 DEF WInv

LEMMA WInvAlways == Spec => []WInv
  BY WInvInit, WInvStep, PTL DEF Spec

\* The types, and the GPU lock in the hands of the generator that stands where
\* the code holds it, for any number of requests, chunks and any pipes.
THEOREM StreamsTyped == Spec => []StreamTypeOK
<1>1. WInv => StreamTypeOK
  <2> SUFFICES ASSUME WInv PROVE StreamTypeOK
    OBVIOUS
  <2>1. GuardTypeOK /\ WTyped
    BY DEF WInv, GInv
  <2>2. \A r \in Requests \ Adjusted : heard[r] = made[r]
    BY DEF WInv, Direct
  <2>3. \A r \in Adjusted : heard[r] <= made[r]
    <3>1. SUFFICES ASSUME NEW r \in Adjusted PROVE heard[r] <= made[r]
      OBVIOUS
    <3>2. heard[r] + piped[r] + Pending(r) <= made[r] /\ Pending(r) \in {0, 1}
      BY DEF WInv, Filtered, Conserved, Pending
    <3>3. heard[r] \in Nat /\ piped[r] \in 0..PipeChunks /\ made[r] \in 0..MaxChunks
      BY <2>1, WavAssumption DEF GuardTypeOK, WTyped
    <3> QED
      BY <3>2, <3>3, WavAssumption, GuardAssumption
  <2>4. heard \in [Requests -> 0..MaxChunks]
    <3>1. \A r \in Requests : heard[r] \in Nat /\ made[r] \in 0..MaxChunks /\ heard[r] <= made[r]
      BY <2>1, <2>2, <2>3 DEF GuardTypeOK, WTyped
    <3>2. \A r \in Requests : heard[r] \in 0..MaxChunks
      BY <3>1, GuardAssumption
    <3> QED
      BY <2>1, <3>2 DEF WTyped
  <2>5. \A r \in Requests : writing[r] => r \in Adjusted /\ gen[r] = "yielding"
    BY DEF WInv, Direct, Filtered, Produced
  <2>6. \A r \in Requests \ Adjusted :
          /\ gen[r] \in {"waiting", "generating", "finishing"} => body[r] = "reading"
          /\ gen[r] = "yielding" => body[r] = "paused"
    BY DEF WInv, Direct
  <2> QED
    BY <2>1, <2>4, <2>5, <2>6 DEF StreamTypeOK, WTyped
<1> QED
  BY <1>1, WInvAlways, PTL

\* A response that ends by itself was given whole, at either speed, unless
\* ffmpeg crashed: failures of the model and of the producer do not pass for
\* the end, in whatever order producer, ffmpeg and iterator come to theirs.
THEOREM CleanEnds == Spec => []CleanEndIsWhole
<1>1. WInv => CleanEndIsWhole
  <2> SUFFICES ASSUME WInv, NEW r \in Requests, body[r] = "ended", decoder[r] # "crashed"
               PROVE  gen[r] = "done" /\ heard[r] = made[r]
    BY DEF CleanEndIsWhole
  <2>1. CASE r \in Adjusted
    BY <2>1 DEF WInv, Filtered, Judgement
  <2>2. CASE r \notin Adjusted
    BY <2>2 DEF WInv, Direct
  <2> QED
    BY <2>1, <2>2
<1> QED
  BY <1>1, WInvAlways, PTL
=============================================================================
