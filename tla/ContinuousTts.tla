--------------------------- MODULE ContinuousTts ---------------------------
(***************************************************************************)
(* One spoken reply of Home Assistant (_async_stream_continuous_sentences  *)
(* in custom_components/jarvis_cosyvoice_tts/tts.py): the task that opens  *)
(* a session and hands out its audio, the producer task that posts the     *)
(* sentences of the reply as they come, the bridge, and the runtime as far *)
(* as its clients may rely on it (module SentenceFeed).  Sentences are     *)
(* numbered in the order of the reply.                                     *)
(***************************************************************************)
EXTENDS Naturals, Sequences, FiniteSets

CONSTANTS
  MaxSentences,        \* bound of the model on the length of the reply
  MaxQueueSentences,   \* of the session in the runtime
  ProxySlots, ControlSlots

ASSUME TtsAssumption ==
  {MaxSentences, MaxQueueSentences, ProxySlots, ControlSlots} \subseteq Nat \ {0}

VARIABLES
  source,     \* the text stream of the reply
  received,   \* received_sentences, as their number
  main,       \* where the task of the reply stands
  producer,   \* where the producer task stands
  failure,    \* its local variable
  feed,       \* the session in the runtime
  hop, reply, free,   \* see Bridge
  faults      \* history: a call got lost, was given up or turned away

CreateCall  == <<"create", 1>>
AudioCall   == <<"audio", 1>>
FinishCall  == <<"finish", 1>>
DeleteCall  == <<"delete", 1>>
TextCall(n) == <<"text", n>>
TextCalls   == {TextCall(n) : n \in 2..MaxSentences}
Calls       == {CreateCall, AudioCall, FinishCall, DeleteCall} \cup TextCalls

INSTANCE Bridge WITH ControlCalls <- Calls \ {CreateCall, AudioCall}

Session == INSTANCE SentenceFeed WITH
  Sessions <- {1}, Sentences <- 1..MaxSentences, feed <- [s \in {1} |-> feed]

bridge   == <<hop, reply, free>>
taskVars == <<source, received, main, producer, failure>>
vars == <<taskVars, feed, bridge, faults>>

\* ended: played to its end; closed: broken off; spoken: by the fallback
\* engine; dropped: the audio was never asked for.
Over   == {"ended", "closed", "spoken", "raised"}
Places == Over \cup {"first", "creating", "opening", "draining", "joining", "discarding",
                     "fallback", "streaming", "settling", "cancelling", "deleting",
                     "leaving", "dropped"}
Failures == {"none", "listed", "cancelled", "other"}

\* Every variable has its type, here and in the bridge.
TtsTypeOK ==
  /\ source \in {"open", "ended", "failed"}
  /\ received \in 0..MaxSentences
  /\ main \in Places
  /\ producer \in {"none", "reading", "posting", "finishing", "done"}
  /\ failure \in Failures
  /\ feed.phase \in {"absent", "open", "sealed", "completed", "broken"}
  /\ feed.accepted \in Seq(1..MaxSentences) /\ feed.spoken \in Seq(1..MaxSentences)
  /\ faults \in BOOLEAN
  /\ BridgeTypeOK

Init ==
  /\ source = "open" /\ received = 0
  /\ main = "first" /\ producer = "none" /\ failure = "none"
  /\ feed = Session!Absent
  /\ BridgeInit
  /\ faults = FALSE
-----------------------------------------------------------------------------
(* Waiting for an answer.  A request has a total timeout; what becomes of  *)
(* it in the bridge and in the runtime after that is another matter.       *)

Succeeds(c) == reply[c] = "ok" /\ UNCHANGED faults
Fails(c) ==
  \/ reply[c] = "error" /\ UNCHANGED faults
  \/ reply[c] = "none" /\ faults' = TRUE

\* Exceptions of the kinds that the code lists, and others.
TakeSentence ==
  /\ source = "open" /\ received < MaxSentences
  /\ received' = received + 1
  /\ UNCHANGED source
EndOfSource(s) == source = "open" /\ source' = s /\ UNCHANGED received

Goto(p, q) == main = p /\ main' = q
-----------------------------------------------------------------------------
(* The producer task (_async_produce_session_text).                        *)

Produces(to) == producer' = to /\ UNCHANGED <<main, feed>>

\* A sentence that cannot be posted, as it is above the request bound, is a
\* failure.  After a failure the rest of the reply is only collected.
ReadSentence ==
  /\ producer = "reading" /\ TakeSentence
  /\ \/ failure = "none" /\ Send({TextCall(received')}) /\ Produces("posting")
        /\ UNCHANGED <<failure, faults>>
     \/ failure = "none" /\ failure' = "listed" /\ faults' = TRUE
        /\ Produces("reading") /\ UNCHANGED bridge
     \/ failure # "none" /\ Produces("reading") /\ UNCHANGED <<failure, bridge, faults>>

\* Mutant: the first failure ends the loop.
SentencePostedOrBreak ==
  /\ producer = "posting"
  /\ \/ Succeeds(TextCall(received)) /\ Produces("reading") /\ UNCHANGED <<failure, bridge>>
     \/ Fails(TextCall(received)) /\ failure' = "listed"
        /\ Send({FinishCall}) /\ Produces("finishing")
  /\ UNCHANGED <<source, received>>

\* Mutant: a failure is forgotten, and the next sentence is posted.
SentencePostedAnyway ==
  /\ producer = "posting"
  /\ Succeeds(TextCall(received)) \/ Fails(TextCall(received))
  /\ Produces("reading")
  /\ UNCHANGED <<source, received, failure, bridge>>

SentencePosted ==
  /\ producer = "posting"
  /\ \/ Succeeds(TextCall(received)) /\ UNCHANGED failure
     \/ Fails(TextCall(received)) /\ failure' = "listed"
  /\ Produces("reading")
  /\ UNCHANGED <<source, received, bridge>>

SourceOver ==
  /\ producer = "reading"
  /\ \/ EndOfSource("ended") /\ UNCHANGED failure
     \/ EndOfSource("failed") /\ failure' \in {"listed", "other"}
  /\ Send({FinishCall})
  /\ Produces("finishing")
  /\ UNCHANGED faults

Finished ==
  /\ producer = "finishing"
  /\ \/ Succeeds(FinishCall) /\ UNCHANGED failure
     \/ Fails(FinishCall) /\ failure' = IF failure = "none" THEN "listed" ELSE failure
  /\ Produces("done")
  /\ UNCHANGED <<source, received, bridge>>

\* Mutant: the producer takes its cancellation for one more failure to
\* remember, and goes on collecting.
CancelProducerInVain ==
  /\ failure' = IF producer \in {"none", "done"} THEN failure ELSE "cancelled"
  /\ producer' = IF producer = "posting" THEN "reading" ELSE producer
  /\ UNCHANGED bridge

\* Cancelled at whatever it awaits; the finally block still seals the
\* session, unless it is the call of that block that is cancelled.
CancelProducer ==
  /\ failure' = IF producer \in {"none", "done"} THEN failure ELSE "cancelled"
  /\ IF producer \in {"reading", "posting"}
     THEN producer' = "finishing" /\ Send({FinishCall})
     ELSE /\ producer' = IF producer = "finishing" THEN "done" ELSE producer
          /\ UNCHANGED bridge
-----------------------------------------------------------------------------
(* The task of the reply, up to the first audio.                           *)

\* An empty reply, one that fails or a first sentence above the request
\* bound raises.
FirstSentence ==
  /\ \/ TakeSentence /\ Goto("first", "creating") /\ Send({CreateCall})
     \/ (TakeSentence \/ EndOfSource("ended") \/ EndOfSource("failed"))
        /\ Goto("first", "raised") /\ UNCHANGED bridge
  /\ UNCHANGED <<producer, failure, feed, faults>>

Created ==
  /\ Goto("creating", "opening") /\ Succeeds(CreateCall)
  /\ producer' = "reading"
  /\ Send({AudioCall})
  /\ UNCHANGED <<source, received, failure, feed>>

\* The reader gets 44 bytes only when there is audio.
AudioOpens ==
  /\ Goto("opening", "streaming")
  /\ hop[AudioCall] \in {"flowing", "answered", "done"} /\ reply[AudioCall] # "error"
  /\ feed.spoken # <<>>
  /\ UNCHANGED <<source, received, producer, failure, feed, bridge, faults>>
-----------------------------------------------------------------------------
(* The way to the fallback engine.                                         *)

NoSession ==
  /\ Goto("creating", "draining") /\ Fails(CreateCall)
  /\ UNCHANGED <<source, received, producer, failure, feed, bridge>>

Drain ==
  /\ \/ TakeSentence /\ Goto("draining", "draining")
     \/ EndOfSource("ended") /\ Goto("draining", "fallback")
     \/ EndOfSource("failed") /\ Goto("draining", "raised")
  /\ UNCHANGED <<producer, failure, feed, bridge, faults>>

NoAudio ==
  /\ Goto("opening", "joining")
  /\ \/ Fails(AudioCall)
     \/ reply[AudioCall] = "cut" /\ UNCHANGED faults
  /\ UNCHANGED <<source, received, producer, failure, feed, bridge>>

\* Mutant: the session is left to its deadlines.
JoinedNoDelete ==
  /\ producer = "done"
  /\ IF failure = "other" THEN Goto("joining", "raised") ELSE Goto("joining", "fallback")
  /\ UNCHANGED <<source, received, producer, failure, feed, bridge, faults>>

\* A failure of a kind that is not listed passes through.
Joined ==
  /\ producer = "done"
  /\ IF failure = "other"
     THEN Goto("joining", "raised") /\ UNCHANGED bridge
     ELSE Goto("joining", "discarding") /\ Send({DeleteCall})
  /\ UNCHANGED <<source, received, producer, failure, feed, faults>>

Discarded ==
  /\ Goto("discarding", "fallback")
  /\ Succeeds(DeleteCall) \/ Fails(DeleteCall)
  /\ UNCHANGED <<source, received, producer, failure, feed, bridge>>

Fallback ==
  /\ Goto("fallback", "spoken") \/ Goto("fallback", "raised")
  /\ UNCHANGED <<source, received, producer, failure, feed, bridge, faults>>
-----------------------------------------------------------------------------
(* Audio is being read.                                                    *)

\* Mutant: an interruption passes for the end.
StreamEndsAnyhow ==
  /\ Goto("streaming", "settling") /\ reply[AudioCall] \in {"whole", "cut"}
  /\ UNCHANGED <<source, received, producer, failure, feed, bridge, faults>>

StreamEnds ==
  /\ Goto("streaming", "settling") /\ reply[AudioCall] = "whole"
  /\ UNCHANGED <<source, received, producer, failure, feed, bridge, faults>>

Settled ==
  /\ producer = "done"
  /\ Goto("settling", IF failure = "other" THEN "raised" ELSE "ended")
  /\ UNCHANGED <<source, received, producer, failure, feed, bridge, faults>>

\* The reader hangs up, the stream is cut, or the request times out.
BreakOff ==
  /\ Goto("streaming", "cancelling")
  /\ CancelProducer
  /\ UNCHANGED <<source, received, feed, faults>>

Cancelled ==
  /\ producer = "done"
  /\ IF failure = "other"
     THEN Goto("cancelling", "raised") /\ UNCHANGED bridge
     ELSE Goto("cancelling", "deleting") /\ Send({DeleteCall})
  /\ UNCHANGED <<source, received, producer, failure, feed, faults>>

Deleted ==
  /\ Goto("deleting", "closed")
  /\ Succeeds(DeleteCall) \/ Fails(DeleteCall)
  /\ UNCHANGED <<source, received, producer, failure, feed, bridge>>

\* A generator that is never iterated never runs its finally block.
Drop ==
  /\ Goto("streaming", "dropped")
  /\ UNCHANGED <<source, received, producer, failure, feed, bridge, faults>>

\* Home Assistant cancels the task at an await.  An awaited producer is
\* cancelled with it; one that is not awaited goes on by itself.
Abandon ==
  /\ \/ main \in {"first", "creating", "opening", "draining", "discarding", "fallback",
                  "deleting"}
        /\ main' = "raised" /\ UNCHANGED <<producer, failure, bridge>>
     \/ (Goto("joining", "leaving") \/ Goto("settling", "leaving")) /\ CancelProducer
     \/ Goto("cancelling", "cancelling") /\ CancelProducer
  /\ faults' = TRUE
  /\ UNCHANGED <<source, received, feed>>

Left ==
  /\ Goto("leaving", "raised") /\ producer = "done"
  /\ UNCHANGED <<source, received, producer, failure, feed, bridge, faults>>
-----------------------------------------------------------------------------
(* The runtime: what its calls do to the session, and what it does itself. *)

Live == feed.phase \in {"open", "sealed"}

\* One of the sentences not spoken yet may have left the queue already.
Unspoken == Len(feed.accepted) - Len(feed.spoken)
Room == Unspoken <= MaxQueueSentences
Full == Unspoken >= MaxQueueSentences

Applies(c) ==
  \/ c = CreateCall /\ Session!Opens(feed, feed') /\ feed'.accepted = <<1>>
  \/ \E n \in 2..MaxSentences :
       /\ c = TextCall(n) /\ feed.phase = "open" /\ Room
       /\ feed' = [feed EXCEPT !.accepted = Append(@, n)]
  \/ c = FinishCall /\ Live /\ feed' = [feed EXCEPT !.phase = "sealed"]
  \/ c = DeleteCall /\ Live /\ feed' = [feed EXCEPT !.phase = "broken"]

\* A full queue is answered with 429, a session that is over with 404 or 409.
Refuses(c) ==
  \/ c \in TextCalls /\ (feed.phase # "open" \/ Full)
  \/ c \in {FinishCall, DeleteCall} /\ ~Live

\* The runtime, or its answer, may also be out of reach.
Serve(c) ==
  /\ c # AudioCall
  /\ \/ Applies(c) /\ Answer(c, "ok") /\ UNCHANGED faults
     \/ Applies(c) /\ Answer(c, "error") /\ faults' = TRUE
     \/ Refuses(c) /\ Answer(c, "error") /\ UNCHANGED <<feed, faults>>
     \/ Answer(c, "error") /\ faults' = TRUE /\ UNCHANGED feed
  /\ UNCHANGED taskVars

ServeAudio ==
  /\ \/ Live /\ Begin(AudioCall) /\ UNCHANGED faults
     \/ ~Live /\ Answer(AudioCall, "error") /\ UNCHANGED faults
     \/ Answer(AudioCall, "error") /\ faults' = TRUE
  /\ UNCHANGED <<taskVars, feed>>

\* Only a claimed session is spoken; a stream that was cut is noticed late.
Claimed == hop[AudioCall] = "flowing" \/ reply[AudioCall] = "cut"

Speak ==
  /\ Claimed
  /\ Session!Speaks(feed, feed') \/ Session!Completes(feed, feed')
  /\ UNCHANGED <<taskVars, bridge, faults>>

\* A deadline, a disconnect, a failure of the model or a shutdown.
Break ==
  /\ Session!Breaks(feed, feed')
  /\ UNCHANGED <<taskVars, bridge, faults>>
-----------------------------------------------------------------------------
(* The bridge.                                                             *)

Relay ==
  /\ \/ feed.phase = "completed" /\ Terminate(AudioCall)
     \/ CutOff(AudioCall)
  /\ UNCHANGED <<taskVars, feed, faults>>

Forward(c) ==
  /\ \/ Enter(c) /\ UNCHANGED faults
     \/ TurnAway(c) /\ faults' = TRUE
     \/ Lose(c) /\ faults' = TRUE
     \/ Release(c) /\ UNCHANGED faults
  /\ UNCHANGED <<taskVars, feed>>
-----------------------------------------------------------------------------
ProducerStep == ReadSentence \/ SentencePosted \/ SourceOver \/ Finished
MainStep ==
  \/ FirstSentence \/ Created \/ AudioOpens
  \/ NoSession \/ Drain \/ NoAudio \/ Joined \/ Discarded \/ Fallback
  \/ StreamEnds \/ Settled \/ BreakOff \/ Cancelled \/ Deleted \/ Left
Served    == ServeAudio \/ \E c \in Calls : Serve(c)
Forwarded == \E c \in Calls : Forward(c)

Next ==
  \/ ProducerStep \/ MainStep \/ Drop \/ Abandon
  \/ Served \/ Speak \/ Break
  \/ Relay \/ Forwarded

\* The producer and the task that awaits it run on when what they wait for
\* has come or timed out.  Nothing is assumed of the source, the reader of the
\* audio, the bridge and the runtime.
Fairness ==
  WF_vars(Finished) /\ WF_vars(Cancelled) /\ WF_vars(Deleted)

Spec == Init /\ [][Next]_vars /\ Fairness
-----------------------------------------------------------------------------
(* Properties.                                                             *)

\* The runtime gets the beginning of the reply, in order and without a gap,
\* even from posts that arrive after their caller has given them up.
AcceptedIsPrefix ==
  /\ Len(feed.accepted) <= received
  /\ \A i \in 1..Len(feed.accepted) : feed.accepted[i] = i

\* The fallback engine gets the whole reply, however early the session
\* failed, as far as the source gave it.
FallbackIsWhole == main \in {"fallback", "spoken"} => source # "open"

\* Audio that ends by itself, with no failure of the producer, was the whole
\* reply: a cut stream never passes for a complete one.
EndIsWhole ==
  main = "ended" /\ failure = "none" =>
    source = "ended" /\ Len(feed.spoken) = received

\* A reply that is over leaves no session behind to wait for its deadlines,
\* if none of its calls was lost.
NoOrphan == main \in {"ended", "closed", "spoken"} /\ ~faults => ~Live

\* A reply that is broken off is over soon, even if its source has stalled.
BrokenOffEnds == main = "cancelling" ~> main \in Over

\* With nothing lost, turned away or too long, a reply played to its end has
\* been spoken to its end: posts wait for room in the session's queue.
Backpressure ==
  main = "ended" /\ source = "ended" /\ ~faults => Len(feed.spoken) = received
=============================================================================
