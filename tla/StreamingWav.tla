---------------------------- MODULE StreamingWav ----------------------------
(***************************************************************************)
(* The audio response of /synthesize-stream: iter_streaming_wav            *)
(* (runtime/streaming_audio.py) over the model's generator.  At speed 1.0  *)
(* the client's reads drive the generator; at other speeds a producer      *)
(* thread drives it, and ffmpeg stands between.                            *)
(***************************************************************************)
EXTENDS UpstreamGuard

CONSTANTS
  Adjusted,    \* the requests with a speed other than 1.0
  PipeChunks   \* what ffmpeg and the pipes on its two sides hold

ASSUME WavAssumption == Adjusted \subseteq Requests /\ PipeChunks \in Nat \ {0}

VARIABLES
  body,       \* where the response's iterator stands
  verdict,    \* how it ends, decided before its finally block
  heard,      \* the chunks the client was given
  writing,    \* the producer is in its write, past the look at the event
  decoder,    \* the ffmpeg process
  piped,      \* chunks in its pipes
  closed,     \* its stdin is closed
  stopped,    \* the event
  failures    \* whether the queue of failures holds one

bodyVars   == <<body, verdict, heard>>
ffmpegVars == <<writing, decoder, piped, closed, stopped, failures>>
vars == <<guardVars, bodyVars, ffmpegVars>>

BodyOver == {"ended", "failed", "closed"}
Places   == {"opened", "header", "reading", "paused", "joining", "stopping"} \cup BodyOver

\* Every variable has its type, and the GPU lock its owner.
StreamTypeOK ==
  /\ GuardTypeOK
  /\ body \in [Requests -> Places] /\ verdict \in [Requests -> BodyOver]
  /\ heard \in [Requests -> 0..MaxChunks]
  /\ decoder \in [Requests -> {"none", "running", "exited", "crashed", "killed"}]
  /\ piped \in [Requests -> 0..PipeChunks]
  /\ {writing, closed, stopped, failures} \subseteq [Requests -> BOOLEAN]
  /\ \A r \in Requests : writing[r] => r \in Adjusted /\ gen[r] = "yielding"
  /\ \A r \in Requests \ Adjusted :
       /\ gen[r] \in {"waiting", "generating", "finishing"} => body[r] = "reading"
       /\ gen[r] = "yielding" => body[r] = "paused"

Init ==
  /\ GuardInit
  /\ body = [r \in Requests |-> "opened"] /\ verdict = [r \in Requests |-> "ended"]
  /\ heard = [r \in Requests |-> 0]
  /\ writing = [r \in Requests |-> FALSE]
  /\ decoder = [r \in Requests |-> "none"]
  /\ piped = [r \in Requests |-> 0]
  /\ closed = [r \in Requests |-> FALSE] /\ stopped = [r \in Requests |-> FALSE]
  /\ failures = [r \in Requests |-> FALSE]

Body(r, at) == body' = [body EXCEPT ![r] = at]
Hears(r)    == heard' = [heard EXCEPT ![r] = @ + 1]
Judged(r, v) == Body(r, "stopping") /\ verdict' = [verdict EXCEPT ![r] = v]
Running(r)  == decoder[r] = "running"
-----------------------------------------------------------------------------
(* The client.                                                             *)

\* The first read gets the header: nothing has been started yet.
ReadHeader(r) ==
  /\ body[r] = "opened" /\ Body(r, "header")
  /\ UNCHANGED <<guardVars, verdict, heard, ffmpegVars>>

\* The second one starts ffmpeg, or finds that it cannot be.
Start(r) ==
  /\ body[r] = "header"
  /\ \/ Enter(r) /\ Body(r, "reading")
        /\ decoder' = [decoder EXCEPT ![r] = IF r \in Adjusted THEN "running" ELSE "none"]
     \/ r \in Adjusted /\ Body(r, "failed") /\ UNCHANGED <<gen, decoder>>
  /\ UNCHANGED <<gpu, made, llm, flag, errors, verdict, heard, writing, piped, closed, stopped, failures>>

Read(r) ==
  /\ body[r] = "paused" /\ Body(r, "reading")
  /\ IF r \in Adjusted THEN UNCHANGED gen ELSE Resume(r)
  /\ UNCHANGED <<gpu, made, llm, flag, errors, verdict, heard, ffmpegVars>>

\* At speed 1.0 the model's generator goes with the response; otherwise the
\* producer keeps it.
HangUp(r) ==
  /\ \/ body[r] \in {"opened", "header"} /\ Body(r, "closed") /\ UNCHANGED <<guardVars, verdict>>
     \/ body[r] = "paused" /\ r \in Adjusted /\ Judged(r, "closed") /\ UNCHANGED guardVars
     \/ body[r] = "paused" /\ r \notin Adjusted /\ Body(r, "closed") /\ Close(r)
        /\ UNCHANGED verdict
  /\ UNCHANGED <<heard, ffmpegVars>>
-----------------------------------------------------------------------------
(* The generator is driven.                                                *)

Raises(r) == ModelFails(r) \/ ConditioningFails(r)

Works(r) == (Acquire(r) \/ Exhaust(r)) /\ UNCHANGED <<bodyVars, ffmpegVars>>

\* At speed 1.0, by the client's read.
DirectYield(r) ==
  /\ r \notin Adjusted /\ Yield(r)
  /\ Body(r, "paused") /\ Hears(r)
  /\ UNCHANGED <<verdict, ffmpegVars>>

DirectEnds(r) ==
  /\ r \notin Adjusted
  /\ Finish(r) \/ Raises(r)
  /\ Body(r, IF gen'[r] = "done" THEN "ended" ELSE "failed")
  /\ UNCHANGED <<verdict, heard, ffmpegVars>>

\* At other speeds, by the producer thread.
Produce(r) ==
  /\ r \in Adjusted /\ Yield(r)
  /\ UNCHANGED <<bodyVars, ffmpegVars>>

\* The event is looked at before the chunk is written.  Once it is set the
\* rest of the generation is drained.
Look(r) ==
  /\ r \in Adjusted /\ gen[r] = "yielding" /\ ~writing[r]
  /\ IF stopped[r] THEN Resume(r) /\ UNCHANGED writing
                   ELSE writing' = [writing EXCEPT ![r] = TRUE] /\ UNCHANGED gen
  /\ UNCHANGED <<gpu, made, llm, flag, errors, bodyVars, decoder, piped, closed, stopped, failures>>

\* The write waits for room, and fails if there is no decoder.
Write(r) ==
  /\ writing[r] /\ writing' = [writing EXCEPT ![r] = FALSE]
  /\ Resume(r)
  /\ \/ /\ Running(r) /\ piped[r] < PipeChunks
        /\ piped' = [piped EXCEPT ![r] = @ + 1]
        /\ UNCHANGED stopped
     \/ /\ ~Running(r)
        /\ stopped' = [stopped EXCEPT ![r] = TRUE]
        /\ UNCHANGED piped
  /\ UNCHANGED <<gpu, made, llm, flag, errors, bodyVars, decoder, closed, failures>>

ProducerEnds(r) ==
  /\ r \in Adjusted
  /\ Finish(r) \/ Raises(r)
  /\ failures' = [failures EXCEPT ![r] = gen'[r] = "raised"]
  /\ UNCHANGED <<bodyVars, writing, decoder, piped, closed, stopped>>

CloseStdin(r) ==
  /\ r \in Adjusted /\ gen[r] \in GenOver /\ ~closed[r]
  /\ closed' = [closed EXCEPT ![r] = TRUE]
  /\ UNCHANGED <<guardVars, bodyVars, writing, decoder, piped, stopped, failures>>
-----------------------------------------------------------------------------
(* ffmpeg.                                                                 *)

\* Its input is closed, and it has written the last of its output.
DecoderExits(r) ==
  /\ Running(r) /\ closed[r]
  /\ decoder' = [decoder EXCEPT ![r] = "exited"]
  /\ UNCHANGED <<guardVars, bodyVars, writing, piped, closed, stopped, failures>>

\* What was on its way to it is lost.
DecoderCrashes(r) ==
  /\ Running(r)
  /\ decoder' = [decoder EXCEPT ![r] = "crashed"]
  /\ \E left \in 0..piped[r] : piped' = [piped EXCEPT ![r] = left]
  /\ UNCHANGED <<guardVars, bodyVars, writing, closed, stopped, failures>>
-----------------------------------------------------------------------------
(* The response's iterator, at speeds other than 1.0.                      *)

ReadChunk(r) ==
  /\ r \in Adjusted /\ body[r] = "reading" /\ piped[r] > 0
  /\ piped' = [piped EXCEPT ![r] = @ - 1]
  /\ Body(r, "paused") /\ Hears(r)
  /\ UNCHANGED <<guardVars, verdict, writing, decoder, closed, stopped, failures>>

EndOfAudio(r) ==
  /\ r \in Adjusted /\ body[r] = "reading" /\ ~Running(r) /\ piped[r] = 0
  /\ Body(r, "joining")
  /\ UNCHANGED <<guardVars, verdict, heard, ffmpegVars>>

\* Mutant: the producer's failures are not looked at.
JudgeByExitCode(r) ==
  /\ body[r] = "joining"
  /\ Judged(r, IF decoder[r] = "crashed" /\ ~stopped[r] THEN "failed" ELSE "ended")
  /\ UNCHANGED <<guardVars, heard, ffmpegVars>>

\* The producer has been joined, or five seconds have passed.
Judge(r) ==
  /\ body[r] = "joining"
  /\ Judged(r, IF failures[r] \/ (decoder[r] = "crashed" /\ ~stopped[r]) THEN "failed" ELSE "ended")
  /\ UNCHANGED <<guardVars, heard, ffmpegVars>>

\* Mutant: ffmpeg is neither ended nor are its pipes closed.
StopKeepsDecoder(r) ==
  /\ body[r] = "stopping"
  /\ Body(r, verdict[r])
  /\ stopped' = [stopped EXCEPT ![r] = TRUE]
  /\ UNCHANGED <<guardVars, verdict, heard, writing, decoder, piped, closed, failures>>

\* The finally block: the event is set, and ffmpeg ended one way or another.
\* The producer is joined for a second at most.
Stop(r) ==
  /\ body[r] = "stopping"
  /\ Body(r, verdict[r])
  /\ stopped' = [stopped EXCEPT ![r] = TRUE]
  /\ decoder' = [decoder EXCEPT ![r] = IF Running(r) THEN "killed" ELSE @]
  /\ piped' = [piped EXCEPT ![r] = 0]
  /\ UNCHANGED <<guardVars, verdict, heard, writing, closed, failures>>
-----------------------------------------------------------------------------
Client(r)   == ReadHeader(r) \/ Start(r) \/ Read(r) \/ HangUp(r)
Ends(r)     == DirectEnds(r) \/ ProducerEnds(r)
Thread(r)   == Works(r) \/ DirectYield(r) \/ Produce(r) \/ Look(r) \/ Write(r) \/ Ends(r)
Model(r)    == Llm(r) /\ UNCHANGED <<bodyVars, ffmpegVars>>
Iterator(r) == ReadChunk(r) \/ EndOfAudio(r) \/ Judge(r) \/ Stop(r)

Next == \E r \in Requests :
  \/ Client(r) \/ Thread(r) \/ Model(r)
  \/ CloseStdin(r) \/ DecoderExits(r) \/ DecoderCrashes(r) \/ Iterator(r)

\* The threads, the model and ffmpeg run on.  That a generator does not spin is
\* not to be had from an exception, which nothing makes happen.
Fairness == \A r \in Requests :
  /\ WF_vars(Thread(r) /\ ~Raises(r)) /\ WF_vars(Model(r)) /\ WF_vars(CloseStdin(r))
  /\ WF_vars(DecoderExits(r)) /\ WF_vars(Iterator(r))

Spec == Init /\ [][Next]_vars /\ Fairness

\* A client that was sent audio reads on or hangs up.
ReadersGoOn == \A r \in Requests : WF_vars(Read(r) \/ HangUp(r))
-----------------------------------------------------------------------------
(* Properties.                                                             *)

\* A response that ends by itself gave its client all there is: neither a
\* failure of the model nor one of the producer thread passes for the end.  A
\* crash of ffmpeg may, once the producer has met the broken pipe.
CleanEndIsWhole == \A r \in Requests :
  body[r] = "ended" /\ decoder[r] # "crashed" => gen[r] = "done" /\ heard[r] = made[r]

\* A generation gives the GPU lock back, if the readers read on or hang up:
\* a language model that dies does not leave its generator spinning.
LockComesBack == ReadersGoOn => \A r \in Requests : gpu = r ~> gpu # r

\* A response that is over does not keep the GPU lock, whatever its reader
\* did: its producer drains the generation even if ffmpeg is gone, or full.
OverFreesLock == \A r \in Requests :
  gpu = r /\ body[r] \in BodyOver ~> gpu # r
=============================================================================
