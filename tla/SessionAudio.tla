---------------------------- MODULE SessionAudio ----------------------------
(***************************************************************************)
(* The continuous-synthesis routes of runtime/cosyvoice_server.py over the *)
(* session store: each session's audio response is a generator that takes  *)
(* sentences from the store and runs the model under the one GPU lock,     *)
(* suspended - lock held - every time it yields audio to the client.       *)
(* This is the path for speed 1.0, where the response iterates the model   *)
(* directly.  Buffered requests and the profile warmer appear as one-shot  *)
(* contenders for the lock.  A request's readiness test and its call into  *)
(* the store are one step; StopStore is the shutdown that ends readiness.  *)
(***************************************************************************)
EXTENDS SynthesisSessions

CONSTANTS
  Requests,   \* buffered requests and warm-ups that want the GPU once
  Free,       \* no one holds the GPU lock
  LeadingSilence   \* output_leading_silence_seconds > 0

ASSUME HoldersAssumption ==
  /\ Free \notin Sessions \cup Requests
  /\ Sessions \cap Requests = {}
  /\ LeadingSilence \in BOOLEAN

VARIABLES
  stage,      \* where the audio response of a session stands
  gpu,        \* the holder of the lock
  heard,      \* audio_samples > 0
  late,       \* history: the chunks sent after the session left the store
  outcome,    \* the outcome the response will report, "none" until then
  consumed,   \* profiles.consume(prompt) was called
  request     \* the buffered requests: "waiting", "holding", "done"

audioVars == <<stage, gpu, heard, late, outcome, consumed, request>>
vars == <<storeVars, audioVars>>

Stages == {"none", "opened", "awaiting", "conditioning", "iterating", "waiting",
           "speaking", "opening", "header", "silence", "sending", "paused",
           "closing", "abandoned", "unwinding", "ended"}

\* A chunk of the model is in hand, touched for and not yet sent: the first
\* one waits behind the header and the silence.
InHand == {"opening", "header", "silence", "sending"}

\* The response waits for its reader, inside the yield of what it sent last.
AtYield == {"header", "silence", "paused"}

\* The stages of a response in the middle of a sentence, and of those that
\* own the GPU lock.
Within  == {"speaking", "paused", "abandoned", "unwinding"} \cup InHand
Holding == {"conditioning"} \cup Within

\* The response and the iterator of a session march in step: one response per
\* session, started once, that holds a sentence while it speaks it and has an
\* outcome by the time it cleans up.
Lockstep == \A s \in Sessions :
  /\ stage[s] = "none" <=> ~claimed[s]
  /\ stage[s] \in {"none", "opened", "awaiting", "conditioning"} => iter[s] = "idle"
  /\ stage[s] = "iterating" => iter[s] \notin {"idle", "dead"}
  /\ stage[s] \in {"waiting"} \cup Within => iter[s] = "out"
  /\ stage[s] \in {"closing", "abandoned", "unwinding"} => outcome[s] # "none"

\* Every variable of the routes has its type, and keeps in step with the store.
AudioTypeOK ==
  /\ stage \in [Sessions -> Stages]
  /\ gpu \in Sessions \cup Requests \cup {Free}
  /\ heard \in [Sessions -> BOOLEAN]
  /\ late \in [Sessions -> Nat]
  /\ outcome \in [Sessions -> {"none", "completed", "cancelled", "errors"}]
  /\ consumed \in [Sessions -> BOOLEAN]
  /\ request \in [Requests -> {"waiting", "holding", "done"}]
  /\ Lockstep

Init ==
  /\ StoreInit
  /\ stage = [s \in Sessions |-> "none"]
  /\ gpu = Free
  /\ heard = [s \in Sessions |-> FALSE]
  /\ late = [s \in Sessions |-> 0]
  /\ outcome = [s \in Sessions |-> "none"]
  /\ consumed = [s \in Sessions |-> FALSE]
  /\ request = [r \in Requests |-> "waiting"]

Goto(s, to) == stage' = [stage EXCEPT ![s] = to]
Move(s, from, to) == stage[s] = from /\ Goto(s, to)

\* Mutant: the exception path forgets the lock.
LeaveHoldingLock(s, how) ==
  /\ Goto(s, "closing")
  /\ outcome' = [outcome EXCEPT ![s] = how]
  /\ UNCHANGED <<gpu, heard, late, consumed, request>>

\* An exception leaves the generator, releasing the lock if it was held.
Leave(s, how) ==
  /\ Goto(s, "closing")
  /\ outcome' = [outcome EXCEPT ![s] = how]
  /\ gpu' = IF gpu = s THEN Free ELSE gpu
  /\ UNCHANGED <<heard, late, consumed, request>>
-----------------------------------------------------------------------------
(* The client.                                                             *)

Post(s) ==
  /\ \/ running /\ \E x \in Sentences : Create(s, x)
     \/ \E x \in Sentences : Enqueue(s, x)
     \/ Finish(s)
     \/ Cancel(s)
  /\ UNCHANGED audioVars

GetAudio(s) ==
  /\ running
  /\ ClaimStream(s)
  /\ Goto(s, "opened")
  /\ UNCHANGED <<gpu, heard, late, outcome, consumed, request>>

\* The client goes away before the response body is first asked for: the
\* generator never starts, so nothing of its cleanup runs.
NeverStarted(s) ==
  /\ Move(s, "opened", "ended")
  /\ UNCHANGED <<storeVars, gpu, heard, late, outcome, consumed, request>>

\* The client reads on, and the generator resumes under its lock.  After the
\* header the leading silence goes out, if there is one.
Read(s) ==
  /\ \/ Move(s, "header", IF LeadingSilence THEN "silence" ELSE "sending")
     \/ Move(s, "silence", "sending")
     \/ Move(s, "paused", "speaking")
  /\ UNCHANGED <<storeVars, gpu, heard, late, outcome, consumed, request>>

\* Mutant: a disconnect gives the lock back before the generator is gone.
DisconnectReleasing(s) ==
  /\ stage[s] \in AtYield
  /\ Goto(s, "abandoned")
  /\ gpu' = Free
  /\ outcome' = [outcome EXCEPT ![s] = "cancelled"]
  /\ UNCHANGED <<storeVars, heard, late, consumed, request>>

\* GeneratorExit at the yield.  The lock is still held while finally runs.
Disconnect(s) ==
  /\ stage[s] \in AtYield
  /\ Goto(s, "abandoned")
  /\ outcome' = [outcome EXCEPT ![s] = "cancelled"]
  /\ UNCHANGED <<storeVars, gpu, heard, late, consumed, request>>
-----------------------------------------------------------------------------
(* The audio response.                                                     *)

Start(s) ==
  /\ Move(s, "opened", "awaiting")
  /\ UNCHANGED <<storeVars, gpu, heard, late, outcome, consumed, request>>

\* The lock, then the touch that follows it, for conditioning and for each
\* sentence.
Acquire(s) ==
  /\ gpu = Free
  /\ Move(s, "awaiting", "conditioning") \/ Move(s, "waiting", "speaking")
  /\ Touch(s)
  /\ gpu' = s
  /\ UNCHANGED <<heard, late, outcome, consumed, request>>

Conditioned(s) ==
  /\ Move(s, "conditioning", "iterating")
  /\ IterStart(s)
  /\ gpu' = Free
  /\ UNCHANGED <<heard, late, outcome, consumed, request>>

Iterate(s) ==
  /\ stage[s] = "iterating"
  /\ IterCheck(s) \/ IterGet(s) \/ IterTimeout(s) \/ IterTake(s)
  /\ UNCHANGED audioVars

IterateRaises(s) ==
  /\ stage[s] = "iterating"
  /\ IterRaise(s)
  /\ Leave(s, "cancelled")

BeginSentence(s) ==
  /\ stage[s] = "iterating" /\ iter[s] = "out"
  /\ Touch(s)
  /\ Goto(s, "waiting")
  /\ UNCHANGED <<gpu, heard, late, outcome, consumed, request>>

\* Mutant: no touch between chunks.
TakeChunkUnchecked(s) ==
  /\ Move(s, "speaking", IF heard[s] THEN "sending" ELSE "opening")
  /\ heard' = [heard EXCEPT ![s] = TRUE]
  /\ UNCHANGED <<storeVars, gpu, late, outcome, consumed, request>>

\* The model yields a chunk, and the session is touched.  session_wav pulls
\* the first one before it sends anything.
TakeChunk(s) ==
  /\ Move(s, "speaking", IF heard[s] THEN "sending" ELSE "opening")
  /\ Touch(s)
  /\ heard' = [heard EXCEPT ![s] = TRUE]
  /\ UNCHANGED <<gpu, late, outcome, consumed, request>>

SendHeader(s) ==
  /\ Move(s, "opening", "header")
  /\ UNCHANGED <<storeVars, gpu, heard, late, outcome, consumed, request>>

\* The chunk in hand goes out, whatever has become of its session.
SendChunk(s) ==
  /\ Move(s, "sending", "paused")
  /\ late' = IF where[s] = "live" THEN late ELSE [late EXCEPT ![s] = @ + 1]
  /\ UNCHANGED <<storeVars, gpu, heard, outcome, consumed, request>>

\* The model is done with the sentence: release, touch, next sentence.
EndSentence(s) ==
  /\ Move(s, "speaking", "iterating")
  /\ IterResume(s)
  /\ gpu' = Free
  /\ UNCHANGED <<heard, late, outcome, consumed, request>>

\* The places where the response calls touch.
AtTouch(s) ==
  \/ stage[s] \in {"awaiting", "waiting"} /\ gpu = Free
  \/ stage[s] = "iterating" /\ iter[s] = "out"
  \/ stage[s] = "speaking"

\* touch raises SessionNotFound: deleted, expired or shut down meanwhile.
LoseSession(s) ==
  /\ AtTouch(s)
  /\ s \notin Active
  /\ ExpireLocked
  /\ iter' = IF iter[s] = "out" THEN [iter EXCEPT ![s] = "dead"] ELSE iter
  /\ UNCHANGED <<text, flags, clocks, hand, spoken, running>>
  /\ Leave(s, "cancelled")

\* Conditioning, the model, or consume raises; or no audio came out at all.
Fail(s) ==
  /\ \/ stage[s] \in {"conditioning", "speaking"}
     \/ stage[s] = "iterating" /\ iter[s] = "end"
  /\ iter' = IF iter[s] = "out" THEN [iter EXCEPT ![s] = "dead"] ELSE iter
  /\ UNCHANGED <<registry, text, flags, clocks, hand, spoken, running>>
  /\ Leave(s, "errors")

ConsumePreview(s) ==
  /\ stage[s] = "iterating" /\ iter[s] = "end"
  /\ heard[s]
  /\ consumed' = [consumed EXCEPT ![s] = TRUE]
  /\ outcome' = [outcome EXCEPT ![s] = "completed"]
  /\ Goto(s, "closing")
  /\ UNCHANGED <<storeVars, gpu, heard, late, request>>

\* The finally block.  An abandoned response still has the suspended model
\* generator, and with it the lock, until its frame goes away.
Close(s) ==
  /\ stage[s] \in {"closing", "abandoned"}
  /\ Cleanup(s, outcome[s])
  /\ Move(s, "closing", "ended") \/ Move(s, "abandoned", "unwinding")
  /\ UNCHANGED <<gpu, heard, late, outcome, consumed, request>>

Unwind(s) ==
  /\ stage[s] = "unwinding"
  /\ gpu' = Free
  /\ Goto(s, "ended")
  /\ iter' = [iter EXCEPT ![s] = "dead"]
  /\ UNCHANGED <<registry, text, flags, clocks, hand, spoken, running, heard, late, outcome,
                 consumed, request>>
-----------------------------------------------------------------------------
(* The other users of the GPU, and the store's own threads.                *)

RequestAcquires(r) ==
  /\ request[r] = "waiting" /\ gpu = Free
  /\ gpu' = r
  /\ request' = [request EXCEPT ![r] = "holding"]
  /\ UNCHANGED <<storeVars, stage, heard, late, outcome, consumed>>

RequestReleases(r) ==
  /\ request[r] = "holding"
  /\ gpu' = Free
  /\ request' = [request EXCEPT ![r] = "done"]
  /\ UNCHANGED <<storeVars, stage, heard, late, outcome, consumed>>

Reap     == (Janitor \/ Snapshot) /\ UNCHANGED audioVars
Shutdown == StopStore /\ UNCHANGED audioVars
Time     == Tick /\ UNCHANGED audioVars

AudioStep(s) ==
  \/ Start(s) \/ Acquire(s) \/ Conditioned(s) \/ Iterate(s) \/ IterateRaises(s)
  \/ BeginSentence(s) \/ TakeChunk(s) \/ SendHeader(s) \/ SendChunk(s)
  \/ EndSentence(s) \/ LoseSession(s) \/ Fail(s) \/ ConsumePreview(s) \/ Close(s) \/ Unwind(s)

ClientStep(s) == Post(s) \/ GetAudio(s) \/ NeverStarted(s) \/ Read(s) \/ Disconnect(s)

Next ==
  \/ \E s \in Sessions : ClientStep(s) \/ AudioStep(s)
  \/ \E r \in Requests : RequestAcquires(r) \/ RequestReleases(r)
  \/ Reap \/ Shutdown \/ Time

\* Threads of the server run on, model runs end, and time passes.  Nothing
\* is assumed of the client, nor of who wins the lock.
ServerFairness ==
  /\ \A s \in Sessions : WF_vars(AudioStep(s))
  /\ \A r \in Requests : WF_vars(RequestReleases(r))
  /\ WF_vars(Reap)
  /\ WF_vars(Time)

Spec == Init /\ [][Next]_vars /\ ServerFairness

\* A client that was sent audio reads on or hangs up: assumed where it is said.
ReadersGoOn == \A s \in Sessions : WF_vars(Read(s) \/ Disconnect(s))
-----------------------------------------------------------------------------
(* Properties.                                                             *)

\* The GPU lock is held by exactly the response or request that stands where
\* the code holds it: no exception, disconnect, expiry or shutdown leaks it,
\* and none releases a lock it does not own.
LockDiscipline ==
  /\ \A s \in Sessions : gpu = s <=> stage[s] \in Holding
  /\ \A r \in Requests : gpu = r <=> request[r] = "holding"

\* A one-shot preview is consumed, and a session reported or counted as
\* completed, only if the client sealed it and heard every sentence of it:
\* no enqueue slips in between the iterator's end and the completion.
CompletionIsHonest == \A s \in Sessions :
  consumed[s] \/ outcome[s] = "completed" \/ where[s] = "completed" =>
    finished[s] /\ heard[s] /\ spoken[s] = accepted[s]

\* A session that a DELETE, a deadline or shutdown has removed is not spoken
\* on: at most the chunk that was in hand still goes out, even if the header
\* and the silence before it keep it waiting for its reader.
OneChunkLate == \A s \in Sessions : late[s] <= 1

\* What the client is promised (module SentenceFeed).
Phase(s) ==
  CASE where[s] = "new"       -> "absent"
    [] where[s] = "live"      -> IF finished[s] THEN "sealed" ELSE "open"
    [] where[s] = "completed" -> "completed"
    [] OTHER                  -> "broken"

Feed == INSTANCE SentenceFeed WITH
  feed <- [s \in Sessions |->
             [phase |-> Phase(s), accepted |-> accepted[s], spoken |-> spoken[s]]]

\* Every run of the store, the routes and their races is a run of the feed
\* the client was promised.
FeedSpec == Feed!Spec

\* Every session leaves the store, whatever its client and its stream do:
\* capacity comes back even from a reader that stalls holding the GPU lock.
SessionsLeave == \A s \in Sessions : where[s] = "live" ~> where[s] # "live"

\* Once the response body is being produced it ends, if its readers read or
\* hang up: the lock does not deadlock responses against each other, and an
\* idle or expired session does not strand its response.
StreamsEnd == ReadersGoOn => \A s \in Sessions : stage[s] = "awaiting" ~> stage[s] = "ended"

\* A session that has left the store gives the GPU lock back: its deadlines
\* bound what a slow reader can hold, as the deployment plan asks.
DeadlinesFreeLock == \A s \in Sessions :
  gpu = s /\ where[s] = "timed_out" ~> gpu # s
=============================================================================
