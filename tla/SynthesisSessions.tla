------------------------- MODULE SynthesisSessions -------------------------
(***************************************************************************)
(* The session store of the synthesis runtime                              *)
(* (runtime/synthesis_sessions.py): short-lived sessions, each a bounded   *)
(* queue of sentences that HTTP handlers fill and one sentence iterator    *)
(* drains, reaped by deadline, by DELETE, or by the audio stream that      *)
(* used them up.                                                           *)
(*                                                                         *)
(* Every action but IterGet is one critical section of the store's lock;   *)
(* IterGet is the Queue.get the iterator performs outside the lock, on the *)
(* session object it kept.  A call that raises changes nothing but the     *)
(* expiry it ran first: it is a step of Snapshot, or no step at all.       *)
(* The counters of refused calls (rejected_queue and its like) are left    *)
(* out.                                                                    *)
(***************************************************************************)
EXTENDS Integers, Sequences, FiniteSets, Functions

CONSTANTS
  Sessions,           \* the session ids token_urlsafe can draw
  Sentences,          \* the sentences a client can send
  Bytes,              \* their UTF-8 length once normalized
  MaxSessions, MaxQueueSentences, MaxTextBytes,
  IdleTimeout, TotalTimeout   \* in clock ticks

\* __post_init__ refuses anything else; a normalized sentence is never empty.
ASSUME LimitsAssumption ==
  /\ IsFiniteSet(Sessions)
  /\ Bytes \in [Sentences -> Nat \ {0}]
  /\ {MaxSessions, MaxQueueSentences, MaxTextBytes} \subseteq Nat \ {0}
  /\ {IdleTimeout, TotalTimeout} \subseteq Nat \ {0}

VARIABLES
  where,        \* "new", "live" (a key of _sessions), or how it left the store
  stats,        \* _stats
  queue, queuedBytes, totalBytes,
  finished, claimed,
  idle, age,    \* ticks since last_activity_at and since created_at
  iter,         \* where iter_sentences stands for this session
  hand,         \* the iterator's local "sentence"
  running,      \* the janitor thread is running
  accepted,     \* history: the sentences the store took, in order
  spoken        \* history: the sentences whose consumer came back for more

registry == <<where, stats>>
text     == <<queue, queuedBytes, totalBytes, accepted>>
flags    == <<finished, claimed>>
clocks   == <<idle, age>>
reader   == <<iter, hand, spoken>>
storeVars == <<registry, text, flags, clocks, reader, running>>

Outcomes == {"completed", "cancelled", "errors", "timed_out"}
Counters == Outcomes \cup {"created"}
IterStates == {"idle", "check", "wait", "got", "out", "end", "dead"}

RegistryOK ==
  /\ where \in [Sessions -> {"new", "live"} \cup Outcomes]
  /\ stats \in [Counters -> Nat]

TextOK ==
  /\ queue \in [Sessions -> Seq(Sentences)]
  /\ accepted \in [Sessions -> Seq(Sentences)]
  /\ \A s \in Sessions : Len(queue[s]) <= MaxQueueSentences
  /\ queuedBytes \in [Sessions -> Int]
  /\ totalBytes \in [Sessions -> 0..MaxTextBytes]

ClocksOK ==
  /\ idle \in [Sessions -> 0..IdleTimeout]
  /\ age \in [Sessions -> 0..TotalTimeout]

ReaderOK ==
  /\ iter \in [Sessions -> IterStates]
  /\ hand \in [Sessions -> Seq(Sentences)]
  /\ spoken \in [Sessions -> Seq(Sentences)]
  /\ \A s \in Sessions : Len(hand[s]) <= 1

FlagsOK ==
  /\ finished \in [Sessions -> BOOLEAN]
  /\ claimed \in [Sessions -> BOOLEAN]
  /\ running \in BOOLEAN

\* Every variable has its type, and the bounds that README.md and the
\* deployment plan state for a session's queue and retained text hold.
TypeOK == RegistryOK /\ TextOK /\ ClocksOK /\ ReaderOK /\ FlagsOK

Every(v) == [s \in Sessions |-> v]

StoreInit ==
  /\ where = Every("new") /\ stats = [c \in Counters |-> 0]
  /\ queue = Every(<<>>) /\ queuedBytes = Every(0) /\ totalBytes = Every(0)
  /\ finished = Every(FALSE) /\ claimed = Every(FALSE)
  /\ idle = Every(0) /\ age = Every(0)
  /\ iter = Every("idle") /\ hand = Every(<<>>)
  /\ running = TRUE
  /\ accepted = Every(<<>>) /\ spoken = Every(<<>>)
-----------------------------------------------------------------------------
(* Expiry: what every call that looks a session up does first.             *)

Live   == {s \in Sessions : where[s] = "live"}
\* Mutant: a session that is being spoken is left alone.
LapsedUnclaimed ==
  {s \in Live : ~claimed[s] /\ (age[s] >= TotalTimeout \/ idle[s] >= IdleTimeout)}

Lapsed == {s \in Live : age[s] >= TotalTimeout \/ idle[s] >= IdleTimeout}
Active == Live \ Lapsed

\* The registry as _expire_locked leaves it.
Reaped      == [s \in Sessions |-> IF s \in Lapsed THEN "timed_out" ELSE where[s]]
ReapedStats == [stats EXCEPT !["timed_out"] = @ + Cardinality(Lapsed)]

ExpireLocked == where' = Reaped /\ stats' = ReapedStats

\* _cleanup_locked: a session leaves the store, and is counted, once.
CleanupLocked(s, outcome) ==
  /\ where' = [where EXCEPT ![s] = outcome]
  /\ stats' = [stats EXCEPT ![outcome] = @ + 1]

Touched(s) == idle' = [idle EXCEPT ![s] = 0] /\ UNCHANGED age
-----------------------------------------------------------------------------
(* The calls of the HTTP handlers.                                         *)

\* Mutant: off by one in the capacity test.
CreateOneTooMany(s, x) ==
  /\ where[s] = "new" /\ Cardinality(Active) <= MaxSessions
  /\ where' = [Reaped EXCEPT ![s] = "live"]
  /\ stats' = [ReapedStats EXCEPT !["created"] = @ + 1]
  /\ UNCHANGED <<text, flags, clocks, reader, running>>

Create(s, x) ==
  /\ where[s] = "new"
  /\ Bytes[x] <= MaxTextBytes
  /\ Cardinality(Active) < MaxSessions
  /\ where' = [Reaped EXCEPT ![s] = "live"]
  /\ stats' = [ReapedStats EXCEPT !["created"] = @ + 1]
  /\ queue' = [queue EXCEPT ![s] = <<x>>]
  /\ queuedBytes' = [queuedBytes EXCEPT ![s] = Bytes[x]]
  /\ totalBytes' = [totalBytes EXCEPT ![s] = Bytes[x]]
  /\ accepted' = [accepted EXCEPT ![s] = <<x>>]
  /\ UNCHANGED <<flags, clocks, reader, running>>

\* The part of enqueue that follows its tests.
Put(s, x) ==
  /\ ExpireLocked
  /\ queue' = [queue EXCEPT ![s] = Append(@, x)]
  /\ queuedBytes' = [queuedBytes EXCEPT ![s] = @ + Bytes[x]]
  /\ totalBytes' = [totalBytes EXCEPT ![s] = @ + Bytes[x]]
  /\ accepted' = [accepted EXCEPT ![s] = Append(@, x)]
  /\ Touched(s)
  /\ UNCHANGED <<flags, reader, running>>

\* Mutant: the text limit is tested before the new sentence is added.
EnqueueOverLimit(s, x) ==
  /\ s \in Active /\ ~finished[s]
  /\ totalBytes[s] <= MaxTextBytes /\ Len(queue[s]) < MaxQueueSentences
  /\ Put(s, x)

\* Mutant: finish does not close the session to more text.
EnqueueAfterFinish(s, x) ==
  /\ s \in Active /\ totalBytes[s] + Bytes[x] <= MaxTextBytes
  /\ Len(queue[s]) < MaxQueueSentences
  /\ Put(s, x)

Enqueue(s, x) ==
  /\ s \in Active
  /\ ~finished[s]
  /\ totalBytes[s] + Bytes[x] <= MaxTextBytes
  /\ Len(queue[s]) < MaxQueueSentences
  /\ Put(s, x)

\* finish may be called again: the flag only ever becomes true.
Finish(s) ==
  /\ s \in Active
  /\ ExpireLocked
  /\ finished' = [finished EXCEPT ![s] = TRUE]
  /\ Touched(s)
  /\ UNCHANGED <<text, claimed, reader, running>>

\* Mutant: a claimed stream can be claimed again.
ClaimTwice(s) ==
  /\ s \in Active
  /\ ExpireLocked
  /\ claimed' = [claimed EXCEPT ![s] = TRUE]
  /\ Touched(s)
  /\ UNCHANGED <<text, finished, reader, running>>

ClaimStream(s) ==
  /\ s \in Active
  /\ ~claimed[s]
  /\ ExpireLocked
  /\ claimed' = [claimed EXCEPT ![s] = TRUE]
  /\ Touched(s)
  /\ UNCHANGED <<text, finished, reader, running>>

\* DELETE does not run expiry: it removes even a session past its deadline.
Cancel(s) ==
  /\ s \in Live
  /\ CleanupLocked(s, "cancelled")
  /\ UNCHANGED <<text, flags, clocks, reader, running>>

-----------------------------------------------------------------------------
(* The calls of the audio stream.                                          *)

Touch(s) ==
  /\ s \in Active
  /\ ExpireLocked
  /\ Touched(s)
  /\ UNCHANGED <<text, flags, reader, running>>

\* Mutant: the outcome is counted even for a session already removed.
CleanupCountsTwice(s, outcome) ==
  /\ CleanupLocked(s, outcome)
  /\ UNCHANGED <<text, flags, clocks, reader, running>>

\* The stream's last call; it may find the session already removed.
Cleanup(s, outcome) ==
  /\ IF s \in Live THEN CleanupLocked(s, outcome) ELSE UNCHANGED registry
  /\ UNCHANGED <<text, flags, clocks, reader, running>>

\* The for statement of the audio stream calls iter_sentences.
IterStart(s) ==
  /\ claimed[s] /\ iter[s] = "idle"
  /\ iter' = [iter EXCEPT ![s] = "check"]
  /\ UNCHANGED <<registry, text, flags, clocks, hand, spoken, running>>

IterCheck(s) ==
  /\ iter[s] = "check" /\ s \in Active
  /\ ExpireLocked
  /\ iter' = [iter EXCEPT ![s] =
                IF finished[s] /\ queue[s] = <<>> THEN "end" ELSE "wait"]
  /\ UNCHANGED <<text, flags, clocks, hand, spoken, running>>

\* Mutant: the newest sentence comes out first.
IterGetNewest(s) ==
  /\ iter[s] = "wait" /\ queue[s] # <<>>
  /\ hand' = [hand EXCEPT ![s] = <<queue[s][Len(queue[s])]>>]
  /\ queue' = [queue EXCEPT ![s] = SubSeq(@, 1, Len(@) - 1)]
  /\ iter' = [iter EXCEPT ![s] = "got"]
  /\ UNCHANGED <<registry, queuedBytes, totalBytes, accepted, flags, clocks, spoken, running>>

\* Queue.get returns a sentence; the store's lock is not held.
IterGet(s) ==
  /\ iter[s] = "wait" /\ queue[s] # <<>>
  /\ hand' = [hand EXCEPT ![s] = <<Head(queue[s])>>]
  /\ queue' = [queue EXCEPT ![s] = Tail(@)]
  /\ iter' = [iter EXCEPT ![s] = "got"]
  /\ UNCHANGED <<registry, queuedBytes, totalBytes, accepted, flags, clocks, spoken, running>>

\* Queue.get timed out, and the session is still there.
IterTimeout(s) ==
  /\ iter[s] = "wait" /\ queue[s] = <<>> /\ s \in Active
  /\ ExpireLocked
  /\ iter' = [iter EXCEPT ![s] = "check"]
  /\ UNCHANGED <<text, flags, clocks, hand, spoken, running>>

\* Mutant: the sentence leaves the queue unaccounted.
IterTakeUnaccounted(s) ==
  /\ iter[s] = "got" /\ s \in Active
  /\ ExpireLocked
  /\ Touched(s)
  /\ iter' = [iter EXCEPT ![s] = "out"]
  /\ UNCHANGED <<text, flags, hand, spoken, running>>

\* The bookkeeping after Queue.get, then the yield.
IterTake(s) ==
  /\ iter[s] = "got" /\ s \in Active
  /\ ExpireLocked
  /\ queuedBytes' = [queuedBytes EXCEPT ![s] = @ - Bytes[Head(hand[s])]]
  /\ Touched(s)
  /\ iter' = [iter EXCEPT ![s] = "out"]
  /\ UNCHANGED <<queue, totalBytes, accepted, flags, hand, spoken, running>>

\* The consumer asks for the next sentence: it is done with this one.  The
\* touch that the audio stream makes just before is part of the step.
IterResume(s) ==
  /\ iter[s] = "out" /\ s \in Active
  /\ ExpireLocked
  /\ Touched(s)
  /\ spoken' = [spoken EXCEPT ![s] = @ \o hand[s]]
  /\ hand' = [hand EXCEPT ![s] = <<>>]
  /\ iter' = [iter EXCEPT ![s] = "check"]
  /\ UNCHANGED <<text, flags, running>>

\* One of the iterator's lookups raises SessionNotFound.
IterRaise(s) ==
  /\ \/ iter[s] \in {"check", "got"}
     \/ iter[s] = "wait" /\ queue[s] = <<>>
  /\ s \notin Active
  /\ ExpireLocked
  /\ iter' = [iter EXCEPT ![s] = "dead"]
  /\ UNCHANGED <<text, flags, clocks, hand, spoken, running>>

\* The consumer drops the generator while it is suspended at its yield: it
\* failed, was closed, or made a lookup of its own that raised.
IterDrop(s) ==
  /\ iter[s] = "out"
  /\ ExpireLocked \/ UNCHANGED registry
  /\ iter' = [iter EXCEPT ![s] = "dead"]
  /\ UNCHANGED <<text, flags, clocks, hand, spoken, running>>
-----------------------------------------------------------------------------
(* The janitor, the health endpoint, shutdown, and time.                   *)

\* snapshot, and every refused call: expiry and nothing else.
Snapshot ==
  /\ Lapsed # {}
  /\ ExpireLocked
  /\ UNCHANGED <<text, flags, clocks, reader, running>>

Janitor == running /\ Snapshot

\* The janitor is joined before the sessions are dropped.
StopStore ==
  /\ running
  /\ running' = FALSE
  /\ where' = [s \in Sessions |-> IF s \in Live THEN "cancelled" ELSE where[s]]
  /\ stats' = [stats EXCEPT !["cancelled"] = @ + Cardinality(Live)]
  /\ UNCHANGED <<text, flags, clocks, reader>>

\* The clock moves for every session in the store.  A reading past the
\* deadline is as good as the deadline, so both counters stop there.
Tick ==
  /\ \E s \in Live : idle[s] < IdleTimeout \/ age[s] < TotalTimeout
  /\ idle' = [s \in Sessions |->
       IF s \in Live /\ idle[s] < IdleTimeout THEN idle[s] + 1 ELSE idle[s]]
  /\ age' = [s \in Sessions |->
       IF s \in Live /\ age[s] < TotalTimeout THEN age[s] + 1 ELSE age[s]]
  /\ UNCHANGED <<registry, text, flags, reader, running>>

HandlerStep(s) ==
  \/ \E x \in Sentences : Create(s, x) \/ Enqueue(s, x)
  \/ Finish(s) \/ ClaimStream(s) \/ Cancel(s)

StreamStep(s) ==
  \/ Touch(s)
  \/ \E outcome \in Outcomes \ {"timed_out"} : Cleanup(s, outcome)
  \/ IterStart(s) \/ IterCheck(s) \/ IterGet(s) \/ IterTimeout(s)
  \/ IterTake(s) \/ IterResume(s) \/ IterRaise(s) \/ IterDrop(s)

StoreNext ==
  \/ \E s \in Sessions : HandlerStep(s) \/ StreamStep(s)
  \/ Janitor \/ Snapshot \/ StopStore \/ Tick

StoreSpec == StoreInit /\ [][StoreNext]_storeVars
-----------------------------------------------------------------------------
(* Properties.                                                             *)

\* Sentences come out in the order they went in, none lost, none twice: what
\* the store accepted is what was spoken, then the one in the iterator's
\* hand, then the queue - through enqueues racing the unlocked Queue.get,
\* and even after the session is gone.
InOrder == \A s \in Sessions : accepted[s] = spoken[s] \o hand[s] \o queue[s]

\* max_sessions bounds the store at every moment, although a create expires
\* old sessions and admits the new one in the same critical section.
Capacity == Cardinality(Live) <= MaxSessions

\* Every session ever created is in the store or was counted, once, under
\* the outcome by which it left: stream cleanup, DELETE, the janitor, any
\* lookup's expiry and shutdown all compete to remove it.
StatsBalance ==
  /\ stats["created"] = Cardinality({s \in Sessions : where[s] # "new"})
  /\ \A o \in Outcomes : stats[o] = Cardinality({s \in Sessions : where[s] = o})

BytesOf(q) == SumFunction([i \in DOMAIN q |-> Bytes[q[i]]])

\* The byte counters tell the truth about a live session: total_bytes is all
\* the text it accepted, within max_text_bytes, and queued_bytes is the text
\* still queued or in the hand of an iterator that has not accounted for it.
ByteAccounts == \A s \in Live :
  /\ totalBytes[s] = BytesOf(accepted[s])
  /\ totalBytes[s] <= MaxTextBytes
  /\ queuedBytes[s] = BytesOf(queue[s]) +
       (IF iter[s] = "got" THEN BytesOf(hand[s]) ELSE 0)
=============================================================================
