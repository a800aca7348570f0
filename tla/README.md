# Verification of the CosyVoice runtime for Hermes

TLA+ models of the speech runtime that Hermes and Home Assistant share, the TLC
configurations that check them on small instances, and TLAPS proofs of the
results that matter most. Paths are relative to the root of the repository.

## The system

| Component | State it keeps | Operations | What makes it hard | What makes it correct |
|---|---|---|---|---|
| Session store, `runtime/synthesis_sessions.py` | sessions by id: bounded sentence queue, byte counters, `finished`, `audio_claimed`, two deadlines; outcome statistics | create, enqueue, finish, claim, cancel, touch, cleanup, `iter_sentences`, snapshot, janitor, stop | `Queue.get` runs outside the lock; five parties remove sessions | order, limits, capacity, exactly-once statistics |
| Session routes, `runtime/cosyvoice_server.py:742-928` | one suspended generator per response, the one GPU lock | POST text and finish, DELETE, GET audio | audio is yielded with the lock held; the client's pace; disconnect, expiry, failure at every point | no leaked lock, honest completion, at most the chunk in hand after a removal, every response ends |
| Other routes, `runtime/cosyvoice_server.py:480-740` | profile prompts, metrics | synthesize, stream, health, lifespan | a preview is resolved long before it is consumed | a preview serves once |
| Streaming encoder, `runtime/streaming_audio.py` | ffmpeg process, producer thread, failure queue, event | start, feed, read, tear down | producer, ffmpeg, iterator and client fail or leave in any order | a clean end is the whole audio, nobody waits on a full pipe for ever |
| Conditioning cache, `runtime/conditioning_cache.py` | LRU map, byte counter, hit and miss counters | get_or_create, clear, snapshot | two limits that bite at different entries, hits between insertions | limits hold, bytes match what is stored |
| Voice registry, `runtime/voice_profiles.py` | `state.json`, `candidates/`, `profiles/` (shared) | resolve, consume | two processes write one file | a preview is cleared once, a saved choice is kept |
| Voice manager, `voice_manager.py` | the same files, prepare lock | create, prepare, refine, accept, select, reset, discard, prune | unlocked writes of `profile.json`, directory moves, a lock that ages | the selection always names something that resolves; one preparation at a time; one voice per request |
| Profile warmer, `runtime/profile_warmer.py` | last signature, pending, retry | poll, warm | a change during the warm-up | the last selection ends up warm |
| Upstream guard, `runtime/upstream_guard.py` | error per request | record, pop and raise | recorded by one thread, raised by another, which may not be the request's own | no error is lost, no generator spins |
| Plugin hooks, `__init__.py` | bounded table of voice intents per turn | hooks, tool guard | turns end without a hook, and tool calls go on after them; the model's arguments and the user's meet in one call | a voice that is made is the one asked for |
| Home Assistant TTS, `integrations/home-assistant/custom_components/jarvis_cosyvoice_tts/tts.py` | remote session, producer task, fallback flag | open stream, feed, cancel, fall back | the producer and the reader fail separately; calls outlive their callers | one reply, spoken once and whole, nothing left behind |
| Bridge proxy, `integrations/home-assistant/jarvis-cosyvoice-ha-proxy.py` | two slot semaphores | forward, stream, control, pin the saved profile | streaming holds a slot for long; files change between its looks | a slot is returned once; Home Assistant hears saved voices only |
| Conversation agent, `integrations/home-assistant/custom_components/hermes_wyoming_agent/conversation.py` | chat log, forwarded request behind a shield | stream, fall back, forward, acknowledge | a stream breaks after some text; the timer races the answer | one answer per turn, and every turn ends |

How they interact: Hermes tools call the voice manager, which writes the files
under the voice root; the runtime reads them at every request and writes
`state.json` itself when a preview has been spoken. Home Assistant's TTS
integration opens a session at the runtime (through the bridge), posts sentences
as the agent produces them, and at the same time reads one audio response. All
synthesis in the runtime passes through one `gpu_lock`. A voice turn begins in the
conversation agent, which asks Hermes, itself or through Node-RED; Hermes' hooks
note what voice the user asked for and steer the language model's tool calls to
the voice manager.

## Modules

```
SentenceFeed                 what a session promises its client
  ^ implemented by
SessionAudio                 routes, responses, GPU lock, clients, time
  extends
SynthesisSessions            the store, every call, the iterator, the janitor
```

```
VoiceLibrary                 state.json and the profile directories: tool calls of
                             the plugin against requests of the runtime, and the
                             bridge that pins a saved profile
```

```
ProfileWarmer                startup warm-up, and the thread that watches for changes
  extends                    and fills the cache
ConditioningCache            the LRU cache that the synthesis and the warmer fill
```

```
VoiceTurns                   voice turns that ask for a new voice
  extends
ConversationAgent            the turns in Home Assistant
  and instantiates
VoiceCreation                intents, tool calls and the prepare lock in Hermes
```

```
StreamingWav                 the response of /synthesize-stream, with ffmpeg or without
  extends
UpstreamGuard                a streamed generation, CosyVoice's thread, and the guard
```

```
ContinuousTts                one reply of Home Assistant: its tasks, its calls, the
                             runtime as its clients may rely on it (SentenceFeed)
  instantiates
Bridge                       the proxy between them and its slots
```

The groups share few variables in the code, and the models meet at named actions.
The runtime uses the voice files before and after a response, never in the middle
of one; `SessionAudio` keeps of them that a preview is consumed at the end
(`ConsumePreview`). The warmer and a buffered request meet the responses at the GPU
lock, where `SessionAudio` has them as one-shot users. `/synthesize-stream` meets
the sessions there too; `StreamingWav` has contention for the lock of its own.
What `VoiceCreation` prepares and saves in one step each is in `VoiceLibrary` file
by file.

`*Proofs` modules hold theorems about the module they are named for, `SumFacts` the
lemmas about sums that some of them need; `MC*` modules give the constants values for TLC.

### SynthesisSessions

One variable per field of `SynthesisSession` and of the store, as functions of
the session id. `where[s]` is "new" (an id not drawn yet), "live" (a key of
`_sessions`) or the outcome by which the session left. `accepted` and `spoken`
are history variables. Every action is one critical section of `_lock`, with
the `_expire_locked` that the call runs first (`ExpireLocked`); only `IterGet`,
the `Queue.get`, is outside the lock, as in the code. The iterator is a small
program counter: `check` (top of the loop), `wait` (in `Queue.get`), `got`
(between the get and the bookkeeping), `out` (suspended at its yield), `end`,
`dead`. A call that raises changes nothing but the expiry it ran: that is
`Snapshot`.

Time: `idle` and `age` count ticks since `last_activity_at` and `created_at` and
stop at the deadline, since any later reading expires the session just as well.
`Tick` moves all live sessions together.

Abstractions: a sentence is a model value with a length in bytes; the counters
of refused calls are left out; `StopStore` merges the join of the janitor with the
dropping of the sessions that follows it.

### SessionAudio

`stage[s]` is where the generators `session_wav` and `model_audio` of a response
stand:

| stage | code |
|---|---|
| opened | the stream is claimed, the response object exists, `next` was never called |
| awaiting, conditioning | before and inside the first `with gpu_lock` |
| iterating | in `iter_sentences` |
| waiting | after the touch, before the sentence's `with gpu_lock` |
| speaking | inside it, running the model |
| opening | the first chunk was touched for and pulled by `session_wav`, nothing is sent yet |
| header, silence | suspended at the yield of the WAV header, of the leading silence; lock held, the first chunk still in hand |
| sending | a chunk was touched for and is about to be yielded |
| paused | suspended at the yield of a chunk, lock held |
| closing | an exception or the end has left `model_audio`, `finally` not run yet |
| abandoned | GeneratorExit was thrown at the yield, `finally` of `session_wav` not run yet |
| unwinding | `finally` has run, the frame that holds the lock still exists |
| ended | done, or never started |

Points that decide the model's shape:

- The body is produced by `next` calls on a thread pool. A running `next` is
  not cancelled, so a disconnect is seen only at a yield (`Disconnect`), and
  a client that goes before the first `next` leaves a generator that never starts:
  its `finally` never runs (`NeverStarted`), and only a deadline or DELETE removes the
  session.
- `session_wav`'s `finally` runs before the inner generator's frame is
  released, so after a disconnect the outcome is counted while the GPU lock is still
  held (`Close` then `Unwind`).
- After every acquisition the code touches the session; `Acquire` is both, and a
  touch that raises releases the lock again (`LoseSession`).
- The model's chunk is touched for where it comes out (`TakeChunk`) and yielded later
  (`SendChunk`). For the first one the two are far apart: `session_wav` pulls it
  before it sends the header and the silence (`SendHeader`, `Read`), and the client may
  take its time with either. A session removed in between still sends that chunk.
  `late` counts the chunks sent after the removal, and `OneChunkLate` says there is at most
  this one, since the next touch raises. The header and the silence are not counted.
- `LeadingSilence` says whether the server was configured with a leading silence.
  A chunk without samples, which the encoder skips, is not in the model.
- `Fail` is any exception of the model, the conditioning or `consume`, and
  the "no audio" error after an empty iteration.
- The model covers speed 1.0, where `encode_model_stream_wav` iterates
  `model_audio` directly. Other speeds put ffmpeg and a producer thread between.
- A buffered request or a warm-up takes the lock once (`RequestAcquires`,
  `RequestReleases`).
- A request's readiness test and its store call are one step.

### SentenceFeed

The client's contract, one record per session: phase, accepted, spoken. Sentences
are spoken in the order accepted, nothing is accepted once sealed, and the phase becomes
"completed" only if the session is sealed and all accepted sentences were
spoken. `SessionAudio!Feed` maps the store's state to it.

### VoiceLibrary

Two processes work on the same directory tree. `state` is `state.json`,
`files[p][i]` says what is in the directory of profile `i` under `p`:

| content | meaning | who leaves it so |
|---|---|---|
| absent | no directory | |
| bare | a directory without `profile.json` | `prepare` while it downloads |
| full | `profile.json` and `reference.wav` | |
| stray | `profile.json` only | a write into a directory that is gone: `_write_json` makes the parent |

A tool call is a walk through its file accesses; `call[c].at` says which comes
next, `id` and `from` are what the call looked up at its beginning and goes on
using, as the code does with `source`. A request of the runtime is the walk
`PlayResolve` (state.json), `PlayPin` (the directories), `PlaySpeak` (the
reference is opened), `PlayConsume`. The two processes share the state lock, so each
access to `state.json` under it is one step; the directories have no lock.

- `create` is a `prepare`, edits of `profile.json` and an `accept` (what it decides before is in `VoiceCreation`); a prepare
  with `profile_id` and `prompt_text` is the transcript correction, which takes
  the steps of `refine`.
- `_manager()` makes a `VoiceManager` for every call and hook, and its
  constructor prunes: pruning is a call of its own here, before any other.
- Only profiles of ids from `uuid4` are in the model, each drawn once. A disk that fails is not.
- The bridge's choice (`_selected_profile`, `_saved_profile_exists`) is `HomeRead`, what state.json says, and
  `HomeCheck`, which looks for the directory under `profiles/`; a request it pins names its
  profile, and the runtime resolves it by a lookup of its own (`SavedAtHome`), possibly
  after a tool call or a crash has moved it.
- `rmtree` is one step. What `profile.json` says beyond being there is left out.

### ConditioningCache

`items` is the OrderedDict, oldest first, and `used` a history of last uses.
`Get` and `Store` are the two critical sections of `get_or_create`, `Build` the
factory between them, which may raise. In this server two calls never overlap: all callers
but the startup hold the GPU lock, and the startup is over before any other begins.
The class does not rely on that ("Thread-safe LRU cache"), so the model has no
such lock and its theorems hold for overlapping callers as well; as a hazard of this server, a
race of two misses is none.

### ProfileWarmer

`saved` is what `resolve_saved_default` finds, as a signature; its conditioning
is the cache's entry of that key. The lifespan goes from "loaded" through
"hydrating" to "watching"; each return of `poll_once` is an action, and a warm-up
is a call of the cache by the caller `Warmer`: `WarmLook`, `WarmBuild`, `WarmStore`, with
`WarmFails` at any of them. A `Request` of the other caller conditions what it wants
meanwhile, so it may evict what was warmed, or be first. `warm` is the signature that was
conditioned last. The debounce clock is the flag `settled`.

### UpstreamGuard

`gen[r]` is where `model_audio` of a `/synthesize-stream` request stands, `llm[r]`
and `flag[r]` are the thread in which CosyVoice runs its language model and its
entry in `llm_end_dict`, `errors` the guard's dict in insertion order, since
`popitem` takes the youngest.

- CosyVoice is not part of the repository. Of it the module assumes what the
  guard and the plan say: its generator waits for the flag and spins until it is
  set (`runtime/upstream_guard.py:28-29`), and cleans up only when it completes
  normally (`docs/voice-latency-deployment-plan.md:76`).
- `record` has two critical sections, `LlmDies` and `FlagDead`.
- `Leave` is the way out of `_conditioned_chunks` and of the lock. When a generator is
  closed at its yield, an error raised there has no one to reach.
- A request is one segment of text. Consuming its preview is part of `Finish`,
  metrics are left out.

### StreamingWav

`body[r]` is the iterator that Starlette reads: opened, header sent, reading, paused
at a yield, joining the producer, stopping (`finally`), or over. At speed 1.0
the reads of the client drive the model's generator. Otherwise a producer thread does, which looks at
the event (`Look`) and then writes (`Write`): a write that has begun no longer sees the event.

- `piped` counts what is in both pipes and in ffmpeg. A crash loses any part of it.
- A timeout of `join` or `wait` is a step that does not wait for the event: `Judge`
  and `Stop` do not require that the producer is over.
- `Stop` merges the setting of the event with the end of ffmpeg, by whatever signal.
- ffmpeg's stderr is left out (`-loglevel error`, and read only when it failed).

### Bridge

`hop[c]` is how far request `c` is: sent, holding a slot and `forwarded`, an
audio response that is `flowing`, `answered` (the client can read all it will
get, the handler has not left its `finally` yet), `done`. `free` counts the slots of
the two semaphores. A request that finds no slot is answered 503 at once.
A response that is cut is one whose last chunk, the zero chunk, was never sent.
What the runtime does with a request is up to the module that instantiates this.

### ContinuousTts

One run of `_async_stream_continuous_sentences`. Its two asyncio tasks are `main`
and `producer`; both run in one event loop, so a step is what happens between two
awaits. The values of `main` are the awaits, and the ways the reply can end:

| main | awaits |
|---|---|
| first | the first sentence |
| creating, opening | the session; the first 44 bytes of audio |
| draining, joining | the rest of the reply for the fallback: by itself, or by the producer it waits for |
| discarding, fallback | the DELETE before the fallback; the fallback engine |
| streaming | the reader of the audio, or the next chunk |
| settling | the producer, after audio that ended by itself |
| cancelling, deleting | the cancelled producer; the DELETE |
| leaving | the producer that was cancelled with its waiter |
| ended, closed, spoken, raised, dropped | nothing: played, broken off, spoken by the fallback, failed, never iterated |

Sentences are numbered, and a call is a pair of its kind and a number, so the bridge
and the runtime may finish a call that its caller has given up: a
request with a total timeout fails (`Fails`) while its `hop` goes on. What is
posted late therefore arrives late. `faults` is a history variable: something
was lost, timed out, refused for another reason than a full queue, or cancelled
from outside; properties that the code can promise only without that say so.

The runtime is what `SentenceFeed` lets it be, plus the bound of its queue: one
accepted sentence that is not spoken yet may have left the queue for the model, so
a post may find room from one less to exactly the bound (`Room`, `Full` overlap).
`SessionAudio` implements `SentenceFeed`, which is why the client can be checked
against the contract instead of the runtime.

- A sentence or message above the request bound is a listed failure of the producer.
- Exceptions count as listed (the tuples in the `except` clauses), `CancelledError`, or other.
- `Abandon` is Home Assistant cancelling the task at an await. The producer is
  cancelled with it only where it is the thing awaited.
- `CancelProducer`: the `finally` block of a cancelled producer still posts finish. A
  second cancellation ends that call.

### ConversationAgent

`turn[t]` is where `_async_handle_message` stands:

| turn | code |
|---|---|
| connecting, stream | before and after the post to Hermes, reading its events |
| fallback | the stream failed before its first text; `_forward_to_nodered` is awaited |
| background | a background request: the forwarded request is awaited, behind a shield if `stall_ack_seconds` is set |
| over, cancelled | answered; cancelled by Home Assistant |

`forward[t]` is that forwarded request, which an acknowledgement or a cancellation
leaves to itself if it is shielded; it then only logs what comes back. `said[t]` is
what the turn put into the chat log, as kinds of text. Hermes and Node-RED are
what they may answer at any time. The 180 seconds of each request are the step
that breaks it off, possible whenever it is under way.

### VoiceCreation

`job[r]` is a request in Hermes and the thread of its tool call; `intents` is
`_TURN_INTENT`, oldest first; `lock` is the directory `.prepare.lock`, by whom it
was made (None after a restart: its maker is dead) and whether it is ten minutes old. `heard`
and `aged` are history variables: the order of the hooks, and that a lock got
old and who contended for it has not finished.

- A wish is what the user asked for, a persona and perhaps a URL; a call is what the language
  model put into the tool call, or what the guard made of it (`Guarded`). With an intent, the
  query is the user's, the URL is the user's if there is one and otherwise the model's,
  and the name stays the model's. Without an intent the call goes through as it is.
- `create` is `Check`, `Search`,
  `Lock`/`Steal`/`Relock` (the mkdir, the removal of an old lock and the second mkdir
  are three steps), a preparation that succeeds or fails, and `Save`. A failure at one
  source goes on with the next.
- `Check` is the duplicate check: a saved voice of the URL's source, whosever it is
  (`SameSource`), then one whose persona is the query's or the name's (`SameIdentity`). Either is selected and the
  call is over; which of several is in `VoiceLibrary` any saved one. A source that the search found itself is
  not compared with those of the saved voices: `PrepareSucceeds` may use any URL then.
- A saved voice has the query's persona, the source it was made from, and whether that source was
  given by the call. `seen` is a history: whose voices were saved when its
  maker found none that would do.
- The removal in the `finally` block does not ask whose lock it is: `Unlock`.
- `LockAges` may come to a preparation that works on: a download, the cleaning
  and the transcription have timeouts that add up to more than ten minutes.
- `Restart` ends every thread and forgets the table; the lock directory stays.
- A persona stands for a text, as the query or the name of a call, and for its identity key; a URL for its
  source key. Texts whose label has another identity key than they have
  themselves (`_character_label` drops a remark in parentheses, and falls back to the name if
  the query is a URL or says "custom") are therefore not in the model. `start_seconds`
  only picks the segment of a source, and a search that needs more
  input is one that fails. `prepare` called by the model itself is turned
  into a `create` by the guard if the turn has an intent; if not, it is not
  modelled.

### VoiceTurns

A post of the agent may reach Hermes (`Arrives`): by the stream, and by the fallback,
which hands the same wish to Hermes a second time under another turn id, while the
thread of the first call goes on. `Others` are requests from elsewhere. Hermes sends
no text while a tool call of that run is under way (`Speaks`).

## Runs

| Run | Question | Bounds and why they suffice |
|---|---|---|
| store | Do order, types, limits and byte counters survive the unlocked get, expiry, DELETE and shutdown? | One session (the store's per-session state does not couple sessions). Queue of 2 and 5 bytes with sentences of 1 and 2 bytes: the queue fills, drains and refills, and both limits bite, separately and together. Idle 2, total 4: an idle session expires, a busy one reaches the total deadline. |
| audio | Capacity, exactly-once statistics, honest completion, and the refinement of SentenceFeed. | Two ids, one place: the second create needs the first session expired, cancelled or finished. Queue of 1 and two sentences: the queue is full, drained and refilled. One buffered request takes the lock in between. Deadlines of one tick: a tick may come at any step and expires what it finds; the two deadlines are told apart in `store`. Symmetric in the ids. |
| contention | Is the lock leaked or stolen; how much audio follows a removal; does every session leave the store, even with a reader that stalls; do responses end if readers read on? | Two live sessions in contention, one sentence each, and deadlines of one tick. A leading silence, so that the first chunk waits at two yields; a sentence has any number of chunks. No symmetry, as the run checks liveness. (`audio` has no leading silence.) |
| stalled | Do a session's deadlines bound how long it holds the GPU lock? Expected violation. | One session, one buffered request, no fairness of the client. |
| library | Do saved voices stay complete, does nothing shadow them, does a selection go on resolving, and does Home Assistant hear saved voices only, while calls, requests, pruning and crashes go on? | One call at a time, two requests (two may hold the same preview), two ids (one selected, another prepared, accepted or pruned), `Restart` between any two steps. |
| accepted | Does the runtime leave an accepted selection alone? Expected violation. | As library, with one request and without restarts. |
| overlap | Do saved voices stay complete if calls overlap? Expected violation. | One id, two calls. |
| warmer | Is the cache's byte counter exact, are both limits kept and the oldest evicted, with the warmer and a request as its callers? Does the last choice get warm, and does the thread come to rest? | Two callers that may build the same key at once; two voices that are chosen and one more that is only requested; at most 2 entries and 4 bytes, with sizes 2, 3 (two of them do not fit) and 5 (never stored). Changes, failures and the debounce are unbounded. |
| turn | Is a turn answered once, and does it end? Do preparations keep apart, does a repeated request find the voice made before, is a voice that is made the one its user asked for, whatever the model puts into its call, while the fallback repeats a request, others ask too, a lock ages and Hermes restarts? | One turn, which reaches Hermes twice, and one other request: three creations, as many as it takes for one to remove the lock of a second while a third waits. Two personas and two URLs, so that requests agree or not; one user leaves the source open, the other gives a URL. The model asks for one persona by the name of the other, or for the other persona from a URL of its own. Two sources: the first may fail and be followed by another. A table of two intents, so that the third drops the first. One text per stream: before it the stream may be replaced, after it not. |
| streams | Is an error of the model's thread lost; is a clean end whole; does the GPU lock come back, even from a response whose client left while ffmpeg was full? | One request at speed 1.0 and one at another, so that they contend for the lock and meet each other's errors. Three chunks and room for one between: one is heard, one is in the pipes, the producer is in its write of the third. |
| tts | Does the runtime get the beginning of the reply and nothing else; does the fallback get all of it; is a cut noticed; is nothing left behind; does an interruption take effect? | Three sentences (the first goes with the create, the second may fail, the third follows a failure), a queue of 1, one slot in each pool, so that requests of the same reply turn each other away. |
| backpressure | Is a reply that met no fault spoken whole? Expected violation. | As tts. |

Deadlock checking is off in the runs of the sessions, the streamed responses, the reply and the
turn: ids, requests and turns are used once, so the system runs out of them and stops. It is
on in the others.

## Where code and documentation disagree

`stalled` is a disagreement between documentation and code.
`docs/voice-latency-deployment-plan.md:267` wants a slow reader to produce "bounded cleanup",
and says at 51-54 that idle and total time are bounded. The
chunks are yielded inside `with gpu_lock`; a reader that neither reads nor hangs
up keeps its response in `paused`. The janitor removes the session, but the lock stays
taken and every later synthesis waits. The counterexample is a fair behaviour.

`accepted`: a request resolves a preview; while it is spoken the user accepts the
voice. `consume` (`runtime/voice_profiles.py:108`) compares the id only, finds it
unchanged and clears the accepted selection, which lines 46-47 call
"deliberately persistent until reset or replacement".

`overlap`: two accepts of the same candidate run on threads of their own
(`__init__.py:381`). Both look it up under `candidates/`; the first moves it,
selects it and reports success; the second removes the destination
(`voice_manager.py:743`), and then has nothing to move. The selected voice is gone. The operating model
of the README (single-user, line 168) makes this rare and does not rule it out: a
repeated tool call is enough. `NoShadow` fails with two callers as well: the
last write of a `prepare` (line 558) recreates the directory that an accept has moved.

Without a run: a voice selected while the startup conditions another one is read as
the watcher's initial signature (`runtime/cosyvoice_server.py:475`) and never
warmed, though `CHANGELOG.md:30` promises to warm "after profile switches".

`backpressure`: the agent writes sentences faster than they are spoken. The
runtime refuses a sentence that finds the session's queue full with 429
(`runtime/synthesis_sessions.py:153`); the producer treats this like a dead
runtime (`tts.py:481`), posts nothing more and seals the session, and the audio ends
normally in the middle of the reply. Since audio has begun, no fallback is possible. The
docstring of the post (`tts.py:499`) promises "natural backpressure". The default
queue holds 8 sentences.

Without a run: `docs/voice-latency-deployment-plan.md:76` wants that an abandoned
iterator does not "leave a worker or request dictionaries active", and lines
178-179 that after a cancellation the next request succeeds with "no retained request
dictionaries, orphaned threads". At speed 1.0 a disconnect closes the generator
at its yield: the language model's thread runs on without the lock, its entries stay, and
an error it records later is raised in the next request that leaves, whose own
generation was complete. `UpstreamGuard` has all of it (`Close`, `Llm`, `Leave`). The draining of
which the docstring of `iter_streaming_wav` speaks exists at other speeds only.

Without a run: when ffmpeg dies in the middle, the producer meets the broken
pipe and sets the event, and then the iterator does not look at the exit code
(`runtime/streaming_audio.py:144`): the cut stream ends cleanly, and the preview is consumed.

Without a run: `[DONE]` ends the stream whether or not there was text
(`conversation.py:271-272`), while an end of the connection without text counts as a
failure and falls back (282-283). A turn whose stream is empty but ends with `[DONE]` says nothing at all,
though `CHANGELOG.md:34` keeps a fallback before the first output.

Without a run: two creations of one persona that overlap save two profiles, each
having looked for a saved voice before the other saved (`voice_manager.py:263`), though
`skills/cosyvoice-voice/SKILL.md:35` allows one saved profile per persona. `RetryReuses` is
what the code does promise: one that begins later reuses.

Without a run: `skills/cosyvoice-voice/SKILL.md:37` says that source URLs are "also deduplicated". The
duplicate check looks at the URL of the call only (`voice_manager.py:857`); a source that the search of
`create` picks may be that of a saved voice of another persona, and a second voice is made from it.

Not a disagreement, but worth knowing: a creation may end with another persona's
voice. The guard keeps the model's `name` (`__init__.py:362`), and its `source_url` if the
user gave none (`__init__.py:356`), and the duplicate check selects a saved voice of either. Reuse by
source is intended (`tests/test_voice_manager.py:269-284`), and nothing
says that the guard keeps the model's name from deciding. `MadeAsAsked` is about voices that are
made, not about those that are found.

Without a run: the docstring of `create` says that one alternate source is attempted
(`voice_manager.py:259-261`), the loop goes through all it found, up to five. The tool's
schema has `allow_variant` (`__init__.py:411`), which is handed to `create` and not read there. `select` takes a profile
whose status a crash within an accept has left "preview", and the bridge then refuses to
pin it.

## Fairness

`ServerFairness` is weak fairness of each response's own steps, of a buffered request's
release, of the reaper and of time: Python threads run on, a model call ends,
the janitor loop wakes up. Nothing is assumed of clients and nothing about who wins
the lock (`threading.Lock` is not fair): `Acquire` has weak fairness only through
`AudioStep`, which another holder may disable again and again; ids and requests are finite
in an instance, so this cannot go on for ever. `ReadersGoOn` says that
a client sent a chunk reads on or hangs up. `StreamsEnd` assumes it, and
`stalled` shows what happens without it; `SessionsLeave` holds without.

`ProfileWarmer!Fairness`: the startup goes on, the thread polls, time passes and a
warm-up ends one way or the other, all weakly fair. Strong fairness of `WarmLook` and `WarmBuild` says that a
warm-up tried for ever succeeds at some time: the code retries without limit, so that is all it can count on.
Nothing makes the user stop changing voices: `ChangesGetWarm` is about a choice that lasts.

`StreamingWav!Fairness`: the generator, its producer, CosyVoice's thread, ffmpeg once
its input is closed, and the iterator run on. Exceptions are exempt: that a generator comes
to its end must not rest on its raising. `ReadersGoOn` is the same assumption as
above. `OverFreesLock` holds without it.

`ContinuousTts!Fairness`: the task of the reply and its producer run on when what
they wait for has come or timed out, in the three places where an interruption
passes. Nothing is assumed of the source (it may stall in the middle), the
reader, the bridge and the runtime, which may never answer: every request has a total
timeout.

`VoiceTurns!Fairness`: the stream of a turn and its forwarded request break off unless
they ended: aiohttp's total timeout of 180 seconds, a bounded number of
credentials to read. Nothing is assumed of Hermes, of Node-RED, of the language model or of
the threads of its tools.

## Proofs

### Sessions

For every set of sessions (finite), every set of sentences, all limits and any
set of competing requests, with or without a leading silence, assuming `LimitsAssumption` (what `__post_init__`
enforces) and `HoldersAssumption` (distinct names):

| Theorem | Argument |
|---|---|
| `StoreTyped`, `StoreInOrder` | The inductive invariant `IInv` is `TypeOK`, `Fresh` (an unused id has no text, no flags, an idle iterator), `Hands` (the iterator holds a sentence in `got` and `out` exactly, or may when `dead`) and `InOrder`. `Hands` is what order needs: a get must find the hand empty. `Fresh` is what create needs: it overwrites the queue. |
| `StoreBalanced` | Every step that moves sessions to an outcome raises that counter by the number moved; the finite cardinality lemmas count the sets. Inductive with `TypeOK`. |
| `StoreAccounts` | Per session, `queued_bytes` and `total_bytes` are sums over what the reader and the queue hold (`Accounted`). Inductive with `IInv` for live sessions only: an iterator that raises never accounts for the sentence in its hand, but its session is out of the store by then. The sums come from `SumFacts`. |
| `StoreCapacity` | Only create adds to `Live`, one id, and it tests what expiry leaves. |
| `AudioUsesStore` | Every step of the routes is a step of the store or leaves it alone. It carries all store theorems over to the server. |
| `AudioTyped`, `AudioLock` | `AInv` adds `Lockstep`, the relation of response stage and iterator state (an iterator is started once because `claimed` is set once), and the lock discipline. |
| `AudioHonest` | `CInv` adds `Sealed` (an iterator at `end` has a finished session with an empty queue and hand) and `Done` (a completed outcome stems from there and was heard). `Sealed` is stable because enqueue refuses a finished session. |
| `AudioStopsSoon` | `LateFits`: who has sent a chunk late has no other in hand, and is out of the store for good. The step that takes one in hand touches, so it needs a live session (`InHandIsLive`). |
| `AudioImplementsFeed` | Initial states map to initial states; per session every step is a move of the feed or a stutter. The abstract step is a conjunction over sessions since an expiry run on behalf of one session breaks others. |

### Voice library

For any set of ids and requests, assuming `NoneAssumption` and one place for tool
calls (`Callers = {c}`, an assumption of each theorem). Hermes may die
between any two steps in the first two.

| Theorem | Argument |
|---|---|
| `SavedVoicesSurvive`, `NothingShadowed`, `LibraryTyped` | `LInv` adds `FilesOK` (no stray directory, none for an id not drawn) and `CallFits`: what a call has looked up or done is still so at its next step, since requests and time touch no file. `CallFits` is why one call at a time is needed: `overlap` and the shadow above are its failures. A restart forgets the call, and `CallFits` is then vacuous. |
| `SelectionStays` | `PInv` adds to `LInv` that the candidate a prune spares is the selected one (`PruneFits`), which survives a restart because the prune does not. Under `PInv` every step but a restart keeps `Held`: what is selected has its files, or is being discarded. |
| `SelectionHolds` | `PInv` with `Held`, which is inductive as long as there is no restart: a `discard` that dies between its two steps leaves a selection without files. |

With crashes between any two steps, too:

| Theorem | Argument |
|---|---|
| `HomeHearsSavedOnly` | `HomeFits`: an id that the bridge found under `profiles/` alone was drawn before, and a candidate never comes back (`CandidatesDoNotReturn`: ids are drawn once, and an accept moves a directory out of `candidates/`), so the runtime's later lookup finds it under `profiles/` or not at all. |

### Streamed responses

For any set of requests, any number of chunks and any capacity of the pipes, assuming
`GuardAssumption` (the mark of a free lock is no request) and `WavAssumption` (a pipe
holds something).

| Theorem | Argument |
|---|---|
| `ErrorsReachSomeone` | `GInv` adds `ErrorKept` (while a generator holds the lock, the error of its thread is in the dict) and `Finishing` (it leaves its loop after its thread is over, since only a thread sets the flag). Errors are taken by the holder alone, who then is no holder any more; so a generator that finds the dict empty had no error. `GuardSteps` shows that every step of the composition is a step of one generator or one thread. |
| `StreamsTyped`, `CleanEnds` | `WInv` adds an account per response: at speed 1.0 what is heard is what was made (`Direct`); through ffmpeg, heard, piped and pending chunks are what was made as long as ffmpeg is sound (`Conserved`), its input is closed only after the producer has said how the generation ended (`Produced`, `Decoded`), so the verdict "ended" is right (`Judgement`). Steps of one response do not touch the account of another (`Others`). |

### Voice turns

For any number of turns, other requests, personas and URLs, any wishes of users and calls of the model, any number of sources and of intents in the
table, with restarts of Hermes at any step, assuming `TurnsAssumption` (distinct names; both limits
are positive). `TurnsStep` splits a step of the composition into one of the agent and
one of the creation, so the parts of `IInv` are inductive one by one.

| Theorem | Argument |
|---|---|
| `TurnsSpokenOnce` | `SaidFits`: before the end only a stream has said something, and only deltas; what waits for an answer has said nothing. |
| `TurnsPrepareOne` | `LockFits`: a lock is old only if `aged`, and while it is not, nobody steals and who prepares made the lock. The hard step is `Unlock`, which removes any lock and resets `aged` only if nobody else contends. |
| `TurnsRetryReuses` | `SavedFits` with `Alike` (a voice has the persona or the given source of a call): who saved is done; who works saw no voice that is alike to its call, and only voices that were saved. A new voice was therefore seen by nobody, and its maker saw none like it. |
| `TurnsMadeAsAsked` | `IntentsFit`: the table is the end of `heard`, with what each run asked for. `CallsFit`: with fewer than the limit heard after it, a run's call is as its user asked (`AsAsked`), since a run without an intent was dropped and the table was then full of later ones. What is saved has the persona and the given URL of the call it comes from. |
| `TurnsTypes` | The same invariant, with `HandledFits` and `ForwardFits`: nothing is forwarded before the stream has failed. |

### Cache and warmer

For any keys, callers and limits, and any set of natural numbers as sizes, assuming
`CacheAssumption` (limits are not negative, as `__init__` requires) and `WarmerAssumption`
(voices are keys, the warmer is a caller). `WarmerInvariant` is the inductive
invariant:

| Theorem | Argument |
|---|---|
| `EvictsLeastRecentlyUsed` | `Aligned`: the entries are the end of the history of uses, entry by entry. A hit moves one element to the end of both, a miss appends to both, an eviction takes the first entry. `WorthKeeping`, that what a caller is about to store is within the limits, is why a value just stored stays: trimming stops before it comes to the youngest entry. That there is a fewest number of evictions is `LeastNat`. |
| `CacheTypeCorrect` | No key has two entries since no key is in the history twice, and `Aligned`. Types alone do not give it: two callers may build the same key, and the second must find the entry of the first. |
| `BytesAreExact` | Without an entry the sum is less by its size (`SumWithout`), with one more it is more (`SumOfTwo`). `_trim` stops within the limit because no entries weigh nothing. |
| `WarmerTypeCorrect` | The warmer's lookup is for its target as long as it has one, which the invariant states along with the types. |

### Replies of Home Assistant

For a reply of any length and any size of the queue and of both pools, with calls lost at any
hop, assuming `TtsAssumption` (all of these are positive). `TtsInvariant`
is the inductive invariant; calls that are given up keep their slots until the runtime
has answered, so all statements about the session must hold while such calls are under way.

| Theorem | Argument |
|---|---|
| `AcceptedStaysPrefix` | `PostsInOrder`: a text call on its way is the next sentence of the session, and a producer without a failure has posted all it received. `SentInTurn` is what that needs: each call goes with a place that its sender leaves for good, so none is sent twice. |
| `EndingIsWhole` | `ProducerHasSession` (a reply that streams has a producer and a session), `EndsKnow` (without a failure the producer finishes at the end of the source) and `AnswersHold` (whole audio means a completed session, which spoke what it accepted). |
| `FallbackGetsWhole` | `EndsKnow`: the fallback is only entered when the source has ended or failed. |
| `NoneOrphaned` | `EndsKnow` with `AnswersHold`: a DELETE that was answered, or refused without a fault, finds no live session, and sessions do not come back. |
| `TtsTypeCorrect` | The types, with an account of every pool of the bridge: free slots and calls that hold one add up to its size. |
| `TtsFollowsFeed` | With any calls lost, the session only does what `SentenceFeed` allows. `AudioImplementsFeed` proves of the runtime that it does no more than that: client and server meet at the abstract specification. |

### Sums

`SumFacts` has what the byte accounts need: a sum over a sequence does not depend on the
order in which the fold of the community modules takes the elements, and changes by the
element that is added or removed. The library's theorems of induction and of recursive
definitions take operators, which the installed provers cannot instantiate. The
lemmas there go by a least counterexample in place of induction (`LeastNat`, `InductionOnNat`,
`InductionOnSize`, for sets in place of predicates), and show that the fold's recursive
function exists before they unfold it.

### Left to TLC

Liveness, which rests on fairness and `ENABLED`: `StreamsEnd`, `SessionsLeave`,
`ChangesGetWarm`, `ComesToRest`, `BrokenOffEnds`, `LockComesBack`, `OverFreesLock`,
`TurnEnds`. Every other property of the passing runs is a theorem.

## Not modelled

- Model loading, device placement, conditioning tensors: calls into CosyVoice and PyTorch
  that succeed or raise.
- WAV and PCM arithmetic, resampling, silence detection: numerical, one-shot.
- Sessions at speeds other than 1.0 (ffmpeg under `session_wav`), the metrics record.
- The per-sentence and the buffered mode of the Home Assistant client; authentication
  and request validation of the bridge.
- Recognition of voice intents in text (regular expressions), search and source ranking, the file of
  recent sources, names the language model supplies, a `prepare` without an intent.
- What `profile.json` says: `refine`, the transcript and the personality change it without a
  lock, and the later write wins.
- The thread pool on which responses are resumed (`cosyvoice_server.py:914`): one that waits for
  the GPU lock occupies a worker that the holder needs.
- Deployment, benchmark and migration scripts, configuration forms: sequential.

## Plan

In this order; each with its module, its run and, where it says so, a proof.

1. The thread pool under `SessionAudio`: responses that wait for the lock occupy
   workers that the holder needs.
2. More proofs: what follows from `SentenceFeed` for every client (what was spoken is
   a prefix of what was accepted, and a broken session stays broken), stated once and carried over to
   the server and to Home Assistant by the two refinements.
3. ffmpeg under `session_wav`, by composing `StreamingWav` with `SessionAudio`.
4. The contents of `profile.json` as fields that calls read and write, in `VoiceLibrary`.
