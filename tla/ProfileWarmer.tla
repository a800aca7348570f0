--------------------------- MODULE ProfileWarmer ----------------------------
(***************************************************************************)
(* The profile warmer (runtime/profile_warmer.py), the startup that comes  *)
(* before it (lifespan in runtime/cosyvoice_server.py), and the cache both *)
(* fill: the saved voice is conditioned at startup, a thread polls for     *)
(* another one, and requests look up whatever voices they speak.           *)
(*                                                                         *)
(* A signature stands for all prompt_signature looks at, the profile id,   *)
(* the reference's size and time, its text and instructions, and for the   *)
(* key its conditioning has in the cache.  The server's lock, which all    *)
(* but the startup hold around a lookup, is left out here, as the cache    *)
(* promises to need none.                                                  *)
(***************************************************************************)
EXTENDS ConditioningCache

CONSTANTS
  Signatures,   \* the voices that are saved
  None,         \* no saved voice
  Warmer        \* the caller that warms; the others are requests

ASSUME WarmerAssumption ==
  Signatures \subseteq Keys /\ None \notin Keys /\ Warmer \in Callers

VARIABLES
  saved,      \* what resolve_saved_default finds; tool calls change it
  phase,      \* the startup, then the thread
  target,     \* the prompt being conditioned
  last,       \* _last_signature
  pending,    \* _pending_signature
  settled,    \* the debounce time has passed since _pending_since
  warm        \* history: the signature conditioned last

watch == <<last, pending, settled>>
vars  == <<cacheVars, saved, phase, target, watch, warm>>

\* Every variable has its type, and what is conditioned is a voice.
WarmerTypeOK ==
  /\ {saved, target, last, pending, warm} \subseteq Signatures \cup {None}
  /\ phase \in {"loaded", "hydrating", "hydrated", "watching", "warming"}
  /\ settled \in BOOLEAN
  /\ phase \in {"hydrating", "warming"} => target # None
  /\ lookup[Warmer] # NoLookup => phase \in {"hydrating", "warming"} /\ lookup[Warmer].key = target

Init ==
  /\ CacheInit
  /\ saved \in Signatures \cup {None}
  /\ phase = "loaded"
  /\ target = None /\ last = None /\ pending = None
  /\ settled = FALSE
  /\ warm = None

\* A tool call saves, selects or clears a voice, or a reference is replaced.
Save(x) ==
  /\ saved' = x
  /\ UNCHANGED <<cacheVars, phase, target, watch, warm>>

\* A request is served once the server is ready.
Serve(c) ==
  /\ phase \in {"watching", "warming"}
  /\ Request(c)
  /\ UNCHANGED <<saved, phase, target, watch, warm>>
-----------------------------------------------------------------------------
(* Startup.                                                                *)

\* Warm-up may be switched off, and there may be nothing to warm.
ResolveAtStartup ==
  /\ phase = "loaded"
  /\ \/ phase' = "hydrated" /\ UNCHANGED target
     \/ saved # None /\ phase' = "hydrating" /\ target' = saved
  /\ UNCHANGED <<cacheVars, saved, watch, warm>>

\* The initial signature is resolved anew.
StartWatch ==
  /\ phase = "hydrated"
  /\ phase' = "watching"
  /\ last' = saved /\ pending' = saved
  /\ UNCHANGED <<cacheVars, saved, target, settled, warm>>
-----------------------------------------------------------------------------
(* The thread: poll_once, a disjunct for each of its returns.  A poll that *)
(* cannot resolve the voice changes nothing but the status.                *)

PollUnchanged ==
  /\ phase = "watching" /\ saved = last
  /\ pending' = saved
  /\ UNCHANGED <<cacheVars, saved, phase, target, last, settled, warm>>

\* Mutant: every poll starts the debounce again.
PollRestartsDebounce ==
  /\ phase = "watching" /\ saved # last
  /\ pending' = saved /\ settled' = FALSE
  /\ UNCHANGED <<cacheVars, saved, phase, target, last, warm>>

PollDetects ==
  /\ phase = "watching" /\ saved \notin {last, pending}
  /\ pending' = saved /\ settled' = FALSE
  /\ UNCHANGED <<cacheVars, saved, phase, target, last, warm>>

PollCleared ==
  /\ phase = "watching" /\ saved = None /\ last # None /\ pending = None /\ settled
  /\ last' = None
  /\ UNCHANGED <<cacheVars, saved, phase, target, pending, settled, warm>>

\* Mutant: that there is no voice any more is not looked at.
PollWarmsAnything ==
  /\ phase = "watching" /\ saved # last /\ saved = pending /\ settled
  /\ phase' = "warming" /\ target' = saved
  /\ UNCHANGED <<cacheVars, saved, watch, warm>>

PollWarms ==
  /\ phase = "watching" /\ saved \notin {last, None} /\ saved = pending /\ settled
  /\ phase' = "warming" /\ target' = saved
  /\ UNCHANGED <<cacheVars, saved, watch, warm>>

-----------------------------------------------------------------------------
(* Conditioning, at startup and in the thread.                             *)

\* The startup goes on either way; the thread notes what it has warmed.
Conditioned ==
  /\ warm' = target
  /\ IF phase = "hydrating" THEN phase' = "hydrated" /\ UNCHANGED last
                            ELSE phase' = "watching" /\ last' = target
  /\ UNCHANGED <<saved, target, pending, settled>>

\* Mutant: a failed warm-up counts as done.
GivesUpForGood ==
  /\ phase' = IF phase = "hydrating" THEN "hydrated" ELSE "watching"
  /\ last' = target
  /\ UNCHANGED <<saved, target, pending, settled, warm>>

\* The signature stays pending and is tried again.
GivesUp ==
  /\ phase' = IF phase = "hydrating" THEN "hydrated" ELSE "watching"
  /\ UNCHANGED <<saved, target, watch, warm>>

Conditioning == phase \in {"hydrating", "warming"}

\* A hit needs nothing more.
WarmLook ==
  /\ Conditioning
  /\ Get(Warmer, target)
  /\ IF Cached(target) THEN Conditioned ELSE UNCHANGED <<saved, phase, target, watch, warm>>

\* A value too large to be kept ends the warm-up as one that is stored does.
WarmBuild ==
  /\ Conditioning
  /\ Build(Warmer)
  /\ IF lookup'[Warmer] = NoLookup THEN Conditioned
                                   ELSE UNCHANGED <<saved, phase, target, watch, warm>>

WarmStore ==
  /\ Conditioning
  /\ Store(Warmer)
  /\ Conditioned

\* The factory raises, or the reference could not even be read.
WarmFails ==
  /\ Conditioning
  /\ \/ BuildFails(Warmer)
     \/ lookup[Warmer] = NoLookup /\ UNCHANGED cacheVars
  /\ GivesUp

\* The debounce time passes.
Settle ==
  /\ ~settled
  /\ settled' = TRUE
  /\ UNCHANGED <<cacheVars, saved, phase, target, last, pending, warm>>

Startup == ResolveAtStartup \/ StartWatch
Poll == PollUnchanged \/ PollDetects \/ PollCleared \/ PollWarms
Warm == WarmLook \/ WarmBuild \/ WarmStore

Next ==
  \/ \E x \in Signatures \cup {None} : Save(x)
  \/ \E c \in Callers \ {Warmer} : Serve(c)
  \/ Startup \/ Poll \/ Settle \/ Warm \/ WarmFails

\* The server starts up, its thread polls on, a warm-up ends one way or the
\* other, and one that is tried again and again is built in the end.
Fairness ==
  /\ WF_vars(Startup) /\ WF_vars(Poll) /\ WF_vars(Settle)
  /\ WF_vars(Warm \/ WarmFails) /\ SF_vars(WarmLook) /\ SF_vars(WarmBuild)

Spec == Init /\ [][Next]_vars /\ Fairness
-----------------------------------------------------------------------------
(* Properties.                                                             *)

\* Once it watches, a change of the saved voice that lasts is conditioned:
\* debounce, failures, and changes during a warm-up only delay it.
ChangesGetWarm == \A x \in Signatures :
  phase = "watching" /\ saved = x /\ last # x ~> warm = x \/ saved # x

\* When the saved voice stays as it is, the thread comes to rest with it: it
\* does not warm, or start its debounce, for ever.
ComesToRest == \A x \in Signatures \cup {None} :
  <>[](saved = x) => <>[](phase = "watching" /\ last = x /\ pending = x)
=============================================================================
