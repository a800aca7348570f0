---------------------------- MODULE VoiceLibrary ----------------------------
(***************************************************************************)
(* The voice files shared by the Hermes plugin (voice_manager.py), the     *)
(* synthesis runtime (runtime/voice_profiles.py) and the bridge to Home    *)
(* Assistant (jarvis-cosyvoice-ha-proxy.py): the selection in state.json,  *)
(* and the directories under candidates/ and profiles/.                    *)
(*                                                                         *)
(* A step is one access to a file, one look at a profile, or one critical  *)
(* section of the shared state lock.  A tool call is a walk through such   *)
(* steps, as is a request, and between two steps others may act.  rmtree   *)
(* is one step.  Of what profile.json says only the status matters, and    *)
(* only that an accept changes it.  The prepare lock is in VoiceCreation.  *)
(***************************************************************************)
EXTENDS Naturals, FiniteSets

CONSTANTS
  Ids,       \* the profile ids uuid4 can draw
  Callers,   \* the places of tool calls that run side by side
  Plays,     \* the places of requests in the runtime
  None

ASSUME NoneAssumption == None \notin Ids

VARIABLES
  state,     \* state.json: session_profile, session_candidate, default_profile
  files,     \* what is in each directory under candidates/ and profiles/
  unsaved,   \* the ids under profiles/ whose status is still "preview"
  drawn,     \* the ids already used
  old,       \* candidates created more than a day ago
  call,      \* the tool call at each place
  play       \* the request at each place

vars == <<state, files, unsaved, drawn, old, call, play>>

\* A directory is bare while it has no profile.json, and stray when
\* profile.json is there but reference.wav is not.
Contents  == {"absent", "bare", "stray", "full"}
Described == {"stray", "full"}
Parents   == {"candidates", "profiles"}

CallPlaces == {"idle", "preparing", "published", "recording", "refining", "refined",
               "editing", "accepting", "moving", "saving", "choosing", "selecting",
               "discarding", "pruning"}
PlayPlaces == {"idle", "asking", "resolving", "pinned", "spoken"}

NoCall == [at |-> "idle", id |-> None, from |-> "profiles", goal |-> "none"]
NoPlay == [at |-> "idle", id |-> None, other |-> None, from |-> "profiles",
           preview |-> FALSE, home |-> FALSE]

\* Every variable has its type, and only a selected profile is a candidate.
LibraryTypeOK ==
  /\ state \in [profile : Ids \cup {None}, candidate : BOOLEAN, default : Ids \cup {None}]
  /\ state.candidate => state.profile # None
  /\ files \in [Parents -> [Ids -> Contents]]
  /\ unsaved \subseteq Ids /\ drawn \subseteq Ids /\ old \subseteq drawn
  /\ call \in [Callers -> [at : CallPlaces, id : Ids \cup {None}, from : Parents,
                           goal : {"none", "session", "default"}]]
  /\ play \in [Plays -> [at : PlayPlaces, id : Ids \cup {None}, other : Ids \cup {None},
                         from : Parents, preview : BOOLEAN, home : BOOLEAN]]

Init ==
  /\ state = [profile |-> None, candidate |-> FALSE, default |-> None]
  /\ files = [p \in Parents |-> [i \in Ids |-> "absent"]]
  /\ unsaved = {} /\ drawn = {} /\ old = {}
  /\ call = [c \in Callers |-> NoCall]
  /\ play = [p \in Plays |-> NoPlay]

\* Where a lookup by id finds metadata: candidates/ comes first.
Lookup(i) ==
  IF files["candidates"][i] \in Described THEN "candidates"
  ELSE IF files["profiles"][i] \in Described THEN "profiles" ELSE "nowhere"

Complete(i) == Lookup(i) # "nowhere" /\ files[Lookup(i)][i] = "full"

\* What a tool call may name: a complete profile, or a saved one by its name.
Known(i) == files["candidates"][i] = "full" \/ files["profiles"][i] \in Described

\* _write_json makes the directory if it is gone.
Filled(d) == IF d \in {"bare", "full"} THEN "full" ELSE "stray"
Write(p, i)   == files' = [files EXCEPT ![p][i] = Filled(@)]
Remove(p, i)  == files' = [files EXCEPT ![p][i] = "absent"]

SetState(i, candidate, default) ==
  state' = [profile |-> i, candidate |-> candidate, default |-> default]

\* Mutant: the candidate flag stays.
ClearSessionKeepsFlag == state' = [state EXCEPT !.profile = None]

\* A reset, a discard or a consumed preview.
ClearSession == state' = [state EXCEPT !.profile = None, !.candidate = FALSE]

Goto(c, at)     == call' = [call EXCEPT ![c].at = at]
At(c, at)       == call[c].at = at
Return(c)       == call' = [call EXCEPT ![c] = NoCall]
Begin(c, at, i, from, goal) ==
  /\ At(c, "idle")
  /\ call' = [call EXCEPT ![c] = [at |-> at, id |-> i, from |-> from, goal |-> goal]]

others == <<unsaved, drawn, old, play>>
-----------------------------------------------------------------------------
(* prepare: download and validate, publish, select, record the timings.    *)

PrepareBegin(c, i) ==
  /\ i \notin drawn
  /\ Begin(c, "preparing", i, "candidates", "none")
  /\ drawn' = drawn \cup {i}
  /\ files' = [files EXCEPT !["candidates"][i] = "bare"]
  /\ UNCHANGED <<state, unsaved, old, play>>

PrepareFails(c) ==
  /\ At(c, "preparing")
  /\ Remove("candidates", call[c].id)
  /\ Return(c)
  /\ UNCHANGED <<state, others>>

PreparePublish(c) ==
  /\ At(c, "preparing")
  /\ Write("candidates", call[c].id)
  /\ Goto(c, "published")
  /\ UNCHANGED <<state, others>>

PrepareSelect(c) ==
  /\ At(c, "published")
  /\ SetState(call[c].id, TRUE, state.default)
  /\ Goto(c, "recording")
  /\ UNCHANGED <<files, others>>

PrepareRecord(c) ==
  /\ At(c, "recording")
  /\ Write("candidates", call[c].id)
  /\ Return(c)
  /\ UNCHANGED <<state, others>>
-----------------------------------------------------------------------------
(* refine, a corrected transcript, set_personality, select.                *)

RefineBegin(c, i) ==
  /\ Lookup(i) # "nowhere"
  /\ Begin(c, "refining", i, Lookup(i), "none")
  /\ UNCHANGED <<state, files, others>>

RefineWrite(c) ==
  /\ At(c, "refining")
  /\ Write(call[c].from, call[c].id)
  /\ Goto(c, "refined")
  /\ UNCHANGED <<state, others>>

\* What follows a refinement: nothing, or the accept that asked for it, which
\* looks the profile up again.
AfterRefine(c) ==
  LET i == call[c].id IN
  IF call[c].goal = "none" \/ Lookup(i) = "nowhere" THEN Return(c)
  ELSE call' = [call EXCEPT ![c].at = "accepting", ![c].from = Lookup(i)]

\* Mutant: a refined candidate is selected as if it were saved.
RefineSelectSaved(c) ==
  /\ At(c, "refined")
  /\ SetState(call[c].id, FALSE, state.default)
  /\ AfterRefine(c)
  /\ UNCHANGED <<files, others>>

RefineSelect(c) ==
  /\ At(c, "refined")
  /\ SetState(call[c].id, call[c].from = "candidates", state.default)
  /\ AfterRefine(c)
  /\ UNCHANGED <<files, others>>

EditBegin(c, i) ==
  /\ Known(i)
  /\ Begin(c, "editing", i, Lookup(i), "none")
  /\ UNCHANGED <<state, files, others>>

EditWrite(c) ==
  /\ At(c, "editing")
  /\ Write(call[c].from, call[c].id)
  /\ Return(c)
  /\ UNCHANGED <<state, others>>

SelectBegin(c, i) ==
  /\ Known(i) /\ Lookup(i) = "profiles"
  /\ Begin(c, "selecting", i, "profiles", "none")
  /\ UNCHANGED <<state, files, others>>

SelectSet(c) ==
  /\ At(c, "selecting")
  /\ SetState(call[c].id, FALSE, state.default)
  /\ Return(c)
  /\ UNCHANGED <<files, others>>
-----------------------------------------------------------------------------
(* accept and set_default: refine if another style was asked for, move the *)
(* candidate over the saved profile, write it, select it.                  *)

AcceptBegin(c, i, goal) ==
  /\ Known(i)
  /\ \E at \in {"accepting", "refining"} : Begin(c, at, i, Lookup(i), goal)
  /\ UNCHANGED <<state, files, others>>

AcceptInPlace(c) ==
  /\ At(c, "accepting") /\ call[c].from = "profiles"
  /\ Goto(c, "saving")
  /\ UNCHANGED <<state, files, others>>

AcceptClear(c) ==
  /\ At(c, "accepting") /\ call[c].from = "candidates"
  /\ Remove("profiles", call[c].id)
  /\ Goto(c, "moving")
  /\ UNCHANGED <<state, others>>

\* Mutant: the candidate is copied.
AcceptCopies(c) ==
  LET i == call[c].id IN
  /\ At(c, "moving")
  /\ files' = [files EXCEPT !["profiles"][i] = files["candidates"][i]]
  /\ Goto(c, "saving")
  /\ UNCHANGED <<state, others>>

\* replace raises if the candidate is gone or the destination is back.
AcceptMove(c) ==
  LET i == call[c].id IN
  /\ At(c, "moving")
  /\ IF files["candidates"][i] = "absent" \/ files["profiles"][i] # "absent"
     THEN UNCHANGED <<files, unsaved>> /\ Return(c)
     ELSE /\ unsaved' = unsaved \cup {i}
          /\ files' = [files EXCEPT !["profiles"][i] = files["candidates"][i],
                                    !["candidates"][i] = "absent"]
          /\ Goto(c, "saving")
  /\ UNCHANGED <<state, drawn, old, play>>

AcceptWrite(c) ==
  /\ At(c, "saving")
  /\ Write("profiles", call[c].id)
  /\ unsaved' = unsaved \ {call[c].id}
  /\ Goto(c, "choosing")
  /\ UNCHANGED <<state, drawn, old, play>>

AcceptSelect(c) ==
  LET i == call[c].id IN
  /\ At(c, "choosing")
  /\ SetState(i, FALSE, IF call[c].goal = "default" THEN i ELSE state.default)
  /\ Return(c)
  /\ UNCHANGED <<files, others>>
-----------------------------------------------------------------------------
(* reset, discard, and the pruning that every new VoiceManager does.       *)

Reset(c) ==
  /\ At(c, "idle")
  /\ ClearSession
  /\ UNCHANGED <<files, call, others>>

DiscardBegin(c, i) ==
  /\ Known(i) /\ files["candidates"][i] # "absent"
  /\ Begin(c, "discarding", i, "candidates", "none")
  /\ Remove("candidates", i)
  /\ UNCHANGED <<state, others>>

DiscardClear(c) ==
  /\ At(c, "discarding")
  /\ IF state.profile = call[c].id THEN ClearSession ELSE UNCHANGED state
  /\ Return(c)
  /\ UNCHANGED <<files, others>>

\* Mutant: the active candidate is not looked up.
PruneAll(c) ==
  /\ Begin(c, "pruning", None, "candidates", "none")
  /\ UNCHANGED <<state, files, others>>

\* The candidate that was active when state.json was read is kept.
PruneBegin(c) ==
  /\ Begin(c, "pruning", IF state.candidate THEN state.profile ELSE None,
           "candidates", "none")
  /\ UNCHANGED <<state, files, others>>

PruneRemove(c, i) ==
  /\ At(c, "pruning")
  /\ i \in old \ {call[c].id} /\ files["candidates"][i] # "absent"
  /\ Remove("candidates", i)
  /\ UNCHANGED <<state, call, others>>

PruneEnd(c) ==
  /\ At(c, "pruning")
  /\ Return(c)
  /\ UNCHANGED <<state, files, others>>

\* A day passes over a candidate.  No preparation takes that long.
Age(i) ==
  /\ i \in drawn \ old
  /\ \A c \in Callers : call[c].id = i => call[c].at \notin {"preparing", "published", "recording"}
  /\ old' = old \cup {i}
  /\ UNCHANGED <<state, files, unsaved, drawn, call, play>>

\* Hermes dies and starts again: the calls are gone, the files are as they were.
Restart ==
  /\ \E c \in Callers : ~At(c, "idle")
  /\ call' = [c \in Callers |-> NoCall]
  /\ UNCHANGED <<state, files, others>>
-----------------------------------------------------------------------------
(* A request that reaches the runtime directly asks for the default voice. *)
(* One that Home Assistant sends through the bridge is given the id of a   *)
(* saved voice there.  The runtime resolves, opens the reference, consumes.*)

calls == <<files, unsaved, drawn, old, call>>

PlayResolve(p) ==
  LET voice == IF state.profile # None THEN state.profile ELSE state.default IN
  /\ play[p].at = "idle" /\ voice # None
  /\ play' = [play EXCEPT ![p] =
                [at |-> "resolving", id |-> voice, other |-> None, from |-> "profiles",
                 preview |-> state.profile # None /\ state.candidate, home |-> FALSE]]
  /\ UNCHANGED <<state, calls>>

\* Mutant: the bridge takes what is selected for saved.
HomeReadTrusts(p) ==
  LET voice == IF state.profile # None THEN state.profile ELSE state.default IN
  /\ play[p].at = "idle" /\ voice # None
  /\ play' = [play EXCEPT ![p] =
                [NoPlay EXCEPT !.at = "resolving", !.id = voice, !.home = TRUE]]
  /\ UNCHANGED <<state, calls>>

\* The bridge reads state.json: the session voice unless it is a candidate,
\* and the default after it.
HomeRead(p) ==
  /\ play[p].at = "idle"
  /\ play' = [play EXCEPT ![p] =
                [at |-> "asking", id |-> IF state.candidate THEN None ELSE state.profile,
                 other |-> state.default, from |-> "profiles", preview |-> FALSE, home |-> TRUE]]
  /\ UNCHANGED <<state, calls>>

\* _saved_profile_exists
SavedAtHome(i) ==
  /\ i # None /\ i \notin unsaved
  /\ files["candidates"][i] = "absent" /\ files["profiles"][i] = "full"

\* The id is forwarded if it is saved, or else the default is looked at.
HomeCheck(p) ==
  /\ play[p].at = "asking"
  /\ \/ /\ SavedAtHome(play[p].id)
        /\ play' = [play EXCEPT ![p].at = "resolving", ![p].other = None]
     \/ /\ ~SavedAtHome(play[p].id) /\ play[p].other # None
        /\ play' = [play EXCEPT ![p].id = play[p].other, ![p].other = None]
  /\ UNCHANGED <<state, calls>>

PlayPin(p) ==
  LET i == play[p].id IN
  /\ play[p].at = "resolving" /\ Complete(i)
  /\ play' = [play EXCEPT ![p] = [@ EXCEPT !.at = "pinned", !.from = Lookup(i)]]
  /\ UNCHANGED <<state, calls>>

\* The reference is opened where it was found; then the audio goes out.
PlaySpeak(p) ==
  /\ play[p].at = "pinned" /\ files[play[p].from][play[p].id] = "full"
  /\ play' = [play EXCEPT ![p].at = "spoken"]
  /\ UNCHANGED <<state, calls>>

PlayConsume(p) ==
  /\ play[p].at = "spoken"
  /\ IF play[p].preview /\ state.profile = play[p].id THEN ClearSession ELSE UNCHANGED state
  /\ play' = [play EXCEPT ![p] = NoPlay]
  /\ UNCHANGED calls

\* No saved voice, not found, incomplete, moved away, or the synthesis fails.
PlayFails(p) ==
  /\ play[p].at # "idle"
  /\ play' = [play EXCEPT ![p] = NoPlay]
  /\ UNCHANGED <<state, calls>>

CallStep(c) ==
  \/ \E i \in Ids :
       \/ PrepareBegin(c, i) \/ RefineBegin(c, i) \/ EditBegin(c, i)
       \/ SelectBegin(c, i) \/ DiscardBegin(c, i) \/ PruneRemove(c, i)
       \/ \E goal \in {"session", "default"} : AcceptBegin(c, i, goal)
  \/ PrepareFails(c) \/ PreparePublish(c) \/ PrepareSelect(c) \/ PrepareRecord(c)
  \/ RefineWrite(c) \/ RefineSelect(c) \/ EditWrite(c) \/ SelectSet(c)
  \/ AcceptInPlace(c) \/ AcceptClear(c) \/ AcceptMove(c) \/ AcceptWrite(c)
  \/ AcceptSelect(c) \/ Reset(c) \/ DiscardClear(c) \/ PruneBegin(c) \/ PruneEnd(c)

PlayStep(p) ==
  PlayResolve(p) \/ HomeRead(p) \/ HomeCheck(p) \/ PlayPin(p) \/ PlaySpeak(p) \/ PlayConsume(p) \/ PlayFails(p)

Next ==
  \/ \E c \in Callers : CallStep(c)
  \/ \E p \in Plays : PlayStep(p)
  \/ \E i \in Ids : Age(i)

Spec == Init /\ [][Next]_vars
SpecWithRestarts == Init /\ [][Next \/ Restart]_vars
-----------------------------------------------------------------------------
(* Properties.                                                             *)

\* A profile is a candidate or saved, never both: a leftover candidate of the
\* same id would hide the saved voice from every lookup, and the next accept
\* would delete it to make room.
NoShadow == \A i \in Ids :
  files["candidates"][i] = "absent" \/ files["profiles"][i] = "absent"

\* What the user saved can be spoken: the default and an accepted session
\* voice are complete under profiles/, at every moment of every call.
SavedVoices ==
  /\ state.default # None => files["profiles"][state.default] = "full"
  /\ state.profile # None /\ ~state.candidate => files["profiles"][state.profile] = "full"

\* Whatever is selected, a request finds it, unless its discard has removed
\* the files and is about to clear the selection.
SelectionResolves ==
  state.profile # None =>
    \/ Complete(state.profile)
    \/ \E c \in Callers : At(c, "discarding") /\ call[c].id = state.profile

\* A selection that a request can resolve does not dangle after the next step:
\* no move, prune or refinement takes its files away.  A crash in the middle of
\* a discard may.
SelectionKept == [][SelectionResolves /\ ~Restart => SelectionResolves']_vars

\* What Home Assistant hears is a saved voice, never a candidate, though the
\* bridge looks before the runtime does and the runtime looks under candidates/
\* first.
HomeHearsSaved == \A p \in Plays :
  play[p].home /\ play[p].at \in {"pinned", "spoken"} => play[p].from = "profiles"

\* An accepted session voice stays until a tool call resets or replaces it:
\* the runtime consumes previews only.
AcceptedStays ==
  [][\A p \in Plays : PlayStep(p) /\ ~state.candidate => state'.profile = state.profile]_vars
=============================================================================
