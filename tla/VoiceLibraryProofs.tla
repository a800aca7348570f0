------------------------ MODULE VoiceLibraryProofs --------------------------
(***************************************************************************)
(* Proofs about the voice library for one tool call at a time, any number  *)
(* of requests in the runtime, and restarts of Hermes at any step.         *)
(***************************************************************************)
EXTENDS VoiceLibrary, TLAPS

Cand(i) == files["candidates"][i]
Prof(i) == files["profiles"][i]

\* No directory lost its reference, none under profiles/ lacks its metadata,
\* and an id that was not drawn has no directory.
FilesOK ==
  /\ \A i \in Ids : Cand(i) \in {"absent", "bare", "full"} /\ Prof(i) \in {"absent", "full"}
  /\ \A i \in Ids \ drawn : Cand(i) = "absent" /\ Prof(i) = "absent"

\* What a call has read or done is still so: nobody else touches its id.
CallFits(k) ==
  /\ k.at \notin {"idle", "pruning"} => k.id \in Ids
  /\ k.at = "preparing" => Cand(k.id) = "bare"
  /\ k.at \in {"published", "recording", "moving"} => Cand(k.id) = "full"
  /\ k.at \in {"refining", "refined", "editing", "accepting"} => files[k.from][k.id] = "full"
  /\ k.at \in {"saving", "choosing", "selecting"} => Prof(k.id) = "full"
  /\ k.at = "discarding" => Cand(k.id) = "absent"

LInv(c) == LibraryTypeOK /\ FilesOK /\ NoShadow /\ SavedVoices /\ CallFits(call[c])

\* What the bridge has let through is saved, and has no candidate beside it;
\* what the runtime found for it was under profiles/.
HomeFits ==
  /\ \A p \in Plays : play[p].home /\ play[p].at = "resolving" =>
       play[p].id \in drawn /\ Cand(play[p].id) = "absent"
  /\ HomeHearsSaved

LEMMA LibraryInit == ASSUME NEW c, Callers = {c} PROVE Init => LInv(c)
BY DEF Init, LInv, LibraryTypeOK, FilesOK, NoShadow, SavedVoices, CallFits, Cand, Prof,
       Parents, Contents, CallPlaces, PlayPlaces, NoCall, NoPlay

LEMMA Cleared ==
  ASSUME LibraryTypeOK, ClearSession
  PROVE  state' = [profile |-> None, candidate |-> FALSE, default |-> state.default]
BY DEF LibraryTypeOK, ClearSession

\* A tool call keeps the invariant: one case for each of its steps.
LEMMA CallKeeps ==
  ASSUME NEW c, Callers = {c}, LInv(c), CallStep(c)
  PROVE  LInv(c)'
<1>0. ClearSession => state' = [profile |-> None, candidate |-> FALSE, default |-> state.default]
  BY Cleared DEF LInv
<1> USE NoneAssumption
    DEF LInv, LibraryTypeOK, FilesOK, NoShadow, SavedVoices, CallFits, Cand, Prof, Lookup,
        Known, Described, Filled, Write, Remove, SetState, ClearSession, Goto, At, Return,
        Begin, others, Parents, Contents, CallPlaces, NoCall
<1>1. ASSUME NEW i \in Ids, PrepareBegin(c, i) PROVE LInv(c)'
  BY <1>1 DEF PrepareBegin
<1>2. ASSUME NEW i \in Ids, RefineBegin(c, i) PROVE LInv(c)'
  BY <1>2 DEF RefineBegin
<1>3. ASSUME NEW i \in Ids, EditBegin(c, i) PROVE LInv(c)'
  BY <1>3 DEF EditBegin
<1>4. ASSUME NEW i \in Ids, SelectBegin(c, i) PROVE LInv(c)'
  BY <1>4 DEF SelectBegin
<1>5. ASSUME NEW i \in Ids, DiscardBegin(c, i) PROVE LInv(c)'
  BY <1>5 DEF DiscardBegin
<1>6. ASSUME NEW i \in Ids, PruneRemove(c, i) PROVE LInv(c)'
  BY <1>6 DEF PruneRemove
<1>7. ASSUME NEW i \in Ids, NEW goal \in {"session", "default"}, AcceptBegin(c, i, goal)
       PROVE  LInv(c)'
  BY <1>7 DEF AcceptBegin
<1>8. CASE PrepareFails(c)
  BY <1>8 DEF PrepareFails
<1>9. CASE PreparePublish(c)
  BY <1>9 DEF PreparePublish
<1>10. CASE PrepareSelect(c)
  BY <1>10 DEF PrepareSelect
<1>11. CASE PrepareRecord(c)
  BY <1>11 DEF PrepareRecord
<1>12. CASE RefineWrite(c)
  BY <1>12 DEF RefineWrite
<1>13. CASE RefineSelect(c)
  <2>1. state' = [profile |-> call[c].id, candidate |-> call[c].from = "candidates",
                  default |-> state.default]
    BY <1>13 DEF RefineSelect
  <2>2. LibraryTypeOK' /\ FilesOK' /\ NoShadow'
    BY <1>13, <2>1 DEF RefineSelect, AfterRefine
  <2>3. SavedVoices'
    <3>1. files' = files /\ files[call[c].from][call[c].id] = "full" /\ call[c].from \in Parents
      BY <1>13 DEF RefineSelect
    <3>2. state'.profile = call[c].id /\ state'.default = state.default
          /\ (state'.candidate <=> call[c].from = "candidates")
      BY <2>1
    <3> QED
      BY <3>1, <3>2
  <2>4. CallFits(call[c])'
    BY <1>13, <2>2 DEF RefineSelect, AfterRefine
  <2> QED
    BY <2>2, <2>3, <2>4
<1>14. CASE EditWrite(c)
  BY <1>14 DEF EditWrite
<1>15. CASE SelectSet(c)
  BY <1>15 DEF SelectSet
<1>16. CASE AcceptInPlace(c)
  BY <1>16 DEF AcceptInPlace
<1>17. CASE AcceptClear(c)
  BY <1>17 DEF AcceptClear
<1>18. CASE AcceptMove(c)
  BY <1>18 DEF AcceptMove
<1>19. CASE AcceptWrite(c)
  BY <1>19 DEF AcceptWrite
<1>20. CASE AcceptSelect(c)
  BY <1>20 DEF AcceptSelect
<1>21. CASE Reset(c)
  BY <1>21 DEF Reset
<1>22. CASE DiscardClear(c)
  <2>1. CASE state.profile = call[c].id
    <3>1. state' = [profile |-> None, candidate |-> FALSE, default |-> state.default]
      BY <1>0, <1>22, <2>1 DEF DiscardClear
    <3>2. LibraryTypeOK' /\ FilesOK' /\ NoShadow' /\ SavedVoices'
      BY <1>22, <3>1 DEF DiscardClear
    <3>3. CallFits(call[c])'
      BY <1>22 DEF DiscardClear
    <3> QED
      BY <3>2, <3>3
  <2>2. CASE state.profile # call[c].id
    BY <1>22, <2>2 DEF DiscardClear
  <2> QED
    BY <2>1, <2>2
<1>23. CASE PruneBegin(c)
  BY <1>23 DEF PruneBegin
<1>24. CASE PruneEnd(c)
  BY <1>24 DEF PruneEnd
<1> HIDE DEF LInv, LibraryTypeOK, FilesOK, NoShadow, SavedVoices, CallFits, Cand, Prof,
             Lookup, Known, Described, Filled, Write, Remove, SetState, ClearSession, Goto,
             At, Return, Begin, others, Parents, Contents, CallPlaces, NoCall
<1> QED
  BY <1>1, <1>2, <1>3, <1>4, <1>5, <1>6, <1>7, <1>8, <1>9, <1>10, <1>11, <1>12, <1>13, <1>14, <1>15, <1>16, <1>17, <1>18, <1>19, <1>20, <1>21, <1>22, <1>23, <1>24 DEF CallStep

PlayRecord == [at : PlayPlaces, id : Ids \cup {None}, other : Ids \cup {None},
               from : Parents, preview : BOOLEAN, home : BOOLEAN]
PlayType   == [Plays -> PlayRecord]

\* Requests and the passing of days touch no file; a restart forgets the calls.
LEMMA OthersKeep ==
  ASSUME NEW c, Callers = {c}, LInv(c),
         \/ \E p \in Plays : PlayStep(p)
         \/ \E i \in Ids : Age(i)
         \/ Restart
         \/ UNCHANGED vars
  PROVE  LInv(c)'
<1>0. ClearSession => state' = [profile |-> None, candidate |-> FALSE, default |-> state.default]
  BY Cleared DEF LInv
<1> USE NoneAssumption
    DEF LInv, LibraryTypeOK, FilesOK, NoShadow, SavedVoices, CallFits, Cand, Prof,
        Lookup, Complete, Described, ClearSession, Parents, Contents, CallPlaces, PlayPlaces,
        NoCall, NoPlay, calls
<1>a. ASSUME UNCHANGED <<state, calls>>, play' \in PlayType PROVE LInv(c)'
  BY <1>a DEF PlayType, PlayRecord
<1>b. ASSUME NEW p \in Plays, NEW r \in PlayRecord, play' = [play EXCEPT ![p] = r]
      PROVE  play' \in PlayType
  BY <1>b DEF PlayType, PlayRecord
<1>1. ASSUME NEW p \in Plays, PlayResolve(p) PROVE LInv(c)'
  <2> DEFINE voice == IF state.profile # None THEN state.profile ELSE state.default
             r == [at |-> "resolving", id |-> voice, other |-> None, from |-> "profiles",
                   preview |-> state.profile # None /\ state.candidate, home |-> FALSE]
  <2>1. voice \in Ids \cup {None}
    OBVIOUS
  <2> HIDE DEF voice
  <2>2. r \in PlayRecord
    BY <2>1 DEF PlayRecord
  <2>3. play' = [play EXCEPT ![p] = r] /\ UNCHANGED <<state, calls>>
    BY <1>1 DEF PlayResolve, voice
  <2> HIDE DEF r
  <2>4. play' \in PlayType
    BY <1>b, <2>2, <2>3
  <2> QED
    BY <1>a, <2>3, <2>4
<1>9. ASSUME NEW p \in Plays, HomeRead(p) PROVE LInv(c)'
  <2> DEFINE voice == IF state.candidate THEN None ELSE state.profile
             r == [at |-> "asking", id |-> voice, other |-> state.default,
                   from |-> "profiles", preview |-> FALSE, home |-> TRUE]
  <2>1. voice \in Ids \cup {None}
    OBVIOUS
  <2> HIDE DEF voice
  <2>2. r \in PlayRecord
    BY <2>1 DEF PlayRecord
  <2>3. play' = [play EXCEPT ![p] = r] /\ UNCHANGED <<state, calls>>
    BY <1>9 DEF HomeRead, voice
  <2> HIDE DEF r
  <2>4. play' \in PlayType
    BY <1>b, <2>2, <2>3
  <2> QED
    BY <1>a, <2>3, <2>4
<1>10. ASSUME NEW p \in Plays, HomeCheck(p) PROVE LInv(c)'
  BY <1>a, <1>10 DEF HomeCheck, PlayType, PlayRecord
<1>2. ASSUME NEW p \in Plays, PlayPin(p) PROVE LInv(c)'
  <2>1. Lookup(play[p].id) \in Parents
    BY <1>2 DEF PlayPin
  <2> DEFINE r == [play[p] EXCEPT !.at = "pinned", !.from = Lookup(play[p].id)]
  <2>2. play[p] \in PlayRecord
    BY DEF PlayRecord
  <2>3. play' = [play EXCEPT ![p] = r]
    BY <1>2 DEF PlayPin
  <2>4. r \in PlayRecord
    BY <2>1, <2>2 DEF PlayRecord
  <2> HIDE DEF r
  <2>5. play' \in PlayType
    BY <1>b, <2>3, <2>4
  <2> QED
    BY <1>a, <1>2, <2>5 DEF PlayPin
<1>3. ASSUME NEW p \in Plays, PlaySpeak(p) PROVE LInv(c)'
  BY <1>a, <1>3 DEF PlaySpeak, PlayType, PlayRecord
<1>4. ASSUME NEW p \in Plays, PlayConsume(p) PROVE LInv(c)'
  <2>0. NoPlay \in PlayRecord
    BY DEF PlayRecord
  <2>1. play' \in PlayType
    <3>1. play' = [play EXCEPT ![p] = NoPlay]
      BY <1>4 DEF PlayConsume
    <3> HIDE DEF NoPlay, ClearSession, LInv
    <3> QED
      BY <1>b, <2>0, <3>1
  <2>2. CASE UNCHANGED state
    BY <1>a, <1>4, <2>1, <2>2 DEF PlayConsume
  <2>3. CASE state' = [profile |-> None, candidate |-> FALSE, default |-> state.default]
    <3>1. UNCHANGED calls
      BY <1>4 DEF PlayConsume
    <3>2. LibraryTypeOK'
      BY <2>1, <2>3, <3>1 DEF PlayType, PlayRecord
    <3>3. FilesOK' /\ NoShadow' /\ CallFits(call[c])'
      BY <3>1
    <3>4. SavedVoices'
      BY <2>3, <3>1
    <3> QED
      BY <3>2, <3>3, <3>4
  <2> QED
    BY <1>0, <1>4, <2>2, <2>3 DEF PlayConsume
<1>5. ASSUME NEW p \in Plays, PlayFails(p) PROVE LInv(c)'
  <2>1. NoPlay \in PlayRecord
    BY DEF PlayRecord
  <2>2. play' = [play EXCEPT ![p] = NoPlay] /\ UNCHANGED <<state, calls>>
    BY <1>5 DEF PlayFails
  <2>3. play' \in PlayType
    <3> HIDE DEF NoPlay, LInv
    <3> QED
      BY <1>b, <2>1, <2>2
  <2> QED
    BY <1>a, <2>2, <2>3
<1>6. ASSUME NEW i \in Ids, Age(i) PROVE LInv(c)'
  BY <1>6 DEF Age
<1>7. CASE Restart
  BY <1>7 DEF Restart, others
<1>8. CASE UNCHANGED vars
  BY <1>8 DEF vars
<1> HIDE DEF LInv, LibraryTypeOK, FilesOK, NoShadow, SavedVoices, CallFits, Cand, Prof,
             Lookup, Complete, Described, ClearSession, Parents, Contents, CallPlaces,
             PlayPlaces, NoCall, NoPlay, calls
<1> QED
  BY <1>1, <1>2, <1>3, <1>4, <1>5, <1>6, <1>7, <1>8, <1>9, <1>10 DEF PlayStep

LEMMA LibraryStep ==
  ASSUME NEW c, Callers = {c}
  PROVE  LInv(c) /\ [Next \/ Restart]_vars => LInv(c)'
BY CallKeeps, OthersKeep DEF Next

\* The default and an accepted session voice are complete under profiles/ at
\* every step of every tool call, and survive a restart at any of them.
THEOREM SavedVoicesSurvive ==
  ASSUME NEW c, Callers = {c}
  PROVE  SpecWithRestarts => []SavedVoices
<1>1. LInv(c) => SavedVoices
  BY DEF LInv
<1> QED
  BY <1>1, LibraryInit, LibraryStep, PTL DEF SpecWithRestarts

\* No candidate ever hides a saved profile.
THEOREM NothingShadowed ==
  ASSUME NEW c, Callers = {c}
  PROVE  SpecWithRestarts => []NoShadow
<1>1. LInv(c) => NoShadow
  BY DEF LInv
<1> QED
  BY <1>1, LibraryInit, LibraryStep, PTL DEF SpecWithRestarts

\* The variables of the library keep their types.
THEOREM LibraryTyped ==
  ASSUME NEW c, Callers = {c}
  PROVE  SpecWithRestarts => []LibraryTypeOK
<1>1. LInv(c) => LibraryTypeOK
  BY DEF LInv
<1> QED
  BY <1>1, LibraryInit, LibraryStep, PTL DEF SpecWithRestarts
-----------------------------------------------------------------------------
(* The selection resolves, as long as Hermes does not die in a discard.    *)

\* The selected profile has its files, or is being discarded by c.
Held(c) == state.profile # None =>
  \/ Cand(state.profile) = "full" \/ Prof(state.profile) = "full"
  \/ call[c].at = "discarding" /\ call[c].id = state.profile

\* A pruning keeps the active candidate: requests may clear it meanwhile, but
\* nothing selects another.
PruneFits(c) == call[c].at = "pruning" /\ state.candidate => call[c].id = state.profile

PInv(c) == LInv(c) /\ PruneFits(c)

LEMMA SelectionInit == ASSUME NEW c, Callers = {c} PROVE Init => PInv(c) /\ Held(c)
BY LibraryInit DEF PInv, Held, PruneFits, Init, NoCall

LEMMA SelectionCalls ==
  ASSUME NEW c, Callers = {c}, PInv(c), CallStep(c)
  PROVE  (Held(c) => Held(c)') /\ PruneFits(c)'
<1>0. ClearSession => state' = [profile |-> None, candidate |-> FALSE, default |-> state.default]
  BY Cleared DEF PInv, LInv
<1> USE NoneAssumption
    DEF PInv, LInv, LibraryTypeOK, FilesOK, NoShadow, SavedVoices, CallFits, Held, PruneFits,
        Cand, Prof, Lookup, Known, Described, Filled, Write, Remove, SetState, ClearSession,
        Goto, At, Return, Begin, others, Parents, Contents, CallPlaces, NoCall
<1>1. ASSUME NEW i \in Ids, PrepareBegin(c, i) PROVE (Held(c) => Held(c)') /\ PruneFits(c)'
  BY <1>1 DEF PrepareBegin
<1>2. ASSUME NEW i \in Ids, RefineBegin(c, i) PROVE (Held(c) => Held(c)') /\ PruneFits(c)'
  BY <1>2 DEF RefineBegin
<1>3. ASSUME NEW i \in Ids, EditBegin(c, i) PROVE (Held(c) => Held(c)') /\ PruneFits(c)'
  BY <1>3 DEF EditBegin
<1>4. ASSUME NEW i \in Ids, SelectBegin(c, i) PROVE (Held(c) => Held(c)') /\ PruneFits(c)'
  BY <1>4 DEF SelectBegin
<1>5. ASSUME NEW i \in Ids, DiscardBegin(c, i) PROVE (Held(c) => Held(c)') /\ PruneFits(c)'
  BY <1>5 DEF DiscardBegin
<1>6. ASSUME NEW i \in Ids, PruneRemove(c, i) PROVE (Held(c) => Held(c)') /\ PruneFits(c)'
  BY <1>6 DEF PruneRemove
<1>7. ASSUME NEW i \in Ids, NEW goal \in {"session", "default"}, AcceptBegin(c, i, goal)
       PROVE  (Held(c) => Held(c)') /\ PruneFits(c)'
  BY <1>7 DEF AcceptBegin
<1>8. CASE PrepareFails(c)
  BY <1>8 DEF PrepareFails
<1>9. CASE PreparePublish(c)
  BY <1>9 DEF PreparePublish
<1>10. CASE PrepareSelect(c)
  BY <1>10 DEF PrepareSelect
<1>11. CASE PrepareRecord(c)
  BY <1>11 DEF PrepareRecord
<1>12. CASE RefineWrite(c)
  BY <1>12 DEF RefineWrite
<1>13. CASE RefineSelect(c)
  BY <1>13 DEF RefineSelect, AfterRefine
<1>14. CASE EditWrite(c)
  BY <1>14 DEF EditWrite
<1>15. CASE SelectSet(c)
  BY <1>15 DEF SelectSet
<1>16. CASE AcceptInPlace(c)
  BY <1>16 DEF AcceptInPlace
<1>17. CASE AcceptClear(c)
  BY <1>17 DEF AcceptClear
<1>18. CASE AcceptMove(c)
  BY <1>18 DEF AcceptMove
<1>19. CASE AcceptWrite(c)
  BY <1>19 DEF AcceptWrite
<1>20. CASE AcceptSelect(c)
  BY <1>20 DEF AcceptSelect
<1>21. CASE Reset(c)
  BY <1>21 DEF Reset
<1>22. CASE DiscardClear(c)
  <2>1. CASE state.profile = call[c].id
    <3>1. state' = [profile |-> None, candidate |-> FALSE, default |-> state.default]
      BY <1>0, <1>22, <2>1 DEF DiscardClear
    <3> QED
      BY <3>1
  <2>2. CASE state.profile # call[c].id
    BY <1>22, <2>2 DEF DiscardClear
  <2> QED
    BY <2>1, <2>2
<1>23. CASE PruneBegin(c)
  BY <1>23 DEF PruneBegin
<1>24. CASE PruneEnd(c)
  BY <1>24 DEF PruneEnd
<1> HIDE DEF PInv, LInv, LibraryTypeOK, FilesOK, NoShadow, SavedVoices, CallFits, Held,
             PruneFits, Cand, Prof, Lookup, Known, Described, Filled, Write, Remove, SetState,
             ClearSession, Goto, At, Return, Begin, others, Parents, Contents, CallPlaces, NoCall
<1> QED
  BY <1>1, <1>2, <1>3, <1>4, <1>5, <1>6, <1>7, <1>8, <1>9, <1>10, <1>11, <1>12, <1>13, <1>14, <1>15, <1>16, <1>17, <1>18, <1>19, <1>20, <1>21, <1>22, <1>23, <1>24 DEF CallStep

LEMMA SelectionOthers ==
  ASSUME NEW c, Callers = {c}, PInv(c),
         \/ \E p \in Plays : PlayStep(p)
         \/ \E i \in Ids : Age(i)
         \/ UNCHANGED vars
  PROVE  (Held(c) => Held(c)') /\ PruneFits(c)'
<1> USE DEF PInv, LInv, LibraryTypeOK, Held, PruneFits, Cand, Prof, ClearSession, calls
<1>1. ASSUME NEW p \in Plays, PlayConsume(p) PROVE (Held(c) => Held(c)') /\ PruneFits(c)'
  BY <1>1 DEF PlayConsume
<1>2. ASSUME UNCHANGED <<state, files, call>> PROVE (Held(c) => Held(c)') /\ PruneFits(c)'
  BY <1>2
<1> QED
  BY <1>1, <1>2 DEF PlayStep, PlayResolve, HomeRead, HomeCheck, PlayPin, PlaySpeak, PlayFails, Age, vars

LEMMA SelectionStep ==
  ASSUME NEW c, Callers = {c}, PInv(c)
  PROVE  /\ [Next \/ Restart]_vars => PInv(c)'
         /\ [Next]_vars => (Held(c) => Held(c)')
<1>1. [Next \/ Restart]_vars => LInv(c)'
  BY LibraryStep DEF PInv
<1>2. [Next]_vars => (Held(c) => Held(c)') /\ PruneFits(c)'
  BY SelectionCalls, SelectionOthers DEF Next
<1>3. Restart => PruneFits(c)'
  BY DEF Restart, PruneFits, NoCall
<1> QED
  BY <1>1, <1>2, <1>3 DEF PInv

LEMMA HeldResolves ==
  ASSUME NEW c, Callers = {c}, LInv(c)
  PROVE  Held(c) <=> SelectionResolves
<1>1. CASE state.profile = None
  BY <1>1 DEF Held, SelectionResolves
<1>2. CASE state.profile # None
  <2>1. state.profile \in Ids
    BY <1>2 DEF LInv, LibraryTypeOK
  <2>2. Cand(state.profile) = "full" \/ Prof(state.profile) = "full" <=> Complete(state.profile)
    BY <2>1 DEF LInv, FilesOK, NoShadow, Complete, Lookup, Described, Cand, Prof
  <2> QED
    BY <1>2, <2>2 DEF Held, SelectionResolves, At
<1> QED
  BY <1>1, <1>2

\* Whatever is selected, a request finds it: through prepare, refine, accept,
\* pruning, and the requests that consume previews meanwhile.
THEOREM SelectionHolds ==
  ASSUME NEW c, Callers = {c}
  PROVE  Spec => []SelectionResolves
<1>1. PInv(c) /\ Held(c) /\ [Next]_vars => PInv(c)' /\ Held(c)'
  BY SelectionStep
<1>2. PInv(c) /\ Held(c) => SelectionResolves
  BY HeldResolves DEF PInv
<1> QED
  BY <1>1, <1>2, SelectionInit, PTL DEF Spec

\* A selection that resolves goes on resolving after every step but a crash,
\* and does so again after whatever crashes there were before.
THEOREM SelectionStays ==
  ASSUME NEW c, Callers = {c}
  PROVE  SpecWithRestarts => SelectionKept
<1>1. PInv(c) /\ [Next \/ Restart]_vars => PInv(c)'
  BY SelectionStep
<1>2. ASSUME PInv(c), PInv(c)', [Next \/ Restart]_vars, SelectionResolves, ~Restart
      PROVE  SelectionResolves'
  <2>1. Held(c)
    BY <1>2, HeldResolves DEF PInv
  <2>2. Held(c)'
    BY <1>2, <2>1, SelectionStep
  <2>3. LInv(c)' => (Held(c)' <=> SelectionResolves')
    BY HeldResolves, PTL
  <2> QED
    BY <1>2, <2>2, <2>3 DEF PInv
<1> QED
  BY <1>1, <1>2, SelectionInit, PTL DEF SpecWithRestarts, SelectionKept
-----------------------------------------------------------------------------
(* What the bridge lets through is spoken from profiles/.                  *)

\* No tool call brings back a candidate of an id already drawn.
LEMMA CandidatesDoNotReturn ==
  ASSUME NEW c, Callers = {c}, LInv(c), CallStep(c), NEW h \in drawn, Cand(h) = "absent"
  PROVE  h \in drawn' /\ Cand(h)' = "absent" /\ play' = play
<1> USE DEF LInv, LibraryTypeOK, CallFits, Cand, Filled, Write, Remove, Goto, At, Return,
            Begin, others, Parents
<1>1. CASE \E i \in Ids : PrepareBegin(c, i)
  BY <1>1 DEF PrepareBegin
<1>2. CASE \E i \in Ids : DiscardBegin(c, i) \/ PruneRemove(c, i)
  BY <1>2 DEF DiscardBegin, PruneRemove
<1>3. CASE PrepareFails(c) \/ PreparePublish(c) \/ PrepareRecord(c)
  BY <1>3 DEF PrepareFails, PreparePublish, PrepareRecord
<1>4. CASE RefineWrite(c) \/ EditWrite(c)
  BY <1>4 DEF RefineWrite, EditWrite
<1>5. CASE AcceptClear(c) \/ AcceptMove(c) \/ AcceptWrite(c)
  BY <1>5 DEF AcceptClear, AcceptMove, AcceptWrite
<1>6. ASSUME UNCHANGED <<files, others>> PROVE h \in drawn' /\ Cand(h)' = "absent" /\ play' = play
  BY <1>6
<1> QED
  BY <1>1, <1>2, <1>3, <1>4, <1>5, <1>6
     DEF CallStep, RefineBegin, EditBegin, SelectBegin, AcceptBegin, PrepareSelect, RefineSelect,
         SelectSet, AcceptInPlace, AcceptSelect, Reset, DiscardClear, PruneBegin, PruneEnd

LEMMA HomeCalls ==
  ASSUME NEW c, Callers = {c}, LInv(c), HomeFits, CallStep(c)
  PROVE  HomeFits'
<1>1. play' = play
  BY DEF CallStep, PrepareBegin, RefineBegin, EditBegin, SelectBegin, DiscardBegin, PruneRemove,
         AcceptBegin, PrepareFails, PreparePublish, PrepareSelect, PrepareRecord, RefineWrite,
         RefineSelect, EditWrite, SelectSet, AcceptInPlace, AcceptClear, AcceptMove, AcceptWrite,
         AcceptSelect, Reset, DiscardClear, PruneBegin, PruneEnd, others
<1>2. \A h \in drawn : Cand(h) = "absent" => h \in drawn' /\ Cand(h)' = "absent"
  BY CandidatesDoNotReturn
<1> QED
  BY <1>1, <1>2 DEF HomeFits, HomeHearsSaved, Cand

LEMMA HomePlays ==
  ASSUME NEW c, Callers = {c}, LInv(c), HomeFits, NEW p \in Plays, PlayStep(p)
  PROVE  HomeFits'
<1> USE DEF LInv, LibraryTypeOK, HomeFits, HomeHearsSaved, Cand, calls, NoPlay
<1>1. CASE PlayResolve(p)
  BY <1>1 DEF PlayResolve
<1>2. CASE HomeRead(p)
  BY <1>2 DEF HomeRead
<1>3. CASE HomeCheck(p)
  <2>1. \A i \in Ids \cup {None} : SavedAtHome(i) => i \in drawn /\ Cand(i) = "absent"
    BY DEF SavedAtHome, FilesOK, Prof
  <2>2. play[p].id \in Ids \cup {None}
    OBVIOUS
  <2>3. CASE SavedAtHome(play[p].id)
    <3>1. play' = [play EXCEPT ![p].at = "resolving", ![p].other = None] /\ UNCHANGED calls
      BY <1>3, <2>3 DEF HomeCheck
    <3>2. play[p].id \in drawn /\ Cand(play[p].id) = "absent"
      BY <2>1, <2>2, <2>3
    <3> QED
      BY <3>1, <3>2
  <2>4. CASE ~SavedAtHome(play[p].id)
    <3>1. play[p].at = "asking" /\ UNCHANGED calls
          /\ play' = [play EXCEPT ![p].id = play[p].other, ![p].other = None]
      BY <1>3, <2>4 DEF HomeCheck
    <3> QED
      BY <3>1
  <2> QED
    BY <2>3, <2>4
<1>4. CASE PlayPin(p)
  <2>1. play[p].home => Lookup(play[p].id) # "candidates"
    BY <1>4 DEF PlayPin, Lookup, Described
  <2>2. Lookup(play[p].id) \in {"candidates", "profiles"}
    BY <1>4 DEF PlayPin, Complete, Lookup
  <2> QED
    BY <1>4, <2>1, <2>2 DEF PlayPin
<1>5. CASE PlaySpeak(p)
  BY <1>5 DEF PlaySpeak
<1>6. CASE PlayConsume(p) \/ PlayFails(p)
  <2>1. play' = [play EXCEPT ![p] = NoPlay] /\ UNCHANGED calls
    BY <1>6 DEF PlayConsume, PlayFails
  <2>2. \A q \in Plays : play'[q] = play[q] \/ ~play'[q].home
    BY <2>1
  <2> QED
    BY <2>1, <2>2
<1> HIDE DEF LInv, LibraryTypeOK, HomeFits, HomeHearsSaved, Cand, calls, NoPlay
<1> QED
  BY <1>1, <1>2, <1>3, <1>4, <1>5, <1>6 DEF PlayStep

LEMMA HomeStep ==
  ASSUME NEW c, Callers = {c}, LInv(c), HomeFits, [Next \/ Restart]_vars
  PROVE  HomeFits'
<1>1. ASSUME UNCHANGED <<files, drawn, play>> PROVE HomeFits'
  BY <1>1 DEF HomeFits, HomeHearsSaved, Cand
<1> QED
  BY <1>1, HomeCalls, HomePlays DEF Next, Age, Restart, others, vars

\* Home Assistant never hears a candidate, whatever the tool call and the
\* other requests do between the look of the bridge and that of the runtime.
THEOREM HomeHearsSavedOnly ==
  ASSUME NEW c, Callers = {c}
  PROVE  SpecWithRestarts => []HomeHearsSaved
<1>1. Init => LInv(c) /\ HomeFits
  BY LibraryInit DEF Init, HomeFits, HomeHearsSaved, NoPlay
<1>2. LInv(c) /\ HomeFits /\ [Next \/ Restart]_vars => LInv(c)' /\ HomeFits'
  BY LibraryStep, HomeStep
<1>3. HomeFits => HomeHearsSaved
  BY DEF HomeFits
<1> QED
  BY <1>1, <1>2, <1>3, PTL DEF SpecWithRestarts
=============================================================================
