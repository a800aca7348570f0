----------------------------- MODULE VoiceTurns -----------------------------
(***************************************************************************)
(* Voice turns of Home Assistant whose user asks for a new voice: the      *)
(* conversation agent, and Hermes as it creates the voice.  A turn can     *)
(* reach Hermes twice, by the stream and, if that fails before its first   *)
(* text, through Node-RED; Hermes then handles the same request a second   *)
(* time, while the thread of the first call may still be at work.  Others  *)
(* may ask Hermes for a voice at the same time.  Node-RED and Hermes' own  *)
(* loop are external.                                                      *)
(***************************************************************************)
EXTENDS ConversationAgent

CONSTANTS
  Others,       \* requests that do not come from Home Assistant
  Personas, Urls, Wishes, Calls, Sources, MaxIntents, None

Ways == {"stream", "forward"}
Runs == (Turns \X Ways) \cup Others

VARIABLES
  wish,      \* what each turn's user asks for
  intents, heard, job, lock, aged, saved

INSTANCE VoiceCreation

\* SEARCH_LIMIT is 5, the limit on _TURN_INTENT 1024.
ASSUME TurnsAssumption ==
  /\ Others \cap (Turns \X Ways) = {}
  /\ Wishes \subseteq WishType /\ Calls \subseteq CallType
  /\ None \notin Runs \cup Urls /\ None \notin WishType \cup CallType
  /\ MaxDeltas \in Nat /\ StallAck \in BOOLEAN
  /\ Sources \in Nat \ {0} /\ MaxIntents \in Nat \ {0}

creation == <<intents, heard, job, lock, aged, saved>>
vars == <<turn, forward, said, wish, creation>>

\* Every variable has its type, and Hermes handles what was posted.
TurnTypeOK ==
  /\ AgentTypeOK /\ CreationTypeOK
  /\ wish \in [Turns -> Wishes]
  /\ \A t \in Turns :
       /\ job[<<t, "stream">>].at # "new" => turn[t] \notin {"idle", "connecting", "background"}
       /\ job[<<t, "forward">>].at # "new" => forward[t] \in {"posted", "ended"}

Init == AgentInit /\ CreationInit /\ wish \in [Turns -> Wishes]

\* A post reaches Hermes, or gets lost on the way.
Arrives(t, way) == Hook(<<t, way>>, wish[t]) \/ UNCHANGED creation

\* Hermes says nothing while a call of the tool runs.
Speaks(t) == job[<<t, "stream">>].at \in {"thinking", "done"} /\ UNCHANGED creation

Speak(t) == Speaks(t) /\ (StreamDelta(t) \/ StreamDone(t)) /\ UNCHANGED wish
Post(t)  == Arrives(t, "stream") /\ StreamPost(t) /\ UNCHANGED wish
Forward(t) == Arrives(t, "forward") /\ ForwardPost(t) /\ UNCHANGED wish

\* What Home Assistant does by itself, or hears from elsewhere.
Alone(t) ==
  /\ Hear(t) \/ HearBackground(t) \/ StreamEof(t) \/ Stall(t) \/ Cancel(t)
  /\ UNCHANGED <<wish, creation>>

StreamFails(t)   == StreamBreaks(t) /\ UNCHANGED <<wish, creation>>
ForwardFails(t)  == ForwardBreaks(t) /\ UNCHANGED <<wish, creation>>
ForwardEnds(t)   == ForwardAnswers(t) /\ UNCHANGED <<wish, creation>>

Create(r) == JobStep(r) /\ UNCHANGED <<agentVars, wish>>
Hermes ==
  /\ LockAges \/ Restart \/ \E r \in Others, w \in Wishes : Hook(r, w)
  /\ UNCHANGED <<agentVars, wish>>

Next ==
  \/ \E t \in Turns :
       \/ Speak(t) \/ Post(t) \/ Forward(t) \/ Alone(t)
       \/ StreamFails(t) \/ ForwardFails(t) \/ ForwardEnds(t)
  \/ \E r \in Runs : Create(r)
  \/ Hermes

\* Reading the token and the credentials ends one way or the other, and 180
\* seconds after its post every request is given up.
Fairness == \A t \in Turns : WF_vars(StreamFails(t)) /\ WF_vars(ForwardFails(t))

Spec == Init /\ [][Next]_vars /\ Fairness
=============================================================================
