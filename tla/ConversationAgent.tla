-------------------------- MODULE ConversationAgent -------------------------
(***************************************************************************)
(* The conversation agent of Home Assistant (hermes_wyoming_agent/         *)
(* conversation.py).  A voice turn streams its answer from Hermes; if the  *)
(* stream fails before its first text, the request is forwarded to         *)
(* Node-RED and that answer is said.  A background request goes to         *)
(* Node-RED at once, and its wait may be cut short by an acknowledgement.  *)
(* What is said is a sequence of kinds of text; Hermes and Node-RED are    *)
(* what they may answer.                                                   *)
(***************************************************************************)
EXTENDS Naturals, Sequences

CONSTANTS
  Turns,        \* the voice turns
  MaxDeltas,    \* bound: the texts of one stream
  StallAck      \* stall_ack_seconds is set, to at most 60

VARIABLES
  turn,       \* where _async_handle_message stands
  forward,    \* the turn's _forward_to_nodered
  said        \* what the turn has put into the chat log

agentVars == <<turn, forward, said>>

Active   == {"connecting", "stream", "fallback", "background"}
Places   == {"idle", "over", "cancelled"} \cup Active
Forwards == {"none", "starting", "posted", "ended"}
Texts    == {"delta", "answer", "ack", "error"}

\* Every variable has its type, and a fallback or a background turn waits for
\* a forwarded request that is under way.
AgentTypeOK ==
  /\ turn \in [Turns -> Places]
  /\ forward \in [Turns -> Forwards]
  /\ said \in [Turns -> Seq(Texts)]
  /\ \A t \in Turns :
       turn[t] \in {"fallback", "background"} => forward[t] \in {"starting", "posted"}

AgentInit ==
  /\ turn = [t \in Turns |-> "idle"]
  /\ forward = [t \in Turns |-> "none"]
  /\ said = [t \in Turns |-> <<>>]

Goto(t, at)       == turn' = [turn EXCEPT ![t] = at]
ForwardIs(t, at)  == forward' = [forward EXCEPT ![t] = at]
Say(t, text)      == said' = [said EXCEPT ![t] = Append(@, text)]
-----------------------------------------------------------------------------
(* The two kinds of request.                                               *)

Hear(t) ==
  /\ turn[t] = "idle"
  /\ Goto(t, "connecting")
  /\ UNCHANGED <<forward, said>>

HearBackground(t) ==
  /\ turn[t] = "idle"
  /\ Goto(t, "background") /\ ForwardIs(t, "starting")
  /\ UNCHANGED said

\* The token has been read and the request is posted.
StreamPost(t) ==
  /\ turn[t] = "connecting"
  /\ Goto(t, "stream")
  /\ UNCHANGED <<forward, said>>
-----------------------------------------------------------------------------
(* The stream.                                                             *)

StreamDelta(t) ==
  /\ turn[t] = "stream" /\ Len(said[t]) < MaxDeltas
  /\ Say(t, "delta")
  /\ UNCHANGED <<turn, forward>>

\* [DONE] returns at once, whether or not there was any text.
StreamDone(t) ==
  /\ turn[t] = "stream"
  /\ Goto(t, "over")
  /\ UNCHANGED <<forward, said>>

\* The connection ends in good order without [DONE].
StreamEof(t) ==
  /\ turn[t] = "stream" /\ said[t] # <<>>
  /\ Goto(t, "over")
  /\ UNCHANGED <<forward, said>>

\* Mutant: that there was text already is not looked at.
StreamBreaksReplay(t) ==
  /\ turn[t] \in {"connecting", "stream"}
  /\ Goto(t, "fallback") /\ ForwardIs(t, "starting") /\ UNCHANGED said

\* No token, no connection, another status than 200, an end without text, or
\* 180 seconds are over.
StreamBreaks(t) ==
  /\ turn[t] \in {"connecting", "stream"}
  /\ \/ said[t] = <<>> /\ Goto(t, "fallback") /\ ForwardIs(t, "starting") /\ UNCHANGED said
     \/ said[t] # <<>> /\ Goto(t, "over") /\ Say(t, "error") /\ UNCHANGED forward
-----------------------------------------------------------------------------
(* The forwarded request, awaited by its turn or only logged.              *)

Awaited(t) == turn[t] \in {"fallback", "background"}

ForwardPost(t) ==
  /\ forward[t] = "starting"
  /\ ForwardIs(t, "posted")
  /\ UNCHANGED <<turn, said>>

\* An answer, or a sentence that says why there is none.
ForwardAnswers(t) ==
  /\ forward[t] = "posted"
  /\ ForwardIs(t, "ended")
  /\ IF Awaited(t) THEN Goto(t, "over") /\ Say(t, "answer") ELSE UNCHANGED <<turn, said>>

\* Mutant: a fallback that fails is only logged, like a late one.
ForwardBreaksUnheard(t) ==
  /\ forward[t] \in {"starting", "posted"}
  /\ ForwardIs(t, "ended")
  /\ IF turn[t] = "background" THEN Goto(t, "over") /\ Say(t, "error")
     ELSE UNCHANGED <<turn, said>>

\* No credentials, no connection, an answer that is no object, or 180 seconds
\* are over.
ForwardBreaks(t) ==
  /\ forward[t] \in {"starting", "posted"}
  /\ ForwardIs(t, "ended")
  /\ IF Awaited(t) THEN Goto(t, "over") /\ Say(t, "error") ELSE UNCHANGED <<turn, said>>

\* The acknowledgement is said, and the shielded request goes on.
Stall(t) ==
  /\ StallAck /\ turn[t] = "background"
  /\ Goto(t, "over") /\ Say(t, "ack")
  /\ UNCHANGED forward

\* Home Assistant cancels the turn; only the shield keeps a request from it.
Cancel(t) ==
  /\ turn[t] \in Active
  /\ Goto(t, "cancelled")
  /\ IF Awaited(t) /\ ~(StallAck /\ turn[t] = "background")
     THEN ForwardIs(t, "ended") ELSE UNCHANGED forward
  /\ UNCHANGED said

AgentStep(t) ==
  \/ Hear(t) \/ HearBackground(t) \/ StreamPost(t)
  \/ StreamDelta(t) \/ StreamDone(t) \/ StreamEof(t) \/ StreamBreaks(t)
  \/ ForwardPost(t) \/ ForwardAnswers(t) \/ ForwardBreaks(t)
  \/ Stall(t) \/ Cancel(t)

AgentNext == \E t \in Turns : AgentStep(t)
AgentSpec == AgentInit /\ [][AgentNext]_agentVars
-----------------------------------------------------------------------------
(* Properties.                                                             *)

\* A turn is answered once: the fallback's answer or the acknowledgement is
\* all there is, and after a streamed text comes nothing but more of it and,
\* last, that it broke off.
SpokenOnce == \A t \in Turns : \A n \in DOMAIN said[t] :
  /\ said[t][n] \in {"answer", "ack"} => Len(said[t]) = 1
  /\ said[t][n] = "error" => n = Len(said[t])

\* Every turn ends, and so does every forwarded request, awaited or not.
TurnEnds == \A t \in Turns :
  /\ turn[t] \in Active ~> turn[t] \in {"over", "cancelled"}
  /\ forward[t] \in {"starting", "posted"} ~> forward[t] = "ended"
=============================================================================
