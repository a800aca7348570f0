------------------------------- MODULE Bridge -------------------------------
(***************************************************************************)
(* The bridge between Home Assistant and the runtime                       *)
(* (integrations/home-assistant/jarvis-cosyvoice-ha-proxy.py): a thread    *)
(* per request, which takes a slot or turns the request away, forwards it, *)
(* writes the answer and then gives the slot back.  What the runtime does  *)
(* with a request is up to the module that instantiates this one.          *)
(***************************************************************************)
EXTENDS Naturals, FiniteSets

CONSTANTS
  Calls,          \* the requests; each is sent once
  ControlCalls,   \* those that _forward_control serves
  ProxySlots,     \* MAX_CONCURRENT_REQUESTS
  ControlSlots    \* MAX_CONCURRENT_CONTROL_REQUESTS

VARIABLES
  hop,      \* how far each request is
  reply,    \* what its client can read
  free      \* the slots left in proxy_slots and control_slots

Hops    == {"unsent", "sent", "forwarded", "flowing", "answered", "done"}
Replies == {"none", "ok", "error", "whole", "cut"}
Slots   == [proxy |-> ProxySlots, control |-> ControlSlots]
Pool(c) == IF c \in ControlCalls THEN "control" ELSE "proxy"
Held(p) == {c \in Calls : Pool(c) = p /\ hop[c] \in {"forwarded", "flowing", "answered"}}

\* Every variable has its type, and a slot is free or held by one request:
\* no way out of a handler keeps one, and none returns one it did not take.
BridgeTypeOK ==
  /\ hop \in [Calls -> Hops]
  /\ reply \in [Calls -> Replies]
  /\ free \in [{"proxy", "control"} -> Nat]
  /\ \A p \in {"proxy", "control"} : free[p] + Cardinality(Held(p)) = Slots[p]

BridgeInit ==
  /\ hop = [c \in Calls |-> "unsent"]
  /\ reply = [c \in Calls |-> "none"]
  /\ free = Slots

Send(cs) ==
  /\ hop' = [c \in Calls |-> IF c \in cs THEN "sent" ELSE hop[c]]
  /\ UNCHANGED <<reply, free>>

\* The request moves on, and its client may have something to read.
Advance(c, from, to, r) ==
  /\ hop[c] = from
  /\ hop' = [hop EXCEPT ![c] = to]
  /\ reply' = [reply EXCEPT ![c] = r]

\* The client cannot reach the bridge.
Lose(c) == Advance(c, "sent", "done", "error") /\ UNCHANGED free

\* Neither semaphore is waited for.
TurnAway(c) ==
  /\ free[Pool(c)] = 0
  /\ Advance(c, "sent", "done", "error")
  /\ UNCHANGED free

Enter(c) ==
  /\ free[Pool(c)] > 0
  /\ Advance(c, "sent", "forwarded", "none")
  /\ free' = [free EXCEPT ![Pool(c)] = @ - 1]

\* A complete answer, or 503 when the backend fails or answers too late.
Answer(c, r) == Advance(c, "forwarded", "answered", r) /\ UNCHANGED free

\* The headers of an audio response, and its chunks from here on.
Begin(c) == Advance(c, "forwarded", "flowing", "none") /\ UNCHANGED free

\* The last chunk is sent only if the backend ended its response properly.
Terminate(c) == Advance(c, "flowing", "answered", "whole") /\ UNCHANGED free
CutOff(c)    == Advance(c, "flowing", "answered", "cut") /\ UNCHANGED free

\* Mutant: a handler whose client has gone leaves without its finally.
ReleaseUnlessCut(c) ==
  /\ Advance(c, "answered", "done", reply[c])
  /\ free' = IF reply[c] = "cut" THEN free ELSE [free EXCEPT ![Pool(c)] = @ + 1]

\* The finally block, after the answer has been written.
Release(c) ==
  /\ Advance(c, "answered", "done", reply[c])
  /\ free' = [free EXCEPT ![Pool(c)] = @ + 1]
=============================================================================
