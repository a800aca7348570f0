-------------------------- MODULE VoiceTurnsProofs --------------------------
(***************************************************************************)
(* Proofs about voice turns that ask for a new voice, for any number of    *)
(* turns, other requests, personas, URLs and sources, any limit on the     *)
(* table of intents, and restarts of Hermes at any step.                   *)
(***************************************************************************)
EXTENDS VoiceTurns, FiniteSetTheorems, TLAPS

-----------------------------------------------------------------------------
(* The composition takes its parts' own steps.                             *)

WishOK == wish \in [Turns -> Wishes]

LEMMA TurnsStep ==
  ASSUME [Next]_vars, WishOK
  PROVE  [AgentNext]_agentVars /\ [CreationNext]_creation /\ WishOK'
<1> USE DEF creation, agentVars, WishOK
<1>1. ASSUME NEW t \in Turns, NEW way \in Ways, Arrives(t, way) PROVE [CreationNext]_creation
  BY <1>1 DEF Arrives, CreationNext, Runs
<1>2. ASSUME NEW t \in Turns, Speak(t) \/ Post(t) \/ Forward(t) \/ Alone(t)
                              \/ StreamFails(t) \/ ForwardFails(t) \/ ForwardEnds(t)
      PROVE  AgentStep(t) /\ [CreationNext]_creation
  BY <1>1, <1>2 DEF Speak, Post, Forward, Alone, StreamFails, ForwardFails, ForwardEnds, Speaks,
                    AgentStep, Ways
<1>3. ASSUME NEW r \in Runs, Create(r) PROVE [AgentNext]_agentVars /\ [CreationNext]_creation
  BY <1>3 DEF Create, CreationNext
<1>4. ASSUME Hermes PROVE [AgentNext]_agentVars /\ [CreationNext]_creation
  BY <1>4 DEF Hermes, CreationNext, Runs
<1>5. UNCHANGED wish
  BY DEF Next, Speak, Post, Forward, Alone, StreamFails, ForwardFails, ForwardEnds, Create,
         Hermes, vars
<1> QED
  BY <1>2, <1>3, <1>4, <1>5 DEF Next, vars, AgentNext
-----------------------------------------------------------------------------
(* What a turn says.                                                       *)

\* Only a stream has said something before it ends, and nothing but deltas.
SaidFits == \A t \in Turns :
  /\ turn[t] \in {"idle", "connecting", "fallback", "background"} => said[t] = <<>>
  /\ turn[t] = "stream" => \A n \in DOMAIN said[t] : said[t][n] = "delta"

\* One more text leaves the others as they are.
LEMMA OneMore ==
  ASSUME AgentTypeOK, NEW t \in Turns, NEW x \in Texts, Say(t, x)
  PROVE  /\ said' \in [Turns -> Seq(Texts)]
         /\ \A u \in Turns \ {t} : said'[u] = said[u]
         /\ Len(said'[t]) = Len(said[t]) + 1
         /\ DOMAIN said'[t] = 1..(Len(said[t]) + 1)
         /\ \A n \in 1..Len(said[t]) : said'[t][n] = said[t][n]
         /\ said'[t][Len(said[t]) + 1] = x
<1>1. said[t] \in Seq(Texts)
  BY DEF AgentTypeOK
<1>2. said' = [said EXCEPT ![t] = Append(said[t], x)]
  BY DEF Say
<1>3. said'[t] = Append(said[t], x)
  BY <1>2 DEF AgentTypeOK
<1> QED
  BY <1>1, <1>2, <1>3 DEF AgentTypeOK

AInv == AgentTypeOK /\ SaidFits /\ SpokenOnce

LEMMA AgentStarts == AgentInit => AInv
BY DEF AgentInit, AInv, AgentTypeOK, SaidFits, SpokenOnce, Places, Active, Forwards

LEMMA AgentKeeps == AInv /\ [AgentNext]_agentVars => AInv'
<1> SUFFICES ASSUME AInv, [AgentNext]_agentVars PROVE AInv'
  OBVIOUS
<1> USE TurnsAssumption
    DEF AInv, AgentTypeOK, SaidFits, SpokenOnce, Places, Active, Forwards, Goto, ForwardIs
<1>1. ASSUME NEW t \in Turns, Hear(t) PROVE AInv'
  BY <1>1 DEF Hear
<1>2. ASSUME NEW t \in Turns, HearBackground(t) PROVE AInv'
  BY <1>2 DEF HearBackground
<1>3. ASSUME NEW t \in Turns, StreamPost(t) PROVE AInv'
  BY <1>3 DEF StreamPost
\* A text is said, and the turn stays in its stream or is over.
<1>0. ASSUME NEW t \in Turns, NEW x \in Texts, Say(t, x),
             \/ turn[t] = "stream" /\ UNCHANGED <<turn, forward>> /\ x = "delta"
             \/ turn[t] = "stream" /\ Goto(t, "over") /\ UNCHANGED forward /\ x = "error"
             \/ /\ Awaited(t) /\ Goto(t, "over") /\ x # "delta"
                /\ forward' \in [Turns -> Forwards]
                /\ \A u \in Turns \ {t} : forward'[u] = forward[u]
      PROVE  AInv'
  <2> DEFINE k == Len(said[t])
  <2>1. said' \in [Turns -> Seq(Texts)] /\ \A u \in Turns \ {t} : said'[u] = said[u]
    BY <1>0, OneMore
  <2>2. Len(said'[t]) = k + 1 /\ DOMAIN said'[t] = 1..(k + 1) /\ said'[t][k + 1] = x
    BY <1>0, OneMore
  <2>3. \A n \in 1..k : said'[t][n] = said[t][n]
    BY <1>0, OneMore
  <2>4. k \in Nat /\ DOMAIN said[t] = 1..k
    OBVIOUS
  <2>5. turn[t] = "stream" => \A n \in 1..k : said[t][n] = "delta"
    BY <2>4
  <2>6. Awaited(t) => k = 0
    BY DEF Awaited
  <2>10. turn' \in [Turns -> Places] /\ \A u \in Turns \ {t} : turn'[u] = turn[u]
    BY <1>0
  <2>11. turn'[t] = "over" \/ (turn'[t] = "stream" /\ turn[t] = "stream" /\ x = "delta")
    <3>1. turn \in [Turns -> Places]
      OBVIOUS
    <3> HIDE DEF AInv, AgentTypeOK, SaidFits, SpokenOnce
    <3>2. Goto(t, "over") => turn'[t] = "over"
      BY <3>1
    <3> QED
      BY <1>0, <3>2
  <2>7. AgentTypeOK'
    <3>1. forward' \in [Turns -> Forwards] /\ \A u \in Turns \ {t} : forward'[u] = forward[u]
      BY <1>0
    <3> QED
      BY <2>1, <2>10, <2>11, <3>1
  <2> HIDE DEF k
  <2>8. turn[t] = "stream" => \A n \in DOMAIN said'[t] : said'[t][n] = IF n = k + 1 THEN x ELSE "delta"
    BY <2>2, <2>3, <2>4, <2>5
  <2>9. Awaited(t) => DOMAIN said'[t] = {1} /\ said'[t][1] = x
    BY <2>2, <2>6
  <2>12. SaidFits'
    BY <2>1, <2>8, <2>10, <2>11
  <2>13. SpokenOnce'
    <3>1. \A n \in DOMAIN said'[t] : /\ said'[t][n] \in {"answer", "ack"} => Len(said'[t]) = 1
                                     /\ said'[t][n] = "error" => n = Len(said'[t])
      <4>1. CASE turn[t] = "stream"
        BY <1>0, <2>2, <2>4, <2>8, <4>1 DEF Awaited
      <4>2. CASE Awaited(t)
        BY <2>2, <2>4, <2>6, <2>9, <4>2
      <4> QED
        BY <1>0, <4>1, <4>2
    <3> QED
      BY <2>1, <3>1
  <2> QED
    BY <2>7, <2>12, <2>13
<1>4. ASSUME NEW t \in Turns, StreamDelta(t) PROVE AInv'
  BY <1>4, <1>0 DEF StreamDelta, Texts
<1>5. ASSUME NEW t \in Turns, StreamDone(t) PROVE AInv'
  BY <1>5 DEF StreamDone
<1>6. ASSUME NEW t \in Turns, StreamEof(t) PROVE AInv'
  BY <1>6 DEF StreamEof
<1>7. ASSUME NEW t \in Turns, StreamBreaks(t) PROVE AInv'
  <2>1. CASE said[t] = <<>> /\ Goto(t, "fallback") /\ ForwardIs(t, "starting") /\ UNCHANGED said
    BY <1>7, <2>1 DEF StreamBreaks
  <2>2. CASE turn[t] = "stream" /\ Goto(t, "over") /\ Say(t, "error") /\ UNCHANGED forward
    BY <1>0, <2>2 DEF Texts
  <2> QED
    BY <1>7, <2>1, <2>2 DEF StreamBreaks
<1>8. ASSUME NEW t \in Turns, ForwardPost(t) PROVE AInv'
  BY <1>8 DEF ForwardPost
<1>9. ASSUME NEW t \in Turns, ForwardAnswers(t) PROVE AInv'
  <2>1. CASE Awaited(t)
    BY <1>9, <1>0, <2>1 DEF ForwardAnswers, Texts
  <2>2. CASE ~Awaited(t)
    BY <1>9, <2>2 DEF ForwardAnswers, Awaited
  <2> QED
    BY <2>1, <2>2
<1>10. ASSUME NEW t \in Turns, ForwardBreaks(t) PROVE AInv'
  <2>1. CASE Awaited(t)
    BY <1>10, <1>0, <2>1 DEF ForwardBreaks, Texts
  <2>2. CASE ~Awaited(t)
    BY <1>10, <2>2 DEF ForwardBreaks, Awaited
  <2> QED
    BY <2>1, <2>2
<1>11. ASSUME NEW t \in Turns, Stall(t) PROVE AInv'
  <2>1. Awaited(t) /\ Goto(t, "over") /\ Say(t, "ack") /\ UNCHANGED forward
    BY <1>11 DEF Stall, Awaited
  <2>2. forward' \in [Turns -> Forwards] /\ \A u \in Turns \ {t} : forward'[u] = forward[u]
    BY <2>1
  <2>3. "ack" \in Texts /\ "ack" # "delta"
    BY DEF Texts
  <2> HIDE DEF AInv, AgentTypeOK, SaidFits, SpokenOnce, Goto, Forwards, Places
  <2>4. ASSUME NEW x \in Texts, x = "ack" PROVE AInv'
    <3>1. Say(t, x) /\ x # "delta"
      BY <2>1, <2>3, <2>4
    <3> QED
      BY <1>0, <2>1, <2>2, <3>1
  <2> QED
    BY <2>3, <2>4
<1>12. ASSUME NEW t \in Turns, Cancel(t) PROVE AInv'
  <2>1. turn' = [turn EXCEPT ![t] = "cancelled"] /\ UNCHANGED said
    BY <1>12 DEF Cancel
  <2>2. forward' \in [Turns -> Forwards] /\ \A u \in Turns \ {t} : forward'[u] = forward[u]
    <3>1. CASE ForwardIs(t, "ended")
      BY <3>1
    <3>2. CASE UNCHANGED forward
      BY <3>2
    <3> QED
      BY <1>12, <3>1, <3>2 DEF Cancel
  <2>3. turn' \in [Turns -> Places] /\ turn'[t] = "cancelled"
        /\ \A u \in Turns \ {t} : turn'[u] = turn[u]
    BY <2>1
  <2> QED
    BY <2>1, <2>2, <2>3
<1>13. CASE UNCHANGED agentVars
  BY <1>13 DEF agentVars
<1> HIDE DEF AInv, AgentTypeOK, SaidFits, SpokenOnce, Places, Active, Forwards, Goto, ForwardIs
<1> QED
  BY <1>1, <1>2, <1>3, <1>4, <1>5, <1>6, <1>7, <1>8, <1>9, <1>10, <1>11, <1>12, <1>13
     DEF AgentNext, AgentStep

-----------------------------------------------------------------------------
(* What a step of a call does to its job.                                  *)

Asking   == Wishes \cup {None}
Calling  == CallType \cup {None}
Found    == Urls \cup {None}
JobType  == [at : Stages, asked : Asking, call : Calling, source : Found,
             tries : 0..Sources, seen : SUBSET Runs]
Resting  == {"new", "thinking", "done", "dead"}
Informed == {"searching", "locking", "stealing", "relocking", "preparing", "saving"}

LEMMA JobBecomes ==
  ASSUME CreationTypeOK, NEW r \in Runs, NEW j \in JobType, job' = [job EXCEPT ![r] = j]
  PROVE  job' \in [Runs -> JobType] /\ job'[r] = j /\ \A u \in Runs \ {r} : job'[u] = job[u]
BY DEF CreationTypeOK, JobType, Asking, Calling, Found

\* The job of r has got these values and kept what was asked, the others are
\* as they were.
Moves(r, at, call, source, tries, seen) ==
  /\ job' \in [Runs -> JobType] /\ \A u \in Runs \ {r} : job'[u] = job[u]
  /\ job'[r].at = at /\ job'[r].asked = job[r].asked /\ job'[r].call = call
  /\ job'[r].source = source /\ job'[r].tries = tries /\ job'[r].seen = seen

LEMMA JobReturns ==
  ASSUME CreationTypeOK, NEW r \in Runs, NEW at \in Stages, Return(r, at)
  PROVE  Moves(r, at, None, None, 0, {})
<1> DEFINE j == [NoJob EXCEPT !.at = at, !.asked = job[r].asked]
<1>1. job[r].asked \in Asking /\ None \in Calling /\ None \in Found /\ 0 \in 0..Sources
  BY TurnsAssumption DEF CreationTypeOK, Asking, Calling, Found
<1>2. j \in JobType
  BY <1>1 DEF JobType, NoJob
<1>3. j.at = at /\ j.asked = job[r].asked /\ j.call = None /\ j.source = None
      /\ j.tries = 0 /\ j.seen = {}
  BY DEF NoJob
<1>4. job' = [job EXCEPT ![r] = j]
  BY DEF Return
<1> HIDE DEF j
<1> QED
  BY <1>2, <1>3, <1>4, JobBecomes DEF Moves

LEMMA JobMoves ==
  ASSUME CreationTypeOK, NEW r \in Runs, NEW j \in JobType, j.asked = job[r].asked,
         job' = [job EXCEPT ![r] = j]
  PROVE  Moves(r, j.at, j.call, j.source, j.tries, j.seen)
BY JobBecomes DEF Moves

\* What each step of a call makes of its job.
LEMMA JobChanges ==
  ASSUME CreationTypeOK, NEW r \in Runs
  PROVE  /\ \A w \in Wishes : Hook(r, w) =>
              /\ job[r].at = "new" /\ job' \in [Runs -> JobType]
              /\ \A u \in Runs \ {r} : job'[u] = job[u]
              /\ job'[r].at = "thinking" /\ job'[r].asked = w
              /\ job'[r].call = job[r].call /\ job'[r].seen = job[r].seen
         /\ \A c \in Calls : Call(r, c) => \E d \in CallType :
              Moves(r, "checking", d, job[r].source, job[r].tries, job[r].seen)
         /\ Check(r) =>
              \/ Moves(r, "done", None, None, 0, {})
              \/ /\ SameSource(job[r].call) \cup SameIdentity(job[r].call) = {}
                 /\ Moves(r, "searching", job[r].call, job[r].source, job[r].tries,
                          {x.by : x \in saved})
         /\ Search(r) =>
              \/ Moves(r, "thinking", None, None, 0, {})
              \/ \E n \in 1..Sources :
                   Moves(r, "locking", job[r].call, job[r].source, n, job[r].seen)
         /\ \A at \in Stages : Become(r, at) =>
              Moves(r, at, job[r].call, job[r].source, job[r].tries, job[r].seen)
         /\ PrepareSucceeds(r) => \E u \in Urls :
              /\ job[r].call.url \in {None, u}
              /\ Moves(r, "saving", job[r].call, u, job[r].tries, job[r].seen)
         /\ PrepareFails(r) =>
              \/ Moves(r, "thinking", None, None, 0, {})
              \/ Moves(r, "locking", job[r].call, job[r].source, job[r].tries - 1, job[r].seen)
         /\ Save(r) => Moves(r, "done", None, None, 0, {})
<1>0. job[r] \in JobType
      /\ {"thinking", "done", "checking", "searching", "locking", "saving"} \subseteq Stages
  BY DEF CreationTypeOK, JobType, Asking, Calling, Found, Stages
<1>0a. /\ job[r].at \in Stages /\ job[r].asked \in Asking /\ job[r].call \in Calling
       /\ job[r].source \in Found /\ job[r].tries \in 0..Sources /\ job[r].seen \in SUBSET Runs
  BY <1>0 DEF JobType
<1>1. ASSUME NEW w \in Wishes, Hook(r, w)
      PROVE  /\ job[r].at = "new" /\ job' \in [Runs -> JobType]
             /\ \A u \in Runs \ {r} : job'[u] = job[u]
             /\ job'[r].at = "thinking" /\ job'[r].asked = w
             /\ job'[r].call = job[r].call /\ job'[r].seen = job[r].seen
  <2> DEFINE j == [job[r] EXCEPT !.at = "thinking", !.asked = w]
  <2>1. j \in JobType /\ j.at = "thinking" /\ j.asked = w /\ j.call = job[r].call
        /\ j.seen = job[r].seen
    BY <1>0 DEF JobType, Asking
  <2>2. job' = [job EXCEPT ![r] = j] /\ job[r].at = "new"
    BY <1>1 DEF Hook, At
  <2> HIDE DEF j
  <2> QED
    BY <2>1, <2>2, JobBecomes
<1>2. ASSUME NEW c \in Calls, Call(r, c)
      PROVE  \E d \in CallType :
               Moves(r, "checking", d, job[r].source, job[r].tries, job[r].seen)
  <2> DEFINE own == {intents[n].wish : n \in Intent(r)}
             w == CHOOSE w \in own : TRUE
             d == IF own # {} THEN Guarded(w, c) ELSE c
             j == [job[r] EXCEPT !.at = "checking", !.call = d]
  <2>1. own \subseteq Wishes
    <3> DEFINE Entries == [run : Runs, wish : Wishes]
    <3>1. intents \in Seq(Entries) /\ \A e \in Entries : e.wish \in Wishes
      BY DEF CreationTypeOK
    <3> HIDE DEF Entries
    <3>2. \A n \in DOMAIN intents : intents[n].wish \in Wishes
      BY <3>1
    <3>3. Intent(r) \subseteq DOMAIN intents
      BY DEF Intent
    <3> QED
      BY <3>2, <3>3
  <2>2. own # {} => w \in Wishes
    BY <2>1
  <2>3. job' = [job EXCEPT ![r] = j]
    BY <1>2 DEF Call
  <2> HIDE DEF w
  <2>5. d \in CallType
    BY <2>2, TurnsAssumption DEF Guarded, CallType, WishType
  <2> HIDE DEF d
  <2>4. j \in JobType /\ j.at = "checking" /\ j.asked = job[r].asked /\ j.call = d
        /\ j.source = job[r].source /\ j.tries = job[r].tries /\ j.seen = job[r].seen
    BY <1>0, <2>5 DEF JobType, Calling
  <2> HIDE DEF j
  <2> QED
    BY <2>3, <2>4, <2>5, JobMoves
<1>3. ASSUME Check(r)
      PROVE  \/ Moves(r, "done", None, None, 0, {})
             \/ /\ SameSource(job[r].call) \cup SameIdentity(job[r].call) = {}
                /\ Moves(r, "searching", job[r].call, job[r].source, job[r].tries,
                         {x.by : x \in saved})
  <2> DEFINE s == {x.by : x \in saved}
             j == [job[r] EXCEPT !.at = "searching", !.seen = s]
             Same == SameSource(job[r].call) \cup SameIdentity(job[r].call)
  <2>0. IF Same # {} THEN Return(r, "done") ELSE LookFurther(r)
    BY <1>3 DEF Check
  <2>1. CASE Same # {}
    BY <1>0, <2>0, <2>1, JobReturns
  <2>2. CASE Same = {}
    <3>1. s \subseteq Runs
      BY DEF CreationTypeOK
    <3>2. job' = [job EXCEPT ![r] = j]
      BY <2>0, <2>2 DEF LookFurther
    <3> HIDE DEF s
    <3>3. j \in JobType /\ j.at = "searching" /\ j.asked = job[r].asked
          /\ j.call = job[r].call /\ j.source = job[r].source /\ j.tries = job[r].tries
          /\ j.seen = s
      BY <1>0, <3>1 DEF JobType
    <3> HIDE DEF j
    <3>4. Moves(r, "searching", job[r].call, job[r].source, job[r].tries, s)
      BY <3>2, <3>3, JobMoves
    <3> QED
      BY <2>2, <3>4 DEF s
  <2> QED
    BY <2>1, <2>2
<1>4. ASSUME NEW n \in 0..Sources,
             job' = [job EXCEPT ![r].at = "locking", ![r].tries = n]
      PROVE  Moves(r, "locking", job[r].call, job[r].source, n, job[r].seen)
  <2> DEFINE j == [job[r] EXCEPT !.at = "locking", !.tries = n]
  <2>1. job' = [job EXCEPT ![r] = j]
    BY <1>4
  <2>2. j \in JobType /\ j.at = "locking" /\ j.asked = job[r].asked
        /\ j.call = job[r].call /\ j.source = job[r].source /\ j.tries = n /\ j.seen = job[r].seen
    BY <1>0 DEF JobType
  <2> HIDE DEF j
  <2> QED
    BY <2>1, <2>2, JobMoves
<1>5. ASSUME Search(r)
      PROVE  \/ Moves(r, "thinking", None, None, 0, {})
             \/ \E n \in 1..Sources : Moves(r, "locking", job[r].call, job[r].source, n, job[r].seen)
  BY <1>0, <1>4, <1>5, JobReturns DEF Search
<1>6. ASSUME NEW at \in Stages, Become(r, at)
      PROVE  Moves(r, at, job[r].call, job[r].source, job[r].tries, job[r].seen)
  <2> DEFINE j == [job[r] EXCEPT !.at = at]
  <2>1. job' = [job EXCEPT ![r] = j]
    BY <1>6 DEF Become
  <2>2. j \in JobType /\ j.at = at /\ j.asked = job[r].asked
        /\ j.call = job[r].call /\ j.source = job[r].source
        /\ j.tries = job[r].tries /\ j.seen = job[r].seen
    BY <1>0 DEF JobType
  <2> HIDE DEF j
  <2> QED
    BY <2>1, <2>2, JobMoves
<1>7. ASSUME PrepareFails(r)
      PROVE  \/ Moves(r, "thinking", None, None, 0, {})
             \/ Moves(r, "locking", job[r].call, job[r].source, job[r].tries - 1, job[r].seen)
  <2>1. CASE Return(r, "thinking")
    BY <1>0, <2>1, JobReturns
  <2>2. CASE job[r].tries > 1 /\ job' = [job EXCEPT ![r].at = "locking", ![r].tries = @ - 1]
    <3> DEFINE n == job[r].tries - 1
    <3>1. n \in 0..Sources
      BY <1>0a, <2>2, TurnsAssumption
    <3>2. job' = [job EXCEPT ![r].at = "locking", ![r].tries = n]
      BY <1>0, <2>2 DEF JobType, CreationTypeOK
    <3> HIDE DEF n
    <3>3. Moves(r, "locking", job[r].call, job[r].source, n, job[r].seen)
      BY <1>4, <3>1, <3>2
    <3> QED
      BY <3>3 DEF n
  <2> QED
    BY <1>7, <2>1, <2>2 DEF PrepareFails
<1>8. Save(r) => Moves(r, "done", None, None, 0, {})
  BY <1>0, JobReturns DEF Save
<1>9. ASSUME PrepareSucceeds(r)
      PROVE  \E u \in Urls : /\ job[r].call.url \in {None, u}
                             /\ Moves(r, "saving", job[r].call, u, job[r].tries, job[r].seen)
  <2>1. PICK u \in Urls : /\ job[r].call.url \in {None, u}
                          /\ job' = [job EXCEPT ![r].at = "saving", ![r].source = u]
    BY <1>9 DEF PrepareSucceeds
  <2> DEFINE j == [job[r] EXCEPT !.at = "saving", !.source = u]
  <2>2. job' = [job EXCEPT ![r] = j]
    BY <2>1
  <2>3. j \in JobType /\ j.at = "saving" /\ j.asked = job[r].asked
        /\ j.call = job[r].call /\ j.source = u
        /\ j.tries = job[r].tries /\ j.seen = job[r].seen
    BY <1>0 DEF JobType, Found
  <2> HIDE DEF j
  <2>4. Moves(r, "saving", job[r].call, u, job[r].tries, job[r].seen)
    BY <2>2, <2>3, JobMoves
  <2> QED
    BY <2>1, <2>4
<1> QED
  BY <1>1, <1>2, <1>3, <1>5, <1>6, <1>7, <1>8, <1>9
-----------------------------------------------------------------------------
(* The types of the creation's state.                                      *)

LockType  == [by : Runs \cup {None}, held : BOOLEAN, old : BOOLEAN]
SavedType == [persona : Personas, source : Urls, given : BOOLEAN, by : Runs, seen : SUBSET Runs]
EntryType == [run : Runs, wish : Wishes]

\* A job at work has a call, and one that saves has a source.
WorkFits(j) ==
  /\ j.at \notin Resting => j.call \in CallType
  /\ j.at = "saving" => j.source \in Urls

\* What a step of a call leaves alone, and what it may do to its job.
LEMMA CallFits ==
  ASSUME CreationTypeOK, NEW r \in Runs, JobStep(r)
  PROVE  /\ job' \in [Runs -> JobType] /\ \A u \in Runs \ {r} : job'[u] = job[u]
         /\ job[r].at \notin {"new", "done", "dead"} /\ job'[r].at \notin {"new", "dead"}
         /\ job'[r].asked = job[r].asked /\ WorkFits(job'[r])
         /\ intents' = intents /\ heard' = heard
         /\ lock' \in LockType /\ aged' \in BOOLEAN /\ saved' \subseteq SavedType
<1>1. /\ job[r] \in JobType /\ lock \in LockType /\ aged \in BOOLEAN /\ saved \subseteq SavedType
      /\ WorkFits(job[r])
  BY DEF CreationTypeOK, JobType, Asking, Calling, Found, LockType, SavedType, Resting, WorkFits
<1>2. {"thinking", "done", "checking", "searching", "locking", "stealing", "relocking",
       "preparing", "saving"} \subseteq Stages
  BY DEF Stages
<1>3. Free \in LockType /\ [by |-> r, held |-> TRUE, old |-> FALSE] \in LockType
  BY DEF Free, LockType
<1> DEFINE Fits == /\ job' \in [Runs -> JobType] /\ \A u \in Runs \ {r} : job'[u] = job[u]
                   /\ job'[r].at \notin {"new", "dead"}
                   /\ job'[r].asked = job[r].asked /\ WorkFits(job'[r])
<1>4. ASSUME NEW at, at \in {"thinking", "done"}, NEW u, NEW n, NEW s, Moves(r, at, None, u, n, s)
      PROVE  Fits
  BY <1>4 DEF Moves, Resting, WorkFits
<1>5. ASSUME NEW at, at \notin {"new", "dead", "saving"}, NEW c \in CallType,
             NEW u, NEW n, NEW s, Moves(r, at, c, u, n, s)
      PROVE  Fits
  BY <1>5 DEF Moves, WorkFits
<1>14. ASSUME NEW c \in CallType, NEW u \in Urls, NEW n, NEW s, Moves(r, "saving", c, u, n, s)
       PROVE  Fits
  BY <1>14 DEF Moves, WorkFits
<1>0. ASSUME job[r].at \notin Resting PROVE job[r].call \in CallType
  BY <1>0, <1>1 DEF WorkFits
<1> HIDE DEF Fits
<1>6. ASSUME NEW c \in Calls, Call(r, c)
      PROVE  /\ Fits /\ job[r].at = "thinking"
             /\ UNCHANGED <<intents, heard, saved, lock, aged>>
  BY <1>5, <1>6, JobChanges DEF Call, library, At
<1>7. ASSUME Check(r)
      PROVE  /\ Fits /\ job[r].at = "checking"
             /\ UNCHANGED <<intents, heard, saved, lock, aged>>
  <2>1. job[r].at = "checking" /\ job[r].call \in CallType
    BY <1>0, <1>7 DEF Check, At, Resting
  <2> QED
    BY <1>4, <1>5, <1>7, <2>1, JobChanges DEF Check, library
<1>8. ASSUME Search(r)
      PROVE  /\ Fits /\ job[r].at = "searching"
             /\ UNCHANGED <<intents, heard, saved, lock, aged>>
  <2>1. job[r].at = "searching" /\ job[r].call \in CallType
    BY <1>0, <1>8 DEF Search, At, Resting
  <2> QED
    BY <1>4, <1>5, <1>8, <2>1, JobChanges DEF Search, library
\* What Lock, Steal and Relock do to the job.
<1>9. ASSUME job[r].at \notin Resting,
             \/ Return(r, "thinking")
             \/ \E at \in {"preparing", "stealing", "relocking"} : Become(r, at)
      PROVE  Fits
  <2>1. CASE Return(r, "thinking")
    BY <1>2, <1>4, <2>1, JobReturns
  <2>2. ASSUME NEW at \in {"preparing", "stealing", "relocking"}, Become(r, at)
        PROVE  Fits
    <3>1. at \in Stages /\ at \notin {"new", "dead", "saving"} /\ job[r].call \in CallType
      BY <1>0, <1>2, <1>9
    <3>2. Moves(r, at, job[r].call, job[r].source, job[r].tries, job[r].seen)
      BY <2>2, <3>1, JobChanges
    <3> QED
      BY <1>5, <3>1, <3>2
  <2> QED
    BY <1>9, <2>1, <2>2
<1>10. ASSUME Lock(r) \/ Steal(r) \/ Relock(r)
       PROVE  /\ Fits /\ job[r].at \in {"locking", "stealing", "relocking"}
              /\ lock' \in LockType /\ aged' \in BOOLEAN
              /\ UNCHANGED <<intents, heard, saved>>
  <2>1. job[r].at \in {"locking", "stealing", "relocking"}
    BY <1>10 DEF Lock, Steal, Relock, At
  <2>2. Return(r, "thinking")
        \/ \E at \in {"preparing", "stealing", "relocking"} : Become(r, at)
    BY <1>10 DEF Lock, Steal, Relock, Take
  <2>3. lock' \in LockType /\ UNCHANGED <<intents, heard, saved>>
    BY <1>1, <1>3, <1>10 DEF Lock, Steal, Relock, Take, library
  <2>4. aged' \in BOOLEAN
    BY <1>1, <1>10 DEF Lock, Steal, Relock
  <2> QED
    BY <1>9, <2>1, <2>2, <2>3, <2>4 DEF Resting
<1>11. ASSUME PrepareSucceeds(r) \/ PrepareFails(r)
       PROVE  /\ Fits /\ job[r].at = "preparing"
              /\ lock' \in LockType /\ aged' \in BOOLEAN
              /\ UNCHANGED <<intents, heard, saved>>
  <2>1. job[r].at = "preparing" /\ job[r].call \in CallType
    BY <1>0, <1>11 DEF PrepareSucceeds, PrepareFails, At, Resting
  <2>2. ASSUME PrepareFails(r) PROVE Fits
    <3>1. \/ Moves(r, "thinking", None, None, 0, {})
          \/ Moves(r, "locking", job[r].call, job[r].source, job[r].tries - 1, job[r].seen)
      BY <2>2, JobChanges
    <3> QED
      BY <1>4, <1>5, <2>1, <3>1
  <2>4. ASSUME PrepareSucceeds(r) PROVE Fits
    <3>1. PICK u \in Urls : Moves(r, "saving", job[r].call, u, job[r].tries, job[r].seen)
      BY <2>4, JobChanges
    <3> QED
      BY <1>14, <2>1, <3>1
  <2>3. lock' = Free /\ aged' \in BOOLEAN /\ UNCHANGED <<intents, heard, saved>>
    BY <1>1, <1>11 DEF PrepareSucceeds, PrepareFails, Unlock, library
  <2> QED
    BY <1>3, <1>11, <2>1, <2>2, <2>3, <2>4
<1>12. ASSUME Save(r)
       PROVE  /\ Fits /\ job[r].at = "saving" /\ saved' \subseteq SavedType
              /\ UNCHANGED <<intents, heard, lock, aged>>
  <2>1. job[r].at = "saving" /\ job[r].call \in CallType /\ job[r].source \in Urls
    BY <1>1, <1>12 DEF Save, At, Resting, WorkFits
  <2>2. Voice(r) \in SavedType
    BY <1>1, <2>1 DEF JobType, SavedType, Voice, CallType
  <2>3. saved' \subseteq SavedType
    BY <1>1, <1>12, <2>2 DEF Save
  <2> QED
    BY <1>4, <1>12, <2>1, <2>3, JobChanges DEF Save
<1>13. Fits /\ job[r].at \notin {"new", "done", "dead"}
       /\ intents' = intents /\ heard' = heard
       /\ lock' \in LockType /\ aged' \in BOOLEAN /\ saved' \subseteq SavedType
  BY <1>1, <1>6, <1>7, <1>8, <1>10, <1>11, <1>12 DEF JobStep
<1> QED
  BY <1>13 DEF Fits

\* The table after a hook: the new intent is its last, and each of the others
\* has moved to the front by as many places as were dropped, none or one.
LEMMA TableAfterHook ==
  ASSUME CreationTypeOK, NEW r \in Runs, NEW w \in Wishes, Hook(r, w)
  PROVE  /\ intents' \in Seq(EntryType)
         /\ heard' \in Seq(Runs) /\ Len(heard') = Len(heard) + 1
         /\ heard'[Len(heard) + 1] = r /\ \A n \in 1..Len(heard) : heard'[n] = heard[n]
         /\ \E d \in {0, 1} :
              /\ Len(intents') = Len(intents) + 1 - d
              /\ (d = 1 <=> Len(intents) = MaxIntents)
              /\ intents'[Len(intents')] = [run |-> r, wish |-> w]
              /\ \A n \in 1..(Len(intents') - 1) : intents'[n] = intents[n + d]
<1> DEFINE e == [run |-> r, wish |-> w]
           table == Append(intents, e)
<1>1. intents \in Seq(EntryType) /\ Len(intents) <= MaxIntents /\ e \in EntryType
      /\ MaxIntents \in Nat \ {0}
  BY TurnsAssumption DEF CreationTypeOK, EntryType
<1>2. heard \in Seq(Runs) /\ heard' = Append(heard, r)
  BY DEF CreationTypeOK, Hook
<1>3. intents' = IF Len(table) > MaxIntents THEN Tail(table) ELSE table
  BY DEF Hook
<1> HIDE DEF e
<1>4. /\ table \in Seq(EntryType) /\ Len(table) = Len(intents) + 1
      /\ table[Len(intents) + 1] = e /\ \A n \in 1..Len(intents) : table[n] = intents[n]
  BY <1>1
<1> HIDE DEF table
<1>5. heard' \in Seq(Runs) /\ Len(heard') = Len(heard) + 1
      /\ heard'[Len(heard) + 1] = r /\ \A n \in 1..Len(heard) : heard'[n] = heard[n]
  BY <1>2
<1>6. CASE Len(intents) = MaxIntents
  <2>1. intents' = Tail(table)
    BY <1>1, <1>3, <1>4, <1>6
  <2>2. /\ intents' \in Seq(EntryType) /\ Len(intents') = Len(intents)
        /\ \A n \in 1..Len(intents) : intents'[n] = table[n + 1]
    BY <1>1, <1>4, <2>1
  <2>3. Len(intents) >= 1 /\ Len(intents) \in Nat
    BY <1>1, <1>6
  <2>4. intents'[Len(intents')] = e /\ \A n \in 1..(Len(intents') - 1) : intents'[n] = intents[n + 1]
    BY <1>4, <2>2, <2>3
  <2> QED
    BY <1>5, <1>6, <2>2, <2>3, <2>4 DEF e
<1>7. CASE Len(intents) # MaxIntents
  <2>1. intents' = table
    BY <1>1, <1>3, <1>4, <1>7
  <2>2. Len(intents) \in Nat
    BY <1>1
  <2> QED
    BY <1>4, <1>5, <1>7, <2>1, <2>2 DEF e
<1> QED
  BY <1>6, <1>7

LEMMA CreationTypes == CreationTypeOK /\ [CreationNext]_creation => CreationTypeOK'
<1> SUFFICES ASSUME CreationTypeOK, [CreationNext]_creation PROVE CreationTypeOK'
  OBVIOUS
<1>1. /\ intents \in Seq(EntryType) /\ Len(intents) <= MaxIntents /\ heard \in Seq(Runs)
      /\ job \in [Runs -> JobType] /\ lock \in LockType /\ aged \in BOOLEAN
      /\ saved \subseteq SavedType
      /\ \A r \in Runs : WorkFits(job[r])
  BY DEF CreationTypeOK, JobType, Asking, Calling, Found, LockType, SavedType, EntryType,
         Resting, WorkFits
<1>2. ASSUME /\ intents' \in Seq(EntryType) /\ Len(intents') <= MaxIntents
             /\ heard' \in Seq(Runs) /\ job' \in [Runs -> JobType]
             /\ lock' \in LockType /\ aged' \in BOOLEAN /\ saved' \subseteq SavedType
             /\ \A r \in Runs : WorkFits(job'[r])
      PROVE  CreationTypeOK'
  BY <1>2, TurnsAssumption
     DEF CreationTypeOK, JobType, Asking, Calling, Found, LockType, SavedType, EntryType,
         Resting, WorkFits
<1>3. ASSUME NEW r \in Runs, NEW w \in Wishes, Hook(r, w) PROVE CreationTypeOK'
  <2>1. /\ job' \in [Runs -> JobType]
        /\ \A u \in Runs : WorkFits(job'[u])
    BY <1>1, <1>3, JobChanges DEF Resting, WorkFits
  <2>2. intents' \in Seq(EntryType) /\ Len(intents') <= MaxIntents /\ heard' \in Seq(Runs)
    <3>1. intents' \in Seq(EntryType) /\ heard' \in Seq(Runs)
      BY <1>3, TableAfterHook
    <3>2. PICK d \in {0, 1} : /\ Len(intents') = Len(intents) + 1 - d
                              /\ (d = 1 <=> Len(intents) = MaxIntents)
      BY <1>3, TableAfterHook
    <3>3. Len(intents) \in Nat /\ MaxIntents \in Nat /\ Len(intents) <= MaxIntents
      BY <1>1, TurnsAssumption
    <3>4. Len(intents') <= MaxIntents
      <4>1. CASE d = 0
        BY <3>2, <3>3, <4>1
      <4>2. CASE d = 1
        BY <3>2, <3>3, <4>2
      <4> QED
        BY <3>2, <4>1, <4>2
    <3> QED
      BY <3>1, <3>4
  <2>3. UNCHANGED <<lock, aged, saved>>
    BY <1>3 DEF Hook
  <2> QED
    BY <1>1, <1>2, <2>1, <2>2, <2>3
<1>4. ASSUME NEW r \in Runs, JobStep(r) PROVE CreationTypeOK'
  <2>1. \A u \in Runs : WorkFits(job'[u])
    BY <1>1, <1>4, CallFits
  <2> QED
    BY <1>1, <1>2, <1>4, <2>1, CallFits
<1>5. ASSUME LockAges PROVE CreationTypeOK'
  <2>1. lock' \in LockType
    BY <1>1, <1>5 DEF LockAges, LockType
  <2> QED
    BY <1>1, <1>2, <1>5, <2>1 DEF LockAges, library
<1>6. ASSUME Restart PROVE CreationTypeOK'
  <2>1. [NoJob EXCEPT !.at = "dead"] \in JobType /\ [NoJob EXCEPT !.at = "dead"].at = "dead"
    BY TurnsAssumption DEF NoJob, JobType, Asking, Calling, Found, Stages
  <2>2. \A r \in Runs : job'[r] \in {job[r], [NoJob EXCEPT !.at = "dead"]}
    BY <1>6 DEF Restart
  <2>3. job' \in [Runs -> JobType]
    BY <1>1, <1>6, <2>1 DEF Restart
  <2>4. \A r \in Runs : WorkFits(job'[r])
    BY <1>1, <2>1, <2>2 DEF Resting, WorkFits
  <2>5. lock' \in LockType
    BY <1>1, <1>6 DEF Restart, LockType
  <2>6. intents' = <<>> /\ heard' = <<>> /\ aged' \in BOOLEAN /\ saved' = saved
    BY <1>1, <1>6 DEF Restart, LockType
  <2>7. intents' \in Seq(EntryType) /\ heard' \in Seq(Runs) /\ Len(intents') = 0
    BY <2>6
  <2> QED
    BY <1>1, <1>2, <2>3, <2>4, <2>5, <2>6, <2>7, TurnsAssumption
<1>7. CASE UNCHANGED creation
  BY <1>1, <1>2, <1>7 DEF creation
<1> QED
  BY <1>3, <1>4, <1>5, <1>6, <1>7 DEF CreationNext
-----------------------------------------------------------------------------
(* One preparation at a time.                                              *)

\* Only a lock that got old is stolen, and until one does who prepares holds
\* the lock.
LockFits ==
  /\ lock.held => lock.by = None \/ lock.by \in Preparing
  /\ ~lock.held => lock.by = None
  /\ lock.old => lock.held /\ aged
  /\ ~aged => \A r \in Runs :
       /\ job[r].at \notin {"stealing", "relocking"}
       /\ job[r].at = "preparing" => lock.by = r

LEMMA LockKeeps ==
  CreationTypeOK /\ LockFits /\ [CreationNext]_creation => LockFits'
<1> SUFFICES ASSUME CreationTypeOK, LockFits, [CreationNext]_creation PROVE LockFits'
  OBVIOUS
<1>0. /\ job \in [Runs -> JobType] /\ lock \in LockType /\ aged \in BOOLEAN /\ None \notin Runs
  BY TurnsAssumption DEF CreationTypeOK, JobType, Asking, Calling, Found, LockType
<1>00. Preparing = {r \in Runs : job[r].at = "preparing"}
       /\ Preparing' = {r \in Runs : job'[r].at = "preparing"}
  BY DEF Preparing
<1> DEFINE Still(r) == \A u \in Runs \ {r} : job'[u] = job[u]
\* A job that does not prepare goes where it needs no lock.
<1>1. ASSUME NEW r \in Runs, Still(r), UNCHANGED <<lock, aged>>, job[r].at # "preparing",
             job'[r].at \notin {"preparing", "stealing", "relocking"}
      PROVE  LockFits'
  BY <1>0, <1>00, <1>1 DEF LockFits
\* A lock that is free is taken.
<1>2. ASSUME NEW r \in Runs, Still(r), ~lock.held, Take(r), UNCHANGED aged PROVE LockFits'
  <2>1. lock'.by = r /\ lock'.held /\ ~lock'.old /\ job'[r].at = "preparing"
    BY <1>0, <1>2 DEF Take, Become, JobType
  <2> QED
    BY <1>0, <1>00, <1>2, <2>1 DEF LockFits
\* A job prepares no more and removes the lock.
<1>3. ASSUME NEW r \in Runs, Still(r), job[r].at = "preparing", Unlock(r),
             job'[r].at \notin {"preparing", "stealing", "relocking"}
      PROVE  LockFits'
  <2>1. ~lock'.held /\ ~lock'.old /\ lock'.by = None
    BY <1>3 DEF Unlock, Free
  <2>2. ASSUME ~aged', NEW u \in Runs
        PROVE  job'[u].at \notin {"preparing", "stealing", "relocking"}
    <3>1. CASE aged
      <4>1. Contending = {r}
        BY <1>3, <2>2, <3>1 DEF Unlock
      <4> QED
        BY <1>3, <4>1 DEF Contending
    <3>2. CASE ~aged
      BY <1>3, <3>2 DEF LockFits
    <3> QED
      BY <3>1, <3>2
  <2> QED
    BY <2>1, <2>2 DEF LockFits
<1>4. ASSUME NEW r \in Runs, NEW w \in Wishes, Hook(r, w) PROVE LockFits'
  BY <1>1, <1>4, JobChanges DEF Hook
<1>5. ASSUME NEW r \in Runs, JobStep(r) PROVE LockFits'
  <2>0. Still(r)
    BY <1>5, CallFits
  <2>1. ASSUME NEW at, NEW c, NEW u, NEW n, NEW s, Moves(r, at, c, u, n, s) PROVE job'[r].at = at
    BY <2>1 DEF Moves
  <2>2. ASSUME \/ \E c \in Calls : Call(r, c)
               \/ Check(r) \/ Search(r) \/ Save(r)
        PROVE  LockFits'
    <3>1. job[r].at # "preparing" /\ UNCHANGED <<lock, aged>>
      BY <2>2 DEF Call, Check, Search, Save, At, library
    <3>2. job'[r].at \notin {"preparing", "stealing", "relocking"}
      BY <2>1, <2>2, JobChanges
    <3> QED
      BY <1>1, <2>0, <3>1, <3>2
  <2>3. ASSUME Return(r, "thinking") PROVE job'[r].at = "thinking"
    BY <2>1, <2>3, JobReturns DEF Stages
  <2>4. ASSUME NEW at \in {"stealing", "relocking"}, Become(r, at)
        PROVE  job'[r].at = at
    <3>1. at \in Stages
      BY DEF Stages
    <3>2. Moves(r, at, job[r].call, job[r].source, job[r].tries, job[r].seen)
      BY <2>4, <3>1, JobChanges
    <3> QED
      BY <2>1, <3>2
  <2>5. CASE Lock(r)
    <3>1. job[r].at = "locking" /\ aged' = aged
      BY <2>5 DEF Lock, At
    <3>2. CASE ~lock.held
      BY <1>2, <2>0, <2>5, <3>1, <3>2 DEF Lock
    <3>3. CASE lock.held /\ lock.old
      <4>1. job'[r].at = "stealing" /\ lock' = lock /\ aged
        BY <2>4, <2>5, <3>3 DEF Lock, LockFits
      <4> QED
        BY <1>0, <1>00, <2>0, <3>1, <4>1 DEF LockFits
    <3>4. CASE lock.held /\ ~lock.old
      <4>1. job'[r].at = "thinking" /\ lock' = lock
        BY <2>3, <2>5, <3>4 DEF Lock
      <4> QED
        BY <1>1, <2>0, <3>1, <4>1
    <3> QED
      BY <3>2, <3>3, <3>4
  <2>6. CASE Steal(r)
    <3>1. job[r].at = "stealing" /\ aged' = aged /\ lock' = Free /\ job'[r].at = "relocking"
      BY <2>4, <2>6 DEF Steal, At
    <3> QED
      BY <3>1 DEF LockFits, Free
  <2>7. CASE Relock(r)
    <3>1. job[r].at = "relocking" /\ aged' = aged
      BY <2>7 DEF Relock, At
    <3>2. CASE lock.held
      <4>1. job'[r].at = "thinking" /\ lock' = lock
        BY <2>3, <2>7, <3>2 DEF Relock
      <4> QED
        BY <1>1, <2>0, <3>1, <4>1
    <3>3. CASE ~lock.held
      BY <1>2, <2>0, <2>7, <3>1, <3>3 DEF Relock
    <3> QED
      BY <3>2, <3>3
  <2>8. CASE PrepareSucceeds(r)
    <3>1. job[r].at = "preparing" /\ Unlock(r) /\ job'[r].at = "saving"
      BY <2>1, <2>8, JobChanges DEF PrepareSucceeds, At
    <3> QED
      BY <1>3, <2>0, <3>1
  <2>9. CASE PrepareFails(r)
    <3>1. job[r].at = "preparing" /\ Unlock(r)
      BY <2>9 DEF PrepareFails, At
    <3>2. job'[r].at \in {"thinking", "locking"}
      BY <2>1, <2>9, JobChanges
    <3> QED
      BY <1>3, <2>0, <3>1, <3>2
  <2> QED
    BY <1>5, <2>2, <2>5, <2>6, <2>7, <2>8, <2>9 DEF JobStep
<1>6. ASSUME LockAges PROVE LockFits'
  <2>1. lock'.by = lock.by /\ lock'.held = lock.held /\ lock.held /\ aged' /\ job' = job
    BY <1>0, <1>6 DEF LockAges, LockType
  <2> QED
    BY <1>00, <2>1 DEF LockFits
<1>7. ASSUME Restart PROVE LockFits'
  <2>1. lock'.by = None /\ lock'.held = lock.held /\ lock'.old = lock.old
        /\ aged' = (aged /\ lock.held)
    BY <1>0, <1>7 DEF Restart, LockType
  <2>2. \A r \in Runs : job'[r].at \in {"new", "dead"}
    BY <1>7 DEF Restart, At, NoJob
  <2> QED
    BY <2>1, <2>2 DEF LockFits
<1>8. CASE UNCHANGED creation
  BY <1>00, <1>8 DEF creation, LockFits
<1> QED
  BY <1>4, <1>5, <1>6, <1>7, <1>8 DEF CreationNext

LEMMA LockMeans == CreationTypeOK /\ LockFits => OnePreparation
<1> SUFFICES ASSUME CreationTypeOK, LockFits, ~aged PROVE Cardinality(Preparing) <= 1
  BY DEF OnePreparation, LockFits
<1>1. Preparing \subseteq {lock.by}
  BY DEF Preparing, LockFits
<1>2. IsFiniteSet({lock.by}) /\ Cardinality({lock.by}) = 1
  BY FS_Singleton
<1>3. Cardinality(Preparing) <= Cardinality({lock.by})
  BY <1>1, <1>2, FS_Subset
<1> QED
  BY <1>2, <1>3
-----------------------------------------------------------------------------
(* No second voice for a request repeated after its voice was saved.       *)

Savers == {z.by : z \in saved}

\* A voice that a call would have found.
Alike(z, c) == z.persona = c.persona \/ (c.url # None /\ z.source = c.url)

\* Who saved a voice is done; who works saw none it would have taken when it
\* looked, nobody saw what was not saved, and a URL that was given is used.
SavedFits ==
  /\ \A z \in saved : job[z.by].at \in {"done", "dead"} /\ z.seen \subseteq Savers
  /\ \A r \in Runs : job[r].at \in Informed =>
       /\ job[r].seen \subseteq Savers
       /\ \A z \in saved : z.by \in job[r].seen => ~Alike(z, job[r].call)
  /\ \A r \in Runs : job[r].at = "saving" => job[r].call.url \in {None, job[r].source}

LEMMA SavedKeeps ==
  CreationTypeOK /\ SavedFits /\ RetryReuses /\ [CreationNext]_creation
    => SavedFits' /\ RetryReuses'
<1> SUFFICES ASSUME CreationTypeOK, SavedFits, RetryReuses, [CreationNext]_creation
             PROVE  SavedFits' /\ RetryReuses'
  OBVIOUS
<1>0. /\ \A r \in Runs : job[r] \in JobType /\ job[r].seen \in SUBSET Runs
      /\ saved \subseteq SavedType
      /\ \A z \in saved : z.by \in Runs
  BY DEF CreationTypeOK, JobType, Asking, Calling, Found, SavedType
<1>00. Savers = {z.by : z \in saved} /\ Savers' = {z.by : z \in saved'}
  BY DEF Savers
\* Nothing is saved, and who goes on working saw what it saw before.
<1>1. ASSUME saved' = saved,
             \A u \in Runs : job[u].at \in {"done", "dead"} => job'[u].at \in {"done", "dead"},
             \A u \in Runs : job'[u].at \in Informed =>
               /\ job[u].at \in Informed
               /\ job'[u].seen = job[u].seen /\ job'[u].call = job[u].call,
             \A u \in Runs : job'[u].at = "saving" => job'[u].call.url \in {None, job'[u].source}
      PROVE  SavedFits' /\ RetryReuses'
  BY <1>0, <1>00, <1>1 DEF SavedFits, RetryReuses, Alike
<1>2. ASSUME NEW r \in Runs, NEW w \in Wishes, Hook(r, w) PROVE SavedFits' /\ RetryReuses'
  <2>1. saved' = saved /\ job[r].at = "new" /\ job'[r].at = "thinking"
        /\ \A u \in Runs \ {r} : job'[u] = job[u]
    BY <1>2, JobChanges DEF Hook
  <2>2. \A u \in Runs : job'[u].at = "saving" => job'[u].call.url \in {None, job'[u].source}
    BY <2>1 DEF SavedFits
  <2> QED
    BY <1>1, <2>1, <2>2 DEF Informed
<1>3. ASSUME NEW r \in Runs, JobStep(r) PROVE SavedFits' /\ RetryReuses'
  <2>0. job[r].at \notin {"new", "done", "dead"} /\ \A u \in Runs \ {r} : job'[u] = job[u]
    BY <1>3, CallFits
  <2>1. ASSUME saved' = saved, job'[r].at \notin Informed PROVE SavedFits' /\ RetryReuses'
    <3>1. \A u \in Runs : job'[u].at = "saving" => job'[u].call.url \in {None, job'[u].source}
      BY <2>0, <2>1 DEF SavedFits, Informed
    <3> QED
      BY <1>1, <2>0, <2>1, <3>1
  <2>2. ASSUME saved' = saved, job[r].at \in Informed, NEW at, NEW u, NEW n,
               Moves(r, at, job[r].call, u, n, job[r].seen),
               at = "saving" => job[r].call.url \in {None, u}
        PROVE  SavedFits' /\ RetryReuses'
    <3>1. \A v \in Runs : job'[v].at = "saving" => job'[v].call.url \in {None, job'[v].source}
      BY <2>0, <2>2 DEF SavedFits, Moves
    <3> QED
      BY <1>1, <2>0, <2>2, <3>1 DEF Moves
  <2>3. ASSUME NEW at, at \notin Informed, saved' = saved, NEW c, NEW u, NEW n, NEW s,
               Moves(r, at, c, u, n, s)
        PROVE  SavedFits' /\ RetryReuses'
    BY <2>1, <2>3 DEF Moves
  <2>4. {"new", "thinking", "checking", "done", "dead"} \cap Informed = {}
    BY DEF Informed
  <2>5. ASSUME NEW c \in Calls, Call(r, c) PROVE SavedFits' /\ RetryReuses'
    <3>1. saved' = saved
      BY <2>5 DEF Call, library
    <3>2. PICK d \in CallType :
            Moves(r, "checking", d, job[r].source, job[r].tries, job[r].seen)
      BY <2>5, JobChanges
    <3> QED
      BY <2>3, <2>4, <3>1, <3>2
  <2>6. CASE Check(r)
    <3> DEFINE c == job[r].call
    <3>1. saved' = saved
      BY <2>6 DEF Check, library
    <3>2. CASE Moves(r, "done", None, None, 0, {})
      BY <2>3, <2>4, <3>1, <3>2
    <3>3. CASE /\ SameSource(c) \cup SameIdentity(c) = {}
               /\ Moves(r, "searching", c, job[r].source, job[r].tries, {x.by : x \in saved})
      <4>1. job'[r].seen = Savers /\ job'[r].call = c /\ job'[r].at # "saving"
        BY <1>00, <3>3 DEF Moves
      <4>2. \A z \in saved : ~Alike(z, c)
        BY <3>3 DEF SameSource, SameIdentity, Alike
      <4>3. \A u \in Runs : job'[u].at = "saving" => job'[u].call.url \in {None, job'[u].source}
        BY <2>0, <4>1 DEF SavedFits
      <4> QED
        BY <1>0, <1>00, <2>0, <3>1, <4>1, <4>2, <4>3 DEF SavedFits, RetryReuses, Alike
    <3> QED
      BY <2>6, <3>2, <3>3, JobChanges
  <2>7. CASE Search(r)
    <3>1. saved' = saved /\ job[r].at \in Informed
      BY <2>7 DEF Search, library, At, Informed
    <3>2. \/ Moves(r, "thinking", None, None, 0, {})
          \/ \E n \in 1..Sources :
               Moves(r, "locking", job[r].call, job[r].source, n, job[r].seen)
      BY <2>7, JobChanges
    <3> QED
      BY <2>2, <2>3, <2>4, <3>1, <3>2
  <2>8. CASE Lock(r) \/ Steal(r) \/ Relock(r)
    <3>1. saved' = saved /\ job[r].at \in Informed
      BY <2>8 DEF Lock, Steal, Relock, library, At, Informed
    <3>2. Return(r, "thinking")
          \/ \E at \in {"preparing", "stealing", "relocking"} : Become(r, at)
      BY <2>8 DEF Lock, Steal, Relock, Take
    <3>3. CASE Return(r, "thinking")
      <4>1. Moves(r, "thinking", None, None, 0, {})
        BY <3>3, JobReturns DEF Stages
      <4> QED
        BY <2>3, <2>4, <3>1, <4>1
    <3>4. ASSUME NEW at \in {"preparing", "stealing", "relocking"}, Become(r, at)
          PROVE  SavedFits' /\ RetryReuses'
      <4>1. at \in Stages /\ at # "saving"
        BY DEF Stages
      <4>2. Moves(r, at, job[r].call, job[r].source, job[r].tries, job[r].seen)
        BY <3>4, <4>1, JobChanges
      <4> QED
        BY <2>2, <3>1, <4>1, <4>2
    <3> QED
      BY <3>2, <3>3, <3>4
  <2>11. CASE PrepareSucceeds(r)
    <3>1. saved' = saved /\ job[r].at \in Informed
      BY <2>11 DEF PrepareSucceeds, library, At, Informed
    <3>2. PICK u \in Urls : /\ job[r].call.url \in {None, u}
                            /\ Moves(r, "saving", job[r].call, u, job[r].tries, job[r].seen)
      BY <2>11, JobChanges
    <3> QED
      BY <2>2, <3>1, <3>2
  <2>9. CASE PrepareFails(r)
    <3>1. saved' = saved /\ job[r].at \in Informed
      BY <2>9 DEF PrepareFails, library, At, Informed
    <3>2. \/ Moves(r, "thinking", None, None, 0, {})
          \/ Moves(r, "locking", job[r].call, job[r].source, job[r].tries - 1, job[r].seen)
      BY <2>9, JobChanges
    <3> QED
      BY <2>2, <2>3, <2>4, <3>1, <3>2
  <2>10. CASE Save(r)
    <3> DEFINE z == Voice(r)
    <3>1. saved' = saved \cup {z} /\ job[r].at = "saving"
      BY <2>10 DEF Save, At
    <3>2. /\ z.persona = job[r].call.persona /\ z.by = r /\ z.seen = job[r].seen
          /\ z.source = job[r].source /\ z.given = (job[r].call.url # None)
      BY DEF Voice
    <3>11. z.given => z.source = job[r].call.url
      BY <3>1, <3>2 DEF SavedFits
    <3> HIDE DEF z
    <3>3. job'[r].at = "done"
      BY <2>10, JobChanges DEF Moves
    <3>4. /\ job[r].seen \subseteq Savers
          /\ \A y \in saved : y.by \in job[r].seen => ~Alike(y, job[r].call)
      BY <3>1 DEF SavedFits, Informed
    <3>5. r \notin Savers
      BY <2>0, <1>00 DEF SavedFits
    <3>6. Savers' = Savers \cup {r}
      BY <1>00, <3>1, <3>2
    <3>7. \A u \in Runs : job'[u].at \in Informed => u # r /\ job[u].at \in Informed
      BY <2>0, <2>4, <3>3
    <3>8. SavedFits'
      <4>1. \A y \in saved' : job'[y.by].at \in {"done", "dead"} /\ y.seen \subseteq Savers'
        BY <1>0, <2>0, <3>1, <3>2, <3>3, <3>4, <3>6 DEF SavedFits
      <4>2. ASSUME NEW u \in Runs, job'[u].at \in Informed
            PROVE  /\ job'[u].seen \subseteq Savers'
                   /\ \A y \in saved' : y.by \in job'[u].seen => ~Alike(y, job'[u].call)
        <5>1. job'[u] = job[u] /\ job[u].seen \subseteq Savers
              /\ \A y \in saved : y.by \in job[u].seen => ~Alike(y, job[u].call)
          BY <2>0, <3>7, <4>2 DEF SavedFits
        <5> QED
          BY <3>1, <3>2, <3>5, <3>6, <5>1
      <4>3. \A u \in Runs : job'[u].at = "saving" => job'[u].call.url \in {None, job'[u].source}
        BY <2>0, <3>3 DEF SavedFits
      <4> QED
        BY <4>1, <4>2, <4>3 DEF SavedFits, Alike
    <3>9. RetryReuses'
      <4>1. \A x \in saved : r \notin x.seen
        BY <3>5 DEF SavedFits
      <4>2. \A y \in saved : z.persona = y.persona \/ (z.given /\ z.source = y.source)
                               => y.by \notin z.seen
        BY <3>2, <3>4, <3>11 DEF Alike
      <4>3. r \notin z.seen
        BY <3>2, <3>4, <3>5
      <4> QED
        BY <3>1, <3>2, <4>1, <4>2, <4>3 DEF RetryReuses
    <3> QED
      BY <3>8, <3>9
  <2> QED
    BY <1>3, <2>5, <2>6, <2>7, <2>8, <2>9, <2>10, <2>11 DEF JobStep
<1>4. ASSUME LockAges PROVE SavedFits' /\ RetryReuses'
  <2>1. job' = job /\ saved' = saved
    BY <1>4 DEF LockAges, library
  <2> QED
    BY <1>1, <2>1 DEF SavedFits
<1>5. ASSUME Restart PROVE SavedFits' /\ RetryReuses'
  <2>1. saved' = saved
    BY <1>5 DEF Restart
  <2>2. \A u \in Runs : job'[u].at = IF job[u].at = "new" THEN "new" ELSE "dead"
    BY <1>5 DEF Restart, At, NoJob
  <2> QED
    BY <1>1, <2>1, <2>2 DEF Informed
<1>6. CASE UNCHANGED creation
  <2>1. job' = job /\ saved' = saved
    BY <1>6 DEF creation
  <2> QED
    BY <1>1, <2>1 DEF SavedFits
<1> QED
  BY <1>2, <1>3, <1>4, <1>5, <1>6 DEF CreationNext
-----------------------------------------------------------------------------
(* The voice the user asked for.                                           *)

Dropped == Len(heard) - Len(intents)

\* The table holds the intents of the last runs that were heard.
IntentsFit ==
  /\ \A n \in DOMAIN heard : job[heard[n]].at # "new"
  /\ \A r \in Runs : job[r].at = "new" => job[r].call = None
  /\ Dropped = 0 \/ (Dropped > 0 /\ Len(intents) = MaxIntents)
  /\ \A n \in 1..Len(intents) :
       /\ intents[n].run = heard[n + Dropped]
       /\ intents[n].wish = job[intents[n].run].asked

\* A call that is about what its user wished.
AsAsked(c, w) == c.persona = w.persona /\ w.url \in {None, c.url}

\* The calls of the last runs that were heard are.
CallsFit == \A n \in DOMAIN heard :
  Len(heard) - n < MaxIntents /\ job[heard[n]].call # None
    => AsAsked(job[heard[n]].call, job[heard[n]].asked)

LEMMA CallTakesIntent ==
  ASSUME CreationTypeOK, NEW r \in Runs, NEW c \in Calls, Call(r, c), Intent(r) # {}
  PROVE  \E n \in Intent(r) : AsAsked(job'[r].call, intents[n].wish)
<1> DEFINE own == {intents[n].wish : n \in Intent(r)}
           w == CHOOSE w \in own : TRUE
<1>1. w \in own
  OBVIOUS
<1>2. job' = [job EXCEPT ![r].at = "checking", ![r].call = IF own # {} THEN Guarded(w, c) ELSE c]
  BY DEF Call
<1>3. job[r] \in JobType /\ own # {}
  BY <1>1 DEF CreationTypeOK, JobType, Asking, Calling, Found
<1> HIDE DEF w
<1>4. job' = [job EXCEPT ![r].at = "checking", ![r].call = Guarded(w, c)]
  BY <1>2, <1>3
<1>5. job'[r].call = Guarded(w, c)
  <2> DEFINE j == [job[r] EXCEPT !.at = "checking", !.call = Guarded(w, c)]
  <2>1. job' = [job EXCEPT ![r] = j] /\ j.call = Guarded(w, c)
    BY <1>3, <1>4 DEF JobType
  <2> HIDE DEF j
  <2> QED
    BY <2>1 DEF CreationTypeOK
<1>6. AsAsked(Guarded(w, c), w)
  BY DEF AsAsked, Guarded
<1> QED
  BY <1>1, <1>5, <1>6

LEMMA IntentsKeep ==
  CreationTypeOK /\ SavedFits /\ IntentsFit /\ CallsFit /\ MadeAsAsked /\ [CreationNext]_creation
    => IntentsFit' /\ CallsFit' /\ MadeAsAsked'
<1> DEFINE Keeps == IntentsFit' /\ CallsFit' /\ MadeAsAsked'
<1> SUFFICES ASSUME CreationTypeOK, SavedFits, IntentsFit, CallsFit, MadeAsAsked,
                    [CreationNext]_creation
             PROVE  Keeps
  OBVIOUS
<1>0. /\ heard \in Seq(Runs) /\ intents \in Seq(EntryType) /\ Len(intents) <= MaxIntents
      /\ Len(heard) \in Nat /\ Len(intents) \in Nat /\ MaxIntents \in Nat \ {0}
      /\ DOMAIN heard = 1..Len(heard) /\ \A n \in 1..Len(heard) : heard[n] \in Runs
  BY TurnsAssumption DEF CreationTypeOK, EntryType
<1>00. /\ \A n \in 1..Len(intents) : intents[n].run \in Runs
       /\ DOMAIN intents = 1..Len(intents)
  <2>1. \A e \in EntryType : e.run \in Runs
    BY DEF EntryType
  <2> QED
    BY <1>0, <2>1
\* A voice made of this call and from this source.
<1> DEFINE MadeOf(x, c) == c # None /\ x.persona = c.persona /\ c.url \in {None, x.source}
\* Only jobs and saved voices change, and the jobs keep what was asked.
<1>1. ASSUME intents' = intents, heard' = heard,
             \A u \in Runs : /\ job'[u].asked = job[u].asked
                             /\ job'[u].at = "new" => job[u].at = "new" /\ job'[u].call = None,
             \A u \in Runs : \/ job'[u].call \in {None, job[u].call}
                             \/ Intent(u) = {} \/ AsAsked(job'[u].call, job[u].asked),
             \A x \in saved' : x \in saved \/ MadeOf(x, job[x.by].call)
      PROVE  Keeps
  <2>1. Dropped' = Dropped
    BY <1>1 DEF Dropped
  <2>2. IntentsFit'
    <3>1. /\ \A n \in DOMAIN heard : job'[heard[n]].at # "new"
          /\ \A u \in Runs : job'[u].at = "new" => job'[u].call = None
      BY <1>0, <1>1 DEF IntentsFit
    <3>2. ASSUME NEW n \in 1..Len(intents)
          PROVE  /\ intents[n].run = heard[n + Dropped]
                 /\ intents[n].wish = job'[intents[n].run].asked
      BY <1>00, <1>1, <3>2 DEF IntentsFit
    <3>3. Dropped = 0 \/ (Dropped > 0 /\ Len(intents) = MaxIntents)
      BY DEF IntentsFit
    <3> QED
      BY <1>1, <2>1, <3>1, <3>2, <3>3 DEF IntentsFit
  <2>3. ASSUME NEW n \in DOMAIN heard, Intent(heard[n]) = {}
        PROVE  Len(heard) - n >= MaxIntents
    <3>1. n \in 1..Len(heard)
      BY <1>0
    <3>2. CASE n > Dropped
      <4>1. n - Dropped \in 1..Len(intents) /\ (n - Dropped) + Dropped = n
        BY <1>0, <3>1, <3>2 DEF Dropped, IntentsFit
      <4>2. intents[n - Dropped].run = heard[n]
        BY <4>1 DEF IntentsFit
      <4>3. n - Dropped \in Intent(heard[n])
        BY <1>00, <4>1, <4>2 DEF Intent
      <4> QED
        BY <2>3, <4>3
    <3>3. CASE n <= Dropped
      BY <1>0, <3>1, <3>3 DEF Dropped, IntentsFit
    <3> QED
      BY <1>0, <3>1, <3>2, <3>3 DEF Dropped
  <2>4. CallsFit'
    BY <1>0, <1>1, <2>3 DEF CallsFit
  <2>5. MadeAsAsked'
    <3> SUFFICES ASSUME NEW n \in DOMAIN heard, NEW x \in saved', x.by = heard[n],
                        Len(heard) - n < MaxIntents
                 PROVE  /\ x.persona = job'[heard[n]].asked.persona
                        /\ job'[heard[n]].asked.url \in {None, x.source}
      BY <1>1 DEF MadeAsAsked
    <3>1. heard[n] \in Runs /\ job'[heard[n]].asked = job[heard[n]].asked
      BY <1>0, <1>1
    <3>2. CASE x \in saved
      BY <3>1, <3>2 DEF MadeAsAsked
    <3>3. CASE MadeOf(x, job[heard[n]].call)
      BY <3>1, <3>3 DEF CallsFit, AsAsked
    <3> QED
      BY <1>1, <3>2, <3>3
  <2> QED
    BY <2>2, <2>4, <2>5
<1>2. ASSUME NEW r \in Runs, NEW w \in Wishes, Hook(r, w) PROVE Keeps
  <2>1. /\ job[r].at = "new" /\ job'[r].at = "thinking" /\ job'[r].asked = w
        /\ job'[r].call = job[r].call /\ \A u \in Runs \ {r} : job'[u] = job[u]
    BY <1>2, JobChanges
  <2>2. /\ heard' \in Seq(Runs) /\ Len(heard') = Len(heard) + 1
        /\ heard'[Len(heard) + 1] = r /\ \A n \in 1..Len(heard) : heard'[n] = heard[n]
    BY <1>2, TableAfterHook
  <2>3. PICK d \in {0, 1} :
              /\ Len(intents') = Len(intents) + 1 - d
              /\ (d = 1 <=> Len(intents) = MaxIntents)
              /\ intents'[Len(intents')] = [run |-> r, wish |-> w]
              /\ \A n \in 1..(Len(intents') - 1) : intents'[n] = intents[n + d]
    BY <1>2, TableAfterHook
  <2>4. \A n \in 1..Len(heard) : heard[n] # r
    BY <1>0, <2>1 DEF IntentsFit
  <2>5. DOMAIN heard' = 1..(Len(heard) + 1)
    BY <2>2
  <2>6. Dropped' = Dropped + d
    BY <1>0, <2>2, <2>3 DEF Dropped
  <2>7. Dropped' = 0 \/ (Dropped' > 0 /\ Len(intents') = MaxIntents)
    BY <1>0, <2>3, <2>6 DEF Dropped, IntentsFit
  <2>8. \A n \in DOMAIN heard' : job'[heard'[n]].at # "new"
    BY <1>0, <2>1, <2>2, <2>4, <2>5 DEF IntentsFit
  <2>9. ASSUME NEW n \in 1..Len(intents')
        PROVE  /\ intents'[n].run = heard'[n + Dropped']
               /\ intents'[n].wish = job'[intents'[n].run].asked
    <3>1. CASE n = Len(intents')
      <4>1. n + Dropped' = Len(heard) + 1
        BY <1>0, <2>2, <2>3, <3>1 DEF Dropped
      <4> QED
        BY <2>1, <2>2, <2>3, <3>1, <4>1
    <3>2. CASE n # Len(intents')
      <4>1. n \in 1..(Len(intents') - 1) /\ n + d \in 1..Len(intents)
        BY <1>0, <2>3, <3>2
      <4>2. intents'[n] = intents[n + d]
        BY <2>3, <4>1
      <4>3. intents[n + d].run = heard[n + d + Dropped]
            /\ intents[n + d].wish = job[intents[n + d].run].asked
        BY <4>1 DEF IntentsFit
      <4>4. n + d + Dropped \in 1..Len(heard) /\ n + Dropped' = n + d + Dropped
        <5>1. Dropped \in Nat
          BY <1>0 DEF Dropped, IntentsFit
        <5>2. n + d + Dropped <= Len(heard) /\ n \in Nat \ {0} /\ d \in Nat
          BY <1>0, <4>1 DEF Dropped
        <5> QED
          BY <1>0, <2>6, <5>1, <5>2
      <4>5. heard'[n + Dropped'] = intents'[n].run /\ intents'[n].run # r /\ intents'[n].run \in Runs
        BY <1>0, <2>2, <2>4, <4>2, <4>3, <4>4
      <4> QED
        BY <2>1, <4>2, <4>3, <4>5
    <3> QED
      BY <3>1, <3>2
  <2>10. \A u \in Runs : job'[u].at = "new" => job'[u].call = None
    BY <2>1 DEF IntentsFit
  <2>11. ASSUME NEW n \in 1..(Len(heard) + 1), n # Len(heard) + 1
         PROVE  /\ n \in 1..Len(heard) /\ heard'[n] = heard[n]
                /\ job'[heard[n]] = job[heard[n]]
                /\ Len(heard') - n < MaxIntents => Len(heard) - n < MaxIntents
    <3>1. n \in 1..Len(heard) /\ (Len(heard') - n < MaxIntents => Len(heard) - n < MaxIntents)
      BY <1>0, <2>2, <2>11
    <3> QED
      BY <1>0, <2>1, <2>2, <2>4, <3>1
  <2>12. CallsFit'
    <3> SUFFICES ASSUME NEW n \in 1..(Len(heard) + 1), Len(heard') - n < MaxIntents,
                        job'[heard'[n]].call # None
                 PROVE  AsAsked(job'[heard'[n]].call, job'[heard'[n]].asked)
      BY <2>5 DEF CallsFit
    <3>1. n # Len(heard) + 1
      BY <2>1, <2>2 DEF IntentsFit
    <3> QED
      BY <1>0, <2>11, <3>1 DEF CallsFit
  <2>13. MadeAsAsked'
    <3> SUFFICES ASSUME NEW n \in 1..(Len(heard) + 1), NEW x \in saved, x.by = heard'[n],
                        Len(heard') - n < MaxIntents
                 PROVE  /\ x.persona = job'[heard'[n]].asked.persona
                        /\ job'[heard'[n]].asked.url \in {None, x.source}
      BY <1>2, <2>5 DEF MadeAsAsked, Hook
    <3>1. n # Len(heard) + 1
      <4>1. x.by # r
        BY <2>1 DEF SavedFits
      <4> QED
        BY <2>2, <4>1
    <3>2. n \in 1..Len(heard) /\ x.by = heard[n] /\ Len(heard) - n < MaxIntents
          /\ job'[heard'[n]].asked = job[heard[n]].asked
      BY <2>11, <3>1
    <3> QED
      BY <1>0, <3>2 DEF MadeAsAsked
  <2> QED
    BY <2>7, <2>8, <2>9, <2>10, <2>12, <2>13 DEF IntentsFit
<1>3. ASSUME NEW r \in Runs, JobStep(r) PROVE Keeps
  <2>1. /\ intents' = intents /\ heard' = heard /\ job'[r].asked = job[r].asked
        /\ job'[r].at # "new" /\ \A u \in Runs \ {r} : job'[u] = job[u]
    BY <1>3, CallFits
  <2>2. ASSUME \/ job'[r].call \in {None, job[r].call}
               \/ Intent(r) = {} \/ AsAsked(job'[r].call, job[r].asked),
               \A x \in saved' : x \in saved \/ MadeOf(x, job[x.by].call)
        PROVE  Keeps
    <3> HIDE DEF Keeps
    <3> QED
      BY <1>1, <2>1, <2>2 DEF IntentsFit
  <2>3. ASSUME NEW c \in Calls, Call(r, c)
        PROVE  Keeps
    <3>1. ASSUME Intent(r) # {} PROVE AsAsked(job'[r].call, job[r].asked)
      <4>1. PICK n \in Intent(r) : AsAsked(job'[r].call, intents[n].wish)
        BY <2>3, <3>1, CallTakesIntent
      <4>2. n \in 1..Len(intents) /\ intents[n].run = r
        BY <1>00 DEF Intent
      <4> QED
        BY <4>1, <4>2 DEF IntentsFit
    <3>2. saved' = saved
      BY <2>3 DEF Call, library
    <3> QED
      BY <2>2, <3>1, <3>2
  <2>4. ASSUME \A c \in Calls : ~Call(r, c)
        PROVE  Keeps
    <3>0. ASSUME NEW at, NEW c \in {None, job[r].call}, NEW u, NEW n, NEW s,
                 Moves(r, at, c, u, n, s)
          PROVE  job'[r].call \in {None, job[r].call}
      BY <3>0 DEF Moves
    <3>1. ASSUME saved' = saved, NEW at, NEW c \in {None, job[r].call}, NEW u, NEW n, NEW s,
                 Moves(r, at, c, u, n, s)
          PROVE  Keeps
      BY <2>2, <3>0, <3>1
    <3>2. ASSUME Check(r) \/ Search(r) \/ PrepareSucceeds(r) \/ PrepareFails(r)
          PROVE  Keeps
      <4>1. saved' = saved
        BY <3>2 DEF Check, Search, PrepareSucceeds, PrepareFails, library
      <4> QED
        BY <3>1, <3>2, <4>1, JobChanges
    <3>3. ASSUME NEW at \in Stages, Return(r, at) \/ Become(r, at), saved' = saved
          PROVE  Keeps
      BY <3>1, <3>3, JobChanges, JobReturns
    <3>4. ASSUME Lock(r) \/ Steal(r) \/ Relock(r)
          PROVE  Keeps
      <4>1. \E at \in {"thinking", "preparing", "stealing", "relocking"} :
              Return(r, at) \/ Become(r, at)
        BY <3>4 DEF Lock, Steal, Relock, Take
      <4>2. {"thinking", "preparing", "stealing", "relocking"} \subseteq Stages
        BY DEF Stages
      <4>3. saved' = saved
        BY <3>4 DEF Lock, Steal, Relock, library
      <4> QED
        BY <3>3, <4>1, <4>2, <4>3
    <3>5. ASSUME Save(r) PROVE Keeps
      <4> DEFINE z == Voice(r)
      <4>1. saved' = saved \cup {z} /\ job[r].at = "saving"
        BY <3>5 DEF Save, At
      <4>2. job[r].call # None
        BY <4>1 DEF CreationTypeOK
      <4>3. z.by = r /\ MadeOf(z, job[r].call)
        BY <4>1, <4>2 DEF Voice, SavedFits
      <4> HIDE DEF z
      <4>4. \A x \in saved' : x \in saved \/ MadeOf(x, job[x.by].call)
        BY <4>1, <4>3
      <4>5. job'[r].call \in {None, job[r].call}
        BY <3>0, <3>5, JobChanges
      <4> QED
        BY <2>2, <4>4, <4>5
    <3> QED
      BY <1>3, <2>4, <3>2, <3>4, <3>5 DEF JobStep
  <2> QED
    BY <2>3, <2>4
<1>4. CASE UNCHANGED <<intents, heard, job, saved>>
  BY <1>4 DEF IntentsFit, CallsFit, MadeAsAsked, Dropped
<1>5. ASSUME Restart PROVE Keeps
  <2>1. heard' = <<>> /\ intents' = <<>> /\ Len(heard') = 0 /\ Len(intents') = 0
        /\ DOMAIN heard' = {}
    BY <1>5 DEF Restart
  <2>2. \A r \in Runs : job'[r].at = "new" => job'[r].call = None
    BY <1>5 DEF Restart, At, NoJob, IntentsFit
  <2> QED
    BY <2>1, <2>2 DEF IntentsFit, CallsFit, MadeAsAsked, Dropped
<1> HIDE DEF Keeps
<1> QED
  BY <1>2, <1>3, <1>4, <1>5 DEF CreationNext, LockAges, library, creation
-----------------------------------------------------------------------------
(* The theorems.                                                           *)

CreationInv ==
  CreationTypeOK /\ LockFits /\ SavedFits /\ RetryReuses /\ IntentsFit /\ CallsFit /\ MadeAsAsked

\* Hermes handles what was posted.
HandledFits == \A t \in Turns :
  /\ job[<<t, "stream">>].at # "new" => turn[t] \notin {"idle", "connecting", "background"}
  /\ job[<<t, "forward">>].at # "new" => forward[t] \in {"posted", "ended"}

LEMMA CreationStarts == CreationInit => CreationInv
<1> SUFFICES ASSUME CreationInit PROVE CreationInv
  OBVIOUS
<1>1. job = [r \in Runs |-> NoJob] /\ intents = <<>> /\ heard = <<>> /\ saved = {}
      /\ lock = Free /\ aged = FALSE
  BY DEF CreationInit
<1>2. NoJob \in JobType /\ NoJob.at = "new" /\ NoJob.call = None /\ Free \in LockType
  BY TurnsAssumption DEF NoJob, JobType, Asking, Calling, Found, Stages, Free, LockType
<1>3. intents \in Seq(EntryType) /\ heard \in Seq(Runs) /\ Len(intents) = 0 /\ Len(heard) = 0
      /\ DOMAIN heard = {}
  BY <1>1
<1>4. \A r \in Runs : job[r] = NoJob
  BY <1>1
<1>5. CreationTypeOK
  <2>1. job \in [Runs -> JobType]
    BY <1>1, <1>2
  <2> QED
    <3>1. /\ job \in [Runs -> [at : Stages, asked : Wishes \cup {None}, call : CallType \cup {None},
                               source : Urls \cup {None}, tries : 0..Sources, seen : SUBSET Runs]]
          /\ lock \in [by : Runs \cup {None}, held : BOOLEAN, old : BOOLEAN]
          /\ intents \in Seq([run : Runs, wish : Wishes])
      BY <1>1, <1>2, <1>3, <2>1 DEF JobType, Asking, Calling, Found, LockType, EntryType
    <3>2. \A r \in Runs : job[r].at = "new"
      BY <1>2, <1>4
    <3>3. Len(intents) <= MaxIntents
      BY <1>3, TurnsAssumption
    <3> QED
      BY <1>1, <1>3, <3>1, <3>2, <3>3 DEF CreationTypeOK
<1>6. LockFits
  BY <1>1, <1>2, <1>4 DEF LockFits, Free
<1>7. SavedFits /\ RetryReuses
  BY <1>1, <1>2, <1>4 DEF SavedFits, RetryReuses, Informed
<1>8. IntentsFit /\ CallsFit /\ MadeAsAsked
  BY <1>2, <1>3, <1>4 DEF IntentsFit, CallsFit, MadeAsAsked, Dropped
<1> QED
  BY <1>5, <1>6, <1>7, <1>8 DEF CreationInv

LEMMA CreationKeeps == CreationInv /\ [CreationNext]_creation => CreationInv'
BY CreationTypes, LockKeeps, SavedKeeps, IntentsKeep DEF CreationInv

\* No request is forwarded before the stream has failed.
ForwardFits == \A t \in Turns :
  turn[t] \in {"idle", "connecting", "stream"} => forward[t] = "none"

\* What a step of the agent does to its turn, and that it leaves the others
\* alone.
LEMMA AgentMoves ==
  ASSUME AgentTypeOK, ForwardFits, NEW t \in Turns, AgentStep(t)
  PROVE  /\ \A u \in Turns \ {t} : turn'[u] = turn[u] /\ forward'[u] = forward[u]
         /\ turn'[t] \in {"idle", "connecting", "background"}
              => turn[t] \in {"idle", "connecting", "background"}
         /\ turn'[t] \in {"idle", "connecting", "stream"} => forward'[t] = "none"
         /\ forward[t] \in {"posted", "ended"} => forward'[t] \in {"posted", "ended"}
<1> DEFINE Fits ==
         /\ \A u \in Turns \ {t} : turn'[u] = turn[u] /\ forward'[u] = forward[u]
         /\ turn'[t] \in {"idle", "connecting", "background"}
              => turn[t] \in {"idle", "connecting", "background"}
         /\ turn'[t] \in {"idle", "connecting", "stream"} => forward'[t] = "none"
         /\ forward[t] \in {"posted", "ended"} => forward'[t] \in {"posted", "ended"}
<1>0. /\ turn \in [Turns -> Places] /\ forward \in [Turns -> Forwards]
      /\ turn[t] \in {"idle", "connecting", "stream"} => forward[t] = "none"
  BY DEF AgentTypeOK, ForwardFits
<1>1. CASE Hear(t) \/ HearBackground(t) \/ StreamPost(t)
  BY <1>0, <1>1 DEF Hear, HearBackground, StreamPost, Goto, ForwardIs
<1>2. CASE StreamDelta(t) \/ StreamDone(t) \/ StreamEof(t)
  BY <1>0, <1>2 DEF StreamDelta, StreamDone, StreamEof, Goto
<1>3. CASE StreamBreaks(t)
  <2>1. CASE Goto(t, "fallback") /\ ForwardIs(t, "starting")
    BY <1>0, <1>3, <2>1 DEF StreamBreaks, Goto, ForwardIs
  <2>2. CASE Goto(t, "over") /\ UNCHANGED forward
    BY <1>0, <2>2 DEF Goto
  <2> QED
    BY <1>3, <2>1, <2>2 DEF StreamBreaks
<1>4. CASE ForwardPost(t)
  BY <1>0, <1>4 DEF ForwardPost, ForwardIs
<1>5. CASE ForwardAnswers(t) \/ ForwardBreaks(t)
  <2>1. ForwardIs(t, "ended") /\ forward[t] # "none" /\ (Goto(t, "over") \/ UNCHANGED turn)
    BY <1>5 DEF ForwardAnswers, ForwardBreaks
  <2> QED
    BY <1>0, <2>1 DEF Goto, ForwardIs
<1>6. CASE Stall(t)
  BY <1>0, <1>6 DEF Stall, Goto
<1>7. CASE Cancel(t)
  <2>1. Goto(t, "cancelled") /\ (ForwardIs(t, "ended") \/ UNCHANGED forward)
    BY <1>7 DEF Cancel
  <2> QED
    BY <1>0, <2>1 DEF Goto, ForwardIs
<1> QED
  BY <1>1, <1>2, <1>3, <1>4, <1>5, <1>6, <1>7 DEF AgentStep

LEMMA ForwardKeeps == AgentTypeOK /\ ForwardFits /\ [AgentNext]_agentVars => ForwardFits'
<1> SUFFICES ASSUME AgentTypeOK, ForwardFits, [AgentNext]_agentVars PROVE ForwardFits'
  OBVIOUS
<1>1. ASSUME NEW t \in Turns, AgentStep(t) PROVE ForwardFits'
  BY <1>1, AgentMoves DEF ForwardFits
<1>2. CASE UNCHANGED agentVars
  BY <1>2 DEF agentVars, ForwardFits
<1> QED
  BY <1>1, <1>2 DEF AgentNext

LEMMA HandledKeeps ==
  AgentTypeOK /\ ForwardFits /\ CreationTypeOK /\ HandledFits /\ [Next]_vars
    => HandledFits'
<1> SUFFICES ASSUME AgentTypeOK, ForwardFits, CreationTypeOK, HandledFits, [Next]_vars
             PROVE  HandledFits'
  OBVIOUS
<1>1. \A t \in Turns, way \in Ways : <<t, way>> \in Runs
  BY DEF Runs
<1>2. turn \in [Turns -> Places] /\ forward \in [Turns -> Forwards]
  BY DEF AgentTypeOK
\* A step of the agent alone never takes a request back.
<1>3. ASSUME NEW t \in Turns, job' = job, AgentStep(t) PROVE HandledFits'
  BY <1>3, AgentMoves DEF HandledFits
\* A step of Hermes alone takes up no request of a turn.
<1>4. ASSUME UNCHANGED <<turn, forward>>,
             \A t \in Turns, way \in Ways : job'[<<t, way>>].at # "new" => job[<<t, way>>].at # "new"
      PROVE  HandledFits'
  BY <1>4 DEF HandledFits, Ways
<1>5. ASSUME NEW t \in Turns, Post(t) PROVE HandledFits'
  <2>1. CASE UNCHANGED creation
    BY <1>3, <1>5, <2>1 DEF Post, AgentStep, creation
  <2>2. CASE Hook(<<t, "stream">>, wish[t])
    <3>1. turn' = [turn EXCEPT ![t] = "stream"] /\ forward' = forward
      BY <1>5 DEF Post, StreamPost, Goto
    <3>2. job' = [job EXCEPT ![<<t, "stream">>].at = "thinking", ![<<t, "stream">>].asked = wish[t]]
      BY <2>2 DEF Hook
    <3>3. \A u \in Turns : u # t => job'[<<u, "stream">>] = job[<<u, "stream">>]
      BY <1>1, <3>2 DEF CreationTypeOK, Ways
    <3>4. \A u \in Turns : job'[<<u, "forward">>] = job[<<u, "forward">>]
      BY <1>1, <3>2 DEF CreationTypeOK, Ways
    <3> QED
      BY <1>2, <3>1, <3>3, <3>4 DEF HandledFits
  <2> QED
    BY <1>5, <2>1, <2>2 DEF Post, Arrives
<1>6. ASSUME NEW t \in Turns, Forward(t) PROVE HandledFits'
  <2>1. CASE UNCHANGED creation
    BY <1>3, <1>6, <2>1 DEF Forward, AgentStep, creation
  <2>2. CASE Hook(<<t, "forward">>, wish[t])
    <3>1. forward' = [forward EXCEPT ![t] = "posted"] /\ turn' = turn
      BY <1>6 DEF Forward, ForwardPost, ForwardIs
    <3>2. job' = [job EXCEPT ![<<t, "forward">>].at = "thinking", ![<<t, "forward">>].asked = wish[t]]
      BY <2>2 DEF Hook
    <3>3. \A u \in Turns : u # t => job'[<<u, "forward">>] = job[<<u, "forward">>]
      BY <1>1, <3>2 DEF CreationTypeOK, Ways
    <3>4. \A u \in Turns : job'[<<u, "stream">>] = job[<<u, "stream">>]
      BY <1>1, <3>2 DEF CreationTypeOK, Ways
    <3> QED
      BY <1>2, <3>1, <3>3, <3>4 DEF HandledFits
  <2> QED
    BY <1>6, <2>1, <2>2 DEF Forward, Arrives
<1>7. ASSUME NEW t \in Turns, Speak(t) \/ Alone(t) \/ StreamFails(t) \/ ForwardFails(t)
                              \/ ForwardEnds(t)
      PROVE  HandledFits'
  <2>1. job' = job
    BY <1>7 DEF Speak, Speaks, Alone, StreamFails, ForwardFails, ForwardEnds, creation
  <2>2. AgentStep(t)
    BY <1>7 DEF Speak, Alone, StreamFails, ForwardFails, ForwardEnds, AgentStep
  <2> QED
    BY <1>3, <2>1, <2>2
<1>8. ASSUME NEW r \in Runs, Create(r) PROVE HandledFits'
  <2>1. job[r].at # "new" /\ \A u \in Runs \ {r} : job'[u] = job[u]
    BY <1>8, CallFits DEF Create
  <2> QED
    BY <1>1, <1>4, <1>8, <2>1 DEF Create, agentVars
<1>9. ASSUME Hermes PROVE HandledFits'
  <2>0. UNCHANGED <<turn, forward>>
    BY <1>9 DEF Hermes, agentVars
  <2>1. ASSUME NEW r \in Others, NEW w \in Wishes, Hook(r, w) PROVE HandledFits'
    <3>1. r \in Runs /\ \A t \in Turns, way \in Ways : <<t, way>> # r
      BY TurnsAssumption DEF Runs
    <3>2. \A u \in Runs \ {r} : job'[u] = job[u]
      BY <2>1, <3>1, JobChanges
    <3> QED
      BY <1>1, <1>4, <2>0, <3>1, <3>2
  <2>2. CASE LockAges
    BY <1>4, <2>0, <2>2 DEF LockAges
  <2>3. CASE Restart
    BY <1>1, <1>4, <2>0, <2>3 DEF Restart, At
  <2> QED
    BY <1>9, <2>1, <2>2, <2>3 DEF Hermes
<1>10. CASE UNCHANGED vars
  BY <1>4, <1>10 DEF vars, creation
<1> QED
  BY <1>5, <1>6, <1>7, <1>8, <1>9, <1>10 DEF Next

IInv == AInv /\ ForwardFits /\ CreationInv /\ WishOK /\ HandledFits

\* The inductive invariant holds in every state of the composition.
THEOREM TurnsInvariant == Spec => []IInv
<1>1. Init => IInv
  <2> SUFFICES ASSUME Init PROVE IInv
    OBVIOUS
  <2>1. AInv /\ ForwardFits /\ CreationInv /\ WishOK
    BY AgentStarts, CreationStarts DEF Init, AgentInit, ForwardFits, WishOK
  <2>2. \A t \in Turns, way \in Ways : job[<<t, way>>].at = "new"
    BY DEF Init, CreationInit, Runs, NoJob
  <2> QED
    BY <2>1, <2>2 DEF IInv, HandledFits, Ways
<1>2. IInv /\ [Next]_vars => IInv'
  <2> SUFFICES ASSUME IInv, [Next]_vars PROVE IInv'
    OBVIOUS
  <2>1. [AgentNext]_agentVars /\ [CreationNext]_creation /\ WishOK'
    BY TurnsStep DEF IInv
  <2>2. AInv' /\ ForwardFits' /\ CreationInv'
    BY <2>1, AgentKeeps, ForwardKeeps, CreationKeeps DEF IInv, AInv
  <2>3. HandledFits'
    BY HandledKeeps DEF IInv, AInv, CreationInv
  <2> QED
    BY <2>1, <2>2, <2>3 DEF IInv
<1> QED
  BY <1>1, <1>2, PTL DEF Spec

\* Every variable of the composition keeps its type, the table its limit, and
\* Hermes handles only what was posted.
THEOREM TurnsTypes == Spec => []TurnTypeOK
<1>1. IInv => TurnTypeOK
  BY DEF IInv, AInv, CreationInv, WishOK, HandledFits, TurnTypeOK
<1> QED
  BY <1>1, TurnsInvariant, PTL

\* Every turn is answered once: nothing follows an answer or an
\* acknowledgement, and nothing but its breaking off a streamed text.
THEOREM TurnsSpokenOnce == Spec => []SpokenOnce
<1>1. IInv => SpokenOnce
  BY DEF IInv, AInv
<1> QED
  BY <1>1, TurnsInvariant, PTL

\* The lock is never held by a call that does not prepare, and no two calls
\* prepare unless a lock got old.
THEOREM TurnsPrepareOne == Spec => []OnePreparation
<1>1. IInv => OnePreparation
  BY LockMeans DEF IInv, CreationInv
<1> QED
  BY <1>1, TurnsInvariant, PTL

\* No voice of a persona, or of a source a call gave, is made by a creation
\* that began after another such voice was saved, across restarts of Hermes.
THEOREM TurnsRetryReuses == Spec => []RetryReuses
<1>1. IInv => RetryReuses
  BY DEF IInv, CreationInv
<1> QED
  BY <1>1, TurnsInvariant, PTL

\* A run makes a voice of the persona and of the URL its user asked for, what-
\* ever the model put into the call, unless as many requests as the table
\* holds were heard after it.
THEOREM TurnsMadeAsAsked == Spec => []MadeAsAsked
<1>1. IInv => MadeAsAsked
  BY DEF IInv, CreationInv
<1> QED
  BY <1>1, TurnsInvariant, PTL
=============================================================================
