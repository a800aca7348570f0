--------------------------- MODULE UpstreamGuard ----------------------------
(***************************************************************************)
(* A streaming generation of the model: the generator of a request         *)
(* (model_audio over _conditioned_chunks, runtime/cosyvoice_server.py),    *)
(* the thread in which CosyVoice runs its language model, and the guard    *)
(* that carries an error from the one to the other                         *)
(* (runtime/upstream_guard.py).  CosyVoice itself is what the guard says   *)
(* of it: its generator ends when the thread's flag is set, and spins      *)
(* until then.  A request is one segment of text.                          *)
(***************************************************************************)
EXTENDS Naturals, SequencesExt

CONSTANTS
  Requests,
  Free,         \* nobody holds the GPU lock
  MaxChunks     \* bound of the model on the chunks of a generation

ASSUME GuardAssumption == Free \notin Requests /\ MaxChunks \in Nat

VARIABLES
  gpu,      \* who holds the GPU lock
  gen,      \* where the generator stands
  made,     \* the chunks it has yielded
  llm,      \* the language model's thread
  flag,     \* its entry in llm_end_dict
  errors    \* the guard's _errors, oldest first

guardVars == <<gpu, gen, made, llm, flag, errors>>

Holding   == {"generating", "yielding", "finishing"}
GenOver   == {"done", "raised", "closed"}
GenPlaces == {"new", "waiting"} \cup Holding \cup GenOver

\* Every variable has its type, and the GPU lock is held by the generator that
\* stands where the code holds it.
GuardTypeOK ==
  /\ gpu \in Requests \cup {Free}
  /\ gen \in [Requests -> GenPlaces]
  /\ made \in [Requests -> 0..MaxChunks]
  /\ llm \in [Requests -> {"none", "running", "ended", "recorded", "died"}]
  /\ flag \in [Requests -> {"none", "unset", "set"}]
  /\ errors \in Seq(Requests)
  /\ \A r \in Requests : gpu = r <=> gen[r] \in Holding

GuardInit ==
  /\ gpu = Free
  /\ gen = [r \in Requests |-> "new"] /\ made = [r \in Requests |-> 0]
  /\ llm = [r \in Requests |-> "none"] /\ flag = [r \in Requests |-> "none"]
  /\ errors = <<>>
-----------------------------------------------------------------------------
(* The generator.                                                          *)

Enter(r) == gen[r] = "new" /\ gen' = [gen EXCEPT ![r] = "waiting"]

\* The lock, the conditioning, and CosyVoice starts its thread.
Acquire(r) ==
  /\ gen[r] = "waiting" /\ gpu = Free
  /\ gpu' = r
  /\ gen' = [gen EXCEPT ![r] = "generating"]
  /\ llm' = [llm EXCEPT ![r] = "running"]
  /\ flag' = [flag EXCEPT ![r] = "unset"]
  /\ UNCHANGED <<made, errors>>

ConditioningFails(r) ==
  /\ gen[r] = "waiting" /\ gpu = Free
  /\ gen' = [gen EXCEPT ![r] = "raised"]
  /\ UNCHANGED <<gpu, made, llm, flag, errors>>

Yield(r) ==
  /\ gen[r] = "generating" /\ made[r] < MaxChunks
  /\ gen' = [gen EXCEPT ![r] = "yielding"]
  /\ made' = [made EXCEPT ![r] = @ + 1]
  /\ UNCHANGED <<gpu, llm, flag, errors>>

Resume(r) ==
  /\ gen[r] = "yielding"
  /\ gen' = [gen EXCEPT ![r] = "generating"]

\* CosyVoice sees the flag, cleans up and returns.
Exhaust(r) ==
  /\ gen[r] = "generating" /\ flag[r] = "set"
  /\ gen' = [gen EXCEPT ![r] = "finishing"]
  /\ flag' = [flag EXCEPT ![r] = "none"]
  /\ UNCHANGED <<gpu, made, llm, errors>>

\* Leaving, the finally block raises the youngest error, whosever it is, and
\* forgets that request in CosyVoice.
Leave(r, how) ==
  /\ gpu' = Free
  /\ IF errors = <<>>
     THEN /\ gen' = [gen EXCEPT ![r] = how]
          /\ UNCHANGED <<flag, errors>>
     ELSE /\ gen' = [gen EXCEPT ![r] = IF how = "done" THEN "raised" ELSE how]
          /\ flag' = [flag EXCEPT ![Last(errors)] = "none"]
          /\ errors' = Front(errors)
  /\ UNCHANGED <<made, llm>>

\* Mutant: the guard is not asked.
FinishUnguarded(r) ==
  /\ gen[r] = "finishing"
  /\ gen' = [gen EXCEPT ![r] = "done"]
  /\ gpu' = Free
  /\ UNCHANGED <<made, llm, flag, errors>>

\* Mutant: the lock is released on the way of success only.
ModelFailsHolding(r) ==
  /\ gen[r] = "generating"
  /\ gen' = [gen EXCEPT ![r] = "raised"]
  /\ UNCHANGED <<gpu, made, llm, flag, errors>>

\* Only a generator that is done consumes the preview it spoke.
Finish(r)     == gen[r] = "finishing" /\ Leave(r, "done")
ModelFails(r) == gen[r] = "generating" /\ Leave(r, "raised")

\* GeneratorExit at the yield.  An error raised now is swallowed, and
\* CosyVoice's thread and its entries are left to themselves.
Close(r)      == gen[r] = "yielding" /\ Leave(r, "closed")
-----------------------------------------------------------------------------
(* The language model's thread, with guarded_llm_job around it.            *)

LlmEnds(r) ==
  /\ llm[r] = "running"
  /\ llm' = [llm EXCEPT ![r] = "ended"]
  /\ flag' = [flag EXCEPT ![r] = "set"]
  /\ UNCHANGED <<gpu, gen, made, errors>>

\* record, in its two critical sections.
LlmDies(r) ==
  /\ llm[r] = "running"
  /\ llm' = [llm EXCEPT ![r] = "recorded"]
  /\ errors' = Append(errors, r)
  /\ UNCHANGED <<gpu, gen, made, flag>>

\* Mutant: the flag stays as it is, as without the guard.
FlagDeadNot(r) ==
  /\ llm[r] = "recorded"
  /\ llm' = [llm EXCEPT ![r] = "died"]
  /\ UNCHANGED <<gpu, gen, made, flag, errors>>

FlagDead(r) ==
  /\ llm[r] = "recorded"
  /\ llm' = [llm EXCEPT ![r] = "died"]
  /\ flag' = [flag EXCEPT ![r] = IF @ = "none" THEN "none" ELSE "set"]
  /\ UNCHANGED <<gpu, gen, made, errors>>

Llm(r) == LlmEnds(r) \/ LlmDies(r) \/ FlagDead(r)
-----------------------------------------------------------------------------
\* A generation that counts as done, and consumes its preview, is one whose
\* language model came to its end: an error in the thread is never lost, nor
\* taken by another request that leaves in between.
NoFalseSuccess == \A r \in Requests : gen[r] = "done" => llm[r] = "ended"
=============================================================================
