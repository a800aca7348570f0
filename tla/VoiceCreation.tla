---------------------------- MODULE VoiceCreation ---------------------------
(***************************************************************************)
(* The creation of a voice in Hermes: the plugin's two hooks (__init__.py) *)
(* and create in voice_manager.py.  Before a request of the user is given  *)
(* to the language model, its intent is remembered in a bounded table;     *)
(* when the model calls the tool, the guard puts what the user asked for   *)
(* into the call.  A call runs in a thread of its own: it looks for a      *)
(* saved voice that will do, searches, prepares source after source under  *)
(* a lock directory, and saves what it prepared.                           *)
(*                                                                         *)
(* A persona stands for a text and for the identity key derived from it, a *)
(* URL for its source key.  The query and the name of a call are two texts *)
(* and may be of two personas.  The table's key is the turn id.  The files *)
(* behind a saved voice, and its selection, are in VoiceLibrary.           *)
(***************************************************************************)
EXTENDS Naturals, Sequences, FiniteSets

CONSTANTS
  Runs,         \* the requests Hermes handles
  Personas,
  Urls,
  Wishes,       \* what a user may ask for: a persona, and perhaps a URL
  Calls,        \* what the language model may put into a call
  Sources,      \* SEARCH_LIMIT
  MaxIntents,   \* the limit on _TURN_INTENT
  None

VARIABLES
  intents,   \* _TURN_INTENT, oldest first: run and wish
  heard,     \* history: the runs in the order of their first hook
  job,       \* the run and its call of the tool
  lock,      \* .prepare.lock: by whom it was made, and whether it is old
  aged,      \* history: a lock got old, and its takeover is not settled yet
  saved      \* the saved voices: persona, source, whether that was given,
             \* by which run, and the voices that saw

creationVars == <<intents, heard, job, lock, aged, saved>>

Stages  == {"new", "thinking", "checking", "searching", "locking", "stealing",
            "relocking", "preparing", "saving", "done", "dead"}
NoJob   == [at |-> "new", asked |-> None, call |-> None, source |-> None, tries |-> 0, seen |-> {}]
WishType == [persona : Personas, url : Urls \cup {None}]
CallType == [persona : Personas, name : Personas, url : Urls \cup {None}]
Free    == [by |-> None, held |-> FALSE, old |-> FALSE]
Preparing  == {r \in Runs : job[r].at = "preparing"}
Contending == {r \in Runs : job[r].at \in {"stealing", "relocking", "preparing"}}

\* Every variable has its type, the table keeps its limit, and a call of the
\* tool is about a persona.
CreationTypeOK ==
  /\ intents \in Seq([run : Runs, wish : Wishes])
  /\ Len(intents) <= MaxIntents
  /\ heard \in Seq(Runs)
  /\ job \in [Runs -> [at : Stages, asked : Wishes \cup {None}, call : CallType \cup {None},
                       source : Urls \cup {None}, tries : 0..Sources, seen : SUBSET Runs]]
  /\ lock \in [by : Runs \cup {None}, held : BOOLEAN, old : BOOLEAN]
  /\ aged \in BOOLEAN
  /\ saved \subseteq [persona : Personas, source : Urls, given : BOOLEAN,
                      by : Runs, seen : SUBSET Runs]
  /\ \A r \in Runs : /\ job[r].at \notin {"new", "thinking", "done", "dead"} => job[r].call # None
                     /\ job[r].at = "saving" => job[r].source # None

CreationInit ==
  /\ intents = <<>> /\ heard = <<>>
  /\ job = [r \in Runs |-> NoJob]
  /\ lock = Free /\ aged = FALSE
  /\ saved = {}

Become(r, at) == job' = [job EXCEPT ![r].at = at]
Return(r, at) == job' = [job EXCEPT ![r] = [NoJob EXCEPT !.at = at, !.asked = job[r].asked]]
At(r, at)     == job[r].at = at
library == <<intents, heard, saved>>
-----------------------------------------------------------------------------
(* The hooks.                                                              *)

\* Mutant: the table makes room before it needs it.
HookDropsEarly(r, w) ==
  LET table == Append(intents, [run |-> r, wish |-> w]) IN
  /\ At(r, "new")
  /\ job' = [job EXCEPT ![r].at = "thinking", ![r].asked = w]
  /\ intents' = IF Len(table) >= MaxIntents THEN Tail(table) ELSE table
  /\ heard' = Append(heard, r)
  /\ UNCHANGED <<lock, aged, saved>>

\* Mutant: the table keeps one intent too many.
HookKeepsOneMore(r, w) ==
  LET table == Append(intents, [run |-> r, wish |-> w]) IN
  /\ At(r, "new")
  /\ job' = [job EXCEPT ![r].at = "thinking", ![r].asked = w]
  /\ intents' = IF Len(table) > MaxIntents + 1 THEN Tail(table) ELSE table
  /\ heard' = Append(heard, r)
  /\ UNCHANGED <<lock, aged, saved>>

\* _voice_intent_context: the oldest intents are dropped, whether or not
\* their runs are over.
Hook(r, w) ==
  LET table == Append(intents, [run |-> r, wish |-> w]) IN
  /\ At(r, "new")
  /\ job' = [job EXCEPT ![r].at = "thinking", ![r].asked = w]
  /\ intents' = IF Len(table) > MaxIntents THEN Tail(table) ELSE table
  /\ heard' = Append(heard, r)
  /\ UNCHANGED <<lock, aged, saved>>

Intent(r) == {n \in DOMAIN intents : intents[n].run = r}

\* The call the guard makes of c: the user's query for the model's, the user's
\* URL if there is one, and still the model's name.
Guarded(w, c) ==
  [persona |-> w.persona, name |-> c.name, url |-> IF w.url # None THEN w.url ELSE c.url]

\* _guard_voice_tool: with an intent a search, a prepare or a create becomes a
\* guarded create; without one a create goes through as it is.  A name left
\* out is the query.  start_seconds goes through too: it picks the segment.
Call(r, c) ==
  LET own == {intents[n].wish : n \in Intent(r)} IN
  /\ At(r, "thinking")
  /\ job' = [job EXCEPT ![r].at = "checking", ![r].call =
               IF own # {} THEN Guarded(CHOOSE w \in own : TRUE, c) ELSE c]
  /\ UNCHANGED <<lock, aged, library>>
-----------------------------------------------------------------------------
(* create.                                                                 *)

\* _find_duplicate_profile: a voice of the same source, whosever it is, and
\* then one of the query's or the name's identity.
SameSource(c)   == {x \in saved : c.url # None /\ x.source = c.url}
SameIdentity(c) == {x \in saved : x.persona \in {c.persona, c.name}}

LookFurther(r) == job' = [job EXCEPT ![r].at = "searching", ![r].seen = {x.by : x \in saved}]

\* Mutant: a voice of the same source is overlooked.
CheckIdentityOnly(r) ==
  /\ At(r, "checking")
  /\ IF SameIdentity(job[r].call) # {} THEN Return(r, "done") ELSE LookFurther(r)
  /\ UNCHANGED <<lock, aged, library>>

\* A saved voice is selected, and the call is done; or a source is needed.
Check(r) ==
  /\ At(r, "checking")
  /\ IF SameSource(job[r].call) \cup SameIdentity(job[r].call) # {}
     THEN Return(r, "done") ELSE LookFurther(r)
  /\ UNCHANGED <<lock, aged, library>>

\* The call's URL is the one source, if it will do; else a search fails, or
\* finds some.
Search(r) ==
  /\ At(r, "searching")
  /\ \/ Return(r, "thinking")
     \/ \E n \in 1..Sources :
          /\ job[r].call.url # None => n = 1
          /\ job' = [job EXCEPT ![r].at = "locking", ![r].tries = n]
  /\ UNCHANGED <<lock, aged, library>>

Take(r) ==
  /\ lock' = [by |-> r, held |-> TRUE, old |-> FALSE]
  /\ Become(r, "preparing")

\* mkdir; a lock that is not ten minutes old ends the call: PREPARE_BUSY.
Lock(r) ==
  /\ At(r, "locking")
  /\ IF ~lock.held THEN Take(r)
     ELSE /\ IF lock.old THEN Become(r, "stealing") ELSE Return(r, "thinking")
          /\ UNCHANGED lock
  /\ UNCHANGED <<aged, library>>

\* rmtree, whosever the directory is by now.
Steal(r) ==
  /\ At(r, "stealing")
  /\ lock' = Free
  /\ Become(r, "relocking")
  /\ UNCHANGED <<aged, library>>

\* The second mkdir is not guarded: if it fails, so does the call.
Relock(r) ==
  /\ At(r, "relocking")
  /\ IF lock.held THEN Return(r, "thinking") /\ UNCHANGED lock ELSE Take(r)
  /\ UNCHANGED <<aged, library>>

\* The finally block removes the directory, whosever it is.
Unlock(r) ==
  /\ lock' = Free
  /\ aged' = (aged /\ Contending # {r})

\* The source is the call's, or one the search has found: that one is looked
\* up among the saved voices no more.
PrepareSucceeds(r) ==
  /\ At(r, "preparing")
  /\ Unlock(r)
  /\ \E u \in Urls : /\ job[r].call.url \in {None, u}
                     /\ job' = [job EXCEPT ![r].at = "saving", ![r].source = u]
  /\ UNCHANGED library

\* Mutant: only a preparation that succeeds removes the lock.
PrepareFailsLocked(r) ==
  /\ At(r, "preparing")
  /\ \/ Return(r, "thinking")
     \/ job[r].tries > 1 /\ job' = [job EXCEPT ![r].at = "locking", ![r].tries = @ - 1]
  /\ UNCHANGED <<lock, aged, library>>

\* A source that cannot be fetched or used is followed by the next; any other
\* failure, or the last source, ends the call.
PrepareFails(r) ==
  /\ At(r, "preparing")
  /\ Unlock(r)
  /\ \/ Return(r, "thinking")
     \/ job[r].tries > 1 /\ job' = [job EXCEPT ![r].at = "locking", ![r].tries = @ - 1]
  /\ UNCHANGED library

Voice(r) ==
  [persona |-> job[r].call.persona, source |-> job[r].source, given |-> job[r].call.url # None,
   by |-> r, seen |-> job[r].seen]

\* _finish_create: the candidate is accepted.  Its label is the query's.
Save(r) ==
  /\ At(r, "saving")
  /\ saved' = saved \cup {Voice(r)}
  /\ Return(r, "done")
  /\ UNCHANGED <<intents, heard, lock, aged>>
-----------------------------------------------------------------------------
(* Ten minutes pass, also over a preparation that works on: a download, a  *)
(* cleaning and a transcription may take eleven.  Hermes dies and starts   *)
(* again: its threads and its table are gone, the lock directory is not.   *)

LockAges ==
  /\ lock.held /\ ~lock.old
  /\ lock' = [lock EXCEPT !.old = TRUE]
  /\ aged' = TRUE
  /\ UNCHANGED <<job, library>>

Restart ==
  /\ \E r \in Runs : job[r].at \notin {"new", "dead"}
  /\ job' = [r \in Runs |-> IF At(r, "new") THEN job[r] ELSE [NoJob EXCEPT !.at = "dead"]]
  /\ intents' = <<>> /\ heard' = <<>>
  /\ lock' = [lock EXCEPT !.by = None]
  /\ aged' = (aged /\ lock.held)
  /\ UNCHANGED saved

JobStep(r) ==
  \/ \E c \in Calls : Call(r, c)
  \/ Check(r) \/ Search(r) \/ Lock(r) \/ Steal(r) \/ Relock(r)
  \/ PrepareSucceeds(r) \/ PrepareFails(r) \/ Save(r)

CreationNext ==
  \/ \E r \in Runs : JobStep(r) \/ \E w \in Wishes : Hook(r, w)
  \/ LockAges \/ Restart

CreationSpec == CreationInit /\ [][CreationNext]_creationVars
-----------------------------------------------------------------------------
(* Properties.                                                             *)

\* Who is told that another source is being prepared is told the truth: the
\* lock is held by a preparation that runs, or was left by a crash.  And no
\* two preparations overlap unless a lock got ten minutes old, and they do no
\* more when all that contended for it are done.
OnePreparation ==
  /\ lock.held => lock.by = None \/ lock.by \in Preparing
  /\ aged \/ Cardinality(Preparing) <= 1

\* A request repeated when its voice is saved makes no second one: two voices
\* of a persona, or of the source a call gave, come from creations of which
\* the second did not begin after the first was saved.
RetryReuses == \A x, y \in saved :
  x.persona = y.persona \/ (x.given /\ x.source = y.source) => y.by \notin x.seen

\* The voice a run makes is of the persona its user asked for and of the URL
\* its user gave, whatever the model put into the call, unless MaxIntents
\* requests were heard after it.  (A voice it finds may be another's: the
\* model's name or URL can lead to it.)
MadeAsAsked == \A n \in DOMAIN heard : \A x \in saved :
  LET w == job[heard[n]].asked IN
  x.by = heard[n] /\ Len(heard) - n < MaxIntents =>
    x.persona = w.persona /\ w.url \in {None, x.source}
=============================================================================
