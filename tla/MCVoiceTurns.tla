---------------------------- MODULE MCVoiceTurns ----------------------------
(***************************************************************************)
(* Instance of the voice turns for TLC: two personas and two URLs.  One    *)
(* user leaves the source to Hermes, the other names it; the model asks    *)
(* for jarvis under the name of samuel, or for samuel from a URL of its    *)
(* own.                                                                    *)
(***************************************************************************)
EXTENDS VoiceTurns
CONSTANTS jarvis, samuel, u1, u2
MCWishes == {[persona |-> jarvis, url |-> None], [persona |-> samuel, url |-> u1]}
MCCalls  == {[persona |-> jarvis, name |-> samuel, url |-> None],
             [persona |-> samuel, name |-> samuel, url |-> u2]}
=============================================================================
