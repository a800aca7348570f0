------------------------ MODULE MCSynthesisSessions ------------------------
(***************************************************************************)
(* Instance of the store for TLC: one session, with text enough for its    *)
(* queue to fill, drain and fill again.  MCSessionAudio has two sessions.  *)
(***************************************************************************)
EXTENDS SynthesisSessions, TLC
CONSTANTS short, long
MCBytes == short :> 1 @@ long :> 2
=============================================================================
