--------------------------- MODULE MCVoiceLibrary ---------------------------
(***************************************************************************)
(* Instance of the voice library for TLC: interchangeable ids and requests.*)
(***************************************************************************)
EXTENDS VoiceLibrary, TLC
Symmetry == Permutations(Ids) \cup Permutations(Plays)
=============================================================================
