--------------------------- MODULE MCSessionAudio ---------------------------
(***************************************************************************)
(* Instance of the audio routes for TLC: two ids contending for one place  *)
(* in the store, or two places, and one buffered request for the GPU.      *)
(***************************************************************************)
EXTENDS SessionAudio, TLC
MCBytes == [x \in Sentences |-> 1]
Symmetry == Permutations(Sessions)
=============================================================================
