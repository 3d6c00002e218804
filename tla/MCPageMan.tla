----------------------------- MODULE MCPageMan -----------------------------
(***************************************************************************)
(* PageMan for TLC: the pages other than zero_page are interchangeable.    *)
(***************************************************************************)
EXTENDS PageMan, TLC

FrameSymmetry == Permutations(Frame \ {ZeroFrame})
=============================================================================
