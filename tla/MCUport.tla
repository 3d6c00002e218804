------------------------------ MODULE MCUport ------------------------------
(***************************************************************************)
(* One client that makes no mistake and may have several connections and   *)
(* requests under way; and two clients and a server that make every        *)
(* mistake.                                                                *)
(***************************************************************************)
EXTENDS Uport

CONSTANTS c1, c2

MCTrials ==
  { [clients |-> {c1}, objs |-> 6, mistakes |-> {}],
    [clients |-> {c1, c2}, objs |-> 5, mistakes |-> Mistake] }
=============================================================================
