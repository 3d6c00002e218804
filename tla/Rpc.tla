-------------------------------- MODULE Rpc --------------------------------
(***************************************************************************)
(* What the kernel's request/respond calls promise about one request: it   *)
(* is taken by the server at most once, after that answered or refused,    *)
(* never both and never twice, and what the client receives is what the    *)
(* server decided.  The client may give up at any time.                    *)
(***************************************************************************)
CONSTANT Req         \* requests

VARIABLE phase       \* what has become of each request

RInit == phase = [r \in Req |-> "none"]

Move(r, from, to) ==
  /\ phase[r] = from
  /\ phase' = [phase EXCEPT ![r] = to]

Send(r)     == Move(r, "none", "sent")
Take(r)     == Move(r, "sent", "taken")
Answer(r)   == Move(r, "taken", "answered")
Refuse(r)   == Move(r, "taken", "refused")
Receive(r)  == Move(r, "answered", "done") \/ Move(r, "refused", "done")
GiveUp(r)   == \E from \in {"sent", "taken", "answered"} : Move(r, from, "done")

RNext ==
  \E r \in Req : \/ Send(r) \/ Take(r) \/ Answer(r) \/ Refuse(r)
                 \/ Receive(r) \/ GiveUp(r)

RSpec == RInit /\ [][RNext]_phase
=============================================================================
