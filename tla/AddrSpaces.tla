----------------------------- MODULE AddrSpaces -----------------------------
(***************************************************************************)
(* What the memory manager promises to processes, without pages, reference *)
(* counts or page tables: every address space has memory of its own, a new *)
(* one may start as a copy, and a message is a copy made when it is sent.  *)
(* (README: "Can create a COW snapshot of current address space"; "sendpage *)
(* ... transfer memory range between address spaces".)                     *)
(***************************************************************************)
CONSTANTS
  AS,      \* address spaces
  VA,      \* virtual pages
  Value,   \* contents of a page
  Zero,    \* the contents of memory never written
  NoMsg    \* no message in flight

VARIABLES
  mem,     \* what each address space reads at each virtual page
  msg      \* the contents of the page in flight, or NoMsg

aVars == <<mem, msg>>

Blank == [va \in VA |-> Zero]

\* The first process: an image and otherwise untouched memory.
AInit ==
  /\ mem \in [AS -> [VA -> Value]]
  /\ \E a \in AS : \A b \in AS \ {a} : mem[b] = Blank
  /\ msg = NoMsg

\* A store.  Pages of one address space may be aliases of each other, those of
\* different address spaces never are.
AWrite(a, v) ==
  /\ \E U \in (SUBSET VA) \ {{}} :
       mem' = [mem EXCEPT ![a] = [va \in VA |-> IF va \in U THEN v ELSE @[va]]]
  /\ UNCHANGED msg

ANew(a, b) ==
  /\ a # b
  /\ mem' = [mem EXCEPT ![b] = mem[a]]
  /\ UNCHANGED msg

\* Unmapping pages; destroying an address space unmaps them all.
AUnmap(a) ==
  /\ \E U \in SUBSET VA :
       mem' = [mem EXCEPT ![a] = [va \in VA |-> IF va \in U THEN Zero ELSE @[va]]]
  /\ UNCHANGED msg

ASendPage(a, src, b, dst) ==
  /\ mem' = [mem EXCEPT ![b][dst] = mem[a][src]]
  /\ UNCHANGED msg

ASend(a, va) ==
  /\ msg = NoMsg
  /\ msg' = mem[a][va]
  /\ UNCHANGED mem

AReceive(b, va) ==
  /\ msg # NoMsg
  /\ mem' = [mem EXCEPT ![b][va] = msg]
  /\ msg' = NoMsg

ANext ==
  \/ \E a \in AS, v \in Value : AWrite(a, v)
  \/ \E a, b \in AS : ANew(a, b)
  \/ \E a \in AS : AUnmap(a)
  \/ \E a, b \in AS, src, dst \in VA : ASendPage(a, src, b, dst)
  \/ \E a \in AS, va \in VA : ASend(a, va) \/ AReceive(a, va)

ASpec == AInit /\ [][ANext]_aVars
=============================================================================
