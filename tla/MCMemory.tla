------------------------------ MODULE MCMemory ------------------------------
(***************************************************************************)
(* The three parts of memory management that share no state: the kernel's  *)
(* page frames (Frames), the areas of an address space (Areas) and a       *)
(* process's heap (Malloc).  Each is explored on its own.                  *)
(***************************************************************************)
EXTENDS Frames, Malloc, Areas

VARIABLE part

\* The kernel's range 2..3 lies inside a range; over a range and the front of the
\* next, with low memory dropped; and over the end of one.
Entry(base, length, type) == [base |-> base, length |-> length, type |-> type]
MCSmaps ==
  { <<Entry(0, 6, 1)>>,
    <<Entry(0, 1, 1), Entry(1, 1, 1), Entry(2, 1, 1), Entry(3, 2, 1), Entry(5, 1, 2)>>,
    <<Entry(1, 2, 1), Entry(5, 1, 2)>> }
MCKernel == [base |-> 2, length |-> 2]
MCPerPage == [meta |-> 3, tree |-> 4, page |-> 4, msg |-> 1]

MemoryInit ==
  /\ part \in {"frames", "areas", "heap"}
  /\ FramesInit /\ Init /\ HeapInit
  /\ part # "frames" => Len(smap) = 1

MemoryNext ==
  \/ part = "frames" /\ FramesNext /\ UNCHANGED <<part, vars, heapVars>>
  \/ part = "areas" /\ Next /\ UNCHANGED <<part, frames, heapVars>>
  \/ part = "heap" /\ HeapNext /\ UNCHANGED <<part, frames, vars>>

MemorySpec == MemoryInit /\ [][MemoryNext]_<<part, frames, vars, heapVars>>
=============================================================================
