------------------------------ MODULE PageMan ------------------------------
(***************************************************************************)
(* Copy-on-write page management: sys/mm/page_man.c, the page operations   *)
(* of sys/mm/aspace.c, the page fault handler, and the system calls of     *)
(* sys/mm/syscall.c and sys/mm/copy.c that move pages.                     *)
(*                                                                         *)
(* A physical page is referenced by page entries (one per address space    *)
(* and virtual page) and by the page list of a message in flight.  An      *)
(* entry is SHARED (its holder owns the page) or a SNAPSHOT.  While a page *)
(* has snapshots it must be read-only for everybody; a write fault then    *)
(* copies it.                                                              *)
(*                                                                         *)
(* The kernel's bookkeeping is one record m, and each C function is an     *)
(* operator from records to records, so that a handler is the composition  *)
(* of its calls.  Interrupts do not touch this state: every system call    *)
(* and every fault is one action.                                          *)
(***************************************************************************)
EXTENDS Integers, FiniteSets, FiniteSetsExt

CONSTANTS
  AS,          \* address spaces
  InitAs,      \* that of the first process
  VA,          \* virtual pages
  Text, Data,  \* the two places where start_init maps each image page
  Frame,       \* physical pages
  ZeroFrame,   \* zero_page
  Value,       \* contents of a page
  Zero,        \* zeroes
  Null,
  Loader,      \* address spaces whose program calls sendpage
  Sends        \* how much of a page the messages cover: "part", "whole"

ASSUME PageManAssumption ==
  /\ IsFiniteSet(AS) /\ IsFiniteSet(VA) /\ IsFiniteSet(Frame)
  /\ InitAs \in AS
  /\ Text \in VA /\ Data \in VA /\ Text # Data
  /\ ZeroFrame \in Frame
  /\ Zero \in Value
  /\ Null \notin Frame \cup AS \cup Value
  /\ Loader \subseteq AS
  /\ Sends \subseteq {"part", "whole"}

Key == AS \X VA
PageFlag == {"SHARED", "SNAPSHOT"}

\* A page of a message, and how the message refers to it.
MsgPage == [p : Frame \cup {Null}, flag : PageFlag]
ASSUME MsgAssumption == Null \notin MsgPage

\* The counters are unsigned and wrap; 2^16 stands for 2^64.
Word == 65536
Less(n, d) == (n + Word - d) % Word

\* References there can be: entries, the message, zero_page's own, and that of
\* the kernel while it works on the page.
MaxRef == Cardinality(Key) + 3

\* No counter wraps for the number of its references.
ASSUME CounterAssumption == MaxRef < Word

VARIABLES
  m,        \* page entries, pages and page tables (see MemType)
  vma,      \* "none", "ro" or "rw" for each virtual page of each address space
  creator,  \* the address space whose task holds this one in its astable;
            \* Null once it has a task of its own, itself if nobody holds it
  live,     \* address spaces in existence
  msg       \* the message in flight: its page and flag, or Null

vars == <<m, vma, creator, live, msg>>

(***************************************************************************)
(* pe[k].p is the frame of the entry at k or Null, pte[k] the page table   *)
(* entry: its frame (Null: not present) and PTE_W.  snap and ref are the   *)
(* page's counters, data its contents.  panic names the panic reached.     *)
(***************************************************************************)
MemType ==
  [pe : [Key -> [p : Frame \cup {Null}, flag : PageFlag]],
   pte : [Key -> [p : Frame \cup {Null}, w : BOOLEAN]],
   ref : [Frame -> 0..MaxRef],
   snap : [Frame -> 0..Word - 1],
   data : [Frame -> Value],
   panic : {"none", "has_snapshot", "not_holder", "one_user",
            "already_mapped", "kernel_fault"}]

NoEntry == [p |-> Null, flag |-> "SHARED"]
NoPte == [p |-> Null, w |-> FALSE]

Owners(mm, p) == {k \in Key : mm.pe[k].p = p}
Free(mm) == {p \in Frame : mm.ref[p] = 0}

Panic(mm, why) == [mm EXCEPT !.panic = IF @ = "none" THEN why ELSE @]

-----------------------------------------------------------------------------
\* Set or clear PTE_W in every present page table entry of the owners of p.
SetWritable(mm, p, w) ==
  [mm EXCEPT !.pte = [k \in Key |->
     IF k \in Owners(mm, p) /\ mm.pte[k].p # Null
     THEN [mm.pte[k] EXCEPT !.w = w] ELSE mm.pte[k]]]

\* Mutant: the page table entries that exist stay writable.
SharePageNot(mm, p) == mm

SharePage(mm, p) == SetWritable(mm, p, FALSE)

\* The last snapshot is gone: everybody left must own the page.
RestoreWrite(mm, p) ==
  IF \E k \in Owners(mm, p) : mm.pe[k].flag # "SHARED"
  THEN Panic(mm, "has_snapshot")
  ELSE SetWritable(mm, p, TRUE)

DropSnapshot(mm, p) ==
  LET m1 == [mm EXCEPT !.snap[p] = Less(@, 1)]
  IN IF m1.snap[p] = 0 THEN RestoreWrite(m1, p) ELSE m1

\* page_unref.  The contents of a page in the pool are of no interest: it is
\* filled by whoever takes it (NewPage).
PageUnref(mm, p) ==
  [mm EXCEPT !.ref[p] = Less(@, 1),
             !.data[p] = IF mm.ref[p] = 1 THEN Zero ELSE @]

\* page_entry_unref, once the entry is off the owner list.
PageEntryUnref(mm, e) ==
  PageUnref(IF e.flag = "SNAPSHOT" THEN DropSnapshot(mm, e.p) ELSE mm, e.p)

\* Mutants: the page table entry, or the reference, is forgotten.
UnassignKeepsPte(mm, k) ==
  IF mm.pe[k].p = Null THEN mm
  ELSE PageEntryUnref([mm EXCEPT !.pe[k] = NoEntry], mm.pe[k])

UnassignKeepsRef(mm, k) ==
  IF mm.pe[k].p = Null THEN mm ELSE [mm EXCEPT !.pe[k] = NoEntry, !.pte[k] = NoPte]

\* unassign_page, if there is an entry at k.
UnassignPage(mm, k) ==
  IF mm.pe[k].p = Null THEN mm
  ELSE PageEntryUnref([mm EXCEPT !.pe[k] = NoEntry, !.pte[k] = NoPte], mm.pe[k])

\* address_space_assign_page_no_addr_check
AssignPage(mm, k, p, flag) ==
  LET m1 == UnassignPage(mm, k)
      m2 == [m1 EXCEPT !.pe[k] = [p |-> p, flag |-> flag], !.ref[p] = @ + 1]
      m3 == [m2 EXCEPT !.snap[p] = @ + 1]
  IN IF flag = "SHARED" THEN m2
     ELSE IF m3.snap[p] = 1 THEN SharePage(m3, p) ELSE m3

\* get_page and manage_page: a free frame with its first reference.
NewPage(mm, p, v) == [mm EXCEPT !.ref[p] = 1, !.snap[p] = 0, !.data[p] = v]

(***************************************************************************)
(* unshare_page: give the entry at k a page it can be written through.  A  *)
(* sole snapshot keeps its page; otherwise the page is copied, and the     *)
(* other SHARED entries follow a SHARED one to the copy.                   *)
(***************************************************************************)
\* Mutant: the page table entries of the siblings still map the old page.
UnshareCopyKeepsPtes(mm, k, p) ==
  LET old == mm.pe[k].p
      shared == mm.pe[k].flag = "SHARED"
      others == IF shared THEN {o \in Owners(mm, old) \ {k} : mm.pe[o].flag = "SHARED"}
                ELSE {}
      m1 == NewPage(mm, p, mm.data[old])
      m2 == [m1 EXCEPT !.pe = [o \in Key |->
                IF o \in others \cup {k} THEN [p |-> p, flag |-> "SHARED"] ELSE @[o]],
              !.ref[old] = Less(@, Cardinality(others)),
              !.ref[p] = @ + Cardinality(others)]
      m3 == IF shared THEN m2 ELSE DropSnapshot(m2, old)
  IN PageUnref([m3 EXCEPT !.pte[k] = NoPte], old)

UnshareCopy(mm, k, p) ==
  LET old == mm.pe[k].p
      shared == mm.pe[k].flag = "SHARED"
      others == IF shared THEN {o \in Owners(mm, old) \ {k} : mm.pe[o].flag = "SHARED"}
                ELSE {}
      m1 == NewPage(mm, p, mm.data[old])
      m2 == [m1 EXCEPT !.pe = [o \in Key |->
                IF o \in others \cup {k} THEN [p |-> p, flag |-> "SHARED"] ELSE @[o]],
              !.pte = [o \in Key |-> IF o \in others THEN NoPte ELSE @[o]],
              !.ref[old] = Less(@, Cardinality(others)),
              !.ref[p] = @ + Cardinality(others)]
      m3 == IF shared THEN m2 ELSE DropSnapshot(m2, old)
  IN PageUnref([m3 EXCEPT !.pte[k] = NoPte], old)

\* Mutant: the sole snapshot's page table entry is not removed.
UnsharePageKeepsPte(mm, k, p) ==
  LET old == mm.pe[k].p
  IN IF mm.snap[old] = 1 /\ mm.ref[old] = 1
     THEN [mm EXCEPT !.snap[old] = 0]
     ELSE IF mm.ref[old] = 1 THEN Panic(mm, "one_user")
     ELSE UnshareCopy(mm, k, p)

UnsharePage(mm, k, p) ==
  LET old == mm.pe[k].p
  IN IF mm.snap[old] = 1 /\ mm.ref[old] = 1
     THEN [mm EXCEPT !.snap[old] = 0, !.pte[k] = NoPte]
     ELSE IF mm.ref[old] = 1 THEN Panic(mm, "one_user")
     ELSE UnshareCopy(mm, k, p)

\* Mutant: a page with snapshots is mapped writable.
MapPageWritable(mm, k) ==
  LET p == mm.pe[k].p
  IN IF mm.pte[k].p # Null THEN Panic(mm, "already_mapped")
     ELSE [mm EXCEPT !.pte[k] = [p |-> p, w |-> vma[k] = "rw"]]

\* address_space_map: enter the page into the page table.
MapPage(mm, k) ==
  LET p == mm.pe[k].p
      sole == mm.snap[p] = 1 /\ mm.ref[p] = 1
      m1 == IF ~sole THEN mm
            ELSE IF mm.pe[k].flag # "SNAPSHOT" THEN Panic(mm, "not_holder")
            ELSE [mm EXCEPT !.snap[p] = 0, !.pe[k].flag = "SHARED"]
  IN IF m1.pte[k].p # Null THEN Panic(m1, "already_mapped")
     ELSE [m1 EXCEPT !.pte[k] = [p |-> p, w |-> vma[k] = "rw" /\ m1.snap[p] = 0]]

-----------------------------------------------------------------------------
(***************************************************************************)
(* start_init: each image page is SHARED by the read-only text area and    *)
(* the writable data area; nothing is in the page table yet.               *)
(***************************************************************************)
Init ==
  \E p \in Frame \ {ZeroFrame}, v \in Value :
    /\ m = [pe |-> [k \in Key |-> IF k \in {<<InitAs, Text>>, <<InitAs, Data>>}
                                  THEN [p |-> p, flag |-> "SHARED"] ELSE NoEntry],
            pte |-> [k \in Key |-> NoPte],
            ref |-> [f \in Frame |-> IF f = p THEN 2
                                     ELSE IF f = ZeroFrame THEN 1 ELSE 0],
            snap |-> [f \in Frame |-> 0],
            data |-> [f \in Frame |-> IF f = p THEN v ELSE Zero],
            panic |-> "none"]
    /\ vma = [k \in Key |-> IF k = <<InitAs, Text>> THEN "ro"
                            ELSE IF k = <<InitAs, Data>> THEN "rw" ELSE "none"]
    /\ creator = [a \in AS |-> Null]
    /\ live = {InitAs}
    /\ msg = Null

Running(a) == a \in live /\ creator[a] = Null

-----------------------------------------------------------------------------
\* A store by user code through a writable page table entry.
Store(a, va, v) ==
  /\ Running(a)
  /\ m.pte[<<a, va>>].w
  /\ m' = [m EXCEPT !.data[m.pte[<<a, va>>].p] = v]
  /\ UNCHANGED <<vma, creator, live, msg>>

(***************************************************************************)
(* page_fault_handler for an access the page table does not allow.  (A     *)
(* fault outside every area, or a write to a read-only one, kills the      *)
(* task: Destroy.)                                                         *)
(***************************************************************************)
WithEntry(mm, k) ==
  IF mm.pe[k].p = Null THEN AssignPage(mm, k, ZeroFrame, "SNAPSHOT") ELSE mm

\* (p is the page get_page would return; running out of memory is not
\* modelled.)
PageFault(a, va, write, p) ==
  LET k == <<a, va>>
      m1 == WithEntry(m, k)
      m2 == IF write /\ m1.snap[m1.pe[k].p] # 0
            THEN UnsharePage(m1, k, p) ELSE m1
  IN /\ Running(a)
     /\ vma[k] = "rw" \/ (vma[k] = "ro" /\ ~write)
     /\ m.pte[k].p = Null \/ (write /\ ~m.pte[k].w)
     /\ m' = IF m2.panic # "none" THEN m2 ELSE MapPage(m2, k)
     /\ UNCHANGED <<vma, creator, live, msg>>

\* copy_to_user_simple: the kernel writes into user memory behind the page
\* table's back, whatever the area's permission.
CopyToUser(a, va, v, p) ==
  LET k == <<a, va>>
      m1 == IF m.pe[k].p = Null
            THEN PageUnref(AssignPage(NewPage(m, p, Zero), k, p, "SHARED"), p)
            ELSE IF m.snap[m.pe[k].p] # 0 THEN UnsharePage(m, k, p) ELSE m
  IN /\ Running(a)
     /\ vma[k] # "none"
     /\ m' = [m1 EXCEPT !.data[m1.pe[k].p] = v]
     /\ UNCHANGED <<vma, creator, live, msg>>

-----------------------------------------------------------------------------
\* asnew: an empty address space, or a snapshot of the caller's.
AsNew(a, b, snapshot) ==
  LET from(va) == m.pe[<<a, va>>].p
      Copy(va, mm) == IF from(va) = Null THEN mm
                      ELSE AssignPage(mm, <<b, va>>, from(va), "SNAPSHOT")
  IN /\ Running(a)
     /\ b \in AS \ live
     /\ live' = live \cup {b}
     /\ creator' = [creator EXCEPT ![b] = a]
     /\ IF snapshot
        THEN /\ vma' = [k \in Key |-> IF k[1] = b THEN vma[<<a, k[2]>>] ELSE vma[k]]
             /\ m' = FoldSet(Copy, m, VA)
        ELSE UNCHANGED <<vma, m>>
     /\ UNCHANGED msg

\* create_task: the address space gets a task of its own.
CreateTask(b) ==
  /\ b \in live /\ creator[b] \notin {Null, b}
  /\ creator' = [creator EXCEPT ![b] = Null]
  /\ UNCHANGED <<m, vma, live, msg>>

\* destroy_as: every area and page of a goes; held is who then holds each of the
\* address spaces not started yet.
DestroyAs(a, held) ==
  LET Drop(va, mm) == UnassignPage(mm, <<a, va>>)
  IN /\ m' = FoldSet(Drop, m, VA)
     /\ vma' = [k \in Key |-> IF k[1] = a THEN "none" ELSE vma[k]]
     /\ live' = live \ {a}
     /\ creator' = [c \in AS |-> IF c = a THEN Null ELSE held[c]]
     /\ UNCHANGED msg

(***************************************************************************)
(* asdestroy of one that is not started, or kill_process of the task that  *)
(* runs a: its astable is forgotten, so the address spaces it had made and *)
(* not started are nobody's and stay allocated.                            *)
(***************************************************************************)
Destroy(a) ==
  LET held == [c \in AS |-> IF creator[c] = a THEN c ELSE creator[c]]
  IN /\ a \in live /\ creator[a] # a
     /\ DestroyAs(a, held)

\* create_task with CT_SELF: the caller moves to b, with the rest of its astable.
Exec(a, b) ==
  LET held == [c \in AS |-> IF c = b THEN Null ELSE IF creator[c] = a THEN b
                           ELSE creator[c]]
  IN /\ Running(a)
     /\ b \in live /\ creator[b] = a
     /\ DestroyAs(a, held)

\* munmap of one page.
Munmap(a, va) ==
  /\ Running(a)
  /\ vma[<<a, va>>] # "none"
  /\ vma' = [vma EXCEPT ![<<a, va>>] = "none"]
  /\ m' = UnassignPage(m, <<a, va>>)
  /\ UNCHANGED <<creator, live, msg>>

\* sendpage of page src of the caller (Null: of nothing, to get fresh memory)
\* to an unused place of its own address space or of one it is preparing.
SendPage(a, src, b, dst) ==
  LET p == m.pe[<<a, src>>].p
  IN /\ Running(a)
     /\ a \in Loader
     /\ b = a \/ (b \in live /\ creator[b] = a)
     /\ vma[<<b, dst>>] = "none"
     /\ src # Null => vma[<<a, src>>] # "none"
     /\ vma' = [vma EXCEPT ![<<b, dst>>] = "rw"]
     /\ m' = IF src = Null THEN m
             ELSE IF p = Null THEN m ELSE AssignPage(m, <<b, dst>>, p, "SNAPSHOT")
     /\ UNCHANGED <<creator, live, msg>>

-----------------------------------------------------------------------------
\* Mutant: the message refers to the sender's page instead of a copy.
MapFromUserByReference(a, va, size, p) ==
  LET e == m.pe[<<a, va>>]
  IN /\ Running(a)
     /\ vma[<<a, va>>] # "none"
     /\ msg = Null
     /\ e.p # Null
     /\ msg' = [p |-> e.p, flag |-> "SHARED"]
     /\ m' = [m EXCEPT !.ref[e.p] = @ + 1]
     /\ UNCHANGED <<vma, creator, live>>

(***************************************************************************)
(* map_from_user, for one page of the buffer.  A page the buffer covers in *)
(* part (the first or the last) is copied.  Of a page it covers wholly the *)
(* page list takes a snapshot, by counting it: share_page is not called.   *)
(***************************************************************************)
MapFromUser(a, va, size, p) ==
  LET e == m.pe[<<a, va>>]
  IN /\ Running(a)
     /\ vma[<<a, va>>] # "none"
     /\ msg = Null
     /\ IF size = "whole"
        THEN /\ msg' = [p |-> e.p, flag |-> "SNAPSHOT"]
             /\ m' = IF e.p = Null THEN m
                     ELSE [m EXCEPT !.ref[e.p] = @ + 1, !.snap[e.p] = @ + 1]
        ELSE /\ msg' = [p |-> p, flag |-> "SHARED"]
             /\ m' = NewPage(m, p, IF e.p = Null THEN Zero ELSE m.data[e.p])
     /\ UNCHANGED <<vma, creator, live>>

\* Mutant: page_list_free gives back the snapshot but not the reference.
PageListFreeKeepsRef(mm, e) ==
  IF e.p = Null THEN Panic(mm, "kernel_fault")
  ELSE IF e.flag = "SNAPSHOT" THEN [mm EXCEPT !.snap[e.p] = Less(@, 1)] ELSE mm

\* page_list_free: no page table entry gets its PTE_W back.
PageListFree(mm, e) ==
  IF e.p = Null THEN Panic(mm, "kernel_fault")
  ELSE PageUnref(IF e.flag = "SNAPSHOT" THEN [mm EXCEPT !.snap[e.p] = Less(@, 1)] ELSE mm,
                 e.p)

\* map_to_user into a new area of the receiver, then page_list_free
\* (pop_request, get_response).
MapToUser(b, dst) ==
  LET m1 == IF msg.p = Null THEN m ELSE AssignPage(m, <<b, dst>>, msg.p, "SNAPSHOT")
  IN /\ Running(b)
     /\ msg # Null
     /\ vma[<<b, dst>>] = "none"
     /\ vma' = [vma EXCEPT ![<<b, dst>>] = "rw"]
     /\ m' = PageListFree(m1, msg)
     /\ msg' = Null
     /\ UNCHANGED <<creator, live>>

-----------------------------------------------------------------------------
UserStep ==
  \E a \in AS, va \in VA :
    \/ \E v \in Value : Store(a, va, v)
    \/ \E v \in Value, p \in Free(m) : CopyToUser(a, va, v, p)
    \/ \E write \in BOOLEAN, p \in Free(m) : PageFault(a, va, write, p)
    \/ Munmap(a, va)

AsStep ==
  \/ \E a, b \in AS, snapshot \in BOOLEAN : AsNew(a, b, snapshot)
  \/ \E b \in AS : CreateTask(b) \/ Destroy(b)
  \/ \E a, b \in AS : Exec(a, b)
  \/ \E a, b \in AS, src \in VA \cup {Null}, dst \in VA : SendPage(a, src, b, dst)

MsgStep ==
  \E a \in AS, va \in VA :
    \/ \E size \in Sends, p \in Free(m) : MapFromUser(a, va, size, p)
    \/ MapToUser(a, va)

Next == m.panic = "none" /\ (UserStep \/ AsStep \/ MsgStep)

Spec == Init /\ [][Next]_vars

-----------------------------------------------------------------------------
TypeOK ==
  /\ m \in MemType
  /\ vma \in [Key -> {"none", "ro", "rw"}]
  /\ creator \in [AS -> AS \cup {Null}]
  /\ live \in SUBSET AS
  /\ msg \in MsgPage \cup {Null}

InMsg(p) == IF msg = Null THEN 0 ELSE IF msg.p = p THEN 1 ELSE 0

(***************************************************************************)
(* Reference counts are exact (page_man.c, copy.c): a page is returned to  *)
(* the pool when, and only when, its last entry or message is gone.        *)
(***************************************************************************)
RefCountExact ==
  m.panic = "none" =>
    \A p \in Frame :
      m.ref[p] = Cardinality(Owners(m, p)) + InMsg(p)
                 + (IF p = ZeroFrame THEN 1 ELSE 0)

(***************************************************************************)
(* "If a page has > 0 snapshots, it is mapped as read only in everyone's   *)
(* page table" (page_man.c:102-103).                                       *)
(***************************************************************************)
SnapshotsReadOnly ==
  m.panic = "none" =>
    \A k \in Key : m.pte[k].w => m.snap[m.pte[k].p] = 0

(***************************************************************************)
(* "If a page has no snapshots, then it has 'normal' permission according  *)
(* to owner's vma in everyone's page table" (page_man.c:99-100).           *)
(***************************************************************************)
NormalPermission ==
  m.panic = "none" =>
    \A k \in Key : m.pte[k].p # Null /\ m.snap[m.pte[k].p] = 0
                     => (m.pte[k].w <=> vma[k] = "rw")

(***************************************************************************)
(* The page tables follow the page entries: a present page table entry     *)
(* maps the page that the entry of the same address refers to, never one   *)
(* it has left (unshare_page, unassign_page).                              *)
(***************************************************************************)
PageTableFollows ==
  m.panic = "none" => \A k \in Key : m.pte[k].p \in {Null, m.pe[k].p}

(***************************************************************************)
(* No panic but one is reachable: "snap_count == 0 but has snapshot"       *)
(* (page_man.c:79, 201) is, see NoPanic.                                   *)
(***************************************************************************)
OnlyHasSnapshotPanic == m.panic \in {"none", "has_snapshot"}

\* The checks the memory manager makes of itself succeed (the panics of
\* page_man.c:79, 169, 201, aspace.c:144, paging.c:75).
NoPanic == m.panic = "none"

(***************************************************************************)
(* The refinement: what a process reads.                                   *)
(***************************************************************************)
Contents(k) == IF m.pe[k].p = Null THEN Zero ELSE m.data[m.pe[k].p]

Abstract == INSTANCE AddrSpaces WITH
  NoMsg <- Null,
  mem <- [a \in AS |-> [va \in VA |-> Contents(<<a, va>>)]],
  msg <- IF msg = Null THEN Null ELSE IF msg.p = Null THEN Zero ELSE m.data[msg.p]

\* Memory is private (AddrSpaces): whatever pages are shared underneath, each
\* process sees its own memory and each message is what was sent.
PrivateMemory == Abstract!ASpec
=============================================================================
