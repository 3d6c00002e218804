------------------------------- MODULE Areas -------------------------------
(***************************************************************************)
(* The areas of one address space (sys/mm/aspace.c): a list of struct      *)
(* vm_area sorted by address, in which areas are inserted, looked up,      *)
(* trimmed and split, and on which hangs the list of the area's pages.     *)
(* Addresses are page numbers; address arithmetic wraps at Word, as the    *)
(* unsigned 64-bit arithmetic of the code does.                            *)
(*                                                                         *)
(* Each system call is one action.  The caller chooses its arguments from  *)
(* Bases and Lens.  fault says why the kernel has stopped, if it has.      *)
(***************************************************************************)
EXTENDS Integers, Sequences, SequencesExt, FiniteSetsExt

CONSTANTS
  Word,        \* number of pages addressable by 64 bits
  Low, High,   \* low_addr, high_addr
  Bases,       \* addresses programs use
  Lens,        \* lengths programs use
  Fits,        \* programs map ranges that are not empty and end at High or below
  Padded,      \* no message is exactly one aligned page (which has no pages then)
  Device       \* physical pages of devices

ASSUME AreasAssumption ==
  /\ {Word, Low, High} \subseteq Nat
  /\ 0 < Low /\ Low < High /\ High < Word
  /\ Bases \subseteq 1 .. Word - 1
  /\ Lens \subseteq 0 .. Word - 1
  /\ Fits \in BOOLEAN
  /\ Padded \in BOOLEAN

VARIABLES
  areas,       \* as->vma, a sequence of areas
  vaddr_map,   \* the pages that have a page entry (the keys of as->vaddr_map)
  taken,       \* device pages insert_range has handed out (free_range)
  fault        \* "none", or the panic that stopped the kernel

vars == <<areas, vaddr_map, taken, fault>>

\* struct vm_area; hw is VMA_HW (VMA_RW is modelled in PageMan).
Area == [begin : 0 .. Word - 1, len : 0 .. Word - 1, hw : BOOLEAN,
         pages : SUBSET (0 .. Word - 1)]

Plus(a, n) == (a + n) % Word
\* Mutant: the operands swapped.
MinusSwapped(a, b) == b - a
Minus(a, b) == (a + Word - b) % Word
End(a) == Plus(a.begin, a.len)

\* The first of the indices hits, or one past the last index.
First(hits, as) == Min(hits \cup {Len(as) + 1})

-----------------------------------------------------------------------------
(* Searching                                                               *)

\* vma_find_by_vaddr: the index of the area that holds v, or 0.
Find(as, v) ==
  LET i == First({j \in DOMAIN as : as[j].begin > v \/ End(as[j]) > v}, as)
  IN  IF i \in DOMAIN as /\ as[i].begin <= v THEN i ELSE 0

\* Mutant: base is not advanced.
WalkBaseStays(as, base, i) == base

\* The walk of validate_range arrives at area i with this base.
WalkBase(as, base, i) == IF i = Find(as, base) THEN base ELSE End(as[i - 1])

\* validate_range returns 0: the walk reaches the end of the range without
\* meeting a hole.
Validate(as, base, len) ==
  LET from == Find(as, base)
      at(i) == WalkBase(as, base, i)
  IN  /\ from # 0
      /\ \E i \in from .. Len(as) :
           /\ \A j \in from .. i : as[j].begin <= at(j)
           /\ Minus(End(as[i]), at(i)) >= len - Minus(at(i), base)

-----------------------------------------------------------------------------
(* Inserting.  The result is the position of the new area (0: refused) and *)
(* its address.                                                            *)

Refused == [at |-> 0, begin |-> 0]

\* Mutant: areas above the new one's address are not looked at.
ToVaddrLow(as, v, len) ==
  LET stop == First({i \in DOMAIN as : as[i].begin >= v}, as)
  IN  IF v < Low \/ v > High \/ \E i \in 1 .. stop - 1 : End(as[i]) > v
      THEN Refused
      ELSE [at |-> stop, begin |-> v]

\* insert_vma_to_vaddr with aspace_add_vma.  Only the address is checked
\* against the limits.
ToVaddr(as, v, len) ==
  LET end  == Plus(v, len)
      stop == First({i \in DOMAIN as : as[i].begin >= end}, as)
  IN  IF \/ v < Low \/ v > High
         \/ \E i \in 1 .. stop - 1 : End(as[i]) > v
      THEN Refused
      ELSE [at |-> stop, begin |-> v]

\* Mutant: a gap of exactly the length is passed over.
ToAnyTight(as, len) ==
  LET addr(i) == IF i = 1 THEN Low ELSE End(as[i - 1])
      stop == First({i \in DOMAIN as : as[i].begin > Plus(addr(i), len)}, as)
  IN  IF stop > Len(as) /\ High < Plus(addr(stop), len)
      THEN Refused
      ELSE [at |-> stop, begin |-> addr(stop)]

\* insert_vma_to_any: the first gap that is large enough.
ToAny(as, len) ==
  LET addr(i) == IF i = 1 THEN Low ELSE End(as[i - 1])
      stop == First({i \in DOMAIN as : as[i].begin >= Plus(addr(i), len)}, as)
  IN  IF stop > Len(as) /\ High < Plus(addr(stop), len)
      THEN Refused
      ELSE [at |-> stop, begin |-> addr(stop)]

Place(as, dst, len) == IF dst = 0 THEN ToAny(as, len) ELSE ToVaddr(as, dst, len)

Insert(as, pl, len, hw) ==
  InsertAt(as, pl.at, [begin |-> pl.begin, len |-> len, hw |-> hw, pages |-> {}])

-----------------------------------------------------------------------------
(* Pages                                                                   *)

\* address_space_assign_page for each page of vs; it is refused where there
\* is no area.  A previous entry is unassigned first.
Assign(as, vs) ==
  [i \in DOMAIN as |->
     [as[i] EXCEPT !.pages = (@ \ {v \in vs : Find(as, v) # 0})
                             \cup {v \in vs : Find(as, v) = i}]]

Assigned(as, vs) == {v \in vs : Find(as, v) # 0}

-----------------------------------------------------------------------------
(* Removing a range                                                        *)

\* Mutant: the pages stay with the lower half.
UpperPagesNone(a, top) == {}

\* The pages that move to the upper half of a split area.
UpperPages(a, top) == {v \in a.pages : v >= top}

\* Mutant: an area that ends where the range ends is trimmed, to nothing.
InsideStrictly(a, base, top) == a.begin >= base /\ End(a) < top

Inside(a, base, top) == a.begin >= base /\ End(a) <= top
Spans(a, base, top) == a.begin < base /\ End(a) > top

\* What remove_vma_range makes of an area it visits: itself, nothing, two
\* halves, or the area trimmed at one side.  The flags of an upper half are
\* whatever the memory held before: the code does not set them.
Pieces(a, base, top, junk) ==
  LET end == End(a)
      rest == {v \in a.pages : v < base \/ v >= top}
  IN  CASE end <= base \/ a.begin >= top -> <<a>>
        [] end > base /\ a.begin < top /\ Inside(a, base, top) -> <<>>
        [] end > base /\ a.begin < top /\ Spans(a, base, top) ->
             << [a EXCEPT !.len = Minus(base, a.begin),
                          !.pages = rest \ UpperPages(a, top)],
                [begin |-> top, len |-> Minus(end, top), hw |-> junk,
                 pages |-> UpperPages(a, top)] >>
        [] OTHER ->
             IF a.begin < base
             THEN << [a EXCEPT !.len = Minus(base, a.begin), !.pages = rest] >>
             ELSE << [a EXCEPT !.begin = top, !.len = Minus(end, top), !.pages = rest] >>

\* Mutant: the walk ends at the first area of the range.
EndsEarly(a, base, top) == End(a) > base

\* The walk ends at an area above the range, and after a split.
Ends(a, base, top) ==
  End(a) > base /\ (a.begin >= top \/ Spans(a, base, top))

Visited(as, base, top) ==
  {i \in DOMAIN as : \A j \in 1 .. i - 1 : ~Ends(as[j], base, top)}

RemoveRange(as, base, len, junk) ==
  LET top == Plus(base, len)
  IN  FlattenSeq([i \in DOMAIN as |->
        IF i \in Visited(as, base, top) THEN Pieces(as[i], base, top, junk) ELSE <<as[i]>>])

\* The pages remove_vma_range unassigns: they leave vaddr_map.
Dropped(as, base, len) ==
  LET top == Plus(base, len)
      hit(a) == End(a) > base /\ a.begin < top
  IN  UNION { {v \in as[i].pages : Inside(as[i], base, top) \/ (base <= v /\ v < top)} :
              i \in {j \in Visited(as, base, top) : hit(as[j])} }

-----------------------------------------------------------------------------
(* System calls                                                            *)

Runs == fault = "none"
Asks(dst, len) == Fits => len > 0 /\ dst + len <= High

\* syscall_return finds interrupt_disabled nonzero: insert_vma_to_any gives up
\* without enabling interrupts.
Panic(why) == fault' = why /\ UNCHANGED <<areas, vaddr_map, taken>>
RefuseOrPanic(dst) == IF dst = 0 THEN Panic("ret_panic") ELSE UNCHANGED vars

\* sendpage copies the entries one by one, so that a page it has just made can
\* be the source of a later one.
Sent(src, dst, len) ==
  LET has[i \in 0 .. len - 1] ==
        \/ src + i \in vaddr_map
        \/ dst > src /\ i >= dst - src /\ has[i - (dst - src)]
  IN  IF src = 0 THEN {} ELSE {dst + i : i \in {j \in 0 .. len - 1 : has[j]}}

\* sendpage(0, src, dst, len): map a range, with the contents of another if
\* src is not 0.
SendPage(src, dst, len) ==
  LET pl == Place(areas, dst, len)
      as == Insert(areas, pl, len, FALSE)
      vs == Sent(src, pl.begin, len)
  IN  /\ Runs
      /\ Asks(dst, len)
      /\ src # 0 => Validate(areas, src, 1)
      /\ \/ pl.at = 0 /\ RefuseOrPanic(dst)
         \/ /\ pl.at # 0
            /\ areas' = Assign(as, vs)
            /\ vaddr_map' = vaddr_map \cup Assigned(as, vs)
            /\ UNCHANGED <<taken, fault>>

\* map_to_user: a message of len pages, those of vs with contents.  map_from_user
\* skips the first page of an aligned buffer: a message of exactly one page has
\* len = 0 and leaves an empty area.
MapToUser(len, present) ==
  LET pl == Place(areas, 0, len)
      vs == {pl.begin + i : i \in present}
  IN  /\ Runs
      /\ Padded => len > 0
      /\ present \subseteq 0 .. len - 1
      /\ \/ pl.at = 0 /\ Panic("ret_panic")
         \/ /\ pl.at # 0
            /\ areas' = Assign(Insert(areas, pl, len, FALSE), vs)
            /\ vaddr_map' = vaddr_map \cup vs
            /\ UNCHANGED <<taken, fault>>

\* get_response of the BDA and tarfs services: the result of
\* insert_vma_to_any is used unchecked.
ServiceResponse(len) ==
  LET pl == Place(areas, 0, len)
      vs == pl.begin .. pl.begin + len - 1
  IN  /\ Runs
      /\ len > 0
      /\ \/ pl.at = 0 /\ Panic("kernel_fault")
         \/ /\ pl.at # 0
            /\ areas' = Assign(Insert(areas, pl, len, FALSE), vs)
            /\ vaddr_map' = vaddr_map \cup vs
            /\ UNCHANGED <<taken, fault>>

\* mem_port_request: one page of device memory, whatever length is asked for.
\* If insert_range refuses the device page the new area is unlinked again.
MapDevice(dst, d) ==
  LET pl == Place(areas, dst, 1)
  IN  /\ Runs
      /\ Asks(dst, 1)
      /\ \/ pl.at = 0 /\ RefuseOrPanic(dst)
         \/ pl.at # 0 /\ d \in taken /\ UNCHANGED vars
         \/ /\ pl.at # 0
            /\ d \notin taken
            /\ areas' = Assign(Insert(areas, pl, 1, TRUE), {pl.begin})
            /\ vaddr_map' = vaddr_map \cup {pl.begin}
            /\ taken' = taken \cup {d}
            /\ UNCHANGED fault

\* The first access to a page: a page entry for zero_page.
PageFault(v) ==
  /\ Runs
  /\ Find(areas, v) # 0
  /\ v \notin vaddr_map
  /\ areas' = Assign(areas, {v})
  /\ vaddr_map' = vaddr_map \cup {v}
  /\ UNCHANGED <<taken, fault>>

Munmap(base, len, junk) ==
  /\ Runs
  /\ areas' = RemoveRange(areas, base, len, junk)
  /\ vaddr_map' = vaddr_map \ Dropped(areas, base, len)
  /\ UNCHANGED <<taken, fault>>

\* Mutant: device memory is copied too.
CopyDeviceToo(a, as) ==
  LET pl == ToVaddr(as, a.begin, a.len)
  IN  IF pl.at = 0 THEN as ELSE Insert(as, pl, a.len, a.hw)

\* insert_vma_to_vaddr in the copy, its result ignored; not for device memory.
CopyArea(a, as) ==
  LET pl == ToVaddr(as, a.begin, a.len)
  IN  IF a.hw \/ pl.at = 0 THEN as ELSE Insert(as, pl, a.len, a.hw)

\* as_snapshot, the areas: one after the other.
Snapshot ==
  LET copy[i \in 0 .. Len(areas)] ==
        IF i = 0 THEN <<>> ELSE CopyArea(areas[i], copy[i - 1])
  IN  copy[Len(areas)]

\* asnew(AS_SNAPSHOT); from here on the model follows the copy.
Fork ==
  /\ Runs
  /\ areas' = Assign(Snapshot, vaddr_map)
  /\ vaddr_map' = Assigned(Snapshot, vaddr_map)
  /\ UNCHANGED <<taken, fault>>

\* destroy_as: exit, asdestroy, exec, an access outside all areas.  From here
\* on the model follows a new, empty address space.
Destroy ==
  LET as == RemoveRange(areas, Low, High - Low, FALSE)
  IN  /\ Runs
      /\ \/ as = <<>> /\ areas' = <<>> /\ vaddr_map' = {} /\ UNCHANGED <<taken, fault>>
         \/ as # <<>> /\ Panic("not_all_removed")

Init ==
  /\ areas = <<>>
  /\ vaddr_map = {}
  /\ taken = {}
  /\ fault = "none"

Next ==
  \/ \E dst \in Bases \cup {0}, src \in Bases \cup {0}, len \in Lens : SendPage(src, dst, len)
  \/ \E len \in Lens : \E present \in SUBSET (0 .. len - 1) : MapToUser(len, present)
  \/ \E len \in Lens : ServiceResponse(len)
  \/ \E dst \in Bases \cup {0}, d \in Device : MapDevice(dst, d)
  \/ \E v \in Bases : PageFault(v)
  \/ \E base \in Bases, len \in Lens, junk \in BOOLEAN : Munmap(base, len, junk)
  \/ Fork
  \/ Destroy

Spec == Init /\ [][Next]_vars

-----------------------------------------------------------------------------
(* Properties                                                              *)

\* No address or length leaves the machine word, however areas are trimmed and
\* split.
TypeOK ==
  /\ areas \in Seq(Area)
  /\ vaddr_map \subseteq 0 .. Word - 1
  /\ taken \subseteq Device
  /\ fault \in {"none", "ret_panic", "kernel_fault", "not_all_removed"}

\* The list is sorted and its areas do not overlap.
AreasDisjoint ==
  \A i, j \in DOMAIN areas : i < j => End(areas[i]) <= areas[j].begin

\* Each page with an entry hangs on the list of the area around it.
PagesListed ==
  /\ vaddr_map = UNION {areas[i].pages : i \in DOMAIN areas}
  /\ \A i \in DOMAIN areas : \A v \in areas[i].pages : Find(areas, v) = i

\* Whatever sequence of insertions, trimmings and splits made it, the list is
\* sorted and without overlap, which every search relies on, and removing an area
\* finds every page entry inside it (aspace.c:377, 398, 415).
AreasSound == TypeOK /\ AreasDisjoint /\ PagesListed

\* The pages of a list of areas, for the properties below.
Span(a) == a.begin .. End(a) - 1
Covered(as) == UNION {Span(as[i]) : i \in DOMAIN as}

\* validate_range accepts exactly the ranges that are covered by areas, over
\* any number of adjacent areas (aspace.c:442).
ValidateExact ==
  \A base \in Bases, len \in Lens \ {0} :
    Validate(areas, base, len) <=> base .. base + len - 1 \subseteq Covered(areas)

\* remove_vma_range unmaps the range it is given and nothing else: whatever
\* areas it trims, splits or removes on its way (aspace.c:358).
RemoveExact ==
  \A base \in Bases, len \in Lens :
    Covered(RemoveRange(areas, base, len, FALSE))
      = Covered(areas) \ (base .. base + len - 1)

\* insert_vma_to_any takes the lowest gap that is large enough, and gives up
\* only if there is none (aspace.c:326).
FirstFit ==
  \A len \in Lens \ {0} :
    LET gaps == {v \in Low .. High - len : (v .. v + len - 1) \cap Covered(areas) = {}}
        pl == ToAny(areas, len)
    IN  IF gaps = {} THEN pl = Refused ELSE pl.at # 0 /\ pl.begin = Min(gaps)

\* A copy-on-write snapshot has every area but those of devices, each with its
\* pages (syscall.c:30): as_snapshot ignores failures, so there must be none.
SnapshotExact ==
  Assign(Snapshot, vaddr_map)
    = FlattenSeq([i \in DOMAIN areas |-> IF areas[i].hw THEN <<>> ELSE <<areas[i]>>])

\* destroy_as leaves no area behind (the panic of aspace.c:436), whatever was
\* mapped, received, trimmed and split before.
DestroyedClean == fault # "not_all_removed"

\* In every state each search and update of the list does what it would do on the
\* set of pages the areas cover: validation, partial removal, first fit, snapshot
\* and destruction.
OperationsExact ==
  ValidateExact /\ RemoveExact /\ FirstFit /\ SnapshotExact /\ DestroyedClean

\* A system call returns to user mode with interrupts enabled (the check of
\* entry.s:105-108), also when it fails.
ReturnsEnabled == fault # "ret_panic"
=============================================================================
