--------------------------- MODULE PageManProofs ---------------------------
(***************************************************************************)
(* Copy on write, for any number of address spaces, virtual pages and      *)
(* physical pages: reference counts are exact, the page tables follow the  *)
(* entries, and, as long as no message covers a whole page, pages with     *)
(* snapshots are read-only, one panic only is reachable, and memory is     *)
(* private.                                                                *)
(***************************************************************************)
EXTENDS PageMan, ListLemmas

Entry == [p : Frame \cup {Null}, flag : PageFlag]
Pte == [p : Frame \cup {Null}, w : BOOLEAN]

Panics ==
  {"none", "has_snapshot", "not_holder", "one_user", "already_mapped", "kernel_fault"}

\* The bookkeeping, with counters that are natural numbers.
Rec ==
  [pe : [Key -> Entry], pte : [Key -> Pte], ref : [Frame -> Nat], snap : [Frame -> Nat],
   data : [Frame -> Value], panic : Panics]

Snaps(mm, p) == {k \in Owners(mm, p) : mm.pe[k].flag = "SNAPSHOT"}

\* How many references and how many snapshots of p are entries.
O(mm, p) == Cardinality(Owners(mm, p))
S(mm, p) == Cardinality(Snaps(mm, p))

One(b) == IF b THEN 1 ELSE 0

\* References are exact, x being those that are not entries.
Counted(mm, x) == \A p \in Frame : mm.ref[p] = O(mm, p) + x[p]

\* A present page table entry maps the page of the entry.
Follows(mm) == \A k \in Key : mm.pte[k].p \in {Null, mm.pe[k].p}

(***************************************************************************)
(* Snapshots are counted, but for the page of one that was the sole holder *)
(* when it was unshared: the entry is still a SNAPSHOT and the count is    *)
(* one too low (page_man.c:159-165).  Such a page has snapshots only.      *)
(***************************************************************************)
SnapsCounted(mm, x) ==
  \A p \in Frame : mm.ref[p] > 0 =>
    \/ mm.snap[p] = S(mm, p)
    \/ mm.snap[p] + 1 = S(mm, p) /\ S(mm, p) = O(mm, p) /\ x[p] = 0

\* What may be written through a page table entry, and what must be.
ReadOnly(mm) ==
  \A k \in Key : mm.pte[k].w => mm.pte[k].p # Null /\ mm.snap[mm.pte[k].p] = 0
Writable(mm, v) ==
  mm.panic = "none" =>
    \A k \in Key : mm.pte[k].p # Null /\ mm.snap[mm.pte[k].p] = 0 /\ v[k] = "rw"
                     => mm.pte[k].w

\* The owners of a page are of one address space; zero_page is never owned.
OneOwner(mm) ==
  \A j, k \in Key : mm.pe[j].p = mm.pe[k].p /\ mm.pe[j].p # Null
                      /\ mm.pe[j].flag = "SHARED" /\ mm.pe[k].flag = "SHARED"
                      => j[1] = k[1]
ZeroSound(mm) ==
  /\ mm.data[ZeroFrame] = Zero
  /\ \A k \in Key : mm.pe[k].p = ZeroFrame => mm.pe[k].flag = "SNAPSHOT"

\* The references of the message and of zero_page itself.
Extra == [p \in Frame |-> InMsg(p) + One(p = ZeroFrame)]

BaseInv ==
  /\ m \in Rec
  /\ vma \in [Key -> {"none", "ro", "rw"}]
  /\ creator \in [AS -> AS \cup {Null}] /\ live \in SUBSET AS
  /\ msg \in Entry \cup {Null}
  /\ Counted(m, Extra) /\ Follows(m)
  /\ \A k \in Key : vma[k] = "none" => m.pe[k].p = Null
  /\ \A k \in Key : k[1] \notin live => vma[k] = "none"

CowInv ==
  /\ SnapsCounted(m, Extra) /\ ReadOnly(m) /\ Writable(m, vma)
  /\ OneOwner(m) /\ ZeroSound(m)
  /\ m.panic \in {"none", "has_snapshot"}
  /\ msg # Null => msg.p \in Frame \ {ZeroFrame} /\ msg.flag = "SHARED" /\ O(m, msg.p) = 0
-----------------------------------------------------------------------------
(* The counters.  A counter of references never wraps. *)
LEMMA LessValue ==
  ASSUME NEW n \in Nat, NEW d \in Nat
  PROVE  /\ Less(n, d) \in Int
         /\ d <= Word => Less(n, d) \in Nat
         /\ d <= n /\ n < Word => Less(n, d) = n - d
  BY DEF Less, Word

LEMMA KeysFinite == IsFiniteSet(Key) /\ Cardinality(Key) \in Nat /\ Cardinality(Key) + 3 < Word
<1>1. IsFiniteSet(Key)
  BY FS_Product, PageManAssumption DEF Key
<1> QED BY <1>1, FS_CardinalityType, CounterAssumption DEF MaxRef

LEMMA OwnersCount ==
  ASSUME NEW mm, NEW p
  PROVE  /\ IsFiniteSet(Owners(mm, p)) /\ IsFiniteSet(Snaps(mm, p))
         /\ O(mm, p) \in 0 .. Cardinality(Key) /\ S(mm, p) \in 0 .. O(mm, p)
         /\ O(mm, p) = 0 <=> Owners(mm, p) = {}
         /\ S(mm, p) = 0 <=> Snaps(mm, p) = {}
         /\ S(mm, p) = O(mm, p) => Snaps(mm, p) = Owners(mm, p)
<1>1. Owners(mm, p) \in SUBSET Key /\ Snaps(mm, p) \in SUBSET Owners(mm, p)
  BY DEF Owners, Snaps
<1>2. IsFiniteSet(Owners(mm, p)) /\ Cardinality(Owners(mm, p)) <= Cardinality(Key)
  BY <1>1, KeysFinite, FS_Subset
<1>3. /\ IsFiniteSet(Snaps(mm, p)) /\ Cardinality(Snaps(mm, p)) <= Cardinality(Owners(mm, p))
      /\ Cardinality(Owners(mm, p)) = Cardinality(Snaps(mm, p)) => Owners(mm, p) = Snaps(mm, p)
  BY <1>1, <1>2, FS_Subset
<1>4. Cardinality(Owners(mm, p)) \in Nat /\ Cardinality(Snaps(mm, p)) \in Nat
  BY <1>2, <1>3, FS_CardinalityType
<1>5. /\ Cardinality(Owners(mm, p)) = 0 <=> Owners(mm, p) = {}
      /\ Cardinality(Snaps(mm, p)) = 0 <=> Snaps(mm, p) = {}
  BY <1>2, <1>3, FS_EmptySet
<1> QED BY <1>2, <1>3, <1>4, <1>5, KeysFinite DEF O, S

(* What a set of keys loses and gains when one key changes. *)
LEMMA KeyMoved ==
  ASSUME NEW A, NEW B, NEW k, IsFiniteSet(A), A \ {k} = B \ {k}
  PROVE  Cardinality(B) + One(k \in A) = Cardinality(A) + One(k \in B)
<1> DEFINE C == A \ {k}
<1>1. IsFiniteSet(C) /\ Cardinality(C) \in Nat /\ Cardinality(C) = Cardinality(A) - One(k \in A)
  BY FS_RemoveElement, FS_CardinalityType DEF One
<1>2. B = IF k \in B THEN C \cup {k} ELSE C
  OBVIOUS
<1>3. Cardinality(B) = Cardinality(C) + One(k \in B)
  <2>1. k \notin C
    OBVIOUS
  <2> HIDE DEF C
  <2> QED BY <1>1, <1>2, <2>1, FS_AddElement DEF One
<1> QED BY <1>1, <1>3, FS_CardinalityType DEF One

(* The counts when one entry changes. *)
LEMMA EntryCount ==
  ASSUME NEW mm \in Rec, NEW nn, NEW k \in Key, NEW e, nn.pe = [mm.pe EXCEPT ![k] = e],
         NEW q
  PROVE  /\ O(nn, q) + One(mm.pe[k].p = q) = O(mm, q) + One(e.p = q)
         /\ S(nn, q) + One(mm.pe[k].p = q /\ mm.pe[k].flag = "SNAPSHOT")
              = S(mm, q) + One(e.p = q /\ e.flag = "SNAPSHOT")
<1>0. mm.pe \in [Key -> Entry]
  BY DEF Rec
<1>1. Owners(mm, q) \ {k} = Owners(nn, q) \ {k} /\ Snaps(mm, q) \ {k} = Snaps(nn, q) \ {k}
  BY <1>0 DEF Owners, Snaps
<1>2. /\ k \in Owners(mm, q) <=> mm.pe[k].p = q
      /\ k \in Snaps(mm, q) <=> mm.pe[k].p = q /\ mm.pe[k].flag = "SNAPSHOT"
      /\ k \in Owners(nn, q) <=> e.p = q
      /\ k \in Snaps(nn, q) <=> e.p = q /\ e.flag = "SNAPSHOT"
  BY <1>0 DEF Owners, Snaps
<1>3. /\ O(nn, q) + One(k \in Owners(mm, q)) = O(mm, q) + One(k \in Owners(nn, q))
      /\ S(nn, q) + One(k \in Snaps(mm, q)) = S(mm, q) + One(k \in Snaps(nn, q))
  BY <1>1, KeyMoved, OwnersCount DEF O, S
<1> QED BY <1>2, <1>3 DEF One

(* The counts when no entry changes. *)
LEMMA SameCount ==
  ASSUME NEW mm, NEW nn, nn.pe = mm.pe, NEW q
  PROVE  Owners(nn, q) = Owners(mm, q) /\ O(nn, q) = O(mm, q) /\ S(nn, q) = S(mm, q)
  BY DEF Owners, Snaps, O, S
-----------------------------------------------------------------------------
(* What the operations do to each field.                                   *)

\* drop_snapshot: PTE_W may come back, for the owners of p, once nobody has a
\* snapshot of it.
Dropped(mm, nn, p) ==
  /\ nn \in Rec
  /\ nn.pe = mm.pe /\ nn.ref = mm.ref /\ nn.data = mm.data
  /\ nn.snap = [mm.snap EXCEPT ![p] = Less(@, 1)]
  /\ nn.panic # mm.panic => mm.panic = "none" /\ nn.panic = "has_snapshot"
  /\ \A o \in Key : /\ nn.pte[o].p = mm.pte[o].p
                    /\ nn.pte[o] # mm.pte[o]
                         => nn.snap[p] = 0 /\ mm.pe[o].p = p /\ mm.pte[o].p # Null
  /\ nn.panic = "none" /\ nn.snap[p] = 0
       => \A o \in Key : mm.pe[o].p = p /\ mm.pte[o].p # Null => nn.pte[o].w

LEMMA WritableSet ==
  ASSUME NEW mm \in Rec, NEW p \in Frame, NEW w \in BOOLEAN
  PROVE  /\ SetWritable(mm, p, w) \in Rec
         /\ \A f \in {"pe", "ref", "snap", "data", "panic"} : SetWritable(mm, p, w)[f] = mm[f]
         /\ \A o \in Key : SetWritable(mm, p, w).pte[o] =
              IF mm.pe[o].p = p /\ mm.pte[o].p # Null
              THEN [p |-> mm.pte[o].p, w |-> w] ELSE mm.pte[o]
  BY DEF SetWritable, Rec, Pte, Owners

LEMMA Panicked ==
  ASSUME NEW mm \in Rec, NEW why \in Panics
  PROVE  /\ Panic(mm, why) \in Rec
         /\ Panic(mm, why).pe = mm.pe /\ Panic(mm, why).pte = mm.pte
         /\ Panic(mm, why).ref = mm.ref /\ Panic(mm, why).snap = mm.snap
         /\ Panic(mm, why).data = mm.data
         /\ Panic(mm, why).panic = IF mm.panic = "none" THEN why ELSE mm.panic
<1>1. PICK pn : pn = IF mm.panic = "none" THEN why ELSE mm.panic
  OBVIOUS
<1>2. pn \in Panics
  BY <1>1 DEF Rec
<1>3. Panic(mm, why) = [mm EXCEPT !.panic = pn]
  BY <1>1 DEF Panic
<1> QED BY <1>1, <1>2, <1>3 DEF Rec

LEMMA SnapshotDropped ==
  ASSUME NEW mm \in Rec, NEW p \in Frame
  PROVE  Dropped(mm, DropSnapshot(mm, p), p)
<1> DEFINE m1 == [mm EXCEPT !.snap[p] = Less(@, 1)]
<1>1. mm.snap[p] \in Nat /\ Less(mm.snap[p], 1) \in Nat
  BY LessValue DEF Rec, Word
<1>2. /\ m1 \in Rec /\ m1.pe = mm.pe /\ m1.ref = mm.ref /\ m1.data = mm.data
      /\ m1.pte = mm.pte /\ m1.panic = mm.panic
      /\ m1.snap = [mm.snap EXCEPT ![p] = Less(@, 1)]
  BY <1>1 DEF Rec
<1>3. DropSnapshot(mm, p) = IF m1.snap[p] = 0 THEN RestoreWrite(m1, p) ELSE m1
  BY DEF DropSnapshot
<1> HIDE DEF m1
<1>4. CASE m1.snap[p] # 0
  BY <1>2, <1>3, <1>4 DEF Dropped
<1>5. CASE m1.snap[p] = 0 /\ \E k \in Owners(m1, p) : m1.pe[k].flag # "SHARED"
  <2>1. DropSnapshot(mm, p) = Panic(m1, "has_snapshot")
    BY <1>3, <1>5 DEF RestoreWrite
  <2> DEFINE nn == Panic(m1, "has_snapshot")
  <2>2. /\ nn \in Rec /\ nn.pe = m1.pe /\ nn.ref = m1.ref /\ nn.data = m1.data
        /\ nn.pte = m1.pte /\ nn.snap = m1.snap
        /\ nn.panic = IF m1.panic = "none" THEN "has_snapshot" ELSE m1.panic
    <3>1. "has_snapshot" \in Panics
      BY DEF Panics
    <3> QED BY <1>2, <3>1, Panicked
  <2> HIDE DEF nn
  <2> QED BY <1>2, <2>1, <2>2 DEF Dropped, nn
<1>6. CASE m1.snap[p] = 0 /\ ~\E k \in Owners(m1, p) : m1.pe[k].flag # "SHARED"
  <2>1. DropSnapshot(mm, p) = SetWritable(m1, p, TRUE)
    BY <1>3, <1>6 DEF RestoreWrite
  <2> DEFINE nn == SetWritable(m1, p, TRUE)
  <2>2. /\ nn \in Rec /\ nn.pe = m1.pe /\ nn.ref = m1.ref /\ nn.data = m1.data
        /\ nn.panic = m1.panic /\ nn.snap = m1.snap
    BY <1>2, WritableSet
  <2>3. \A o \in Key : nn.pte[o] = IF m1.pe[o].p = p /\ m1.pte[o].p # Null
                                   THEN [p |-> m1.pte[o].p, w |-> TRUE] ELSE m1.pte[o]
    BY <1>2, WritableSet
  <2>4. \A o \in Key : m1.pte[o] \in Pte
    BY <1>2 DEF Rec
  <2> HIDE DEF nn
  <2>5. \A o \in Key : /\ nn.pte[o].p = m1.pte[o].p
                       /\ nn.pte[o] # m1.pte[o] => m1.pe[o].p = p /\ m1.pte[o].p # Null
                       /\ m1.pe[o].p = p /\ m1.pte[o].p # Null => nn.pte[o].w
    <3> TAKE o \in Key
    <3>1. CASE m1.pe[o].p = p /\ m1.pte[o].p # Null
      <4>1. nn.pte[o] = [p |-> m1.pte[o].p, w |-> TRUE]
        BY <2>3, <3>1
      <4>2. nn.pte[o].p = m1.pte[o].p /\ nn.pte[o].w = TRUE
        BY <4>1
      <4> QED BY <3>1, <4>2
    <3>2. CASE ~(m1.pe[o].p = p /\ m1.pte[o].p # Null)
      BY <2>3, <3>2
    <3> QED BY <3>1, <3>2
  <2>6. Dropped(mm, nn, p)
    BY <1>2, <1>6, <2>2, <2>5 DEF Dropped
  <2> QED BY <2>1, <2>6 DEF nn
<1> QED BY <1>4, <1>5, <1>6

(* page_unref. *)
LEMMA PageUnreffed ==
  ASSUME NEW mm \in Rec, NEW p \in Frame
  PROVE  LET nn == PageUnref(mm, p)
         IN  /\ nn \in Rec
             /\ nn.pe = mm.pe /\ nn.pte = mm.pte /\ nn.snap = mm.snap /\ nn.panic = mm.panic
             /\ nn.ref = [mm.ref EXCEPT ![p] = Less(@, 1)]
             /\ nn.data = [mm.data EXCEPT ![p] = IF mm.ref[p] = 1 THEN Zero ELSE @]
<1>1. Less(mm.ref[p], 1) \in Nat
  BY LessValue DEF Rec, Word
<1>2. PICK r : r = [mm.ref EXCEPT ![p] = Less(@, 1)]
  OBVIOUS
<1>3. PICK d : d = [mm.data EXCEPT ![p] = IF mm.ref[p] = 1 THEN Zero ELSE @]
  OBVIOUS
<1>4. r \in [Frame -> Nat] /\ d \in [Frame -> Value]
  BY <1>1, <1>2, <1>3, PageManAssumption DEF Rec
<1>5. PageUnref(mm, p) = [mm EXCEPT !.ref = r, !.data = d]
  BY <1>2, <1>3 DEF PageUnref
<1> HIDE <1>2, <1>3
<1>6. LET nn == PageUnref(mm, p)
      IN  /\ nn \in Rec
          /\ nn.pe = mm.pe /\ nn.pte = mm.pte /\ nn.snap = mm.snap /\ nn.panic = mm.panic
          /\ nn.ref = r /\ nn.data = d
  BY <1>4, <1>5 DEF Rec
<1> QED BY <1>2, <1>3, <1>6

\* unassign_page of the entry at k, which refers to a page.
Detached(mm, nn, k) ==
  LET p == mm.pe[k].p
      snapshot == mm.pe[k].flag = "SNAPSHOT"
  IN  /\ nn \in Rec
      /\ nn.pe = [mm.pe EXCEPT ![k] = NoEntry]
      /\ nn.ref = [mm.ref EXCEPT ![p] = Less(@, 1)]
      /\ nn.data = [mm.data EXCEPT ![p] = IF mm.ref[p] = 1 THEN Zero ELSE @]
      /\ nn.snap = IF snapshot THEN [mm.snap EXCEPT ![p] = Less(@, 1)] ELSE mm.snap
      /\ nn.panic # mm.panic => mm.panic = "none" /\ nn.panic = "has_snapshot"
      /\ nn.pte[k] = NoPte
      /\ \A o \in Key \ {k} :
           /\ nn.pte[o].p = mm.pte[o].p
           /\ nn.pte[o] # mm.pte[o]
                => snapshot /\ nn.snap[p] = 0 /\ mm.pe[o].p = p /\ mm.pte[o].p # Null
      /\ snapshot /\ nn.panic = "none" /\ nn.snap[p] = 0
           => \A o \in Key \ {k} : mm.pe[o].p = p /\ mm.pte[o].p # Null => nn.pte[o].w

LEMMA PageUnassigned ==
  ASSUME NEW mm \in Rec, NEW k \in Key
  PROVE  /\ mm.pe[k].p = Null => UnassignPage(mm, k) = mm
         /\ mm.pe[k].p # Null => Detached(mm, UnassignPage(mm, k), k)
<1>1. mm.pe[k].p = Null => UnassignPage(mm, k) = mm
  BY DEF UnassignPage
<1>2. ASSUME mm.pe[k].p # Null
      PROVE  Detached(mm, UnassignPage(mm, k), k)
  <2> DEFINE m1 == [mm EXCEPT !.pe[k] = NoEntry, !.pte[k] = NoPte]
             e == mm.pe[k]
             m2 == IF e.flag = "SNAPSHOT" THEN DropSnapshot(m1, e.p) ELSE m1
             nn == PageUnref(m2, e.p)
  <2>1. e.p \in Frame /\ NoEntry \in Entry /\ NoPte \in Pte
    BY <1>2 DEF Rec, Entry, Pte, NoEntry, NoPte, PageFlag
  <2>2. UnassignPage(mm, k) = nn
    BY <1>2 DEF UnassignPage, PageEntryUnref
  <2>3. /\ m1 \in Rec
        /\ m1.pe = [mm.pe EXCEPT ![k] = NoEntry] /\ m1.pte = [mm.pte EXCEPT ![k] = NoPte]
        /\ m1.ref = mm.ref /\ m1.snap = mm.snap /\ m1.data = mm.data /\ m1.panic = mm.panic
    BY <2>1 DEF Rec
  <2> HIDE DEF m1
  <2>4. mm.pe \in [Key -> Entry] /\ mm.pte \in [Key -> Pte]
    BY DEF Rec
  <2>5. /\ m1.pe[k].p = Null /\ m1.pte[k] = NoPte
        /\ \A o \in Key \ {k} : m1.pe[o] = mm.pe[o] /\ m1.pte[o] = mm.pte[o]
    BY <2>3, <2>4 DEF NoEntry
  <2>6. Null # e.p
    BY <1>2
  <2>7. CASE e.flag = "SNAPSHOT"
    <3>1. Dropped(m1, m2, e.p)
      BY <2>1, <2>3, <2>7, SnapshotDropped
    <3> HIDE DEF m2
    <3>2. m2 \in Rec /\ m2.ref = mm.ref /\ m2.data = mm.data
      BY <2>3, <3>1 DEF Dropped
    <3>3. /\ nn \in Rec
          /\ nn.pe = m2.pe /\ nn.pte = m2.pte /\ nn.snap = m2.snap /\ nn.panic = m2.panic
          /\ nn.ref = [mm.ref EXCEPT ![e.p] = Less(@, 1)]
          /\ nn.data = [mm.data EXCEPT ![e.p] = IF mm.ref[e.p] = 1 THEN Zero ELSE @]
      BY <2>1, <3>2, PageUnreffed, SMTT(30)
    <3> HIDE DEF nn
    <3>4. nn.pte[k] = NoPte
      BY <2>5, <2>6, <3>1, <3>3 DEF Dropped
    <3>5. Detached(mm, nn, k)
      BY <2>3, <2>5, <2>7, <3>1, <3>3, <3>4 DEF Dropped, Detached
    <3> QED BY <2>2, <3>5
  <2>8. CASE e.flag # "SNAPSHOT"
    <3>1. m2 = m1
      BY <2>8
    <3> HIDE DEF m2
    <3>2. m2 \in Rec /\ m2.ref = mm.ref /\ m2.data = mm.data
      BY <2>3, <3>1
    <3>3. /\ nn \in Rec
          /\ nn.pe = m2.pe /\ nn.pte = m2.pte /\ nn.snap = m2.snap /\ nn.panic = m2.panic
          /\ nn.ref = [mm.ref EXCEPT ![e.p] = Less(@, 1)]
          /\ nn.data = [mm.data EXCEPT ![e.p] = IF mm.ref[e.p] = 1 THEN Zero ELSE @]
      BY <2>1, <3>2, PageUnreffed, SMTT(30)
    <3> HIDE DEF nn
    <3>5. Detached(mm, nn, k)
      BY <2>3, <2>5, <2>8, <3>1, <3>3 DEF Detached
    <3> QED BY <2>2, <3>5
  <2> QED BY <2>7, <2>8
<1> QED BY <1>1, <1>2

\* assign_page at k, where there is no entry.
Attached(mm, nn, k, p, flag) ==
  /\ nn \in Rec
  /\ nn.pe = [mm.pe EXCEPT ![k] = [p |-> p, flag |-> flag]]
  /\ nn.ref = [mm.ref EXCEPT ![p] = @ + 1]
  /\ nn.data = mm.data /\ nn.panic = mm.panic
  /\ nn.snap = IF flag = "SNAPSHOT" THEN [mm.snap EXCEPT ![p] = @ + 1] ELSE mm.snap
  /\ \A o \in Key :
       /\ nn.pte[o].p = mm.pte[o].p
       /\ nn.pte[o].w => mm.pte[o].w
       /\ nn.pte[o] # mm.pte[o] => nn.pe[o].p = p /\ flag = "SNAPSHOT" /\ nn.snap[p] = 1
       /\ flag = "SNAPSHOT" /\ nn.snap[p] = 1 /\ nn.pe[o].p = p /\ nn.pte[o].p # Null
            => ~nn.pte[o].w

LEMMA PageAssigned ==
  ASSUME NEW mm \in Rec, NEW k \in Key, mm.pe[k].p = Null, NEW p \in Frame,
         NEW flag \in PageFlag
  PROVE  Attached(mm, AssignPage(mm, k, p, flag), k, p, flag)
<1> DEFINE m2 == [mm EXCEPT !.pe[k] = [p |-> p, flag |-> flag], !.ref[p] = @ + 1]
           m3 == [m2 EXCEPT !.snap[p] = @ + 1]
<1>1. UnassignPage(mm, k) = mm
  BY DEF UnassignPage
<1>2. AssignPage(mm, k, p, flag) =
        IF flag = "SHARED" THEN m2 ELSE IF m3.snap[p] = 1 THEN SharePage(m3, p) ELSE m3
  BY <1>1 DEF AssignPage
<1>3. /\ m2 \in Rec
      /\ m2.pe = [mm.pe EXCEPT ![k] = [p |-> p, flag |-> flag]] /\ m2.pte = mm.pte
      /\ m2.ref = [mm.ref EXCEPT ![p] = @ + 1]
      /\ m2.snap = mm.snap /\ m2.data = mm.data /\ m2.panic = mm.panic
  <2>1. PICK e : e = [mm.pe EXCEPT ![k] = [p |-> p, flag |-> flag]]
    OBVIOUS
  <2>2. PICK r : r = [mm.ref EXCEPT ![p] = @ + 1]
    OBVIOUS
  <2>3. e \in [Key -> Entry] /\ r \in [Frame -> Nat]
    BY <2>1, <2>2 DEF Rec, Entry
  <2>4. m2 = [mm EXCEPT !.pe = e, !.ref = r]
    BY <2>1, <2>2
  <2> HIDE DEF m2
  <2>5. /\ m2 \in Rec /\ m2.pe = e /\ m2.pte = mm.pte /\ m2.ref = r
        /\ m2.snap = mm.snap /\ m2.data = mm.data /\ m2.panic = mm.panic
    BY <2>3, <2>4 DEF Rec
  <2> QED BY <2>1, <2>2, <2>5
<1> HIDE DEF m2
<1>4. /\ m3 \in Rec
      /\ m3.pe = m2.pe /\ m3.pte = m2.pte /\ m3.ref = m2.ref
      /\ m3.snap = [mm.snap EXCEPT ![p] = @ + 1] /\ m3.data = m2.data /\ m3.panic = m2.panic
  BY <1>3 DEF Rec
<1> HIDE DEF m3
<1>5. CASE flag = "SHARED"
  BY <1>2, <1>3, <1>5 DEF Attached
<1>6. CASE flag = "SNAPSHOT" /\ m3.snap[p] # 1
  BY <1>2, <1>3, <1>4, <1>6 DEF Attached
<1>7. CASE flag = "SNAPSHOT" /\ m3.snap[p] = 1
  <2> DEFINE nn == SetWritable(m3, p, FALSE)
  <2>1. AssignPage(mm, k, p, flag) = nn
    BY <1>2, <1>7 DEF SharePage
  <2>2. /\ nn \in Rec
        /\ nn.pe = m3.pe /\ nn.ref = m3.ref /\ nn.snap = m3.snap
        /\ nn.data = m3.data /\ nn.panic = m3.panic
    BY <1>4, WritableSet
  <2>3. \A o \in Key : nn.pte[o] = IF m3.pe[o].p = p /\ m3.pte[o].p # Null
                                   THEN [p |-> m3.pte[o].p, w |-> FALSE] ELSE m3.pte[o]
    BY <1>4, WritableSet
  <2> HIDE DEF nn
  <2>4. ASSUME NEW o \in Key
        PROVE  /\ nn.pte[o].p = m3.pte[o].p
               /\ nn.pte[o].w => m3.pte[o].w
               /\ nn.pte[o] # m3.pte[o] => m3.pe[o].p = p
               /\ m3.pe[o].p = p /\ m3.pte[o].p # Null => ~nn.pte[o].w
    <3>1. CASE m3.pe[o].p = p /\ m3.pte[o].p # Null
      <4>1. nn.pte[o] = [p |-> m3.pte[o].p, w |-> FALSE]
        BY <2>3, <3>1
      <4>2. nn.pte[o].p = m3.pte[o].p /\ nn.pte[o].w = FALSE
        BY <4>1
      <4> QED BY <3>1, <4>2
    <3>2. CASE ~(m3.pe[o].p = p /\ m3.pte[o].p # Null)
      BY <2>3, <3>2
    <3> QED BY <3>1, <3>2
  <2>5. Attached(mm, nn, k, p, flag)
    BY <1>3, <1>4, <1>7, <2>2, <2>4 DEF Attached
  <2> QED BY <2>1, <2>5
<1> QED BY <1>5, <1>6, <1>7 DEF PageFlag

\* get_page and manage_page.
Fresh(mm, nn, p, v) ==
  /\ nn \in Rec
  /\ nn.pe = mm.pe /\ nn.pte = mm.pte /\ nn.panic = mm.panic
  /\ nn.ref = [mm.ref EXCEPT ![p] = 1] /\ nn.snap = [mm.snap EXCEPT ![p] = 0]
  /\ nn.data = [mm.data EXCEPT ![p] = v]

LEMMA PageNew ==
  ASSUME NEW mm \in Rec, NEW p \in Frame, NEW v \in Value
  PROVE  Fresh(mm, NewPage(mm, p, v), p, v)
  BY DEF NewPage, Rec, Fresh

\* The entries that unshare_page takes to the copy: that at k, and if it is
\* SHARED all the SHARED ones.
Movers(mm, k) ==
  IF mm.pe[k].flag = "SHARED"
  THEN {o \in Key : mm.pe[o].p = mm.pe[k].p /\ mm.pe[o].flag = "SHARED"} ELSE {k}

\* unshare_page that copies, to page p.
Copied(mm, nn, k, p) ==
  LET old == mm.pe[k].p
      snapshot == mm.pe[k].flag = "SNAPSHOT"
      n == Cardinality(Movers(mm, k) \ {k})
  IN  /\ nn \in Rec
      /\ nn.pe = [o \in Key |-> IF o \in Movers(mm, k) THEN [p |-> p, flag |-> "SHARED"]
                                ELSE mm.pe[o]]
      /\ nn.ref = [mm.ref EXCEPT ![p] = 1 + n, ![old] = Less(Less(@, n), 1)]
      /\ nn.data = [mm.data EXCEPT ![p] = mm.data[old],
                                   ![old] = IF Less(mm.ref[old], n) = 1 THEN Zero ELSE @]
      /\ nn.snap = IF snapshot THEN [mm.snap EXCEPT ![p] = 0, ![old] = Less(@, 1)]
                   ELSE [mm.snap EXCEPT ![p] = 0]
      /\ nn.panic # mm.panic => mm.panic = "none" /\ nn.panic = "has_snapshot"
      /\ \A o \in Key :
           /\ o \in Movers(mm, k) => nn.pte[o] = NoPte
           /\ o \notin Movers(mm, k) =>
                /\ nn.pte[o].p = mm.pte[o].p
                /\ nn.pte[o] # mm.pte[o] => snapshot /\ nn.snap[old] = 0 /\ mm.pe[o].p = old
                                              /\ mm.pte[o].p # Null
                /\ snapshot /\ nn.panic = "none" /\ nn.snap[old] = 0 /\ mm.pe[o].p = old
                     /\ mm.pte[o].p # Null => nn.pte[o].w

LEMMA PageCopied ==
  ASSUME NEW mm \in Rec, NEW k \in Key, NEW p \in Frame,
         mm.pe[k].p \in Frame, mm.pe[k].p # p
  PROVE  Copied(mm, UnshareCopy(mm, k, p), k, p)
<1> DEFINE old == mm.pe[k].p
           shared == mm.pe[k].flag = "SHARED"
           others == IF shared THEN {o \in Owners(mm, old) \ {k} : mm.pe[o].flag = "SHARED"}
                     ELSE {}
           n == Cardinality(others)
           m1 == NewPage(mm, p, mm.data[old])
           pe2 == [o \in Key |-> IF o \in others \cup {k} THEN [p |-> p, flag |-> "SHARED"]
                                 ELSE mm.pe[o]]
           pte2 == [o \in Key |-> IF o \in others THEN NoPte ELSE mm.pte[o]]
           m2 == [m1 EXCEPT !.pe = [o \in Key |->
                      IF o \in others \cup {k} THEN [p |-> p, flag |-> "SHARED"] ELSE @[o]],
                    !.pte = [o \in Key |-> IF o \in others THEN NoPte ELSE @[o]],
                    !.ref[old] = Less(@, Cardinality(others)),
                    !.ref[p] = @ + Cardinality(others)]
           m3 == IF shared THEN m2 ELSE DropSnapshot(m2, old)
           m4 == [m3 EXCEPT !.pte[k] = NoPte]
           nn == PageUnref(m4, old)
<1>1. UnshareCopy(mm, k, p) = nn
  BY DEF UnshareCopy
<1>2. others = Movers(mm, k) \ {k} /\ others \cup {k} = Movers(mm, k)
  BY DEF Movers, Owners
<1>3. n \in Nat /\ n <= Word
  <2>1. others \in SUBSET Key
    BY DEF Owners
  <2> HIDE DEF others
  <2> QED BY <2>1, KeysFinite, FS_Subset, FS_CardinalityType DEF Word
<1>t. /\ mm.pe \in [Key -> Entry] /\ mm.pte \in [Key -> Pte] /\ mm.ref \in [Frame -> Nat]
      /\ mm.snap \in [Frame -> Nat] /\ mm.data \in [Frame -> Value]
  BY DEF Rec
<1>4. /\ m1 \in Rec
      /\ m1.pe = mm.pe /\ m1.pte = mm.pte /\ m1.panic = mm.panic
      /\ m1.ref = [mm.ref EXCEPT ![p] = 1] /\ m1.snap = [mm.snap EXCEPT ![p] = 0]
      /\ m1.data = [mm.data EXCEPT ![p] = mm.data[old]]
  BY <1>t, PageNew DEF Fresh
<1> HIDE DEF others, n, m1
<1>5. pe2 \in [Key -> Entry] /\ pte2 \in [Key -> Pte]
  BY <1>t DEF Entry, Pte, PageFlag, NoPte
<1>6. PICK r2 : r2 = [mm.ref EXCEPT ![p] = 1 + n, ![old] = Less(@, n)]
  OBVIOUS
<1>7. r2 \in [Frame -> Nat] /\ Less(mm.ref[old], n) \in Nat
  <2>1. mm.ref[old] \in Nat
    BY <1>t
  <2>2. Less(mm.ref[old], n) \in Nat
    BY <1>3, <2>1, LessValue
  <2> QED BY <1>3, <1>t, <1>6, <2>2
<1>8. m2 = [m1 EXCEPT !.pe = pe2, !.pte = pte2, !.ref = r2]
  <2>1. r2 = [m1.ref EXCEPT ![old] = Less(@, n), ![p] = @ + n]
    BY <1>4, <1>6, <1>3, <1>t, <1>7
  <2>2. m2 = [m1 EXCEPT !.pe = pe2, !.pte = pte2,
                        !.ref = [m1.ref EXCEPT ![old] = Less(@, n), ![p] = @ + n]]
    BY <1>4 DEF n
  <2> QED BY <2>1, <2>2
<1> HIDE DEF m2, pe2, pte2
<1>9. /\ m2 \in Rec /\ m2.pe = pe2 /\ m2.pte = pte2 /\ m2.ref = r2
      /\ m2.snap = m1.snap /\ m2.data = m1.data /\ m2.panic = m1.panic
  BY <1>4, <1>5, <1>7, <1>8 DEF Rec
<1>10. \A o \in Key : /\ o \in Movers(mm, k) => pe2[o] = [p |-> p, flag |-> "SHARED"]
                      /\ o \notin Movers(mm, k) => pe2[o] = mm.pe[o] /\ pte2[o] = mm.pte[o]
                      /\ o \in Movers(mm, k) \ {k} => pte2[o] = NoPte
  BY <1>2 DEF pe2, pte2
<1>11. k \in Movers(mm, k)
  BY DEF Movers
<1> HIDE <1>6
<1>12. /\ m3 \in Rec /\ m3.pe = pe2 /\ m3.ref = r2 /\ m3.data = m1.data
       /\ m3.snap = IF shared THEN m1.snap ELSE [m1.snap EXCEPT ![old] = Less(@, 1)]
       /\ m3.panic # mm.panic => mm.panic = "none" /\ m3.panic = "has_snapshot"
       /\ \A o \in Key : /\ m3.pte[o].p = pte2[o].p
                         /\ m3.pte[o] # pte2[o] => ~shared /\ m3.snap[old] = 0 /\ pe2[o].p = old
                                                     /\ pte2[o].p # Null
                         /\ ~shared /\ m3.panic = "none" /\ m3.snap[old] = 0 /\ pe2[o].p = old
                              /\ pte2[o].p # Null => m3.pte[o].w
  <2>1. CASE shared
    BY <1>4, <1>9, <2>1
  <2>2. CASE ~shared
    <3>1. Dropped(m2, m3, old)
      BY <1>9, <2>2, SnapshotDropped
    <3> HIDE DEF m3
    <3> QED BY <1>4, <1>9, <2>2, <3>1 DEF Dropped
  <2> QED BY <2>1, <2>2
<1> HIDE DEF m3
<1>13. /\ m4 \in Rec /\ m4.pe = m3.pe /\ m4.ref = m3.ref /\ m4.data = m3.data
       /\ m4.snap = m3.snap /\ m4.panic = m3.panic /\ m4.pte = [m3.pte EXCEPT ![k] = NoPte]
  <2>1. NoPte \in Pte
    BY DEF NoPte, Pte
  <2> QED BY <1>12, <2>1 DEF Rec
<1>14. m4.pte[k] = NoPte /\ \A o \in Key \ {k} : m4.pte[o] = m3.pte[o]
  BY <1>12, <1>13 DEF Rec
<1> HIDE DEF m4
<1>15. /\ nn \in Rec
       /\ nn.pe = m4.pe /\ nn.pte = m4.pte /\ nn.snap = m4.snap /\ nn.panic = m4.panic
       /\ nn.ref = [m4.ref EXCEPT ![old] = Less(@, 1)]
       /\ nn.data = [m4.data EXCEPT ![old] = IF m4.ref[old] = 1 THEN Zero ELSE @]
  BY <1>13, PageUnreffed
<1> HIDE DEF nn
<1>16. nn.ref = [mm.ref EXCEPT ![p] = 1 + n, ![old] = Less(Less(@, n), 1)]
  <2>1. m4.ref = r2
    BY <1>12, <1>13
  <2>2. nn.ref = [r2 EXCEPT ![old] = Less(@, 1)]
    BY <1>15, <2>1
  <2>3. mm.ref \in [Frame -> Nat]
    BY <1>t
  <2> QED BY <1>3, <1>6, <1>7, <2>2, <2>3
<1>17. m4.ref[old] = Less(mm.ref[old], n)
  BY <1>t, <1>6, <1>12, <1>13
<1>18. nn.data = [mm.data EXCEPT ![p] = mm.data[old],
                                 ![old] = IF Less(mm.ref[old], n) = 1 THEN Zero ELSE @]
  BY <1>t, <1>4, <1>12, <1>13, <1>15, <1>17
<1>19. /\ mm.pe[k].flag = "SNAPSHOT" <=> ~shared
       /\ nn.snap = IF shared THEN [mm.snap EXCEPT ![p] = 0]
                    ELSE [mm.snap EXCEPT ![p] = 0, ![old] = Less(@, 1)]
  BY <1>t, <1>4, <1>12, <1>13, <1>15 DEF Entry, PageFlag
<1>20. nn.pe = [o \in Key |-> IF o \in Movers(mm, k) THEN [p |-> p, flag |-> "SHARED"]
                              ELSE mm.pe[o]]
  BY <1>2, <1>12, <1>13, <1>15 DEF pe2
<1>21. ASSUME NEW o \in Key, o \in Movers(mm, k)
       PROVE  nn.pte[o] = NoPte
  <2>1. CASE o = k
    BY <2>1, <1>14, <1>15
  <2>2. CASE o # k
    <3>1. m4.pte[o] = m3.pte[o] /\ pte2[o] = NoPte /\ pe2[o].p = p
      BY <1>10, <1>14, <1>21, <2>2
    <3> QED BY <3>1, <1>12, <1>15
  <2> QED BY <2>1, <2>2
<1>22. ASSUME NEW o \in Key, o \notin Movers(mm, k)
       PROVE  nn.pte[o] = m3.pte[o] /\ pte2[o] = mm.pte[o] /\ pe2[o] = mm.pe[o]
  BY <1>10, <1>11, <1>14, <1>15, <1>22
<1>23. n = Cardinality(Movers(mm, k) \ {k})
  BY <1>2 DEF n
<1> HIDE DEF shared, old
<1>24. Copied(mm, nn, k, p)
  <2>1. nn \in Rec /\ nn.snap = m3.snap /\ nn.panic = m3.panic
    BY <1>13, <1>15
  <2>2. nn.panic # mm.panic => mm.panic = "none" /\ nn.panic = "has_snapshot"
    BY <1>12, <2>1
  <2>3. ASSUME NEW o \in Key, o \notin Movers(mm, k)
        PROVE  /\ nn.pte[o].p = mm.pte[o].p
               /\ nn.pte[o] # mm.pte[o] => ~shared /\ nn.snap[old] = 0 /\ mm.pe[o].p = old
                                            /\ mm.pte[o].p # Null
               /\ ~shared /\ nn.panic = "none" /\ nn.snap[old] = 0 /\ mm.pe[o].p = old
                    /\ mm.pte[o].p # Null => nn.pte[o].w
    BY <1>12, <1>22, <2>1, <2>3
  <2> QED BY <1>16, <1>18, <1>19, <1>20, <1>21, <1>23, <2>1, <2>2, <2>3 DEF Copied, old
<1> QED BY <1>1, <1>24

\* address_space_map.
Mapped(mm, nn, k) ==
  LET p == mm.pe[k].p
      sole == mm.snap[p] = 1 /\ mm.ref[p] = 1
  IN  /\ nn \in Rec
      /\ \E f \in PageFlag : /\ nn.pe = [mm.pe EXCEPT ![k] = [p |-> p, flag |-> f]]
                             /\ f = IF sole THEN "SHARED" ELSE mm.pe[k].flag
      /\ nn.ref = mm.ref /\ nn.data = mm.data
      /\ nn.snap = IF sole THEN [mm.snap EXCEPT ![p] = 0] ELSE mm.snap
      /\ nn.pte[k].p \in {Null, p} /\ \A o \in Key \ {k} : nn.pte[o] = mm.pte[o]
      /\ mm.panic = "none" /\ mm.pte[k].p = Null /\ (sole => mm.pe[k].flag = "SNAPSHOT")
           => /\ nn.panic = "none"
              /\ nn.pte[k] = [p |-> p, w |-> vma[k] = "rw" /\ nn.snap[p] = 0]

LEMMA PageMapped ==
  ASSUME NEW mm \in Rec, NEW k \in Key, mm.pe[k].p \in Frame, mm.pte[k].p \in {Null, mm.pe[k].p}
  PROVE  /\ MapPage(mm, k) \in Rec
         /\ MapPage(mm, k).ref = mm.ref /\ MapPage(mm, k).data = mm.data
         /\ \A o \in Key : MapPage(mm, k).pe[o].p = mm.pe[o].p
         /\ MapPage(mm, k).pte[k].p \in {Null, mm.pe[k].p}
         /\ \A o \in Key \ {k} : MapPage(mm, k).pte[o] = mm.pte[o]
         /\ mm.pte[k].p = Null /\ (mm.snap[mm.pe[k].p] = 1 /\ mm.ref[mm.pe[k].p] = 1
                                      => mm.pe[k].flag = "SNAPSHOT")
              => Mapped(mm, MapPage(mm, k), k)
<1> DEFINE p == mm.pe[k].p
           sole == mm.snap[p] = 1 /\ mm.ref[p] = 1
           m1 == IF ~sole THEN mm
                 ELSE IF mm.pe[k].flag # "SNAPSHOT" THEN Panic(mm, "not_holder")
                 ELSE [mm EXCEPT !.snap[p] = 0, !.pe[k].flag = "SHARED"]
           nn == IF m1.pte[k].p # Null THEN Panic(m1, "already_mapped")
                 ELSE [m1 EXCEPT !.pte[k] = [p |-> p, w |-> vma[k] = "rw" /\ m1.snap[p] = 0]]
<1>1. MapPage(mm, k) = nn
  BY DEF MapPage
<1>t. /\ mm.pe \in [Key -> Entry] /\ mm.pte \in [Key -> Pte] /\ mm.snap \in [Frame -> Nat]
  BY DEF Rec
<1> DEFINE holder == sole => mm.pe[k].flag = "SNAPSHOT"
           e1 == [p |-> p, flag |-> IF sole THEN "SHARED" ELSE mm.pe[k].flag]
<1>2. mm.pe[k] = [p |-> p, flag |-> mm.pe[k].flag]
  BY <1>t DEF Entry
<1>3. /\ m1 \in Rec /\ m1.ref = mm.ref /\ m1.data = mm.data /\ m1.pte = mm.pte
      /\ \A o \in Key : m1.pe[o].p = mm.pe[o].p
      /\ holder => /\ m1.pe = [mm.pe EXCEPT ![k] = e1] /\ m1.panic = mm.panic
                   /\ m1.snap = IF sole THEN [mm.snap EXCEPT ![p] = 0] ELSE mm.snap
  <2>1. CASE ~sole
    <3>1. mm.pe = [mm.pe EXCEPT ![k] = e1]
      BY <1>2, <1>t, <2>1
    <3> QED BY <2>1, <3>1
  <2>2. CASE sole /\ mm.pe[k].flag # "SNAPSHOT"
    <3>1. "not_holder" \in Panics
      BY DEF Panics
    <3>2. m1 = Panic(mm, "not_holder")
      BY <2>2
    <3> HIDE DEF m1
    <3> QED BY <2>2, <3>1, <3>2, Panicked
  <2>3. CASE sole /\ mm.pe[k].flag = "SNAPSHOT"
    <3>1. PICK s : s = [mm.snap EXCEPT ![p] = 0]
      OBVIOUS
    <3>2. PICK e : e = [mm.pe EXCEPT ![k] = e1]
      OBVIOUS
    <3>3. s \in [Frame -> Nat] /\ e \in [Key -> Entry] /\ \A o \in Key : e[o].p = mm.pe[o].p
      BY <1>t, <3>1, <3>2 DEF Entry, PageFlag
    <3>4. [mm.pe[k] EXCEPT !.flag = "SHARED"] = e1
      BY <1>2, <2>3
    <3>5. m1 = [mm EXCEPT !.snap = s, !.pe = e]
      BY <2>3, <3>1, <3>2, <3>4
    <3> HIDE DEF m1
    <3>6. /\ m1 \in Rec /\ m1.ref = mm.ref /\ m1.data = mm.data /\ m1.pte = mm.pte
          /\ m1.pe = e /\ m1.snap = s /\ m1.panic = mm.panic
      BY <3>3, <3>5 DEF Rec
    <3> QED BY <2>3, <3>1, <3>2, <3>3, <3>6
  <2> QED BY <2>1, <2>2, <2>3
<1> HIDE DEF m1
<1>4. /\ nn \in Rec /\ nn.ref = m1.ref /\ nn.data = m1.data /\ nn.pe = m1.pe /\ nn.snap = m1.snap
      /\ nn.pte[k].p \in {Null, p} /\ \A o \in Key \ {k} : nn.pte[o] = m1.pte[o]
      /\ m1.pte[k].p = Null => /\ nn.panic = m1.panic
                               /\ nn.pte[k] = [p |-> p, w |-> vma[k] = "rw" /\ m1.snap[p] = 0]
  <2>1. CASE m1.pte[k].p # Null
    <3>1. "already_mapped" \in Panics
      BY DEF Panics
    <3>2. nn = Panic(m1, "already_mapped")
      BY <2>1
    <3> HIDE DEF nn
    <3> QED BY <1>3, <2>1, <3>1, <3>2, Panicked
  <2>2. CASE m1.pte[k].p = Null
    <3>1. PICK w \in BOOLEAN : w = (vma[k] = "rw" /\ m1.snap[p] = 0)
      OBVIOUS
    <3>2. nn = [m1 EXCEPT !.pte[k] = [p |-> p, w |-> w]]
      BY <2>2, <3>1
    <3> HIDE DEF nn
    <3>3. [p |-> p, w |-> w] \in Pte
      BY DEF Pte
    <3>4. /\ nn \in Rec /\ nn.ref = m1.ref /\ nn.data = m1.data /\ nn.pe = m1.pe
          /\ nn.snap = m1.snap /\ nn.panic = m1.panic
          /\ nn.pte = [m1.pte EXCEPT ![k] = [p |-> p, w |-> w]] /\ m1.pte \in [Key -> Pte]
      BY <1>3, <3>2, <3>3 DEF Rec
    <3>5. nn.pte[k] = [p |-> p, w |-> w] /\ \A o \in Key \ {k} : nn.pte[o] = m1.pte[o]
      BY <3>4
    <3> QED BY <3>1, <3>4, <3>5
  <2> QED BY <2>1, <2>2
<1> HIDE DEF nn
<1>5. ASSUME mm.pte[k].p = Null, holder
      PROVE  Mapped(mm, nn, k)
  <2> DEFINE f == IF sole THEN "SHARED" ELSE mm.pe[k].flag
  <2>1. f \in PageFlag /\ e1 = [p |-> p, flag |-> f]
    BY <1>t DEF Entry, PageFlag
  <2>2. \E g \in PageFlag : /\ nn.pe = [mm.pe EXCEPT ![k] = [p |-> p, flag |-> g]]
                            /\ g = IF sole THEN "SHARED" ELSE mm.pe[k].flag
    BY <1>3, <1>4, <1>5, <2>1
  <2> HIDE DEF e1, f
  <2> QED BY <1>3, <1>4, <1>5, <2>2 DEF Mapped
<1> QED BY <1>1, <1>3, <1>4, <1>5
-----------------------------------------------------------------------------
(* Reference counts and page tables, record by record.                     *)

Extras == [Frame -> 0 .. 3]

Base(mm, x) == mm \in Rec /\ Counted(mm, x) /\ Follows(mm)

(* The counts are small enough to be what they seem. *)
LEMMA RefBound ==
  ASSUME NEW x \in Extras, NEW mm, Base(mm, x), NEW p \in Frame
  PROVE  /\ O(mm, p) \in Nat /\ S(mm, p) \in Nat /\ S(mm, p) <= O(mm, p) /\ x[p] \in 0 .. 3
         /\ mm.ref[p] = O(mm, p) + x[p] /\ mm.ref[p] \in Nat /\ mm.ref[p] < Word
<1>1. /\ O(mm, p) \in 0 .. Cardinality(Key) /\ S(mm, p) \in 0 .. O(mm, p)
      /\ Cardinality(Key) \in Nat /\ Cardinality(Key) + 3 < Word
  BY OwnersCount, KeysFinite
<1>2. mm.ref[p] = O(mm, p) + x[p] /\ x[p] \in 0 .. 3
  BY DEF Base, Counted, Extras
<1> QED BY <1>1, <1>2 DEF Word

(* The owner of a page is counted, and so are two of them. *)
LEMMA OwnerCounted ==
  ASSUME NEW mm, NEW p, NEW k \in Key, mm.pe[k].p = p
  PROVE  /\ O(mm, p) >= 1
         /\ mm.pe[k].flag = "SNAPSHOT" => S(mm, p) >= 1
         /\ mm.pe[k].flag # "SNAPSHOT" => S(mm, p) < O(mm, p)
         /\ O(mm, p) = 1 => \A o \in Key : mm.pe[o].p = p => o = k
<1>1. k \in Owners(mm, p) /\ (k \in Snaps(mm, p) <=> mm.pe[k].flag = "SNAPSHOT")
  BY DEF Owners, Snaps
<1>2. O(mm, p) \in Nat /\ S(mm, p) \in Nat /\ S(mm, p) <= O(mm, p) /\ O(mm, p) # 0
  BY <1>1, OwnersCount, KeysFinite
<1>3. mm.pe[k].flag = "SNAPSHOT" => S(mm, p) # 0
  BY <1>1, OwnersCount
<1>4. mm.pe[k].flag # "SNAPSHOT" => S(mm, p) # O(mm, p)
  BY <1>1, OwnersCount
<1>5. O(mm, p) = 1 => \A o \in Owners(mm, p) : o = k
  BY <1>1, OwnersCount, FS_Singleton DEF O
<1> QED BY <1>2, <1>3, <1>4, <1>5 DEF Owners

LEMMA NoOwner ==
  ASSUME NEW mm, NEW p, O(mm, p) = 0
  PROVE  S(mm, p) = 0 /\ \A k \in Key : mm.pe[k].p # p
  BY OwnersCount, OwnerCounted

LEMMA UnassignBase ==
  ASSUME NEW x \in Extras, NEW mm, Base(mm, x), NEW k \in Key
  PROVE  Base(UnassignPage(mm, k), x)
<1>1. PICK nn : nn = UnassignPage(mm, k)
  OBVIOUS
<1>2. CASE mm.pe[k].p = Null
  BY <1>2, PageUnassigned DEF Base
<1>3. CASE mm.pe[k].p # Null
  <2>1. mm \in Rec /\ Detached(mm, nn, k)
    BY <1>1, <1>3, PageUnassigned DEF Base
  <2>2. mm.pe[k].p \in Frame
    BY <1>3, <2>1 DEF Rec, Entry
  <2>3. O(mm, mm.pe[k].p) >= 1
    BY OwnerCounted
  <2>4. nn \in Rec /\ nn.pe = [mm.pe EXCEPT ![k] = NoEntry]
        /\ nn.ref = [mm.ref EXCEPT ![mm.pe[k].p] = Less(@, 1)]
    BY <2>1 DEF Detached
  <2>5. ASSUME NEW q \in Frame
        PROVE  nn.ref[q] = O(nn, q) + x[q]
    <3>1. O(nn, q) + One(mm.pe[k].p = q) = O(mm, q) + One(NoEntry.p = q)
      BY <2>1, <2>4, EntryCount
    <3>2. One(NoEntry.p = q) = 0
      BY PageManAssumption DEF One, NoEntry
    <3>3. O(nn, q) \in Nat /\ O(mm, q) \in Nat
      BY OwnersCount, KeysFinite
    <3>4. mm.ref[q] = O(mm, q) + x[q] /\ mm.ref[q] \in Nat /\ mm.ref[q] < Word /\ x[q] \in 0 .. 3
      BY RefBound
    <3>5. CASE mm.pe[k].p = q
      <4>1. nn.ref[q] = Less(mm.ref[q], 1)
        BY <2>1, <2>2, <2>4, <3>5 DEF Rec
      <4>2. mm.ref[q] >= 1
        BY <2>3, <3>3, <3>4, <3>5
      <4>3. nn.ref[q] = mm.ref[q] - 1
        BY <3>4, <4>1, <4>2, LessValue
      <4> QED BY <3>1, <3>2, <3>3, <3>4, <3>5, <4>3 DEF One
    <3>6. CASE mm.pe[k].p # q
      <4>1. nn.ref[q] = mm.ref[q]
        BY <2>1, <2>2, <2>4, <3>6 DEF Rec
      <4> QED BY <3>1, <3>2, <3>3, <3>4, <3>6, <4>1 DEF One
    <3> QED BY <3>5, <3>6
  <2>6. Follows(nn)
    <3>1. mm.pe \in [Key -> Entry] /\ Follows(mm)
      BY <2>1 DEF Base, Rec
    <3> QED BY <2>1, <2>4, <3>1 DEF Detached, Follows, NoPte
  <2> QED BY <1>1, <2>4, <2>5, <2>6 DEF Base, Counted
<1> QED BY <1>2, <1>3

LEMMA AssignBase ==
  ASSUME NEW x \in Extras, NEW mm, Base(mm, x), NEW k \in Key, mm.pe[k].p = Null,
         NEW p \in Frame, NEW flag \in PageFlag
  PROVE  Base(AssignPage(mm, k, p, flag), x)
<1>1. PICK nn : nn = AssignPage(mm, k, p, flag)
  OBVIOUS
<1>2. mm \in Rec /\ Attached(mm, nn, k, p, flag)
  BY <1>1, PageAssigned DEF Base
<1>3. nn \in Rec /\ nn.pe = [mm.pe EXCEPT ![k] = [p |-> p, flag |-> flag]]
      /\ nn.ref = [mm.ref EXCEPT ![p] = @ + 1]
  BY <1>2 DEF Attached
<1>4. ASSUME NEW q \in Frame
      PROVE  nn.ref[q] = O(nn, q) + x[q]
  <2>1. O(nn, q) + One(Null = q) = O(mm, q) + One(p = q)
    <3>1. PICK e : e = [p |-> p, flag |-> flag]
      OBVIOUS
    <3>2. O(nn, q) + One(mm.pe[k].p = q) = O(mm, q) + One(e.p = q)
      BY <1>2, <1>3, <3>1, EntryCount
    <3>3. e.p = p
      BY <3>1
    <3> QED BY <3>2, <3>3
  <2>2. One(Null = q) = 0
    BY PageManAssumption DEF One
  <2>3. O(nn, q) \in Nat
    BY OwnersCount, KeysFinite
  <2>4. mm.ref[q] = O(mm, q) + x[q] /\ mm.ref[q] \in Nat /\ x[q] \in 0 .. 3 /\ O(mm, q) \in Nat
    BY RefBound
  <2>5. nn.ref[q] = mm.ref[q] + One(p = q)
    BY <1>2, <1>3, <2>4 DEF Rec, One
  <2> QED BY <2>1, <2>2, <2>3, <2>4, <2>5 DEF One
<1>5. Follows(nn)
  <2>1. mm.pe \in [Key -> Entry] /\ Follows(mm)
    BY <1>2 DEF Base, Rec
  <2> QED BY <1>2, <1>3, <2>1 DEF Attached, Follows
<1> QED BY <1>1, <1>3, <1>4, <1>5 DEF Base, Counted

(* A free frame is nobody's. *)
LEMMA FreeFrame ==
  ASSUME NEW x \in Extras, NEW mm, Base(mm, x), NEW p \in Frame, mm.ref[p] = 0
  PROVE  /\ O(mm, p) = 0 /\ S(mm, p) = 0 /\ x[p] = 0
         /\ \A k \in Key : mm.pe[k].p # p /\ mm.pte[k].p # p
<1>1. O(mm, p) = 0 /\ x[p] = 0
  BY RefBound
<1>2. \A k \in Key : mm.pte[k].p \in {Null, mm.pe[k].p}
  BY DEF Base, Follows
<1> QED BY <1>1, <1>2, NoOwner, PageManAssumption

LEMMA NewBase ==
  ASSUME NEW x \in Extras, NEW mm, Base(mm, x), NEW p \in Frame, mm.ref[p] = 0, NEW v \in Value
  PROVE  Base(NewPage(mm, p, v), [x EXCEPT ![p] = 1])
<1>1. PICK nn : nn = NewPage(mm, p, v)
  OBVIOUS
<1>2. /\ mm \in Rec /\ nn \in Rec /\ nn.pe = mm.pe /\ nn.pte = mm.pte
      /\ nn.ref = [mm.ref EXCEPT ![p] = 1]
  <2>1. mm \in Rec
    BY DEF Base
  <2>2. Fresh(mm, nn, p, v)
    BY <1>1, <2>1, PageNew
  <2> QED BY <2>1, <2>2 DEF Fresh
<1>3. ASSUME NEW q \in Frame
      PROVE  nn.ref[q] = O(nn, q) + [x EXCEPT ![p] = 1][q]
  <2>1. O(nn, q) = O(mm, q) /\ mm.ref[q] = O(mm, q) + x[q] /\ O(mm, q) \in Nat /\ x[q] \in 0 .. 3
    BY <1>2, SameCount, RefBound
  <2>2. q = p => O(mm, q) = 0
    BY FreeFrame
  <2> QED BY <1>2, <2>1, <2>2 DEF Rec, Extras
<1> QED BY <1>1, <1>2, <1>3 DEF Base, Counted, Follows

LEMMA UnrefBase ==
  ASSUME NEW x \in Extras, NEW mm, Base(mm, x), NEW p \in Frame, x[p] >= 1
  PROVE  Base(PageUnref(mm, p), [x EXCEPT ![p] = @ - 1])
<1>1. PICK nn : nn = PageUnref(mm, p)
  OBVIOUS
<1>2. /\ mm \in Rec /\ nn \in Rec /\ nn.pe = mm.pe /\ nn.pte = mm.pte
      /\ nn.ref = [mm.ref EXCEPT ![p] = Less(@, 1)]
  BY <1>1, PageUnreffed DEF Base
<1>3. ASSUME NEW q \in Frame
      PROVE  nn.ref[q] = O(nn, q) + [x EXCEPT ![p] = @ - 1][q]
  <2>1. /\ O(nn, q) = O(mm, q) /\ mm.ref[q] = O(mm, q) + x[q] /\ O(mm, q) \in Nat
        /\ x[q] \in 0 .. 3 /\ mm.ref[q] \in Nat /\ mm.ref[q] < Word
    BY <1>2, SameCount, RefBound
  <2>2. q = p => Less(mm.ref[q], 1) = mm.ref[q] - 1
    BY <2>1, LessValue
  <2> QED BY <1>2, <2>1, <2>2 DEF Rec, Extras
<1> QED BY <1>1, <1>2, <1>3 DEF Base, Counted, Follows

(* The counts of a copy. *)
LEMMA CopyCount ==
  ASSUME NEW x \in Extras, NEW mm, Base(mm, x), NEW k \in Key, NEW p \in Frame,
         mm.ref[p] = 0, mm.pe[k].p \in Frame, NEW nn, Copied(mm, nn, k, p)
  PROVE  LET old == mm.pe[k].p
             n == Cardinality(Movers(mm, k) \ {k})
         IN  /\ n \in Nat /\ old # p
             /\ O(mm, old) = O(nn, old) + n + 1 /\ O(nn, p) = n + 1
             /\ S(mm, old) = S(nn, old) + One(mm.pe[k].flag = "SNAPSHOT") /\ S(nn, p) = 0
             /\ \A q \in Frame \ {p, old} : O(nn, q) = O(mm, q) /\ S(nn, q) = S(mm, q)
             /\ mm.pe[k].flag = "SNAPSHOT" => n = 0
<1> DEFINE old == mm.pe[k].p
           mv == Movers(mm, k)
           n == Cardinality(mv \ {k})
<1>t. mm \in Rec /\ mm.pe \in [Key -> Entry]
  BY DEF Base, Rec
<1>1. k \in mv /\ mv \subseteq Owners(mm, old) /\ mv \subseteq Key
  BY DEF Movers, Owners
<1>2. nn.pe = [o \in Key |-> IF o \in mv THEN [p |-> p, flag |-> "SHARED"] ELSE mm.pe[o]]
  BY DEF Copied
<1>3. old # p /\ \A o \in Key : mm.pe[o].p # p
  BY FreeFrame
<1>4. /\ Owners(nn, old) = Owners(mm, old) \ mv /\ Owners(nn, p) = mv
      /\ Snaps(nn, old) = Snaps(mm, old) \ mv /\ Snaps(nn, p) = {}
      /\ \A q \in Frame \ {p, old} : Owners(nn, q) = Owners(mm, q) /\ Snaps(nn, q) = Snaps(mm, q)
  <2>1. ASSUME NEW o \in Key
        PROVE  /\ o \in mv => nn.pe[o].p = p /\ nn.pe[o].flag = "SHARED" /\ mm.pe[o].p = old
               /\ o \notin mv => nn.pe[o] = mm.pe[o] /\ mm.pe[o].p # p
    BY <1>1, <1>2, <1>3 DEF Owners
  <2> HIDE DEF mv, old
  <2> QED BY <2>1, <1>1, <1>3 DEF Owners, Snaps
<1>5. IsFiniteSet(mv) /\ Cardinality(mv) \in Nat /\ n \in Nat /\ Cardinality(mv) = n + 1
  <2>1. IsFiniteSet(mv)
    BY <1>1, OwnersCount, FS_Subset
  <2> HIDE DEF mv
  <2>2. IsFiniteSet(mv \ {k}) /\ Cardinality(mv \ {k}) = Cardinality(mv) - 1
    BY <1>1, <2>1, FS_RemoveElement
  <2>3. Cardinality(mv) \in Nat /\ Cardinality(mv \ {k}) \in Nat
    BY <2>1, <2>2, FS_CardinalityType
  <2> QED BY <2>1, <2>2, <2>3
<1>6. Cardinality(Owners(mm, old) \ mv) = Cardinality(Owners(mm, old)) - Cardinality(mv)
  <2>1. Owners(mm, old) \cap mv = mv
    BY <1>1
  <2> QED BY <2>1, OwnersCount, FS_Difference
<1>7. Cardinality(Snaps(mm, old) \ mv) = Cardinality(Snaps(mm, old)) - One(mm.pe[k].flag = "SNAPSHOT")
  <2>1. CASE mm.pe[k].flag = "SNAPSHOT"
    <3>1. mv = {k} /\ k \in Snaps(mm, old)
      BY <2>1 DEF Movers, Snaps, Owners
    <3> HIDE DEF mv, old
    <3>2. Cardinality(Snaps(mm, old) \ {k}) = Cardinality(Snaps(mm, old)) - 1
      BY <3>1, OwnersCount, FS_RemoveElement
    <3> QED BY <2>1, <3>1, <3>2 DEF One
  <2>2. CASE mm.pe[k].flag # "SNAPSHOT"
    <3>1. mm.pe[k].flag = "SHARED"
      BY <1>t, <2>2 DEF Entry, PageFlag
    <3>2. Snaps(mm, old) \ mv = Snaps(mm, old)
      BY <3>1 DEF Movers, Snaps
    <3>3. Cardinality(Snaps(mm, old)) \in Nat
      BY OwnersCount, FS_CardinalityType
    <3>4. One(mm.pe[k].flag = "SNAPSHOT") = 0
      BY <2>2 DEF One
    <3> HIDE DEF mv, old
    <3> QED BY <3>2, <3>3, <3>4
  <2> QED BY <2>1, <2>2
<1>8. mm.pe[k].flag = "SNAPSHOT" => n = 0
  <2>1. mm.pe[k].flag = "SNAPSHOT" => mv \ {k} = {}
    BY DEF Movers
  <2> QED BY <2>1, FS_EmptySet
<1>9. /\ Cardinality(Owners(mm, old)) \in Nat /\ Cardinality(Snaps(mm, old)) \in Nat
      /\ Cardinality({}) = 0
  BY OwnersCount, FS_CardinalityType, FS_EmptySet
<1>10. /\ O(nn, old) = O(mm, old) - (n + 1) /\ O(nn, p) = n + 1
       /\ S(nn, old) = S(mm, old) - One(mm.pe[k].flag = "SNAPSHOT") /\ S(nn, p) = 0
       /\ \A q \in Frame \ {p, old} : O(nn, q) = O(mm, q) /\ S(nn, q) = S(mm, q)
       /\ O(mm, old) \in Nat /\ S(mm, old) \in Nat
  BY <1>4, <1>5, <1>6, <1>7, <1>9 DEF O, S
<1> QED BY <1>3, <1>5, <1>8, <1>10 DEF One

LEMMA CopyBase ==
  ASSUME NEW x \in Extras, NEW mm, Base(mm, x), NEW k \in Key, NEW p \in Frame,
         mm.ref[p] = 0, mm.pe[k].p \in Frame
  PROVE  /\ Base(UnshareCopy(mm, k, p), x)
         /\ Copied(mm, UnshareCopy(mm, k, p), k, p)
<1>1. PICK nn : nn = UnshareCopy(mm, k, p)
  OBVIOUS
<1> DEFINE old == mm.pe[k].p
           n == Cardinality(Movers(mm, k) \ {k})
<1>2. mm \in Rec /\ old # p
  BY FreeFrame DEF Base
<1>3. Copied(mm, nn, k, p)
  BY <1>1, <1>2, PageCopied
<1>4. /\ n \in Nat /\ O(mm, old) = O(nn, old) + n + 1 /\ O(nn, p) = n + 1
      /\ \A q \in Frame \ {p, old} : O(nn, q) = O(mm, q)
  BY <1>3, CopyCount
<1>5. nn \in Rec /\ nn.ref = [mm.ref EXCEPT ![p] = 1 + n, ![old] = Less(Less(@, n), 1)]
  BY <1>3 DEF Copied
<1>6. ASSUME NEW q \in Frame
      PROVE  nn.ref[q] = O(nn, q) + x[q]
  <2>1. /\ mm.ref[q] = O(mm, q) + x[q] /\ O(mm, q) \in Nat /\ x[q] \in 0 .. 3
        /\ mm.ref[q] \in Nat /\ mm.ref[q] < Word /\ O(nn, q) \in Nat
    BY RefBound, OwnersCount, KeysFinite
  <2> HIDE DEF n
  <2>2. CASE q = p
    BY <1>2, <1>4, <1>5, <2>1, <2>2, FreeFrame DEF Rec
  <2>3. CASE q = old
    <3>1. nn.ref[q] = Less(Less(mm.ref[q], n), 1)
      BY <1>2, <1>5, <2>3 DEF Rec
    <3>2. Less(mm.ref[q], n) = mm.ref[q] - n
      <4>1. n <= mm.ref[q]
        BY <1>4, <2>1, <2>3
      <4> QED BY <1>4, <2>1, <4>1, LessValue
    <3>3. mm.ref[q] - n \in Nat /\ mm.ref[q] - n >= 1 /\ mm.ref[q] - n < Word
      BY <1>4, <2>1, <2>3 DEF Word
    <3>4. Less(mm.ref[q] - n, 1) = mm.ref[q] - n - 1
      BY <3>3, LessValue
    <3> QED BY <1>4, <2>1, <2>3, <3>1, <3>2, <3>4
  <2>4. CASE q # p /\ q # old
    BY <1>2, <1>4, <1>5, <2>1, <2>4 DEF Rec
  <2> QED BY <2>2, <2>3, <2>4
<1>7. Follows(nn)
  <2>1. mm.pe \in [Key -> Entry] /\ Follows(mm)
    BY <1>2 DEF Base, Rec
  <2> QED BY <1>3, <2>1 DEF Copied, Follows, NoPte
<1> QED BY <1>1, <1>3, <1>5, <1>6, <1>7 DEF Base, Counted

LEMMA UnshareBase ==
  ASSUME NEW x \in Extras, NEW mm, Base(mm, x), NEW k \in Key, NEW p \in Frame,
         mm.ref[p] = 0, mm.pe[k].p \in Frame
  PROVE  /\ Base(UnsharePage(mm, k, p), x)
         /\ UnsharePage(mm, k, p).pe[k].p \in Frame
<1>t. mm \in Rec
  BY DEF Base
<1> DEFINE old == mm.pe[k].p
<1>1. CASE mm.snap[old] = 1 /\ mm.ref[old] = 1
  <2>1. PICK nn : nn = [mm EXCEPT !.snap[old] = 0, !.pte[k] = NoPte]
    OBVIOUS
  <2>2. UnsharePage(mm, k, p) = nn
    BY <1>1, <2>1 DEF UnsharePage
  <2>3. NoPte \in Pte
    BY DEF NoPte, Pte
  <2>4. /\ nn \in Rec /\ nn.pe = mm.pe /\ nn.ref = mm.ref
        /\ nn.pte = [mm.pte EXCEPT ![k] = NoPte] /\ mm.pte \in [Key -> Pte]
    BY <1>t, <2>1, <2>3 DEF Rec
  <2>5. \A q \in Frame : O(nn, q) = O(mm, q)
    BY <2>4, SameCount
  <2> QED BY <2>2, <2>4, <2>5 DEF Base, Counted, Follows, NoPte
<1>2. CASE ~(mm.snap[old] = 1 /\ mm.ref[old] = 1) /\ mm.ref[old] = 1
  <2>1. UnsharePage(mm, k, p) = Panic(mm, "one_user")
    BY <1>2 DEF UnsharePage
  <2>2. PICK nn : nn = Panic(mm, "one_user")
    OBVIOUS
  <2>3. "one_user" \in Panics
    BY DEF Panics
  <2>4. nn \in Rec /\ nn.pe = mm.pe /\ nn.ref = mm.ref /\ nn.pte = mm.pte
    BY <1>t, <2>2, <2>3, Panicked
  <2>5. \A q \in Frame : O(nn, q) = O(mm, q)
    BY <2>4, SameCount
  <2> QED BY <2>1, <2>2, <2>4, <2>5 DEF Base, Counted, Follows
<1>3. CASE mm.ref[old] # 1
  <2>1. PICK nn : nn = UnshareCopy(mm, k, p)
    OBVIOUS
  <2>2. UnsharePage(mm, k, p) = nn
    BY <1>3, <2>1 DEF UnsharePage
  <2>3. Base(nn, x) /\ Copied(mm, nn, k, p)
    BY <2>1, CopyBase
  <2>4. k \in Movers(mm, k)
    BY DEF Movers
  <2>5. nn.pe[k].p = p
    BY <2>3, <2>4 DEF Copied
  <2> QED BY <2>2, <2>3, <2>5
<1> QED BY <1>1, <1>2, <1>3

LEMMA MapBase ==
  ASSUME NEW x \in Extras, NEW mm, Base(mm, x), NEW k \in Key, mm.pe[k].p \in Frame
  PROVE  Base(MapPage(mm, k), x)
<1>1. PICK nn : nn = MapPage(mm, k)
  OBVIOUS
<1>2. mm \in Rec /\ mm.pte[k].p \in {Null, mm.pe[k].p}
  BY DEF Base, Follows
<1>3. /\ nn \in Rec /\ nn.ref = mm.ref /\ \A o \in Key : nn.pe[o].p = mm.pe[o].p
      /\ nn.pte[k].p \in {Null, mm.pe[k].p} /\ \A o \in Key \ {k} : nn.pte[o] = mm.pte[o]
  BY <1>1, <1>2, PageMapped
<1>4. \A q : O(nn, q) = O(mm, q)
  BY <1>3 DEF O, Owners
<1> QED BY <1>1, <1>3, <1>4 DEF Base, Counted, Follows
-----------------------------------------------------------------------------
(* Copy on write, record by record.                                        *)

Cow(mm, x, v) ==
  /\ SnapsCounted(mm, x) /\ ReadOnly(mm) /\ Writable(mm, v)
  /\ OneOwner(mm) /\ ZeroSound(mm)
  /\ mm.panic \in {"none", "has_snapshot"}

(* What a snapshot, or none, says of the counters. *)
LEMMA SnapBound ==
  ASSUME NEW x \in Extras, NEW mm, Base(mm, x), SnapsCounted(mm, x),
         NEW k \in Key, NEW p \in Frame, mm.pe[k].p = p
  PROVE  /\ mm.snap[p] \in Nat /\ mm.snap[p] < Word /\ mm.ref[p] >= 1
         /\ mm.snap[p] \in {S(mm, p), S(mm, p) - 1}
         /\ mm.snap[p] # S(mm, p) => S(mm, p) = O(mm, p) /\ x[p] = 0
         /\ mm.pe[k].flag # "SNAPSHOT" => mm.snap[p] = S(mm, p)
<1>1. /\ O(mm, p) \in Nat /\ S(mm, p) \in Nat /\ S(mm, p) <= O(mm, p) /\ x[p] \in 0 .. 3
      /\ mm.ref[p] = O(mm, p) + x[p] /\ mm.ref[p] < Word
  BY RefBound
<1>2. /\ O(mm, p) >= 1
      /\ mm.pe[k].flag # "SNAPSHOT" => S(mm, p) < O(mm, p)
  BY OwnerCounted
<1>3. mm.snap[p] \in Nat
  BY DEF Base, Rec
<1>4. mm.ref[p] > 0
  BY <1>1, <1>2
<1>5. \/ mm.snap[p] = S(mm, p)
      \/ mm.snap[p] + 1 = S(mm, p) /\ S(mm, p) = O(mm, p) /\ x[p] = 0
  BY <1>4 DEF SnapsCounted
<1> QED BY <1>1, <1>2, <1>3, <1>5 DEF Word

LEMMA UnassignCow ==
  ASSUME NEW x \in Extras, x[ZeroFrame] >= 1, NEW v, NEW mm, Base(mm, x), Cow(mm, x, v),
         NEW k \in Key
  PROVE  Cow(UnassignPage(mm, k), x, v)
<1>1. PICK nn : nn = UnassignPage(mm, k)
  OBVIOUS
<1>2. CASE mm.pe[k].p = Null
  BY <1>2, PageUnassigned DEF Base
<1>3. CASE mm.pe[k].p # Null
  <2>1. PICK p : p = mm.pe[k].p
    OBVIOUS
  <2>2. mm \in Rec /\ Detached(mm, nn, k) /\ Base(nn, x)
    BY <1>1, <1>3, PageUnassigned, UnassignBase DEF Base
  <2>3. p \in Frame
    BY <1>3, <2>1, <2>2 DEF Rec, Entry
  <2>t. /\ mm.pe \in [Key -> Entry] /\ mm.pte \in [Key -> Pte] /\ mm.snap \in [Frame -> Nat]
        /\ mm.ref \in [Frame -> Nat] /\ mm.data \in [Frame -> Value]
    BY <2>2 DEF Rec
  <2>4. /\ nn.pe = [mm.pe EXCEPT ![k] = NoEntry]
        /\ nn.snap = IF mm.pe[k].flag = "SNAPSHOT" THEN [mm.snap EXCEPT ![p] = Less(@, 1)]
                     ELSE mm.snap
    BY <2>1, <2>2 DEF Detached
  <2>5. ASSUME NEW q \in Frame
        PROVE  /\ O(nn, q) + One(p = q) = O(mm, q)
               /\ S(nn, q) + One(p = q /\ mm.pe[k].flag = "SNAPSHOT") = S(mm, q)
    <3>1. /\ O(nn, q) + One(p = q) = O(mm, q) + One(NoEntry.p = q)
          /\ S(nn, q) + One(p = q /\ mm.pe[k].flag = "SNAPSHOT")
               = S(mm, q) + One(NoEntry.p = q /\ NoEntry.flag = "SNAPSHOT")
      BY <2>1, <2>2, <2>4, EntryCount
    <3>2. One(NoEntry.p = q) = 0 /\ One(NoEntry.p = q /\ NoEntry.flag = "SNAPSHOT") = 0
      BY PageManAssumption DEF One, NoEntry
    <3>3. O(mm, q) \in Nat /\ S(mm, q) \in Nat
      BY RefBound
    <3> QED BY <3>1, <3>2, <3>3
  <2>6. /\ mm.snap[p] \in Nat /\ mm.snap[p] < Word /\ mm.ref[p] >= 1
        /\ mm.snap[p] \in {S(mm, p), S(mm, p) - 1}
        /\ mm.snap[p] # S(mm, p) => S(mm, p) = O(mm, p) /\ x[p] = 0
        /\ mm.pe[k].flag # "SNAPSHOT" => mm.snap[p] = S(mm, p)
    BY <2>1, <2>3, SnapBound DEF Cow
  <2>7. mm.pe[k].flag = "SNAPSHOT" => S(mm, p) >= 1
    BY <2>1, OwnerCounted
  <2>8. SnapsCounted(nn, x)
    <3> SUFFICES ASSUME NEW q \in Frame, nn.ref[q] > 0
                 PROVE  \/ nn.snap[q] = S(nn, q)
                        \/ nn.snap[q] + 1 = S(nn, q) /\ S(nn, q) = O(nn, q) /\ x[q] = 0
      BY DEF SnapsCounted
    <3>1. /\ O(mm, q) \in Nat /\ S(mm, q) \in Nat /\ S(mm, q) <= O(mm, q) /\ x[q] \in 0 .. 3
          /\ O(nn, q) \in Nat /\ S(nn, q) \in Nat /\ nn.ref[q] = O(nn, q) + x[q]
          /\ mm.ref[q] = O(mm, q) + x[q]
      BY <2>2, RefBound
    <3>2. CASE q # p
      <4>1. O(nn, q) = O(mm, q) /\ S(nn, q) = S(mm, q) /\ nn.snap[q] = mm.snap[q]
        BY <2>t, <2>3, <2>4, <2>5, <3>1, <3>2 DEF One
      <4>2. mm.ref[q] > 0
        BY <3>1, <4>1
      <4> QED BY <4>1, <4>2 DEF Cow, SnapsCounted
    <3>3. CASE q = p /\ mm.pe[k].flag = "SNAPSHOT"
      <4>1. O(nn, q) + 1 = O(mm, q) /\ S(nn, q) + 1 = S(mm, q)
        BY <2>5, <3>3 DEF One
      <4>2. mm.snap[p] # 0
        BY <2>6, <2>7, <3>1, <3>3, <4>1
      <4>3. nn.snap[q] = mm.snap[p] - 1
        <5>1. nn.snap[q] = Less(mm.snap[p], 1)
          BY <2>t, <2>3, <2>4, <3>3
        <5> QED BY <2>6, <4>2, <5>1, LessValue
      <4> QED BY <2>6, <3>1, <3>3, <4>1, <4>3
    <3>4. CASE q = p /\ mm.pe[k].flag # "SNAPSHOT"
      BY <2>4, <2>5, <2>6, <3>1, <3>4 DEF One
    <3> QED BY <3>2, <3>3, <3>4
  <2>9. ASSUME NEW o \in Key \ {k}, mm.pte[o].p # Null
        PROVE  mm.pte[o].p = mm.pe[o].p /\ mm.pte[o].p \in Frame
    BY <2>t, <2>9 DEF Base, Follows, Pte
  <2>10. ReadOnly(nn)
    <3> SUFFICES ASSUME NEW o \in Key, nn.pte[o].w
                 PROVE  nn.pte[o].p # Null /\ nn.snap[nn.pte[o].p] = 0
      BY DEF ReadOnly
    <3>1. o # k
      BY <2>2 DEF Detached, NoPte
    <3>2. CASE nn.pte[o] # mm.pte[o]
      BY <2>1, <2>2, <2>9, <3>1, <3>2 DEF Detached
    <3>3. CASE nn.pte[o] = mm.pte[o]
      <4>1. mm.pte[o].p # Null /\ mm.snap[mm.pte[o].p] = 0
        BY <3>3 DEF Cow, ReadOnly
      <4>2. mm.pte[o].p = mm.pe[o].p /\ mm.pte[o].p \in Frame
        BY <2>9, <3>1, <4>1
      <4>3. CASE mm.pte[o].p = p /\ mm.pe[k].flag = "SNAPSHOT"
        <5>1. O(mm, p) = 1
          <6>1. S(mm, p) \in Nat
            BY <2>3, RefBound
          <6> QED BY <2>6, <2>7, <4>1, <4>3, <6>1
        <5>2. \A j \in Key : mm.pe[j].p = p => j = k
          BY <2>1, <5>1, OwnerCounted
        <5> QED BY <3>1, <4>2, <4>3, <5>2
      <4>4. CASE ~(mm.pte[o].p = p /\ mm.pe[k].flag = "SNAPSHOT")
        BY <2>t, <2>3, <2>4, <3>3, <4>1, <4>2, <4>4
      <4> QED BY <4>3, <4>4
    <3> QED BY <3>2, <3>3
  <2>11. Writable(nn, v)
    <3> SUFFICES ASSUME nn.panic = "none", NEW o \in Key, nn.pte[o].p # Null,
                        nn.snap[nn.pte[o].p] = 0, v[o] = "rw"
                 PROVE  nn.pte[o].w
      BY DEF Writable
    <3>1. o # k /\ mm.panic = "none"
      BY <2>2 DEF Detached, NoPte
    <3>2. nn.pte[o].p = mm.pte[o].p /\ mm.pte[o].p = mm.pe[o].p /\ mm.pte[o].p \in Frame
      BY <2>2, <2>9, <3>1 DEF Detached
    <3>3. CASE mm.pte[o].p = p /\ mm.pe[k].flag = "SNAPSHOT"
      BY <2>1, <2>2, <3>1, <3>2, <3>3 DEF Detached
    <3>4. CASE ~(mm.pte[o].p = p /\ mm.pe[k].flag = "SNAPSHOT")
      <4>1. mm.snap[mm.pte[o].p] = 0
        BY <2>t, <2>3, <2>4, <3>2, <3>4
      <4>2. mm.pte[o].w
        BY <3>1, <3>2, <4>1 DEF Cow, Writable
      <4>3. nn.pte[o] = mm.pte[o]
        BY <2>1, <2>2, <3>1, <3>2, <3>4 DEF Detached
      <4> QED BY <4>2, <4>3
    <3> QED BY <3>3, <3>4
  <2>12. OneOwner(nn)
    BY <2>4, <2>t DEF Cow, OneOwner, NoEntry
  <2>13. ZeroSound(nn)
    <3>1. p = ZeroFrame => mm.ref[p] # 1
      <4>1. O(mm, p) >= 1 /\ mm.ref[p] = O(mm, p) + x[p] /\ O(mm, p) \in Nat /\ x[p] \in 0 .. 3
        BY <2>1, <2>3, OwnerCounted, RefBound
      <4> QED BY <4>1
    <3>2. nn.data = [mm.data EXCEPT ![p] = IF mm.ref[p] = 1 THEN Zero ELSE @]
      BY <2>1, <2>2 DEF Detached
    <3>3. nn.data[ZeroFrame] = mm.data[ZeroFrame]
      BY <2>t, <2>3, <3>1, <3>2, PageManAssumption
    <3>4. \A o \in Key : nn.pe[o].p = ZeroFrame => nn.pe[o] = mm.pe[o]
      BY <2>4, <2>t, PageManAssumption DEF NoEntry
    <3> QED BY <3>3, <3>4 DEF Cow, ZeroSound
  <2>14. nn.panic \in {"none", "has_snapshot"}
    BY <2>2 DEF Detached, Cow
  <2> QED BY <1>1, <2>8, <2>10, <2>11, <2>12, <2>13, <2>14 DEF Cow
<1> QED BY <1>2, <1>3

(* A snapshot of a page in use. *)
LEMMA AssignCow ==
  ASSUME NEW x \in Extras, NEW v, NEW mm, Base(mm, x), Cow(mm, x, v),
         NEW k \in Key, mm.pe[k].p = Null, NEW p \in Frame, mm.ref[p] > 0
  PROVE  Cow(AssignPage(mm, k, p, "SNAPSHOT"), x, v)
<1>1. PICK nn : nn = AssignPage(mm, k, p, "SNAPSHOT")
  OBVIOUS
<1>2. mm \in Rec /\ "SNAPSHOT" \in PageFlag
  BY DEF Base, PageFlag
<1>3. Attached(mm, nn, k, p, "SNAPSHOT") /\ Base(nn, x)
  BY <1>1, <1>2, PageAssigned, AssignBase
<1>t. /\ mm.pe \in [Key -> Entry] /\ mm.pte \in [Key -> Pte] /\ mm.snap \in [Frame -> Nat]
      /\ mm.ref \in [Frame -> Nat] /\ mm.data \in [Frame -> Value]
  BY <1>2 DEF Rec
<1>4. PICK e : e = [p |-> p, flag |-> "SNAPSHOT"]
  OBVIOUS
<1>5. /\ nn.pe = [mm.pe EXCEPT ![k] = e] /\ nn.snap = [mm.snap EXCEPT ![p] = @ + 1]
      /\ nn.data = mm.data /\ nn.panic = mm.panic /\ e.p = p /\ e.flag = "SNAPSHOT"
  BY <1>3, <1>4 DEF Attached
<1>6. ASSUME NEW q \in Frame
      PROVE  O(nn, q) = O(mm, q) + One(p = q) /\ S(nn, q) = S(mm, q) + One(p = q)
  <2>1. /\ O(nn, q) + One(Null = q) = O(mm, q) + One(p = q)
        /\ S(nn, q) + One(Null = q /\ mm.pe[k].flag = "SNAPSHOT") = S(mm, q) + One(p = q)
    BY <1>2, <1>5, EntryCount
  <2>2. One(Null = q) = 0 /\ One(Null = q /\ mm.pe[k].flag = "SNAPSHOT") = 0
    BY PageManAssumption DEF One
  <2>3. O(nn, q) \in Nat /\ S(nn, q) \in Nat
    BY <1>3, RefBound
  <2> QED BY <2>1, <2>2, <2>3
<1>7. SnapsCounted(nn, x)
  <2> SUFFICES ASSUME NEW q \in Frame, nn.ref[q] > 0
               PROVE  \/ nn.snap[q] = S(nn, q)
                      \/ nn.snap[q] + 1 = S(nn, q) /\ S(nn, q) = O(nn, q) /\ x[q] = 0
    BY DEF SnapsCounted
  <2>1. /\ O(mm, q) \in Nat /\ S(mm, q) \in Nat /\ x[q] \in 0 .. 3
        /\ nn.ref[q] = O(nn, q) + x[q] /\ mm.ref[q] = O(mm, q) + x[q]
    BY <1>3, RefBound
  <2>2. mm.ref[q] > 0
    BY <1>6, <2>1 DEF One
  <2>3. \/ mm.snap[q] = S(mm, q)
        \/ mm.snap[q] + 1 = S(mm, q) /\ S(mm, q) = O(mm, q) /\ x[q] = 0
    BY <2>2 DEF Cow, SnapsCounted
  <2>4. mm.snap[q] \in Nat /\ nn.snap[q] = mm.snap[q] + One(p = q)
    BY <1>t, <1>5 DEF One
  <2>5. One(p = q) \in {0, 1}
    BY DEF One
  <2> QED BY <1>6, <2>1, <2>3, <2>4, <2>5
<1>8. ASSUME NEW o \in Key, mm.pte[o].p # Null
      PROVE  /\ mm.pte[o].p = mm.pe[o].p /\ mm.pte[o].p \in Frame /\ o # k
             /\ nn.pe[o] = mm.pe[o]
  BY <1>t, <1>5, <1>8 DEF Base, Follows, Pte
<1>9. ReadOnly(nn)
  <2> SUFFICES ASSUME NEW o \in Key, nn.pte[o].w
               PROVE  nn.pte[o].p # Null /\ nn.snap[nn.pte[o].p] = 0
    BY DEF ReadOnly
  <2>1. mm.pte[o].w /\ nn.pte[o].p = mm.pte[o].p
    BY <1>3 DEF Attached
  <2>2. mm.pte[o].p # Null /\ mm.snap[mm.pte[o].p] = 0
    BY <2>1 DEF Cow, ReadOnly
  <2>3. mm.pte[o].p \in Frame /\ nn.pe[o].p = mm.pte[o].p
    BY <1>8, <2>2
  <2>4. mm.pte[o].p # p
    <3>1. mm.pte[o].p = p => nn.snap[p] = 1
      BY <1>t, <1>5, <2>2
    <3> QED BY <1>3, <2>1, <2>2, <2>3, <3>1 DEF Attached
  <2> QED BY <1>t, <1>5, <2>1, <2>2, <2>3, <2>4
<1>10. Writable(nn, v)
  <2> SUFFICES ASSUME nn.panic = "none", NEW o \in Key, nn.pte[o].p # Null,
                      nn.snap[nn.pte[o].p] = 0, v[o] = "rw"
               PROVE  nn.pte[o].w
    BY DEF Writable
  <2>1. nn.pte[o].p = mm.pte[o].p
    BY <1>3 DEF Attached
  <2>2. mm.pte[o].p \in Frame /\ nn.pe[o].p = mm.pte[o].p
    BY <1>8, <2>1
  <2>3. mm.pte[o].p # p /\ mm.snap[mm.pte[o].p] = 0
    BY <1>t, <1>5, <2>1, <2>2
  <2>4. nn.pte[o] = mm.pte[o]
    BY <1>3, <2>2, <2>3 DEF Attached
  <2> QED BY <1>5, <2>1, <2>3, <2>4 DEF Cow, Writable
<1>11. OneOwner(nn)
  BY <1>t, <1>5 DEF Cow, OneOwner
<1>12. ZeroSound(nn)
  BY <1>t, <1>5 DEF Cow, ZeroSound
<1> QED BY <1>1, <1>5, <1>7, <1>9, <1>10, <1>11, <1>12 DEF Cow

(* A new page. *)
LEMMA NewCow ==
  ASSUME NEW x \in Extras, x[ZeroFrame] >= 1, NEW v, NEW mm, Base(mm, x), Cow(mm, x, v),
         NEW p \in Frame, mm.ref[p] = 0, NEW c \in Value
  PROVE  Cow(NewPage(mm, p, c), [x EXCEPT ![p] = 1], v)
<1>1. PICK nn : nn = NewPage(mm, p, c)
  OBVIOUS
<1>2. PICK y : y = [x EXCEPT ![p] = 1]
  OBVIOUS
<1>3. mm \in Rec
  BY DEF Base
<1>4. Fresh(mm, nn, p, c) /\ Base(nn, y) /\ y \in Extras
  <2>1. y \in Extras
    BY <1>2 DEF Extras
  <2> QED BY <1>1, <1>2, <1>3, <2>1, PageNew, NewBase
<1>t. /\ mm.pe \in [Key -> Entry] /\ mm.pte \in [Key -> Pte] /\ mm.snap \in [Frame -> Nat]
      /\ mm.ref \in [Frame -> Nat] /\ mm.data \in [Frame -> Value]
  BY <1>3 DEF Rec
<1>5. /\ O(mm, p) = 0 /\ S(mm, p) = 0 /\ x[p] = 0
      /\ \A k \in Key : mm.pe[k].p # p /\ mm.pte[k].p # p
  BY FreeFrame
<1>6. p # ZeroFrame
  BY <1>5, PageManAssumption
<1>7. /\ nn.pe = mm.pe /\ nn.pte = mm.pte /\ nn.panic = mm.panic
      /\ nn.ref = [mm.ref EXCEPT ![p] = 1] /\ nn.snap = [mm.snap EXCEPT ![p] = 0]
      /\ nn.data = [mm.data EXCEPT ![p] = c]
  BY <1>4 DEF Fresh
<1>8. SnapsCounted(nn, y)
  <2> SUFFICES ASSUME NEW q \in Frame, nn.ref[q] > 0
               PROVE  \/ nn.snap[q] = S(nn, q)
                      \/ nn.snap[q] + 1 = S(nn, q) /\ S(nn, q) = O(nn, q) /\ y[q] = 0
    BY DEF SnapsCounted
  <2>1. S(nn, q) = S(mm, q) /\ O(nn, q) = O(mm, q)
    BY <1>7, SameCount
  <2>2. CASE q = p
    BY <1>t, <1>5, <1>7, <2>1, <2>2
  <2>3. CASE q # p
    <3>1. nn.snap[q] = mm.snap[q] /\ nn.ref[q] = mm.ref[q] /\ y[q] = x[q]
      BY <1>t, <1>2, <1>7, <2>3 DEF Extras
    <3> QED BY <2>1, <3>1 DEF Cow, SnapsCounted
  <2> QED BY <2>2, <2>3
<1>9. \A k \in Key : nn.pte[k].p # Null => nn.snap[nn.pte[k].p] = mm.snap[nn.pte[k].p]
  BY <1>t, <1>5, <1>7 DEF Pte
<1>10. ReadOnly(nn)
  BY <1>7, <1>9 DEF Cow, ReadOnly
<1>11. Writable(nn, v)
  BY <1>7, <1>9 DEF Cow, Writable
<1>12. OneOwner(nn)
  BY <1>7 DEF Cow, OneOwner
<1>13. ZeroSound(nn)
  BY <1>t, <1>6, <1>7, PageManAssumption DEF Cow, ZeroSound
<1> QED BY <1>1, <1>2, <1>7, <1>8, <1>10, <1>11, <1>12, <1>13 DEF Cow

(* A reference that is no entry goes. *)
LEMMA UnrefCow ==
  ASSUME NEW x \in Extras, NEW v, NEW mm, Base(mm, x), Cow(mm, x, v),
         NEW p \in Frame \ {ZeroFrame}, x[p] >= 1
  PROVE  Cow(PageUnref(mm, p), [x EXCEPT ![p] = @ - 1], v)
<1>1. PICK nn : nn = PageUnref(mm, p)
  OBVIOUS
<1>2. PICK y : y = [x EXCEPT ![p] = @ - 1]
  OBVIOUS
<1>3. /\ mm \in Rec /\ nn \in Rec
      /\ nn.pe = mm.pe /\ nn.pte = mm.pte /\ nn.snap = mm.snap /\ nn.panic = mm.panic
      /\ nn.ref = [mm.ref EXCEPT ![p] = Less(@, 1)]
      /\ nn.data = [mm.data EXCEPT ![p] = IF mm.ref[p] = 1 THEN Zero ELSE @]
  BY <1>1, PageUnreffed DEF Base
<1>t. /\ mm.ref \in [Frame -> Nat] /\ mm.data \in [Frame -> Value] /\ x \in [Frame -> 0 .. 3]
  BY <1>3 DEF Rec, Extras
<1>4. SnapsCounted(nn, y)
  <2> SUFFICES ASSUME NEW q \in Frame, nn.ref[q] > 0
               PROVE  \/ nn.snap[q] = S(nn, q)
                      \/ nn.snap[q] + 1 = S(nn, q) /\ S(nn, q) = O(nn, q) /\ y[q] = 0
    BY DEF SnapsCounted
  <2>1. S(nn, q) = S(mm, q) /\ O(nn, q) = O(mm, q)
    BY <1>3, SameCount
  <2>2. mm.ref[q] = O(mm, q) + x[q] /\ O(mm, q) \in Nat /\ x[q] \in 0 .. 3
    BY RefBound
  <2>3. CASE q = p
    <3>1. mm.ref[q] > 0
      BY <2>2, <2>3
    <3> QED BY <1>3, <2>1, <2>2, <2>3, <3>1 DEF Cow, SnapsCounted
  <2>4. CASE q # p
    <3>1. nn.ref[q] = mm.ref[q] /\ y[q] = x[q]
      BY <1>t, <1>2, <1>3, <2>4
    <3> QED BY <1>3, <2>1, <3>1 DEF Cow, SnapsCounted
  <2> QED BY <2>3, <2>4
<1>5. ReadOnly(nn) /\ Writable(nn, v) /\ OneOwner(nn)
  BY <1>3 DEF Cow, ReadOnly, Writable, OneOwner
<1>6. ZeroSound(nn)
  BY <1>t, <1>3, PageManAssumption DEF Cow, ZeroSound
<1> QED BY <1>1, <1>2, <1>3, <1>4, <1>5, <1>6 DEF Cow

(* The first entry of a new page owns it. *)
LEMMA OwnCow ==
  ASSUME NEW x \in Extras, NEW v, NEW mm, Base(mm, x), Cow(mm, x, v),
         NEW k \in Key, mm.pe[k].p = Null, NEW p \in Frame \ {ZeroFrame}, O(mm, p) = 0, x[p] >= 1
  PROVE  Cow(AssignPage(mm, k, p, "SHARED"), x, v)
<1>1. PICK nn : nn = AssignPage(mm, k, p, "SHARED")
  OBVIOUS
<1>2. mm \in Rec /\ "SHARED" \in PageFlag
  BY DEF Base, PageFlag
<1>3. Attached(mm, nn, k, p, "SHARED") /\ Base(nn, x)
  BY <1>1, <1>2, PageAssigned, AssignBase
<1>t. mm.pe \in [Key -> Entry] /\ mm.pte \in [Key -> Pte]
  BY <1>2 DEF Rec
<1>4. PICK e : e = [p |-> p, flag |-> "SHARED"]
  OBVIOUS
<1>5. /\ nn.pe = [mm.pe EXCEPT ![k] = e] /\ nn.snap = mm.snap
      /\ nn.data = mm.data /\ nn.panic = mm.panic /\ e.p = p /\ e.flag = "SHARED"
      /\ \A o \in Key : nn.pte[o] = mm.pte[o]
  BY <1>3, <1>4 DEF Attached
<1>6. S(mm, p) = 0 /\ \A o \in Key : mm.pe[o].p # p
  BY NoOwner
<1>7. SnapsCounted(nn, x)
  <2> SUFFICES ASSUME NEW q \in Frame, nn.ref[q] > 0
               PROVE  \/ nn.snap[q] = S(nn, q)
                      \/ nn.snap[q] + 1 = S(nn, q) /\ S(nn, q) = O(nn, q) /\ x[q] = 0
    BY DEF SnapsCounted
  <2>1. /\ O(mm, q) \in Nat /\ S(mm, q) \in Nat /\ x[q] \in 0 .. 3 /\ O(nn, q) \in Nat
        /\ S(nn, q) \in Nat /\ nn.ref[q] = O(nn, q) + x[q] /\ mm.ref[q] = O(mm, q) + x[q]
    BY <1>3, RefBound
  <2>2. /\ O(nn, q) + One(Null = q) = O(mm, q) + One(p = q)
        /\ S(nn, q) + One(Null = q /\ mm.pe[k].flag = "SNAPSHOT")
             = S(mm, q) + One(p = q /\ e.flag = "SNAPSHOT")
    BY <1>2, <1>5, EntryCount
  <2>3. /\ One(Null = q) = 0 /\ One(Null = q /\ mm.pe[k].flag = "SNAPSHOT") = 0
        /\ One(p = q /\ e.flag = "SNAPSHOT") = 0
    BY <1>5, PageManAssumption DEF One
  <2>4. S(nn, q) = S(mm, q) /\ O(nn, q) = O(mm, q) + One(p = q)
    BY <2>1, <2>2, <2>3
  <2>5. mm.ref[q] > 0
    BY <2>1, <2>4 DEF One
  <2>6. \/ mm.snap[q] = S(mm, q)
        \/ mm.snap[q] + 1 = S(mm, q) /\ S(mm, q) = O(mm, q) /\ x[q] = 0
    BY <2>5 DEF Cow, SnapsCounted
  <2> QED BY <1>5, <2>1, <2>4, <2>6 DEF One
<1>8. ReadOnly(nn) /\ Writable(nn, v)
  BY <1>5 DEF Cow, ReadOnly, Writable
<1>9. OneOwner(nn)
  BY <1>t, <1>5, <1>6 DEF Cow, OneOwner
<1>10. ZeroSound(nn)
  BY <1>t, <1>5 DEF Cow, ZeroSound
<1> QED BY <1>1, <1>5, <1>7, <1>8, <1>9, <1>10 DEF Cow

(* unshare_page that copies. *)
LEMMA CopyCow ==
  ASSUME NEW x \in Extras, x[ZeroFrame] >= 1, NEW v, NEW mm, Base(mm, x), Cow(mm, x, v),
         NEW k \in Key, NEW p \in Frame, mm.ref[p] = 0, mm.pe[k].p \in Frame,
         mm.snap[mm.pe[k].p] # 0
  PROVE  Cow(UnshareCopy(mm, k, p), x, v)
<1>1. PICK nn : nn = UnshareCopy(mm, k, p)
  OBVIOUS
<1>2. PICK old \in Frame : old = mm.pe[k].p
  OBVIOUS
<1>3. PICK n : n = Cardinality(Movers(mm, k) \ {k})
  OBVIOUS
<1>4. mm \in Rec /\ Base(nn, x) /\ Copied(mm, nn, k, p)
  BY <1>1, CopyBase DEF Base
<1>5. /\ n \in Nat /\ old # p
      /\ O(mm, old) = O(nn, old) + n + 1 /\ O(nn, p) = n + 1
      /\ S(mm, old) = S(nn, old) + One(mm.pe[k].flag = "SNAPSHOT") /\ S(nn, p) = 0
      /\ \A q \in Frame \ {p, old} : O(nn, q) = O(mm, q) /\ S(nn, q) = S(mm, q)
      /\ mm.pe[k].flag = "SNAPSHOT" => n = 0
  BY <1>2, <1>3, <1>4, CopyCount
<1>t. /\ mm.pe \in [Key -> Entry] /\ mm.pte \in [Key -> Pte] /\ mm.snap \in [Frame -> Nat]
      /\ mm.ref \in [Frame -> Nat] /\ mm.data \in [Frame -> Value]
  BY <1>4 DEF Rec
<1>6. \A o \in Key : mm.pe[o].p # p /\ mm.pte[o].p # p
  BY FreeFrame
<1>7. /\ mm.snap[old] \in Nat /\ mm.snap[old] < Word
      /\ mm.snap[old] \in {S(mm, old), S(mm, old) - 1}
      /\ mm.snap[old] # S(mm, old) => S(mm, old) = O(mm, old) /\ x[old] = 0
      /\ mm.pe[k].flag # "SNAPSHOT" => mm.snap[old] = S(mm, old)
  BY <1>2, SnapBound DEF Cow
<1>8. /\ nn.pe = [o \in Key |-> IF o \in Movers(mm, k) THEN [p |-> p, flag |-> "SHARED"]
                                ELSE mm.pe[o]]
      /\ nn.ref = [mm.ref EXCEPT ![p] = 1 + n, ![old] = Less(Less(@, n), 1)]
      /\ nn.data = [mm.data EXCEPT ![p] = mm.data[old],
                                   ![old] = IF Less(mm.ref[old], n) = 1 THEN Zero ELSE @]
      /\ nn.snap = IF mm.pe[k].flag = "SNAPSHOT" THEN [mm.snap EXCEPT ![p] = 0, ![old] = Less(@, 1)]
                   ELSE [mm.snap EXCEPT ![p] = 0]
      /\ nn.panic # mm.panic => mm.panic = "none" /\ nn.panic = "has_snapshot"
  BY <1>2, <1>3, <1>4 DEF Copied
<1>9. /\ nn.snap[p] = 0
      /\ nn.snap[old] = mm.snap[old] - One(mm.pe[k].flag = "SNAPSHOT")
      /\ \A q \in Frame \ {p, old} : nn.snap[q] = mm.snap[q] /\ nn.ref[q] = mm.ref[q]
  <2>1. Less(mm.snap[old], 1) = mm.snap[old] - 1
    BY <1>2, <1>7, LessValue
  <2> QED BY <1>t, <1>5, <1>7, <1>8, <2>1 DEF One
<1>10. SnapsCounted(nn, x)
  <2> SUFFICES ASSUME NEW q \in Frame, nn.ref[q] > 0
               PROVE  \/ nn.snap[q] = S(nn, q)
                      \/ nn.snap[q] + 1 = S(nn, q) /\ S(nn, q) = O(nn, q) /\ x[q] = 0
    BY DEF SnapsCounted
  <2>1. /\ O(mm, q) \in Nat /\ S(mm, q) \in Nat /\ x[q] \in 0 .. 3 /\ O(nn, q) \in Nat
        /\ S(nn, q) \in Nat
    BY <1>4, RefBound
  <2>2. CASE q = p
    BY <1>5, <1>9, <2>2
  <2>3. CASE q = old /\ mm.pe[k].flag = "SNAPSHOT"
    BY <1>5, <1>7, <1>9, <2>1, <2>3 DEF One
  <2>4. CASE q = old /\ mm.pe[k].flag # "SNAPSHOT"
    BY <1>5, <1>7, <1>9, <2>1, <2>4 DEF One
  <2>5. CASE q \notin {p, old}
    BY <1>5, <1>9, <2>5 DEF Cow, SnapsCounted
  <2> QED BY <2>2, <2>3, <2>4, <2>5
<1>11. \A o \in Key :
           /\ o \in Movers(mm, k) => nn.pte[o] = NoPte
           /\ o \notin Movers(mm, k) =>
                /\ nn.pte[o].p = mm.pte[o].p
                /\ nn.pte[o] # mm.pte[o] => /\ mm.pe[k].flag = "SNAPSHOT" /\ nn.snap[old] = 0
                                            /\ mm.pe[o].p = old /\ mm.pte[o].p # Null
                /\ mm.pe[k].flag = "SNAPSHOT" /\ nn.panic = "none" /\ nn.snap[old] = 0
                     /\ mm.pe[o].p = old /\ mm.pte[o].p # Null => nn.pte[o].w
  BY <1>2, <1>4 DEF Copied
<1>12. ASSUME NEW o \in Key, mm.pte[o].p # Null
       PROVE  mm.pte[o].p = mm.pe[o].p /\ mm.pte[o].p \in Frame \ {p}
  BY <1>t, <1>6, <1>12 DEF Base, Follows, Pte
<1>13. ReadOnly(nn)
  <2> SUFFICES ASSUME NEW o \in Key, nn.pte[o].w
               PROVE  nn.pte[o].p # Null /\ nn.snap[nn.pte[o].p] = 0
    BY DEF ReadOnly
  <2>1. o \notin Movers(mm, k)
    BY <1>11 DEF NoPte
  <2>2. CASE nn.pte[o] # mm.pte[o]
    BY <1>11, <1>12, <2>1, <2>2
  <2>3. CASE nn.pte[o] = mm.pte[o]
    <3>1. mm.pte[o].p # Null /\ mm.snap[mm.pte[o].p] = 0
      BY <2>3 DEF Cow, ReadOnly
    <3>2. mm.pte[o].p \in Frame \ {p, old}
      BY <1>2, <1>12, <3>1
    <3> QED BY <1>9, <2>3, <3>1, <3>2
  <2> QED BY <2>2, <2>3
<1>14. Writable(nn, v)
  <2> SUFFICES ASSUME nn.panic = "none", NEW o \in Key, nn.pte[o].p # Null,
                      nn.snap[nn.pte[o].p] = 0, v[o] = "rw"
               PROVE  nn.pte[o].w
    BY DEF Writable
  <2>1. o \notin Movers(mm, k) /\ mm.panic = "none"
    BY <1>8, <1>11 DEF NoPte
  <2>2. /\ nn.pte[o].p = mm.pte[o].p
        /\ mm.pte[o].p = mm.pe[o].p /\ mm.pte[o].p \in Frame \ {p}
    BY <1>11, <1>12, <2>1
  <2>3. CASE mm.pte[o].p = old
    <3>1. mm.pe[k].flag = "SNAPSHOT"
      BY <1>2, <1>7, <1>9, <2>2, <2>3 DEF One
    <3> QED BY <1>11, <2>1, <2>2, <2>3, <3>1
  <2>4. CASE mm.pte[o].p # old
    <3>1. nn.pte[o] = mm.pte[o] /\ mm.snap[mm.pte[o].p] = 0
      BY <1>9, <1>11, <2>1, <2>2, <2>4
    <3> QED BY <2>1, <2>2, <3>1 DEF Cow, Writable
  <2> QED BY <2>3, <2>4
<1>15. OneOwner(nn)
  <2> SUFFICES ASSUME NEW i \in Key, NEW j \in Key, nn.pe[i].p = nn.pe[j].p, nn.pe[i].p # Null,
                      nn.pe[i].flag = "SHARED", nn.pe[j].flag = "SHARED"
               PROVE  i[1] = j[1]
    BY DEF OneOwner
  <2>1. \A o \in Key : /\ o \in Movers(mm, k) => nn.pe[o].p = p
                       /\ o \notin Movers(mm, k) => nn.pe[o] = mm.pe[o]
    BY <1>8
  <2>2. CASE i \in Movers(mm, k)
    <3>1. j \in Movers(mm, k)
      BY <1>6, <2>1, <2>2
    <3>2. CASE mm.pe[k].flag = "SHARED"
      <4>1. /\ mm.pe[i].p = mm.pe[k].p /\ mm.pe[i].flag = "SHARED"
            /\ mm.pe[j].p = mm.pe[k].p /\ mm.pe[j].flag = "SHARED" /\ mm.pe[k].p # Null
        BY <2>2, <3>1, <3>2, PageManAssumption DEF Movers
      <4> QED BY <4>1 DEF Cow, OneOwner
    <3>3. CASE mm.pe[k].flag # "SHARED"
      BY <2>2, <3>1, <3>3 DEF Movers
    <3> QED BY <3>2, <3>3
  <2>3. CASE i \notin Movers(mm, k)
    <3>1. j \notin Movers(mm, k)
      BY <1>6, <2>1, <2>3
    <3> QED BY <2>1, <2>3, <3>1 DEF Cow, OneOwner
  <2> QED BY <2>2, <2>3
<1>16. ZeroSound(nn)
  <2>1. p # ZeroFrame
    BY FreeFrame, PageManAssumption
  <2>2. old = ZeroFrame => Less(mm.ref[old], n) # 1
    <3>1. /\ mm.ref[old] = O(mm, old) + x[old] /\ O(mm, old) \in Nat /\ x[old] \in 0 .. 3
          /\ mm.ref[old] < Word /\ mm.ref[old] \in Nat /\ O(nn, old) \in Nat
      BY <1>2, <1>4, RefBound
    <3>2. n <= mm.ref[old]
      BY <1>5, <3>1
    <3>3. Less(mm.ref[old], n) = mm.ref[old] - n
      BY <1>5, <3>1, <3>2, LessValue
    <3> QED BY <1>5, <3>1, <3>3
  <2>3. nn.data[ZeroFrame] = mm.data[ZeroFrame]
    BY <1>t, <1>5, <1>8, <2>1, <2>2, PageManAssumption
  <2>4. \A o \in Key : nn.pe[o].p = ZeroFrame => nn.pe[o] = mm.pe[o]
    BY <1>8, <2>1
  <2> QED BY <2>3, <2>4 DEF Cow, ZeroSound
<1>17. nn.panic \in {"none", "has_snapshot"}
  BY <1>8 DEF Cow
<1> QED BY <1>1, <1>10, <1>13, <1>14, <1>15, <1>16, <1>17 DEF Cow

(* unshare_page of a page that has snapshots: it never finds one user and more *)
(* than one snapshot, and leaves nothing in the page table. *)
LEMMA UnshareCow ==
  ASSUME NEW x \in Extras, x[ZeroFrame] >= 1, NEW v, NEW mm, Base(mm, x), Cow(mm, x, v),
         NEW k \in Key, NEW p \in Frame, mm.ref[p] = 0, mm.pe[k].p \in Frame,
         mm.snap[mm.pe[k].p] # 0
  PROVE  /\ Cow(UnsharePage(mm, k, p), x, v)
         /\ UnsharePage(mm, k, p).pte[k].p = Null
<1>1. PICK old \in Frame : old = mm.pe[k].p
  OBVIOUS
<1>2. mm \in Rec
  BY DEF Base
<1>t. mm.pe \in [Key -> Entry] /\ mm.pte \in [Key -> Pte] /\ mm.snap \in [Frame -> Nat]
  BY <1>2 DEF Rec
<1>3. /\ mm.snap[old] \in {S(mm, old), S(mm, old) - 1}
      /\ mm.snap[old] # S(mm, old) => S(mm, old) = O(mm, old) /\ x[old] = 0
  BY <1>1, SnapBound DEF Cow
<1>4. /\ O(mm, old) \in Nat /\ S(mm, old) \in Nat /\ S(mm, old) <= O(mm, old)
      /\ x[old] \in 0 .. 3 /\ mm.ref[old] = O(mm, old) + x[old]
  BY RefBound
<1>5. O(mm, old) >= 1
  BY <1>1, OwnerCounted
<1>6. CASE mm.snap[old] = 1 /\ mm.ref[old] = 1
  <2>1. PICK nn : nn = [mm EXCEPT !.snap[old] = 0, !.pte[k] = NoPte]
    OBVIOUS
  <2>2. UnsharePage(mm, k, p) = nn
    BY <1>1, <1>6, <2>1 DEF UnsharePage
  <2>3. NoPte \in Pte
    BY DEF NoPte, Pte
  <2>4. /\ nn \in Rec /\ nn.pe = mm.pe /\ nn.ref = mm.ref /\ nn.data = mm.data
        /\ nn.snap = [mm.snap EXCEPT ![old] = 0] /\ nn.panic = mm.panic
        /\ nn.pte = [mm.pte EXCEPT ![k] = NoPte]
    BY <1>2, <2>1, <2>3 DEF Rec
  <2>5. S(mm, old) = 1 /\ O(mm, old) = 1 /\ x[old] = 0
    BY <1>3, <1>4, <1>5, <1>6
  <2>6. SnapsCounted(nn, x)
    <3> SUFFICES ASSUME NEW q \in Frame, nn.ref[q] > 0
                 PROVE  \/ nn.snap[q] = S(nn, q)
                        \/ nn.snap[q] + 1 = S(nn, q) /\ S(nn, q) = O(nn, q) /\ x[q] = 0
      BY DEF SnapsCounted
    <3>1. S(nn, q) = S(mm, q) /\ O(nn, q) = O(mm, q)
      BY <2>4, SameCount
    <3>2. CASE q = old
      BY <1>t, <2>4, <2>5, <3>1, <3>2
    <3>3. CASE q # old
      BY <1>t, <2>4, <3>1, <3>3 DEF Cow, SnapsCounted
    <3> QED BY <3>2, <3>3
  <2>7. nn.pte[k] = NoPte /\ \A o \in Key \ {k} : nn.pte[o] = mm.pte[o]
    BY <1>t, <2>4
  <2>8. \A o \in Key \ {k} : mm.pe[o].p # old
    BY <1>1, <2>5, OwnerCounted
  <2>9. \A o \in Key \ {k} : mm.pte[o].p # Null
          => mm.pte[o].p \in Frame \ {old} /\ nn.snap[mm.pte[o].p] = mm.snap[mm.pte[o].p]
    BY <1>t, <2>4, <2>8 DEF Base, Follows, Pte
  <2>10. ReadOnly(nn)
    <3> SUFFICES ASSUME NEW o \in Key, nn.pte[o].w
                 PROVE  nn.pte[o].p # Null /\ nn.snap[nn.pte[o].p] = 0
      BY DEF ReadOnly
    <3>1. o # k
      BY <2>7 DEF NoPte
    <3> QED BY <2>7, <2>9, <3>1 DEF Cow, ReadOnly
  <2>11. Writable(nn, v)
    <3> SUFFICES ASSUME nn.panic = "none", NEW o \in Key, nn.pte[o].p # Null,
                        nn.snap[nn.pte[o].p] = 0, v[o] = "rw"
                 PROVE  nn.pte[o].w
      BY DEF Writable
    <3>1. o # k
      BY <2>7 DEF NoPte
    <3> QED BY <2>4, <2>7, <2>9, <3>1 DEF Cow, Writable
  <2>12. OneOwner(nn) /\ ZeroSound(nn)
    BY <2>4 DEF Cow, OneOwner, ZeroSound
  <2>13. Cow(nn, x, v) /\ nn.pte[k].p = Null
    BY <2>4, <2>6, <2>7, <2>10, <2>11, <2>12 DEF Cow, NoPte
  <2> QED BY <2>2, <2>13
<1>7. CASE mm.ref[old] = 1 /\ mm.snap[old] # 1
  BY <1>1, <1>3, <1>4, <1>5, <1>7
<1>8. CASE mm.ref[old] # 1
  <2>1. PICK nn : nn = UnshareCopy(mm, k, p)
    OBVIOUS
  <2>2. UnsharePage(mm, k, p) = nn
    BY <1>1, <1>8, <2>1 DEF UnsharePage
  <2>3. Cow(nn, x, v) /\ Copied(mm, nn, k, p)
    BY <2>1, CopyBase, CopyCow
  <2>4. k \in Movers(mm, k)
    BY DEF Movers
  <2>5. nn.pte[k].p = Null
    BY <2>3, <2>4 DEF Copied, NoPte
  <2> QED BY <2>2, <2>3, <2>5
<1> QED BY <1>6, <1>7, <1>8

(* address_space_map of a page that is not mapped. *)
LEMMA MapCow ==
  ASSUME NEW x \in Extras, x[ZeroFrame] >= 1, NEW mm, Base(mm, x), Cow(mm, x, vma),
         NEW k \in Key, mm.pe[k].p \in Frame, mm.pte[k].p = Null, mm.panic = "none"
  PROVE  Cow(MapPage(mm, k), x, vma)
<1>1. PICK p \in Frame : p = mm.pe[k].p
  OBVIOUS
<1>2. PICK nn : nn = MapPage(mm, k)
  OBVIOUS
<1>3. mm \in Rec
  BY DEF Base
<1>t. mm.pe \in [Key -> Entry] /\ mm.pte \in [Key -> Pte] /\ mm.snap \in [Frame -> Nat]
  BY <1>3 DEF Rec
<1>4. /\ mm.snap[p] \in {S(mm, p), S(mm, p) - 1}
      /\ mm.snap[p] # S(mm, p) => S(mm, p) = O(mm, p) /\ x[p] = 0
      /\ mm.pe[k].flag # "SNAPSHOT" => mm.snap[p] = S(mm, p)
  BY <1>1, SnapBound DEF Cow
<1>5. /\ O(mm, p) \in Nat /\ S(mm, p) \in Nat /\ S(mm, p) <= O(mm, p)
      /\ x[p] \in 0 .. 3 /\ mm.ref[p] = O(mm, p) + x[p]
  BY RefBound
<1>6. O(mm, p) >= 1 /\ (mm.pe[k].flag # "SNAPSHOT" => S(mm, p) < O(mm, p))
  BY <1>1, OwnerCounted
<1> DEFINE sole == mm.snap[p] = 1 /\ mm.ref[p] = 1
<1>7. sole => /\ S(mm, p) = 1 /\ O(mm, p) = 1 /\ x[p] = 0 /\ mm.pe[k].flag = "SNAPSHOT"
  BY <1>4, <1>5, <1>6
<1>8. Mapped(mm, nn, k) /\ Base(nn, x)
  BY <1>1, <1>2, <1>3, <1>7, PageMapped, MapBase
<1>9. PICK f \in PageFlag : /\ nn.pe = [mm.pe EXCEPT ![k] = [p |-> p, flag |-> f]]
                            /\ f = IF sole THEN "SHARED" ELSE mm.pe[k].flag
  BY <1>1, <1>8 DEF Mapped
<1>10. /\ nn.ref = mm.ref /\ nn.data = mm.data /\ nn.panic = "none"
       /\ nn.snap = IF sole THEN [mm.snap EXCEPT ![p] = 0] ELSE mm.snap
       /\ \A o \in Key \ {k} : nn.pte[o] = mm.pte[o]
       /\ nn.pte[k] = [p |-> p, w |-> vma[k] = "rw" /\ nn.snap[p] = 0]
  BY <1>1, <1>7, <1>8 DEF Mapped
<1>11. PICK e : e = [p |-> p, flag |-> f]
  OBVIOUS
<1>12. ASSUME NEW q \in Frame
       PROVE  O(nn, q) = O(mm, q) /\ S(nn, q) = IF sole /\ q = p THEN 0 ELSE S(mm, q)
  <2>1. e.p = p /\ e.flag = f /\ nn.pe = [mm.pe EXCEPT ![k] = e]
    BY <1>9, <1>11
  <2>2. /\ O(nn, q) + One(p = q) = O(mm, q) + One(p = q)
        /\ S(nn, q) + One(p = q /\ mm.pe[k].flag = "SNAPSHOT")
             = S(mm, q) + One(p = q /\ f = "SNAPSHOT")
    BY <1>1, <1>3, <2>1, EntryCount
  <2>3. O(nn, q) \in Nat /\ S(nn, q) \in Nat /\ O(mm, q) \in Nat /\ S(mm, q) \in Nat
    BY <1>8, RefBound
  <2>4. CASE sole /\ q = p
    BY <1>7, <1>9, <2>2, <2>3, <2>4 DEF One
  <2>5. CASE ~(sole /\ q = p)
    BY <1>9, <2>2, <2>3, <2>5 DEF One
  <2> QED BY <2>4, <2>5
<1>13. SnapsCounted(nn, x)
  <2> SUFFICES ASSUME NEW q \in Frame, nn.ref[q] > 0
               PROVE  \/ nn.snap[q] = S(nn, q)
                      \/ nn.snap[q] + 1 = S(nn, q) /\ S(nn, q) = O(nn, q) /\ x[q] = 0
    BY DEF SnapsCounted
  <2>1. CASE sole /\ q = p
    BY <1>t, <1>10, <1>12, <2>1
  <2>2. CASE ~(sole /\ q = p)
    <3>1. nn.snap[q] = mm.snap[q]
      BY <1>t, <1>10, <2>2
    <3> QED BY <1>10, <1>12, <2>2, <3>1 DEF Cow, SnapsCounted
  <2> QED BY <2>1, <2>2
<1>14. ASSUME NEW o \in Key \ {k}, mm.pte[o].p # Null
       PROVE  mm.pte[o].p \in Frame /\ nn.snap[mm.pte[o].p] = mm.snap[mm.pte[o].p]
  <2>1. mm.pte[o].p \in Frame /\ mm.pe[o].p = mm.pte[o].p
    BY <1>t, <1>14 DEF Base, Follows, Pte
  <2>2. sole => mm.pe[o].p # p
    BY <1>1, <1>7, OwnerCounted
  <2> QED BY <1>t, <1>10, <2>1, <2>2
<1> HIDE DEF sole
<1>15. PICK w \in BOOLEAN : w = (vma[k] = "rw" /\ nn.snap[p] = 0)
  OBVIOUS
<1>16. nn.pte[k].p = p /\ nn.pte[k].w = w
  BY <1>10, <1>15
<1>17. ReadOnly(nn)
  <2> SUFFICES ASSUME NEW o \in Key, nn.pte[o].w
               PROVE  nn.pte[o].p # Null /\ nn.snap[nn.pte[o].p] = 0
    BY DEF ReadOnly
  <2>1. CASE o = k
    BY <1>15, <1>16, <2>1, PageManAssumption
  <2>2. CASE o # k
    BY <1>10, <1>14, <2>2 DEF Cow, ReadOnly
  <2> QED BY <2>1, <2>2
<1>18. Writable(nn, vma)
  <2> SUFFICES ASSUME NEW o \in Key, nn.pte[o].p # Null,
                      nn.snap[nn.pte[o].p] = 0, vma[o] = "rw"
               PROVE  nn.pte[o].w
    BY DEF Writable
  <2>1. CASE o = k
    BY <1>15, <1>16, <2>1
  <2>2. CASE o # k
    BY <1>10, <1>14, <2>2 DEF Cow, Writable
  <2> QED BY <2>1, <2>2
<1>19. /\ \A o \in Key : nn.pe[o].p = mm.pe[o].p
       /\ \A o \in Key \ {k} : nn.pe[o] = mm.pe[o]
       /\ ~sole => nn.pe[k].flag = mm.pe[k].flag
  BY <1>t, <1>1, <1>9
<1>20. sole => \A o \in Key \ {k} : mm.pe[o].p # p
  BY <1>1, <1>7, OwnerCounted DEF sole
<1>21. OneOwner(nn)
  <2> SUFFICES ASSUME NEW i \in Key, NEW j \in Key, nn.pe[i].p = nn.pe[j].p, nn.pe[i].p # Null,
                      nn.pe[i].flag = "SHARED", nn.pe[j].flag = "SHARED"
               PROVE  i[1] = j[1]
    BY DEF OneOwner
  <2>1. CASE i = j
    BY <2>1
  <2>2. CASE i # j
    <3>1. ~(sole /\ (i = k \/ j = k))
      BY <1>1, <1>19, <1>20, <2>2
    <3>2. nn.pe[i].flag = mm.pe[i].flag /\ nn.pe[j].flag = mm.pe[j].flag
      BY <1>19, <3>1
    <3> QED BY <1>19, <3>2 DEF Cow, OneOwner
  <2> QED BY <2>1, <2>2
<1>22. ZeroSound(nn)
  <2>1. sole => p # ZeroFrame
    BY <1>7 DEF sole
  <2> QED BY <1>1, <1>10, <1>19, <2>1 DEF Cow, ZeroSound
<1> QED BY <1>2, <1>10, <1>13, <1>17, <1>18, <1>21, <1>22 DEF Cow
-----------------------------------------------------------------------------
(* What processes and messages read, record by record.                     *)

Cont(mm, k) == IF mm.pe[k].p = Null THEN Zero ELSE mm.data[mm.pe[k].p]

(* Two owners are counted twice. *)
LEMMA TwoOwners ==
  ASSUME NEW mm, NEW p, NEW j \in Key, NEW k \in Key, j # k, mm.pe[j].p = p, mm.pe[k].p = p
  PROVE  O(mm, p) >= 2
<1>1. O(mm, p) \in Nat /\ O(mm, p) >= 1 /\ O(mm, p) # 1
  BY OwnerCounted, OwnersCount, KeysFinite
<1> QED BY <1>1

LEMMA UnassignData ==
  ASSUME NEW x \in Extras, NEW mm, Base(mm, x), NEW k \in Key
  PROVE  LET nn == UnassignPage(mm, k)
         IN  /\ nn.pe[k].p = Null /\ Cont(nn, k) = Zero
             /\ \A o \in Key \ {k} : nn.pe[o] = mm.pe[o] /\ Cont(nn, o) = Cont(mm, o)
             /\ \A q \in Frame : x[q] > 0 => nn.data[q] = mm.data[q]
<1>1. PICK nn : nn = UnassignPage(mm, k)
  OBVIOUS
<1>2. CASE mm.pe[k].p = Null
  BY <1>2, PageUnassigned DEF Base, Cont
<1>3. CASE mm.pe[k].p # Null
  <2>1. PICK p : p = mm.pe[k].p
    OBVIOUS
  <2>2. mm \in Rec /\ Detached(mm, nn, k)
    BY <1>1, <1>3, PageUnassigned DEF Base
  <2>t. mm.pe \in [Key -> Entry] /\ mm.data \in [Frame -> Value]
    BY <2>2 DEF Rec
  <2>3. p \in Frame
    BY <1>3, <2>1, <2>t DEF Entry
  <2>4. /\ nn.pe = [mm.pe EXCEPT ![k] = NoEntry]
        /\ nn.data = [mm.data EXCEPT ![p] = IF mm.ref[p] = 1 THEN Zero ELSE @]
    BY <2>1, <2>2 DEF Detached
  <2>5. mm.ref[p] = O(mm, p) + x[p] /\ O(mm, p) \in Nat /\ x[p] \in 0 .. 3 /\ O(mm, p) >= 1
    BY <2>1, <2>3, RefBound, OwnerCounted
  <2>6. nn.pe[k].p = Null /\ \A o \in Key \ {k} : nn.pe[o] = mm.pe[o]
    BY <2>t, <2>4 DEF NoEntry
  <2>7. \A q \in Frame : q # p \/ mm.ref[p] # 1 => nn.data[q] = mm.data[q]
    BY <2>t, <2>4
  <2>8. \A q \in Frame : x[q] > 0 => nn.data[q] = mm.data[q]
    BY <2>5, <2>7
  <2>9. ASSUME NEW o \in Key \ {k}
        PROVE  Cont(nn, o) = Cont(mm, o)
    <3>1. CASE mm.pe[o].p = p
      <4>1. O(mm, p) >= 2
        BY <2>1, <3>1, TwoOwners
      <4>2. mm.ref[p] # 1
        BY <2>5, <4>1
      <4> QED BY <2>3, <2>6, <2>7, <3>1, <4>2 DEF Cont
    <3>2. CASE mm.pe[o].p # p
      <4>1. mm.pe[o].p \in Frame \cup {Null}
        BY <2>t DEF Entry
      <4> QED BY <2>6, <2>7, <3>2, <4>1 DEF Cont
    <3> QED BY <3>1, <3>2
  <2> QED BY <1>1, <2>6, <2>8, <2>9 DEF Cont
<1> QED BY <1>2, <1>3

LEMMA AssignData ==
  ASSUME NEW mm \in Rec, NEW k \in Key, mm.pe[k].p = Null, NEW p \in Frame,
         NEW flag \in PageFlag
  PROVE  LET nn == AssignPage(mm, k, p, flag)
         IN  /\ nn.data = mm.data /\ nn.pe[k].p = p /\ Cont(nn, k) = mm.data[p]
             /\ \A o \in Key \ {k} : nn.pe[o] = mm.pe[o] /\ Cont(nn, o) = Cont(mm, o)
             /\ \A o \in Key : nn.pte[o].p = mm.pte[o].p
<1>1. PICK nn : nn = AssignPage(mm, k, p, flag)
  OBVIOUS
<1>2. Attached(mm, nn, k, p, flag)
  BY <1>1, PageAssigned
<1>3. mm.pe \in [Key -> Entry] /\ p # Null
  BY PageManAssumption DEF Rec
<1>4. nn.data = mm.data /\ nn.pe[k].p = p /\ \A o \in Key \ {k} : nn.pe[o] = mm.pe[o]
  BY <1>2, <1>3 DEF Attached
<1>5. \A o \in Key : nn.pte[o].p = mm.pte[o].p
  BY <1>2 DEF Attached
<1> QED BY <1>1, <1>3, <1>4, <1>5 DEF Cont

LEMMA NewData ==
  ASSUME NEW x \in Extras, NEW mm, Base(mm, x), NEW p \in Frame, mm.ref[p] = 0, NEW c \in Value
  PROVE  LET nn == NewPage(mm, p, c)
         IN  /\ nn.pe = mm.pe /\ nn.data[p] = c
             /\ \A o \in Key : Cont(nn, o) = Cont(mm, o)
             /\ \A q \in Frame \ {p} : nn.data[q] = mm.data[q]
<1>1. PICK nn : nn = NewPage(mm, p, c)
  OBVIOUS
<1>2. mm \in Rec
  BY DEF Base
<1>3. Fresh(mm, nn, p, c)
  BY <1>1, <1>2, PageNew
<1>4. mm.pe \in [Key -> Entry] /\ mm.data \in [Frame -> Value]
  BY <1>2 DEF Rec
<1>5. nn.pe = mm.pe /\ nn.data[p] = c /\ \A q \in Frame \ {p} : nn.data[q] = mm.data[q]
  BY <1>3, <1>4 DEF Fresh
<1>6. \A o \in Key : mm.pe[o].p \in (Frame \ {p}) \cup {Null}
  BY <1>4, FreeFrame DEF Entry
<1> QED BY <1>1, <1>5, <1>6 DEF Cont

LEMMA UnrefData ==
  ASSUME NEW x \in Extras, NEW mm, Base(mm, x), NEW p \in Frame, x[p] >= 1
  PROVE  LET nn == PageUnref(mm, p)
         IN  /\ nn.pe = mm.pe
             /\ \A o \in Key : Cont(nn, o) = Cont(mm, o)
             /\ \A q \in Frame \ {p} : nn.data[q] = mm.data[q]
<1>1. PICK nn : nn = PageUnref(mm, p)
  OBVIOUS
<1>2. /\ mm \in Rec /\ nn.pe = mm.pe
      /\ nn.data = [mm.data EXCEPT ![p] = IF mm.ref[p] = 1 THEN Zero ELSE @]
  BY <1>1, PageUnreffed DEF Base
<1>3. mm.pe \in [Key -> Entry] /\ mm.data \in [Frame -> Value]
  BY <1>2 DEF Rec
<1>4. \A q \in Frame : q # p \/ mm.ref[p] # 1 => nn.data[q] = mm.data[q]
  BY <1>2, <1>3
<1>5. ASSUME NEW o \in Key
      PROVE  Cont(nn, o) = Cont(mm, o)
  <2>1. mm.pe[o].p \in Frame \cup {Null}
    BY <1>3 DEF Entry
  <2>2. mm.pe[o].p = p => mm.ref[p] # 1
    <3>1. mm.ref[p] = O(mm, p) + x[p] /\ O(mm, p) \in Nat /\ x[p] \in 0 .. 3
      BY RefBound
    <3>2. mm.pe[o].p = p => O(mm, p) >= 1
      BY OwnerCounted
    <3> QED BY <3>1, <3>2
  <2> QED BY <1>2, <1>4, <2>1, <2>2 DEF Cont
<1> QED BY <1>1, <1>2, <1>4, <1>5

LEMMA UnshareData ==
  ASSUME NEW x \in Extras, NEW mm, Base(mm, x), NEW k \in Key, NEW p \in Frame,
         mm.ref[p] = 0, mm.pe[k].p \in Frame
  PROVE  LET nn == UnsharePage(mm, k, p)
         IN  /\ \A o \in Key : Cont(nn, o) = Cont(mm, o)
             /\ \A q \in Frame : x[q] > 0 => nn.data[q] = mm.data[q]
             /\ \A o \in Key : nn.pe[o].p = Null <=> mm.pe[o].p = Null
<1>t. mm \in Rec /\ mm.pe \in [Key -> Entry] /\ mm.data \in [Frame -> Value]
  BY DEF Base, Rec
<1>1. PICK old \in Frame : old = mm.pe[k].p
  OBVIOUS
<1>2. CASE mm.snap[old] = 1 /\ mm.ref[old] = 1
  <2>1. PICK nn : nn = [mm EXCEPT !.snap[old] = 0, !.pte[k] = NoPte]
    OBVIOUS
  <2>2. UnsharePage(mm, k, p) = nn
    BY <1>1, <1>2, <2>1 DEF UnsharePage
  <2>3. nn.pe = mm.pe /\ nn.data = mm.data
    BY <1>t, <2>1 DEF Rec
  <2> QED BY <2>2, <2>3 DEF Cont
<1>3. CASE mm.snap[old] # 1 /\ mm.ref[old] = 1
  <2>1. PICK nn : nn = Panic(mm, "one_user")
    OBVIOUS
  <2>2. UnsharePage(mm, k, p) = nn /\ "one_user" \in Panics
    BY <1>1, <1>3, <2>1 DEF UnsharePage, Panics
  <2>3. nn.pe = mm.pe /\ nn.data = mm.data
    BY <1>t, <2>1, <2>2, Panicked
  <2> QED BY <2>2, <2>3 DEF Cont
<1>4. CASE mm.ref[old] # 1
  <2>1. PICK nn : nn = UnshareCopy(mm, k, p)
    OBVIOUS
  <2>2. UnsharePage(mm, k, p) = nn /\ Copied(mm, nn, k, p) /\ Base(nn, x)
    BY <1>1, <1>4, <2>1, CopyBase DEF UnsharePage
  <2>3. PICK n : n = Cardinality(Movers(mm, k) \ {k})
    OBVIOUS
  <2>4. n \in Nat /\ old # p /\ O(mm, old) = O(nn, old) + n + 1
    BY <1>1, <2>2, <2>3, CopyCount
  <2>5. /\ nn.pe = [o \in Key |-> IF o \in Movers(mm, k) THEN [p |-> p, flag |-> "SHARED"]
                                  ELSE mm.pe[o]]
        /\ nn.data = [mm.data EXCEPT ![p] = mm.data[old],
                                     ![old] = IF Less(mm.ref[old], n) = 1 THEN Zero ELSE @]
    BY <1>1, <2>2, <2>3 DEF Copied
  <2>6. /\ mm.ref[old] = O(mm, old) + x[old] /\ O(mm, old) \in Nat /\ x[old] \in 0 .. 3
        /\ mm.ref[old] \in Nat /\ mm.ref[old] < Word /\ O(nn, old) \in Nat
    BY <2>2, RefBound
  <2>7. Less(mm.ref[old], n) = O(nn, old) + 1 + x[old]
    <3>1. n <= mm.ref[old]
      BY <2>4, <2>6
    <3>2. Less(mm.ref[old], n) = mm.ref[old] - n
      BY <2>4, <2>6, <3>1, LessValue
    <3> QED BY <2>4, <2>6, <3>2
  <2>8. /\ nn.data[p] = mm.data[old]
        /\ \A q \in Frame \ {p} : q # old \/ O(nn, old) > 0 \/ x[old] > 0
                                    => nn.data[q] = mm.data[q]
    BY <1>t, <2>4, <2>5, <2>6, <2>7
  <2>9. \A o \in Key : /\ o \in Movers(mm, k) => nn.pe[o].p = p /\ mm.pe[o].p = old
                       /\ o \notin Movers(mm, k) => nn.pe[o] = mm.pe[o]
                       /\ mm.pe[o].p # p /\ mm.pe[o].p \in Frame \cup {Null}
    BY <1>t, <1>1, <2>5, FreeFrame DEF Movers, Entry
  <2>10. p # Null /\ old # Null
    BY PageManAssumption
  <2>11. ASSUME NEW o \in Key
         PROVE  Cont(nn, o) = Cont(mm, o) /\ (nn.pe[o].p = Null <=> mm.pe[o].p = Null)
    <3>1. CASE o \in Movers(mm, k)
      BY <2>8, <2>9, <2>10, <3>1 DEF Cont
    <3>2. CASE o \notin Movers(mm, k) /\ mm.pe[o].p = old
      <4>1. O(nn, old) >= 1
        BY <2>9, <3>2, OwnerCounted
      <4> QED BY <2>4, <2>6, <2>8, <2>9, <2>10, <3>2, <4>1 DEF Cont
    <3>3. CASE o \notin Movers(mm, k) /\ mm.pe[o].p # old
      BY <2>8, <2>9, <3>3 DEF Cont
    <3> QED BY <3>1, <3>2, <3>3
  <2>12. ASSUME NEW q \in Frame, x[q] > 0
         PROVE  nn.data[q] = mm.data[q]
    <3>1. x[p] = 0
      BY FreeFrame
    <3> QED BY <2>8, <2>12, <3>1
  <2> QED BY <2>2, <2>11, <2>12
<1> QED BY <1>2, <1>3, <1>4

LEMMA MapData ==
  ASSUME NEW x \in Extras, NEW mm, Base(mm, x), NEW k \in Key, mm.pe[k].p \in Frame
  PROVE  LET nn == MapPage(mm, k)
         IN  /\ nn.data = mm.data
             /\ \A o \in Key : nn.pe[o].p = mm.pe[o].p /\ Cont(nn, o) = Cont(mm, o)
<1>1. mm \in Rec /\ mm.pte[k].p \in {Null, mm.pe[k].p}
  BY DEF Base, Follows
<1> QED BY <1>1, PageMapped DEF Cont
-----------------------------------------------------------------------------
(***************************************************************************)
(* The loops of destroy_as and of asnew over the virtual pages.  They are  *)
(* folds: the element taken next is Pick(s).                               *)
(***************************************************************************)
Pick(s) == CHOOSE va \in s : TRUE

(* What holds of {} and of s if of s without Pick(s), holds of every set. *)
LEMMA SetInduction ==
  ASSUME NEW T \in SUBSET (SUBSET VA), {} \in T,
         \A s \in SUBSET VA : s # {} /\ s \ {Pick(s)} \in T => s \in T
  PROVE  T = SUBSET VA
<1> DEFINE bad == {n \in Nat : \E s \in (SUBSET VA) \ T : Cardinality(s) = n}
<1>1. SUFFICES ASSUME T # SUBSET VA PROVE FALSE
  OBVIOUS
<1>2. PICK s0 \in (SUBSET VA) \ T : TRUE
  BY <1>1
<1>3. \A s \in SUBSET VA : IsFiniteSet(s) /\ Cardinality(s) \in Nat
  BY PageManAssumption, FS_Subset, FS_CardinalityType
<1>4. bad # {} /\ bad \subseteq Nat
  BY <1>2, <1>3
<1> HIDE DEF bad
<1>5. PICK n \in bad : \A i \in bad : n <= i
  BY <1>4, MinMember
<1>6. PICK s \in (SUBSET VA) \ T : Cardinality(s) = n
  BY <1>5 DEF bad
<1>7. s # {} /\ Pick(s) \in s
  <2>1. s # {}
    BY <1>6
  <2> QED BY <2>1 DEF Pick
<1>8. Cardinality(s \ {Pick(s)}) = n - 1 /\ n \in Nat /\ n - 1 \in Nat
  <2>1. IsFiniteSet(s) /\ IsFiniteSet(s \ {Pick(s)}) /\ n \in Nat
    BY <1>3, <1>6, FS_Subset
  <2>2. Cardinality(s \ {Pick(s)}) = n - 1
    BY <2>1, <1>6, <1>7, FS_RemoveElement
  <2> QED BY <2>1, <2>2, FS_CardinalityType
<1>9. s \ {Pick(s)} \in (SUBSET VA) \ T
  BY <1>6, <1>7
<1>10. n - 1 \in bad
  BY <1>8, <1>9 DEF bad
<1> QED BY <1>5, <1>8, <1>10

(* One round: copy the page of a at va to b, or unassign that of b. *)
Step(copy, mm0, a, b, va, mm) ==
  IF copy
  THEN IF mm0.pe[<<a, va>>].p = Null THEN mm
       ELSE AssignPage(mm, <<b, va>>, mm0.pe[<<a, va>>].p, "SNAPSHOT")
  ELSE UnassignPage(mm, <<b, va>>)

(* g[s] is the result of the rounds for the pages of s. *)
Loop(g, copy, mm0, a, b) ==
  /\ g[{}] = mm0
  /\ \A s \in SUBSET VA : s # {} => g[s] = Step(copy, mm0, a, b, Pick(s), g[s \ {Pick(s)}])

(* The recursion that defines the fold, and that it has a solution. *)
Solves(g, copy, mm0, a, b) ==
  g = [s \in SUBSET VA |->
         IF s = {} THEN mm0 ELSE Step(copy, mm0, a, b, Pick(s), g[s \ {Pick(s)}])]

LEMMA LoopExists ==
  ASSUME NEW copy, NEW mm0, NEW a, NEW b
  PROVE  \E g : Solves(g, copy, mm0, a, b)
<1> DEFINE D(s) == {u \in SUBSET VA : Cardinality(u) <= Cardinality(s)}
           F(g, s) == [u \in D(s) |->
                         IF u = {} THEN mm0 ELSE Step(copy, mm0, a, b, Pick(u), g[u \ {Pick(u)}])]
           T == {s \in SUBSET VA : \E g : g = F(g, s)}
<1>1. \A s \in SUBSET VA : IsFiniteSet(s) /\ Cardinality(s) \in Nat
  BY PageManAssumption, FS_Subset, FS_CardinalityType
<1>2. Cardinality({}) = 0 /\ \A s \in SUBSET VA : Cardinality(s) = 0 => s = {}
  BY <1>1, FS_EmptySet
<1>3. {} \in T
  <2>1. D({}) = {{}}
    BY <1>1, <1>2
  <2> DEFINE g0 == [u \in {{}} |-> mm0]
  <2> HIDE DEF D
  <2>2. F(g0, {}) = g0
    BY <2>1
  <2> QED BY <2>2
<1>4. ASSUME NEW s \in SUBSET VA, s # {}, s \ {Pick(s)} \in T
      PROVE  s \in T
  <2> DEFINE r == s \ {Pick(s)}
  <2>1. PICK g : g = F(g, r)
    BY <1>4
  <2>2. Pick(s) \in s
    BY <1>4 DEF Pick
  <2>3. Cardinality(r) = Cardinality(s) - 1
    BY <1>1, <2>2, FS_RemoveElement
  <2> DEFINE h == F(g, s)
  <2>4. \A u \in D(s) : u # {} => u \ {Pick(u)} \in D(r)
    <3> SUFFICES ASSUME NEW u \in D(s), u # {} PROVE u \ {Pick(u)} \in D(r)
      OBVIOUS
    <3>1. Pick(u) \in u
      BY DEF Pick
    <3>2. u \in SUBSET VA /\ u \ {Pick(u)} \in SUBSET VA /\ Cardinality(u) <= Cardinality(s)
      OBVIOUS
    <3>3. Cardinality(u \ {Pick(u)}) = Cardinality(u) - 1
      BY <1>1, <3>1, <3>2, FS_RemoveElement
    <3>4. Cardinality(u) \in Nat /\ Cardinality(s) \in Nat
      BY <1>1, <3>2
    <3> QED BY <2>3, <3>2, <3>3, <3>4
  <2>5. D(r) \subseteq D(s)
    <3>1. r \in SUBSET VA /\ Cardinality(r) \in Nat /\ Cardinality(s) \in Nat
      BY <1>1
    <3> QED BY <1>1, <2>3, <3>1
  <2>6. \A u \in D(r) : h[u] = g[u]
    <3> HIDE DEF D
    <3>1. \A u \in D(r) : g[u] = IF u = {} THEN mm0 ELSE Step(copy, mm0, a, b, Pick(u), g[u \ {Pick(u)}])
      <4> HIDE DEF r
      <4>1. ASSUME NEW u \in D(r)
            PROVE  F(g, r)[u] = IF u = {} THEN mm0 ELSE Step(copy, mm0, a, b, Pick(u), g[u \ {Pick(u)}])
        BY <4>1
      <4> HIDE DEF F
      <4> QED BY <2>1, <4>1
    <3>2. \A u \in D(s) : h[u] = IF u = {} THEN mm0 ELSE Step(copy, mm0, a, b, Pick(u), g[u \ {Pick(u)}])
      OBVIOUS
    <3> QED BY <2>5, <3>1, <3>2
  <2> DEFINE st(f, u) == Step(copy, mm0, a, b, Pick(u), f[u \ {Pick(u)}])
  <2>7. \A u \in D(s) : u # {} => st(h, u) = st(g, u)
    <3> HIDE DEF D, h
    <3> QED BY <2>4, <2>6
  <2>8. h = F(h, s)
    <3>1. h = [u \in D(s) |-> IF u = {} THEN mm0 ELSE st(g, u)]
      OBVIOUS
    <3>2. F(h, s) = [u \in D(s) |-> IF u = {} THEN mm0 ELSE st(h, u)]
      OBVIOUS
    <3> HIDE DEF h, F, D, st
    <3>3. [u \in D(s) |-> IF u = {} THEN mm0 ELSE st(g, u)] = [u \in D(s) |-> IF u = {} THEN mm0 ELSE st(h, u)]
      BY <2>7
    <3> QED BY <3>1, <3>2, <3>3
  <2> HIDE DEF h, F
  <2> QED BY <2>8
<1>5. T = SUBSET VA
  <2> HIDE DEF T
  <2>1. T \in SUBSET (SUBSET VA)
    BY DEF T
  <2> QED BY <1>3, <1>4, <2>1, SetInduction
<1>6. D(VA) = SUBSET VA
  <2>1. \A s \in SUBSET VA : Cardinality(s) <= Cardinality(VA)
    BY PageManAssumption, FS_Subset
  <2> QED BY <2>1
<1>7. \E g : g = F(g, VA)
  <2> HIDE DEF F
  <2> QED BY <1>5
<1> HIDE DEF D
<1> QED BY <1>6, <1>7 DEF Solves

(* The fold is such a loop. *)
LEMMA LoopFold ==
  ASSUME NEW copy, NEW mm0, NEW a, NEW b, NEW g, Solves(g, copy, mm0, a, b)
  PROVE  Loop(g, copy, mm0, a, b)
<1> DEFINE E(s) == IF s = {} THEN mm0 ELSE Step(copy, mm0, a, b, Pick(s), g[s \ {Pick(s)}])
<1>1. \A s \in SUBSET VA : g[s] = E(s)
  <2> HIDE DEF E
  <2>1. g = [s \in SUBSET VA |-> E(s)]
    BY DEF E, Solves
  <2> QED BY <2>1
<1>2. g[{}] = mm0
  <2>1. g[{}] = E({})
    BY <1>1
  <2> QED BY <2>1
<1>3. \A s \in SUBSET VA : s # {} => g[s] = Step(copy, mm0, a, b, Pick(s), g[s \ {Pick(s)}])
  BY <1>1
<1> QED BY <1>2, <1>3 DEF Loop

LEMMA DestroyLoop ==
  ASSUME NEW a, NEW held, DestroyAs(a, held)
  PROVE  \E g : Loop(g, FALSE, m, a, a) /\ m' = g[VA]
<1> DEFINE g == CHOOSE g : g = [s \in SUBSET VA |->
                  IF s = {} THEN m ELSE UnassignPage(g[s \ {CHOOSE va \in s : TRUE}],
                                                     <<a, CHOOSE va \in s : TRUE>>)]
<1>1. m' = g[VA]
  BY DEF DestroyAs, FoldSet, MapThenFoldSet
<1>2. PICK f : Solves(f, FALSE, m, a, a)
  BY LoopExists
<1>3. f = [s \in SUBSET VA |->
                  IF s = {} THEN m ELSE UnassignPage(f[s \ {CHOOSE va \in s : TRUE}],
                                                     <<a, CHOOSE va \in s : TRUE>>)]
  BY <1>2 DEF Solves, Step, Pick
<1>4. g = [s \in SUBSET VA |->
                  IF s = {} THEN m ELSE UnassignPage(g[s \ {CHOOSE va \in s : TRUE}],
                                                     <<a, CHOOSE va \in s : TRUE>>)]
  BY <1>3
<1> HIDE DEF g
<1>5. Solves(g, FALSE, m, a, a)
  BY <1>4 DEF Solves, Step, Pick
<1>6. Loop(g, FALSE, m, a, a)
  BY <1>5, LoopFold
<1> QED BY <1>1, <1>6

LEMMA AsNewLoop ==
  ASSUME NEW a, NEW b, AsNew(a, b, TRUE)
  PROVE  \E g : Loop(g, TRUE, m, a, b) /\ m' = g[VA]
<1> DEFINE g == CHOOSE g : g = [s \in SUBSET VA |->
                  IF s = {} THEN m
                  ELSE IF m.pe[<<a, CHOOSE va \in s : TRUE>>].p = Null
                       THEN g[s \ {CHOOSE va \in s : TRUE}]
                       ELSE AssignPage(g[s \ {CHOOSE va \in s : TRUE}],
                                       <<b, CHOOSE va \in s : TRUE>>,
                                       m.pe[<<a, CHOOSE va \in s : TRUE>>].p, "SNAPSHOT")]
<1>1. m' = g[VA]
  BY DEF AsNew, FoldSet, MapThenFoldSet
<1>2. PICK f : Solves(f, TRUE, m, a, b)
  BY LoopExists
<1>3. f = [s \in SUBSET VA |->
                  IF s = {} THEN m
                  ELSE IF m.pe[<<a, CHOOSE va \in s : TRUE>>].p = Null
                       THEN f[s \ {CHOOSE va \in s : TRUE}]
                       ELSE AssignPage(f[s \ {CHOOSE va \in s : TRUE}],
                                       <<b, CHOOSE va \in s : TRUE>>,
                                       m.pe[<<a, CHOOSE va \in s : TRUE>>].p, "SNAPSHOT")]
  BY <1>2 DEF Solves, Step, Pick
<1>4. g = [s \in SUBSET VA |->
                  IF s = {} THEN m
                  ELSE IF m.pe[<<a, CHOOSE va \in s : TRUE>>].p = Null
                       THEN g[s \ {CHOOSE va \in s : TRUE}]
                       ELSE AssignPage(g[s \ {CHOOSE va \in s : TRUE}],
                                       <<b, CHOOSE va \in s : TRUE>>,
                                       m.pe[<<a, CHOOSE va \in s : TRUE>>].p, "SNAPSHOT")]
  BY <1>3
<1> HIDE DEF g
<1>5. Solves(g, TRUE, m, a, b)
  BY <1>4 DEF Solves, Step, Pick
<1>6. Loop(g, TRUE, m, a, b)
  BY <1>5, LoopFold
<1> QED BY <1>1, <1>6

(* destroy_as takes the entries of b away and changes nothing others see. *)
DropDone(x, v, mm, nn, b) ==
  /\ Base(nn, x)
  /\ x[ZeroFrame] >= 1 /\ Cow(mm, x, v) => Cow(nn, x, v)
  /\ \A va \in VA : nn.pe[<<b, va>>].p = Null
  /\ \A k \in Key : k[1] # b => nn.pe[k] = mm.pe[k] /\ Cont(nn, k) = Cont(mm, k)
  /\ \A q \in Frame : x[q] > 0 => nn.data[q] = mm.data[q]

LEMMA DropLoop ==
  ASSUME NEW x \in Extras, NEW v, NEW mm, Base(mm, x), NEW b \in AS, NEW a,
         NEW g, Loop(g, FALSE, mm, a, b)
  PROVE  DropDone(x, v, mm, g[VA], b)
<1> DEFINE P(nn, s) ==
             /\ Base(nn, x)
             /\ x[ZeroFrame] >= 1 /\ Cow(mm, x, v) => Cow(nn, x, v)
             /\ \A va \in s : nn.pe[<<b, va>>].p = Null
             /\ \A k \in Key : k[1] # b => nn.pe[k] = mm.pe[k] /\ Cont(nn, k) = Cont(mm, k)
             /\ \A q \in Frame : x[q] > 0 => nn.data[q] = mm.data[q]
           T == {s \in SUBSET VA : P(g[s], s)}
<1>1. {} \in T
  BY DEF Loop
<1>2. ASSUME NEW s \in SUBSET VA, s # {}, s \ {Pick(s)} \in T
      PROVE  s \in T
  <2> DEFINE va == Pick(s)
             r == s \ {va}
  <2>1. va \in VA /\ s = r \cup {va}
    BY <1>2 DEF Pick
  <2>2. PICK mm1 : mm1 = g[r]
    OBVIOUS
  <2>3. P(mm1, r)
    BY <1>2, <2>2
  <2>4. PICK nn : nn = UnassignPage(mm1, <<b, va>>)
    OBVIOUS
  <2>5. g[s] = nn
    BY <1>2, <2>2, <2>4 DEF Loop, Step
  <2> HIDE DEF va, r
  <2>6. <<b, va>> \in Key
    BY <2>1 DEF Key
  <2>7. Base(nn, x)
    BY <2>3, <2>4, <2>6, UnassignBase
  <2>8. x[ZeroFrame] >= 1 /\ Cow(mm, x, v) => Cow(nn, x, v)
    BY <2>3, <2>4, <2>6, UnassignCow
  <2>9. /\ nn.pe[<<b, va>>].p = Null
        /\ \A o \in Key \ {<<b, va>>} : nn.pe[o] = mm1.pe[o] /\ Cont(nn, o) = Cont(mm1, o)
        /\ \A q \in Frame : x[q] > 0 => nn.data[q] = mm1.data[q]
    BY <2>3, <2>4, <2>6, UnassignData
  <2>10. \A u \in s : nn.pe[<<b, u>>].p = Null
    <3> SUFFICES ASSUME NEW u \in s, u # va PROVE nn.pe[<<b, u>>].p = Null
      BY <2>9
    <3>1. u \in r /\ <<b, u>> \in Key \ {<<b, va>>}
      BY <2>1 DEF Key
    <3> QED BY <2>3, <2>9, <3>1
  <2>11. \A k \in Key : k[1] # b => nn.pe[k] = mm.pe[k] /\ Cont(nn, k) = Cont(mm, k)
    <3> SUFFICES ASSUME NEW k \in Key, k[1] # b
                 PROVE  nn.pe[k] = mm.pe[k] /\ Cont(nn, k) = Cont(mm, k)
      OBVIOUS
    <3>1. k # <<b, va>>
      OBVIOUS
    <3> QED BY <2>3, <2>9, <3>1
  <2>12. \A q \in Frame : x[q] > 0 => nn.data[q] = mm.data[q]
    BY <2>3, <2>9
  <2>13. P(nn, s)
    BY <2>7, <2>8, <2>10, <2>11, <2>12
  <2> HIDE DEF P
  <2> QED BY <2>5, <2>13
<1>3. T = SUBSET VA
  <2> HIDE DEF T
  <2>1. T \in SUBSET (SUBSET VA)
    BY DEF T
  <2> QED BY <1>1, <1>2, <2>1, SetInduction
<1> QED BY <1>3 DEF DropDone

(* asnew: b has the pages that a has. *)
CopyDone(x, v, mm, nn, a, b) ==
  /\ Base(nn, x)
  /\ Cow(mm, x, v) => Cow(nn, x, v)
  /\ \A va \in VA : nn.pe[<<b, va>>].p = mm.pe[<<a, va>>].p
  /\ \A k \in Key : k[1] # b => nn.pe[k] = mm.pe[k]
  /\ \A k \in Key : nn.pte[k].p = mm.pte[k].p
  /\ nn.data = mm.data
LEMMA CopyLoop ==
  ASSUME NEW x \in Extras, NEW v, NEW mm, Base(mm, x), NEW a \in AS, NEW b \in AS, a # b,
         \A va \in VA : mm.pe[<<b, va>>].p = Null, NEW g, Loop(g, TRUE, mm, a, b)
  PROVE  CopyDone(x, v, mm, g[VA], a, b)
<1> DEFINE P(nn, s) ==
             /\ Base(nn, x)
             /\ Cow(mm, x, v) => Cow(nn, x, v)
             /\ \A va \in VA : nn.pe[<<b, va>>].p = IF va \in s THEN mm.pe[<<a, va>>].p ELSE Null
             /\ \A k \in Key : k[1] # b => nn.pe[k] = mm.pe[k]
             /\ \A k \in Key : nn.pte[k].p = mm.pte[k].p
             /\ nn.data = mm.data
           T == {s \in SUBSET VA : P(g[s], s)}
<1>1. {} \in T
  BY DEF Loop
<1>2. ASSUME NEW s \in SUBSET VA, s # {}, s \ {Pick(s)} \in T
      PROVE  s \in T
  <2> DEFINE va == Pick(s)
             r == s \ {va}
  <2>1. va \in VA /\ s = r \cup {va} /\ va \notin r /\ va \in s
    BY <1>2 DEF Pick
  <2>2. PICK mm1 : mm1 = g[r]
    OBVIOUS
  <2>3. P(mm1, r)
    BY <1>2, <2>2
  <2>4. PICK p : p = mm.pe[<<a, va>>].p
    OBVIOUS
  <2>5. PICK nn : nn = IF p = Null THEN mm1 ELSE AssignPage(mm1, <<b, va>>, p, "SNAPSHOT")
    OBVIOUS
  <2>6. g[s] = nn
    BY <1>2, <2>2, <2>4, <2>5 DEF Loop, Step
  <2> HIDE DEF va, r
  <2>7. <<b, va>> \in Key /\ <<a, va>> \in Key
    BY <2>1 DEF Key
  <2>8. CASE p = Null
    <3>1. nn = mm1
      BY <2>5, <2>8
    <3>2. \A u \in VA : nn.pe[<<b, u>>].p = IF u \in s THEN mm.pe[<<a, u>>].p ELSE Null
      BY <2>1, <2>3, <2>4, <2>8, <3>1
    <3>3. P(nn, s)
      BY <2>3, <3>1, <3>2
    <3> HIDE DEF P
    <3> QED BY <2>6, <3>3
  <2>9. CASE p # Null
    <3>1. mm1 \in Rec /\ mm1.pe[<<b, va>>].p = Null /\ mm1.pe[<<a, va>>].p = p
      BY <2>1, <2>3, <2>4, <2>7 DEF Base
    <3>2. p \in Frame
      BY <2>7, <2>9, <3>1 DEF Rec, Entry
    <3>3. mm1.ref[p] > 0
      BY <2>3, <2>7, <3>1, <3>2, RefBound, OwnerCounted
    <3>4. nn = AssignPage(mm1, <<b, va>>, p, "SNAPSHOT")
      BY <2>5, <2>9
    <3>5. Base(nn, x)
      BY <2>3, <2>7, <3>1, <3>2, <3>4, AssignBase DEF PageFlag
    <3>6. Cow(mm, x, v) => Cow(nn, x, v)
      BY <2>3, <2>7, <3>1, <3>2, <3>3, <3>4, AssignCow
    <3>7. /\ nn.data = mm1.data /\ nn.pe[<<b, va>>].p = p
          /\ \A o \in Key \ {<<b, va>>} : nn.pe[o] = mm1.pe[o]
          /\ \A o \in Key : nn.pte[o].p = mm1.pte[o].p
      BY <2>7, <3>1, <3>2, <3>4, AssignData DEF PageFlag
    <3>8. \A u \in VA : nn.pe[<<b, u>>].p = IF u \in s THEN mm.pe[<<a, u>>].p ELSE Null
      <4> SUFFICES ASSUME NEW u \in VA
                   PROVE  nn.pe[<<b, u>>].p = IF u \in s THEN mm.pe[<<a, u>>].p ELSE Null
        OBVIOUS
      <4>1. CASE u = va
        BY <4>1, <2>1, <2>4, <3>7
      <4>2. CASE u # va
        <5>1. <<b, u>> \in Key \ {<<b, va>>} /\ (u \in s <=> u \in r)
          BY <2>1, <4>2 DEF Key
        <5> QED BY <2>3, <3>7, <5>1
      <4> QED BY <4>1, <4>2
    <3>9. \A k \in Key : k[1] # b => nn.pe[k] = mm.pe[k]
      <4> SUFFICES ASSUME NEW k \in Key, k[1] # b PROVE nn.pe[k] = mm.pe[k]
        OBVIOUS
      <4>1. k # <<b, va>>
        OBVIOUS
      <4> QED BY <2>3, <3>7, <4>1
    <3>10. P(nn, s)
      BY <2>3, <3>5, <3>6, <3>7, <3>8, <3>9
    <3> HIDE DEF P
    <3> QED BY <2>6, <3>10
  <2> QED BY <2>8, <2>9
<1>3. T = SUBSET VA
  <2> HIDE DEF T
  <2>1. T \in SUBSET (SUBSET VA)
    BY DEF T
  <2> QED BY <1>1, <1>2, <2>1, SetInduction
<1> QED BY <1>3 DEF CopyDone
-----------------------------------------------------------------------------
(***************************************************************************)
(* The invariants over the actions.  Each lemma below takes one handler    *)
(* and shows that it preserves BaseInv and CowInv, and what it changes of  *)
(* what processes read (Cont) and of the message.                          *)
(***************************************************************************)
LEMMA ExtraType ==
  ASSUME BaseInv
  PROVE  /\ Extra \in Extras /\ Extra[ZeroFrame] >= 1 /\ Base(m, Extra)
         /\ CowInv => Cow(m, Extra, vma)
<1>1. \A p \in Frame : InMsg(p) \in {0, 1} /\ One(p = ZeroFrame) \in {0, 1}
  BY DEF InMsg, One
<1>2. Extra \in Extras
  BY <1>1 DEF Extra, Extras
<1>3. Extra[ZeroFrame] >= 1
  BY <1>1, PageManAssumption DEF Extra, One
<1> QED BY <1>2, <1>3 DEF BaseInv, CowInv, Base, Cow

(* What the message holds, for a handler that leaves it alone. *)
MsgKept == msg # Null /\ msg.p # Null => m'.data[msg.p] = m.data[msg.p]

LEMMA ExtraKept ==
  ASSUME BaseInv, UNCHANGED msg
  PROVE  /\ Extra' = Extra
         /\ msg # Null /\ msg.p # Null => msg.p \in Frame /\ Extra[msg.p] > 0
<1>1. \A p \in Frame : InMsg(p) \in {0, 1} /\ One(p = ZeroFrame) \in {0, 1}
  BY DEF InMsg, One
<1>2. msg # Null /\ msg.p # Null => msg.p \in Frame /\ InMsg(msg.p) = 1
  BY DEF InMsg, BaseInv, Entry
<1>3. Extra' = Extra
  BY DEF Extra, InMsg
<1> QED BY <1>1, <1>2, <1>3 DEF Extra

(* The message's page has no entry, if UNCHANGED. *)
LEMMA MsgUnowned ==
  ASSUME NEW x \in Extras, NEW mm, Base(mm, x), NEW nn, Base(nn, x), NEW p \in Frame,
         O(mm, p) = 0, \A k \in Key : mm.pe[k].p # p => nn.pe[k].p # p
  PROVE  O(nn, p) = 0
<1>1. \A k \in Key : nn.pe[k].p # p
  BY NoOwner
<1>2. Owners(nn, p) = {}
  BY <1>1 DEF Owners
<1> QED BY <1>2, FS_EmptySet DEF O

(* A page without snapshots is not zero_page, and its owners are entries of *)
(* one address space.                                                       *)
LEMMA OneWriter ==
  ASSUME NEW x \in Extras, x[ZeroFrame] >= 1, NEW v, NEW mm, Base(mm, x), Cow(mm, x, v),
         NEW k \in Key, NEW p \in Frame, mm.pe[k].p = p, mm.snap[p] = 0
  PROVE  /\ p # ZeroFrame
         /\ \A o \in Key : mm.pe[o].p = p => o[1] = k[1]
<1>1. /\ mm.snap[p] \in {S(mm, p), S(mm, p) - 1}
      /\ mm.snap[p] # S(mm, p) => S(mm, p) = O(mm, p) /\ x[p] = 0
  <2>1. SnapsCounted(mm, x)
    BY DEF Cow
  <2>2. /\ mm.snap[p] \in Nat /\ mm.snap[p] < Word /\ mm.ref[p] >= 1
        /\ mm.snap[p] \in {S(mm, p), S(mm, p) - 1}
        /\ mm.snap[p] # S(mm, p) => S(mm, p) = O(mm, p) /\ x[p] = 0
        /\ mm.pe[k].flag # "SNAPSHOT" => mm.snap[p] = S(mm, p)
    BY ONLY <2>1, SnapBound, x \in Extras, Base(mm, x), k \in Key, p \in Frame, mm.pe[k].p = p
  <2> QED BY <2>2
<1>2. O(mm, p) \in Nat /\ S(mm, p) \in Nat
  BY RefBound
<1>3. p # ZeroFrame
  <2> SUFFICES ASSUME p = ZeroFrame PROVE FALSE
    OBVIOUS
  <2>1. mm.pe[k].flag = "SNAPSHOT"
    BY DEF Cow, ZeroSound
  <2>2. S(mm, p) >= 1
    BY <2>1, OwnerCounted
  <2> QED BY <1>1, <1>2, <2>2
<1>4. CASE S(mm, p) = 0
  <2>1. \A o \in Key : mm.pe[o].p = p => mm.pe[o].flag # "SNAPSHOT"
    BY <1>4, OwnerCounted
  <2>2. \A o \in Key : mm.pe[o].flag \in PageFlag
    BY DEF Base, Rec, Entry
  <2>3. \A o \in Key : mm.pe[o].p = p => mm.pe[o].flag = "SHARED"
    BY <2>1, <2>2 DEF PageFlag
  <2> QED BY <1>3, <2>3, PageManAssumption DEF Cow, OneOwner
<1>5. CASE S(mm, p) = 1
  <2>1. O(mm, p) = 1
    BY <1>1, <1>5
  <2> QED BY <1>3, <2>1, OwnerCounted
<1> QED BY <1>1, <1>2, <1>4, <1>5

(* Writing into a page that is not zero_page changes nothing but its contents. *)
LEMMA DataOnly ==
  ASSUME NEW x \in Extras, NEW v, NEW mm, Base(mm, x), NEW p, NEW c \in Value,
         NEW nn, nn = [mm EXCEPT !.data[p] = c]
  PROVE  /\ Base(nn, x) /\ nn.pe = mm.pe /\ nn.pte = mm.pte
         /\ Cow(mm, x, v) /\ p # ZeroFrame => Cow(nn, x, v)
         /\ \A k \in Key : Cont(nn, k) = IF p \in Frame /\ mm.pe[k].p = p THEN c ELSE Cont(mm, k)
         /\ \A q \in Frame : q # p => nn.data[q] = mm.data[q]
<1>1. mm \in Rec
  BY DEF Base
<1>2. /\ nn.pe = mm.pe /\ nn.pte = mm.pte /\ nn.ref = mm.ref /\ nn.snap = mm.snap
      /\ nn.panic = mm.panic /\ nn.data = [mm.data EXCEPT ![p] = c] /\ nn \in Rec
  BY <1>1 DEF Rec
<1>3. \A q \in Frame : nn.data[q] = IF q = p THEN c ELSE mm.data[q]
  BY <1>1, <1>2 DEF Rec
<1>4. \A q : Owners(nn, q) = Owners(mm, q) /\ Snaps(nn, q) = Snaps(mm, q)
  BY <1>2 DEF Owners, Snaps
<1>5. \A q : O(nn, q) = O(mm, q) /\ S(nn, q) = S(mm, q)
  BY <1>4 DEF O, S
<1>6. Base(nn, x)
  BY <1>2, <1>5 DEF Base, Counted, Follows
<1>7. ASSUME Cow(mm, x, v), p # ZeroFrame
      PROVE  Cow(nn, x, v)
  <2>1. SnapsCounted(nn, x)
    BY <1>2, <1>5, <1>7 DEF Cow, SnapsCounted
  <2>2. ReadOnly(nn) /\ Writable(nn, v) /\ OneOwner(nn)
    BY <1>2, <1>7 DEF Cow, ReadOnly, Writable, OneOwner
  <2>3. ZeroSound(nn)
    BY <1>2, <1>3, <1>7, PageManAssumption DEF Cow, ZeroSound
  <2> QED BY <1>2, <1>7, <2>1, <2>2, <2>3 DEF Cow
<1>8. \A k \in Key : mm.pe[k].p \in Frame \cup {Null}
  BY <1>1 DEF Rec, Entry
<1>9. \A k \in Key : Cont(nn, k) = IF p \in Frame /\ mm.pe[k].p = p THEN c ELSE Cont(mm, k)
  BY <1>2, <1>3, <1>8, PageManAssumption DEF Cont
<1> QED BY <1>2, <1>3, <1>6, <1>7, <1>9

(* unshare_page leaves a page that has no snapshots. *)
LEMMA UnshareSnap ==
  ASSUME NEW x \in Extras, x[ZeroFrame] >= 1, NEW v, NEW mm, Base(mm, x), Cow(mm, x, v),
         NEW k \in Key, NEW p \in Frame, mm.ref[p] = 0, mm.pe[k].p \in Frame,
         mm.snap[mm.pe[k].p] # 0
  PROVE  LET nn == UnsharePage(mm, k, p) IN nn.snap[nn.pe[k].p] = 0
<1> DEFINE old == mm.pe[k].p
<1>1. mm \in Rec
  BY DEF Base
<1>2. CASE mm.snap[old] = 1 /\ mm.ref[old] = 1
  <2>1. PICK nn : nn = UnsharePage(mm, k, p)
    OBVIOUS
  <2>2. nn = [mm EXCEPT !.snap[old] = 0, !.pte[k] = NoPte]
    BY <1>2, <2>1 DEF UnsharePage
  <2>3. nn.snap = [mm.snap EXCEPT ![old] = 0] /\ nn.pe = mm.pe
    BY <1>1, <2>2 DEF Rec
  <2>4. nn.snap[nn.pe[k].p] = 0
    BY <1>1, <2>3 DEF Rec
  <2> QED BY <2>1, <2>4
<1>3. CASE ~(mm.snap[old] = 1 /\ mm.ref[old] = 1)
  <2>1. mm.ref[old] # 1
    <3> SUFFICES ASSUME mm.ref[old] = 1 PROVE FALSE
      OBVIOUS
    <3>1. /\ mm.snap[old] \in Nat /\ mm.snap[old] \in {S(mm, old), S(mm, old) - 1}
      BY SnapBound DEF Cow
    <3>2. S(mm, old) \in Nat /\ O(mm, old) \in Nat /\ S(mm, old) <= O(mm, old) /\ x[old] \in 0 .. 3
          /\ mm.ref[old] = O(mm, old) + x[old]
      BY RefBound
    <3> QED BY <1>3, <3>1, <3>2
  <2>2. PICK nn : nn = UnshareCopy(mm, k, p)
    OBVIOUS
  <2>3. UnsharePage(mm, k, p) = nn
    BY <1>3, <2>1, <2>2 DEF UnsharePage
  <2>4. Copied(mm, nn, k, p)
    BY <2>2, CopyBase
  <2>5. nn.pe[k].p = p /\ nn.snap[p] = 0
    <3>1. k \in Movers(mm, k) /\ old # p
      BY FreeFrame DEF Movers
    <3>2. nn.pe[k] = [p |-> p, flag |-> "SHARED"]
      BY <2>4, <3>1 DEF Copied
    <3>3. nn.snap[p] = 0
      BY <1>1, <2>4, <3>1 DEF Copied, Rec
    <3> QED BY <3>2, <3>3
  <2> QED BY <2>3, <2>5
<1> QED BY <1>2, <1>3

LEMMA UnshareOwners ==
  ASSUME NEW x \in Extras, NEW mm, Base(mm, x), NEW k \in Key, NEW p \in Frame,
         mm.ref[p] = 0, mm.pe[k].p \in Frame, NEW o \in Key
  PROVE  UnsharePage(mm, k, p).pe[o].p \in {mm.pe[o].p, p}
<1> DEFINE old == mm.pe[k].p
<1>1. mm \in Rec
  BY DEF Base
<1>2. PICK nn : nn = UnsharePage(mm, k, p)
  OBVIOUS
<1>3. CASE mm.snap[old] = 1 /\ mm.ref[old] = 1
  <2>1. nn = [mm EXCEPT !.snap[old] = 0, !.pte[k] = NoPte]
    BY <1>2, <1>3 DEF UnsharePage
  <2>2. nn.pe = mm.pe
    BY <1>1, <2>1 DEF Rec
  <2> QED BY <1>2, <2>2
<1>4. CASE mm.snap[old] # 1 /\ mm.ref[old] = 1
  <2>1. nn = Panic(mm, "one_user")
    BY <1>2, <1>4 DEF UnsharePage
  <2>2. nn.pe = mm.pe
    BY <1>1, <2>1 DEF Rec, Panic
  <2> QED BY <1>2, <2>2
<1>5. CASE mm.ref[old] # 1
  <2>1. nn = UnshareCopy(mm, k, p)
    BY <1>2, <1>5 DEF UnsharePage
  <2>2. Copied(mm, nn, k, p)
    BY <2>1, CopyBase
  <2>3. nn.pe[o] = IF o \in Movers(mm, k) THEN [p |-> p, flag |-> "SHARED"] ELSE mm.pe[o]
    BY <2>2 DEF Copied
  <2>4. nn.pe[o].p \in {mm.pe[o].p, p}
    BY <2>3
  <2> QED BY <1>2, <2>4
<1> QED BY <1>3, <1>4, <1>5

(* What is left to show of a handler that leaves the message alone. *)
LEMMA BaseRest ==
  ASSUME BaseInv, Base(m', Extra), UNCHANGED msg,
         vma' \in [Key -> {"none", "ro", "rw"}],
         creator' \in [AS -> AS \cup {Null}], live' \in SUBSET AS,
         \A k \in Key : vma'[k] = "none" => m'.pe[k].p = Null,
         \A k \in Key : k[1] \notin live' => vma'[k] = "none"
  PROVE  BaseInv'
<1>1. Extra' = Extra
  BY ExtraKept
<1>2. Base(m', Extra')
  BY <1>1
<1>3. m' \in Rec /\ Counted(m', Extra') /\ Follows(m')
  BY <1>2 DEF Base
<1>4. msg' \in Entry \cup {Null}
  BY DEF BaseInv
<1> QED BY <1>3, <1>4 DEF BaseInv

LEMMA CowRest ==
  ASSUME BaseInv, CowInv, UNCHANGED msg, Base(m', Extra), NEW v, Cow(m', Extra, v),
         \A k \in Key : vma'[k] = "rw" /\ m'.pte[k].p # Null => v[k] = "rw",
         \A k \in Key : m'.pe[k].p \in Frame /\ Extra[m'.pe[k].p] > 0
                          => m'.pe[k].p \in {m.pe[k].p, ZeroFrame} \/ O(m, m'.pe[k].p) > 0
  PROVE  CowInv'
<1>1. Extra' = Extra /\ Extra \in Extras /\ Base(m, Extra)
  BY ExtraKept, ExtraType
<1>2. SnapsCounted(m', Extra') /\ ReadOnly(m') /\ OneOwner(m') /\ ZeroSound(m')
      /\ m'.panic \in {"none", "has_snapshot"}
  BY <1>1 DEF Cow
<1>3. Writable(m', vma')
  BY DEF Cow, Writable
<1>4. ASSUME msg' # Null
      PROVE  msg'.p \in Frame \ {ZeroFrame} /\ msg'.flag = "SHARED" /\ O(m', msg'.p) = 0
  <2>1. msg.p \in Frame \ {ZeroFrame} /\ msg.flag = "SHARED" /\ O(m, msg.p) = 0
    BY <1>4 DEF CowInv
  <2>2. Extra[msg.p] > 0
    BY <1>4, <2>1, ExtraKept, PageManAssumption
  <2>3. \A k \in Key : m.pe[k].p # msg.p
    BY <2>1, NoOwner
  <2>4. \A k \in Key : m'.pe[k].p # msg.p
    BY <2>1, <2>2, <2>3
  <2>5. O(m', msg.p) = 0
    BY <1>1, <2>1, <2>4, MsgUnowned
  <2> QED BY <2>1, <2>5
<1> QED BY <1>2, <1>3, <1>4 DEF CowInv

LEMMA InitInv == Init => BaseInv /\ CowInv /\ m.panic = "none"
<1> SUFFICES ASSUME Init PROVE BaseInv /\ CowInv /\ m.panic = "none"
  OBVIOUS
<1> DEFINE K == {<<InitAs, Text>>, <<InitAs, Data>>}
<1>1. PICK p \in Frame \ {ZeroFrame}, c \in Value :
        /\ m = [pe |-> [k \in Key |-> IF k \in K THEN [p |-> p, flag |-> "SHARED"] ELSE NoEntry],
                pte |-> [k \in Key |-> NoPte],
                ref |-> [f \in Frame |-> IF f = p THEN 2 ELSE IF f = ZeroFrame THEN 1 ELSE 0],
                snap |-> [f \in Frame |-> 0],
                data |-> [f \in Frame |-> IF f = p THEN c ELSE Zero],
                panic |-> "none"]
        /\ vma = [k \in Key |-> IF k = <<InitAs, Text>> THEN "ro"
                                ELSE IF k = <<InitAs, Data>> THEN "rw" ELSE "none"]
        /\ creator = [a \in AS |-> Null] /\ live = {InitAs} /\ msg = Null
  BY DEF Init
<1>2. PICK pe : pe = [k \in Key |-> IF k \in K THEN [p |-> p, flag |-> "SHARED"] ELSE NoEntry]
  OBVIOUS
<1>3. K \subseteq Key /\ <<InitAs, Text>> # <<InitAs, Data>>
  BY PageManAssumption DEF Key
<1>4. /\ m.pe = pe /\ m.pte = [k \in Key |-> NoPte] /\ m.snap = [f \in Frame |-> 0]
      /\ m.ref = [f \in Frame |-> IF f = p THEN 2 ELSE IF f = ZeroFrame THEN 1 ELSE 0]
      /\ m.data = [f \in Frame |-> IF f = p THEN c ELSE Zero] /\ m.panic = "none"
  BY <1>1, <1>2
<1> DEFINE e == [p |-> p, flag |-> "SHARED"]
<1>5. e \in Entry /\ NoEntry \in Entry /\ NoPte \in Pte /\ e.p = p /\ e.flag = "SHARED"
      /\ NoEntry.p = Null /\ NoEntry.flag = "SHARED" /\ NoPte.p = Null /\ NoPte.w = FALSE
  BY DEF Entry, NoEntry, NoPte, Pte, PageFlag
<1>6. \A k \in Key : m.pe[k] = IF k \in K THEN e ELSE NoEntry
  BY <1>2, <1>4
<1> HIDE DEF e
<1>7. m \in Rec
  <2>1. pe \in [Key -> Entry] /\ m.pte \in [Key -> Pte]
    <3> HIDE DEF K
    <3> QED BY <1>2, <1>4, <1>5 DEF e
  <2>2. m.ref \in [Frame -> Nat] /\ m.snap \in [Frame -> Nat] /\ m.data \in [Frame -> Value]
    BY <1>4, PageManAssumption
  <2>3. PICK pte \in [Key -> Pte], ref \in [Frame -> Nat], snap \in [Frame -> Nat],
             data \in [Frame -> Value] :
          m = [pe |-> pe, pte |-> pte, ref |-> ref, snap |-> snap, data |-> data, panic |-> "none"]
    <3> HIDE DEF K
    <3> QED BY <1>1, <1>2, <1>4, <2>1, <2>2
  <2> QED BY <2>1, <2>3 DEF Rec, Panics
<1>8. \A k \in Key : m.pe[k].flag = "SHARED" /\ m.pe[k].p \in {p, Null}
                     /\ (m.pe[k].p = p <=> k \in K)
  BY <1>5, <1>6, PageManAssumption
<1>9. \A q \in Frame : Owners(m, q) = (IF q = p THEN K ELSE {}) /\ Snaps(m, q) = {}
  BY <1>3, <1>8, PageManAssumption DEF Owners, Snaps
<1>10. Cardinality(K) = 2 /\ Cardinality({}) = 0
  <2>1. K = {<<InitAs, Text>>} \cup {<<InitAs, Data>>}
    OBVIOUS
  <2>2. IsFiniteSet({<<InitAs, Text>>}) /\ Cardinality({<<InitAs, Text>>}) = 1
    BY FS_Singleton
  <2>3. PICK i, j : i = <<InitAs, Text>> /\ j = <<InitAs, Data>>
    OBVIOUS
  <2>4. j \notin {i} /\ K = {i} \cup {j} /\ IsFiniteSet({i}) /\ Cardinality({i}) = 1
    BY <1>3, <2>1, <2>2, <2>3
  <2>5. Cardinality({i} \cup {j}) = Cardinality({i}) + 1
    BY <2>4, FS_AddElement
  <2> QED BY <2>4, <2>5, FS_EmptySet
<1>11. \A q \in Frame : O(m, q) = (IF q = p THEN 2 ELSE 0) /\ S(m, q) = 0
  BY <1>9, <1>10 DEF O, S
<1>12. \A q \in Frame : Extra[q] = IF q = ZeroFrame THEN 1 ELSE 0
  BY <1>1 DEF Extra, InMsg, One
<1>13. Counted(m, Extra)
  BY <1>4, <1>11, <1>12 DEF Counted
<1>14. \A k \in Key : m.pte[k].p = Null /\ m.pte[k].w = FALSE
  BY <1>4, <1>5
<1>15. Follows(m) /\ ReadOnly(m) /\ Writable(m, vma)
  BY <1>14 DEF Follows, ReadOnly, Writable
<1>16. SnapsCounted(m, Extra)
  BY <1>4, <1>11 DEF SnapsCounted
<1>17. OneOwner(m)
  <2>1. \A k \in K : k[1] = InitAs
    OBVIOUS
  <2> QED BY <1>8, <2>1 DEF OneOwner
<1>18. ZeroSound(m)
  BY <1>4, <1>8, PageManAssumption DEF ZeroSound
<1>19. \A k \in Key : vma[k] = "none" => m.pe[k].p = Null
  BY <1>1, <1>8
<1>20. \A k \in Key : k[1] \notin live => vma[k] = "none"
  BY <1>1
<1>21. BaseInv
  BY <1>1, <1>7, <1>13, <1>15, <1>19, <1>20, PageManAssumption DEF BaseInv
<1> QED BY <1>1, <1>4, <1>15, <1>16, <1>17, <1>18, <1>21 DEF CowInv

(* What address space a reads has changed to c, at one page at least. *)
Written(a, c) ==
  \E U \in (SUBSET VA) \ {{}} :
    \A k \in Key : Cont(m', k) = IF k[1] = a /\ k[2] \in U THEN c ELSE Cont(m, k)

(* A write to the page of k, in a state mm in which everybody still reads  *)
(* what it read in m.                                                      *)
LEMMA WriteStep ==
  ASSUME BaseInv, CowInv, NEW mm, Base(mm, Extra), Cow(mm, Extra, vma),
         NEW a \in AS, NEW va \in VA, NEW p \in Frame, NEW c \in Value,
         mm.pe[<<a, va>>].p = p, mm.snap[p] = 0, m' = [mm EXCEPT !.data[p] = c],
         \A o \in Key : Cont(mm, o) = Cont(m, o),
         \A q \in Frame : Extra[q] > 0 => mm.data[q] = m.data[q],
         \A o \in Key : mm.pe[o].p \in Frame /\ Extra[mm.pe[o].p] > 0
                          => mm.pe[o].p \in {m.pe[o].p, ZeroFrame},
         UNCHANGED <<vma, creator, live, msg>>
  PROVE  CowInv' /\ Written(a, c) /\ MsgKept
<1>1. Extra \in Extras /\ Extra[ZeroFrame] >= 1 /\ <<a, va>> \in Key
  BY ExtraType DEF Key
<1>2. p # ZeroFrame /\ \A o \in Key : mm.pe[o].p = p => o[1] = a
  BY <1>1, OneWriter
<1>3. PICK nn : nn = [mm EXCEPT !.data[p] = c] /\ m' = nn
  OBVIOUS
<1>4. /\ Base(nn, Extra) /\ nn.pe = mm.pe /\ nn.pte = mm.pte /\ Cow(nn, Extra, vma)
      /\ \A k \in Key : Cont(nn, k) = IF mm.pe[k].p = p THEN c ELSE Cont(mm, k)
      /\ \A q \in Frame : q # p => nn.data[q] = mm.data[q]
  BY <1>1, <1>2, <1>3, DataOnly
<1>5. CowInv'
  BY <1>3, <1>4, CowRest
<1>6. Written(a, c)
  <2> DEFINE U == {u \in VA : mm.pe[<<a, u>>].p = p}
  <2>1. U \in (SUBSET VA) \ {{}}
    OBVIOUS
  <2>2. ASSUME NEW k \in Key
        PROVE  Cont(m', k) = IF k[1] = a /\ k[2] \in U THEN c ELSE Cont(m, k)
    <3>1. k = <<k[1], k[2]>> /\ k[2] \in VA
      BY DEF Key
    <3>2. mm.pe[k].p = p <=> k[1] = a /\ k[2] \in U
      BY <1>2, <3>1
    <3> QED BY <1>3, <1>4, <3>2
  <2> HIDE DEF U
  <2> QED BY <2>1, <2>2 DEF Written
<1>7. MsgKept
  <2> SUFFICES ASSUME msg # Null PROVE m'.data[msg.p] = m.data[msg.p]
    BY DEF MsgKept
  <2>1. msg.p \in Frame \ {ZeroFrame} /\ O(m, msg.p) = 0
    BY DEF CowInv
  <2>2. Extra[msg.p] > 0
    BY <2>1, ExtraKept, PageManAssumption
  <2>3. msg.p # p
    BY <1>1, <1>2, <2>1, <2>2, NoOwner
  <2> QED BY <1>3, <1>4, <2>1, <2>2, <2>3
<1> QED BY <1>5, <1>6, <1>7

LEMMA StoreStep ==
  ASSUME BaseInv, NEW a \in AS, NEW va \in VA, NEW c \in Value, Store(a, va, c)
  PROVE  BaseInv' /\ (CowInv => CowInv' /\ Written(a, c) /\ MsgKept)
<1> DEFINE k == <<a, va>>
<1>1. /\ m.pte[k].w /\ m' = [m EXCEPT !.data[m.pte[k].p] = c]
      /\ UNCHANGED <<vma, creator, live, msg>>
  BY DEF Store
<1>2. k \in Key /\ Base(m, Extra) /\ Extra \in Extras /\ Extra[ZeroFrame] >= 1
      /\ (CowInv => Cow(m, Extra, vma))
  BY ExtraType DEF Key
<1>3. PICK nn : nn = [m EXCEPT !.data[m.pte[k].p] = c] /\ m' = nn
  BY <1>1
<1>4. Base(nn, Extra) /\ nn.pe = m.pe
  BY <1>2, <1>3, DataOnly
<1>5. BaseInv'
  <2>1. /\ vma \in [Key -> {"none", "ro", "rw"}] /\ creator \in [AS -> AS \cup {Null}]
        /\ live \in SUBSET AS /\ \A o \in Key : vma[o] = "none" => m.pe[o].p = Null
        /\ \A o \in Key : o[1] \notin live => vma[o] = "none"
    BY DEF BaseInv
  <2> QED BY <1>1, <1>3, <1>4, <2>1, BaseRest
<1>6. ASSUME CowInv
      PROVE  CowInv' /\ Written(a, c) /\ MsgKept
  <2>1. m.pte[k].p # Null /\ m.snap[m.pte[k].p] = 0 /\ m.pte[k].p \in {Null, m.pe[k].p}
    BY <1>1, <1>2, <1>6 DEF CowInv, ReadOnly, Base, Follows
  <2>2. m.pe[k].p = m.pte[k].p /\ m.pe[k].p \in Frame
    BY <1>2, <2>1 DEF Base, Rec, Entry
  <2> QED BY <1>1, <1>2, <1>6, <2>1, <2>2, WriteStep
<1> QED BY <1>5, <1>6

(* A reference that is not an entry's, taken and given back. *)
LEMMA ExtraTaken ==
  ASSUME NEW x \in Extras, NEW p \in Frame, x[p] = 0
  PROVE  \E y \in Extras : /\ y = [x EXCEPT ![p] = 1] /\ y[p] = 1
                           /\ [y EXCEPT ![p] = @ - 1] = x
                           /\ \A q \in Frame : q # p => y[q] = x[q]
<1>1. x \in [Frame -> 0 .. 3]
  BY DEF Extras
<1>2. PICK y : y = [x EXCEPT ![p] = 1]
  OBVIOUS
<1>3. y \in [Frame -> 0 .. 3] /\ y[p] = 1 /\ \A q \in Frame : q # p => y[q] = x[q]
  BY <1>1, <1>2
<1>4. PICK z : z = [y EXCEPT ![p] = @ - 1]
  OBVIOUS
<1>5. z = [q \in Frame |-> x[q]]
  <2>1. z = [q \in Frame |-> IF q = p THEN y[q] - 1 ELSE y[q]]
    BY <1>3, <1>4
  <2>2. \A q \in Frame : (IF q = p THEN y[q] - 1 ELSE y[q]) = x[q]
    BY <1>3
  <2> QED BY <2>1, <2>2
<1>6. z = x
  BY <1>1, <1>5
<1> QED BY <1>2, <1>3, <1>4, <1>6 DEF Extras

LEMMA CopyToUserStep ==
  ASSUME BaseInv, NEW a \in AS, NEW va \in VA, NEW c \in Value, NEW p \in Free(m),
         CopyToUser(a, va, c, p)
  PROVE  BaseInv' /\ (CowInv => CowInv' /\ Written(a, c) /\ MsgKept)
<1> DEFINE k == <<a, va>>
<1>1. k \in Key /\ Base(m, Extra) /\ Extra \in Extras /\ Extra[ZeroFrame] >= 1
      /\ (CowInv => Cow(m, Extra, vma)) /\ p \in Frame /\ m.ref[p] = 0
  BY ExtraType DEF Key, Free
<1>2. O(m, p) = 0 /\ Extra[p] = 0 /\ p # ZeroFrame /\ m \in Rec
  BY <1>1, FreeFrame DEF Base
<1>3. PICK mm : mm = IF m.pe[k].p = Null
                     THEN PageUnref(AssignPage(NewPage(m, p, Zero), k, p, "SHARED"), p)
                     ELSE IF m.snap[m.pe[k].p] # 0 THEN UnsharePage(m, k, p) ELSE m
  OBVIOUS
<1>4. /\ vma[k] # "none" /\ m' = [mm EXCEPT !.data[mm.pe[k].p] = c]
      /\ UNCHANGED <<vma, creator, live, msg>>
  BY <1>3 DEF CopyToUser
<1>5. /\ Base(mm, Extra) /\ mm.pe[k].p \in Frame
      /\ CowInv => Cow(mm, Extra, vma) /\ mm.snap[mm.pe[k].p] = 0
      /\ \A o \in Key : Cont(mm, o) = Cont(m, o)
      /\ \A q \in Frame : Extra[q] > 0 => mm.data[q] = m.data[q]
      /\ \A o \in Key : mm.pe[o].p \in {m.pe[o].p, p}
      /\ \A o \in Key : o # k /\ m.pe[o].p = Null => mm.pe[o].p = Null
  <2>1. CASE m.pe[k].p = Null
    <3>1. PICK m1 : m1 = NewPage(m, p, Zero)
      OBVIOUS
    <3>2. PICK m2 : m2 = AssignPage(m1, k, p, "SHARED")
      OBVIOUS
    <3>3. mm = PageUnref(m2, p)
      BY <1>3, <2>1, <3>1, <3>2
    <3>4. PICK x \in Extras : /\ x = [Extra EXCEPT ![p] = 1] /\ x[p] = 1
                               /\ [x EXCEPT ![p] = @ - 1] = Extra
                               /\ \A q \in Frame : q # p => x[q] = Extra[q]
      BY <1>1, <1>2, ExtraTaken
    <3>5. x[p] = 1 /\ x[ZeroFrame] >= 1 /\ [x EXCEPT ![p] = @ - 1] = Extra
      BY <1>1, <1>2, <3>4, PageManAssumption
    <3>6. Base(m1, x) /\ (CowInv => Cow(m1, x, vma))
      BY <1>1, <3>1, <3>4, NewBase, NewCow, PageManAssumption
    <3>7. m1 \in Rec /\ m1.pe = m.pe /\ m1.data[p] = Zero /\ m1.snap[p] = 0
          /\ (\A o \in Key : Cont(m1, o) = Cont(m, o))
          /\ \A q \in Frame \ {p} : m1.data[q] = m.data[q]
      <4>1. m1.snap[p] = 0
        BY <1>1, <1>2, <3>1 DEF NewPage, Rec
      <4>2. m1 \in Rec
        BY <3>6 DEF Base
      <4> QED BY <1>1, <3>1, <4>1, <4>2, NewData, PageManAssumption
    <3>8. O(m1, p) = 0
      BY <1>2, <3>7 DEF O, Owners
    <3>9. Base(m2, x) /\ (CowInv => Cow(m2, x, vma))
      BY <1>1, <1>2, <2>1, <3>2, <3>5, <3>6, <3>7, <3>8, AssignBase, OwnCow DEF PageFlag
    <3>10. Attached(m1, m2, k, p, "SHARED")
      BY <1>1, <2>1, <3>2, <3>7, PageAssigned DEF PageFlag
    <3>11. /\ m2.snap = m1.snap /\ m2.data = m1.data /\ m2.pe[k].p = p /\ Cont(m2, k) = m1.data[p]
           /\ \A o \in Key \ {k} : m2.pe[o] = m1.pe[o] /\ Cont(m2, o) = Cont(m1, o)
      <4>1. m2.snap = m1.snap
        BY <3>10 DEF Attached
      <4> QED BY <1>1, <2>1, <3>2, <3>7, <4>1, AssignData DEF PageFlag
    <3>12. Base(mm, Extra) /\ (CowInv => Cow(mm, Extra, vma))
      BY <1>1, <1>2, <3>3, <3>5, <3>9, UnrefBase, UnrefCow
    <3>13. /\ mm.pe = m2.pe /\ \A o \in Key : Cont(mm, o) = Cont(m2, o)
           /\ \A q \in Frame \ {p} : mm.data[q] = m2.data[q]
      BY <1>1, <3>3, <3>5, <3>9, UnrefData
    <3>14. mm.snap = m2.snap
      <4>1. m2 \in Rec
        BY <3>9 DEF Base
      <4> QED BY <3>3, <4>1 DEF PageUnref, Rec
    <3>15. Cont(m, k) = Zero
      BY <2>1 DEF Cont
    <3> QED BY <1>1, <1>2, <2>1, <3>7, <3>11, <3>12, <3>13, <3>14, <3>15
  <2>2. CASE m.pe[k].p # Null /\ m.snap[m.pe[k].p] # 0
    <3>1. m.pe[k].p \in Frame /\ mm = UnsharePage(m, k, p)
      BY <1>1, <1>2, <1>3, <2>2 DEF Rec, Entry
    <3>2. Base(mm, Extra) /\ mm.pe[k].p \in Frame
      BY <1>1, <3>1, UnshareBase
    <3>3. CowInv => Cow(mm, Extra, vma) /\ mm.snap[mm.pe[k].p] = 0
      BY <1>1, <2>2, <3>1, UnshareCow, UnshareSnap
    <3>4. /\ \A o \in Key : Cont(mm, o) = Cont(m, o)
          /\ \A q \in Frame : Extra[q] > 0 => mm.data[q] = m.data[q]
          /\ \A o \in Key : mm.pe[o].p = Null <=> m.pe[o].p = Null
      BY <1>1, <3>1, UnshareData
    <3>5. \A o \in Key : mm.pe[o].p \in {m.pe[o].p, p}
      BY <1>1, <3>1, UnshareOwners
    <3> QED BY <3>2, <3>3, <3>4, <3>5
  <2>3. CASE m.pe[k].p # Null /\ m.snap[m.pe[k].p] = 0
    <3>1. m.pe[k].p \in Frame /\ mm = m
      BY <1>1, <1>2, <1>3, <2>3 DEF Rec, Entry
    <3> QED BY <1>1, <2>3, <3>1
  <2> QED BY <2>1, <2>2, <2>3
<1>6. BaseInv'
  <2>1. /\ vma \in [Key -> {"none", "ro", "rw"}] /\ creator \in [AS -> AS \cup {Null}]
        /\ live \in SUBSET AS /\ \A o \in Key : vma[o] = "none" => m.pe[o].p = Null
        /\ \A o \in Key : o[1] \notin live => vma[o] = "none"
    BY DEF BaseInv
  <2>2. PICK nn : nn = [mm EXCEPT !.data[mm.pe[k].p] = c] /\ m' = nn
    BY <1>4
  <2>3. Base(nn, Extra) /\ nn.pe = mm.pe
    BY <1>1, <1>5, <2>2, DataOnly
  <2>4. \A o \in Key : vma[o] = "none" => nn.pe[o].p = Null
    BY <1>4, <1>5, <2>1, <2>3
  <2> QED BY <1>4, <2>1, <2>2, <2>3, <2>4, BaseRest
<1>7. ASSUME CowInv
      PROVE  CowInv' /\ Written(a, c) /\ MsgKept
  <2>1. \A o \in Key : mm.pe[o].p \in Frame /\ Extra[mm.pe[o].p] > 0
                         => mm.pe[o].p \in {m.pe[o].p, ZeroFrame}
    BY <1>2, <1>5
  <2> HIDE DEF k
  <2> QED BY <1>4, <1>5, <1>7, <2>1, WriteStep DEF k
<1> QED BY <1>6, <1>7

LEMMA PageFaultStep ==
  ASSUME BaseInv, m.panic = "none", NEW a \in AS, NEW va \in VA, NEW write \in BOOLEAN,
         NEW p \in Free(m), PageFault(a, va, write, p)
  PROVE  BaseInv' /\ (CowInv => CowInv' /\ MsgKept /\ \A o \in Key : Cont(m', o) = Cont(m, o))
<1> DEFINE k == <<a, va>>
<1>1. k \in Key /\ Base(m, Extra) /\ Extra \in Extras /\ Extra[ZeroFrame] >= 1
      /\ (CowInv => Cow(m, Extra, vma)) /\ p \in Frame /\ m.ref[p] = 0
  BY ExtraType DEF Key, Free
<1>2. O(m, p) = 0 /\ Extra[p] = 0 /\ p # ZeroFrame /\ m \in Rec /\ m.pe[k].p # p
  BY <1>1, FreeFrame DEF Base
<1>3. PICK m1 : m1 = WithEntry(m, k)
  OBVIOUS
<1>4. PICK m2 : m2 = IF write /\ m1.snap[m1.pe[k].p] # 0 THEN UnsharePage(m1, k, p) ELSE m1
  OBVIOUS
<1>5. /\ vma[k] = "rw" \/ (vma[k] = "ro" /\ ~write)
      /\ m.pte[k].p = Null \/ (write /\ ~m.pte[k].w)
      /\ m' = IF m2.panic # "none" THEN m2 ELSE MapPage(m2, k)
      /\ UNCHANGED <<vma, creator, live, msg>>
  BY <1>3, <1>4 DEF PageFault
<1>6. /\ Base(m1, Extra) /\ m1.pe[k].p \in Frame /\ m1.ref[p] = 0 /\ m1.data = m.data
      /\ CowInv => Cow(m1, Extra, vma) /\ \A o \in Key : Cont(m1, o) = Cont(m, o)
      /\ m1.pe[k].p \in {m.pe[k].p, ZeroFrame} /\ \A o \in Key \ {k} : m1.pe[o] = m.pe[o]
      /\ \A o \in Key : m1.pte[o].p = m.pte[o].p
      /\ m.pe[k].p # Null => m1 = m
  <2>1. CASE m.pe[k].p # Null
    <3>1. m1 = m /\ m.pe[k].p \in Frame
      BY <1>1, <1>2, <1>3, <2>1 DEF WithEntry, Rec, Entry
    <3> QED BY <1>1, <3>1
  <2>2. CASE m.pe[k].p = Null
    <3>1. m1 = AssignPage(m, k, ZeroFrame, "SNAPSHOT") /\ ZeroFrame \in Frame /\ "SNAPSHOT" \in PageFlag
      BY <1>3, <2>2, PageManAssumption DEF WithEntry, PageFlag
    <3>2. m.ref[ZeroFrame] > 0
      BY <1>1, RefBound, PageManAssumption
    <3>3. Base(m1, Extra) /\ (CowInv => Cow(m1, Extra, vma))
      BY <1>1, <2>2, <3>1, <3>2, AssignBase, AssignCow
    <3>4. /\ m1.data = m.data /\ m1.pe[k].p = ZeroFrame /\ Cont(m1, k) = m.data[ZeroFrame]
          /\ \A o \in Key \ {k} : m1.pe[o] = m.pe[o] /\ Cont(m1, o) = Cont(m, o)
          /\ \A o \in Key : m1.pte[o].p = m.pte[o].p
      BY <1>1, <1>2, <2>2, <3>1, AssignData
    <3>5. CowInv => m.data[ZeroFrame] = Zero
      BY DEF CowInv, ZeroSound
    <3>6. Cont(m, k) = Zero
      BY <2>2 DEF Cont
    <3>7. Attached(m, m1, k, ZeroFrame, "SNAPSHOT")
      BY <1>1, <1>2, <2>2, <3>1, PageAssigned
    <3>8. m1.ref[p] = 0
      BY <1>1, <1>2, <3>7 DEF Attached, Rec
    <3> QED BY <2>2, <3>1, <3>3, <3>4, <3>5, <3>6, <3>8
  <2> QED BY <2>1, <2>2
<1>7. /\ Base(m2, Extra) /\ m2.pe[k].p \in Frame
      /\ CowInv => Cow(m2, Extra, vma) /\ \A o \in Key : Cont(m2, o) = Cont(m1, o)
      /\ \A q \in Frame : Extra[q] > 0 => m2.data[q] = m.data[q]
      /\ \A o \in Key : m2.pe[o].p \in {m1.pe[o].p, p} /\ (m1.pe[o].p = Null => m2.pe[o].p = Null)
      /\ CowInv => m2.pte[k].p = Null
  <2>1. CASE write /\ m1.snap[m1.pe[k].p] # 0
    <3>1. m2 = UnsharePage(m1, k, p)
      BY <1>4, <2>1
    <3>2. Base(m2, Extra) /\ m2.pe[k].p \in Frame
      BY <1>1, <1>6, <3>1, UnshareBase
    <3>3. CowInv => Cow(m2, Extra, vma) /\ m2.pte[k].p = Null
      BY <1>1, <1>6, <2>1, <3>1, UnshareCow
    <3>4. /\ \A o \in Key : Cont(m2, o) = Cont(m1, o)
          /\ \A q \in Frame : Extra[q] > 0 => m2.data[q] = m1.data[q]
          /\ \A o \in Key : m2.pe[o].p = Null <=> m1.pe[o].p = Null
      BY <1>1, <1>6, <3>1, UnshareData
    <3>5. \A o \in Key : m2.pe[o].p \in {m1.pe[o].p, p}
      BY <1>1, <1>6, <3>1, UnshareOwners
    <3> QED BY <1>6, <3>2, <3>3, <3>4, <3>5
  <2>2. CASE ~(write /\ m1.snap[m1.pe[k].p] # 0)
    <3>1. m2 = m1
      BY <1>4, <2>2
    <3>2. ASSUME CowInv, m.pte[k].p # Null PROVE FALSE
      <4>1. write /\ ~m.pte[k].w /\ vma[k] = "rw"
        BY <1>5, <3>2
      <4>2. m.snap[m.pte[k].p] # 0
        BY <1>1, <3>2, <4>1 DEF CowInv, Writable
      <4>3. m.pe[k].p = m.pte[k].p
        BY <1>1, <3>2 DEF Base, Follows
      <4> QED BY <1>6, <2>2, <3>2, <4>1, <4>2, <4>3
    <3> QED BY <1>1, <1>6, <3>1, <3>2
  <2> QED BY <2>1, <2>2
<1>8. PICK nn : nn = IF m2.panic # "none" THEN m2 ELSE MapPage(m2, k)
  OBVIOUS
<1>9. /\ Base(nn, Extra) /\ (CowInv => Cow(nn, Extra, vma)) /\ nn.data = m2.data
      /\ \A o \in Key : nn.pe[o].p = m2.pe[o].p /\ Cont(nn, o) = Cont(m2, o)
  <2>1. CASE m2.panic # "none"
    BY <1>7, <1>8, <2>1
  <2>2. CASE m2.panic = "none"
    <3>1. nn = MapPage(m2, k)
      BY <1>8, <2>2
    <3>2. Base(nn, Extra)
      BY <1>1, <1>7, <3>1, MapBase
    <3>3. CowInv => Cow(nn, Extra, vma)
      BY <1>1, <1>7, <2>2, <3>1, MapCow
    <3> QED BY <1>1, <1>7, <3>1, <3>2, <3>3, MapData
  <2> QED BY <2>1, <2>2
<1>10. m' = nn
  BY <1>5, <1>8
<1>11. BaseInv'
  <2>1. /\ vma \in [Key -> {"none", "ro", "rw"}] /\ creator \in [AS -> AS \cup {Null}]
        /\ live \in SUBSET AS /\ \A o \in Key : vma[o] = "none" => m.pe[o].p = Null
        /\ \A o \in Key : o[1] \notin live => vma[o] = "none"
    BY DEF BaseInv
  <2>2. \A o \in Key : vma[o] = "none" => nn.pe[o].p = Null
    BY <1>5, <1>6, <1>7, <1>9, <2>1
  <2> QED BY <1>5, <1>9, <1>10, <2>1, <2>2, BaseRest
<1>12. ASSUME CowInv
       PROVE  CowInv' /\ MsgKept /\ \A o \in Key : Cont(m', o) = Cont(m, o)
  <2>1. \A o \in Key : nn.pe[o].p \in Frame /\ Extra[nn.pe[o].p] > 0
                         => nn.pe[o].p \in {m.pe[o].p, ZeroFrame}
    <3>1. \A o \in Key : nn.pe[o].p \in {m1.pe[o].p, p}
      BY <1>7, <1>9
    <3>2. \A o \in Key : m1.pe[o].p \in {m.pe[o].p, ZeroFrame}
      BY <1>6
    <3> QED BY <1>2, <3>1, <3>2
  <2>2. CowInv'
    BY <1>5, <1>9, <1>10, <1>12, <2>1, CowRest
  <2>3. MsgKept
    BY <1>5, <1>7, <1>9, <1>10, ExtraKept DEF MsgKept
  <2> QED BY <1>6, <1>7, <1>9, <1>10, <1>12, <2>2, <2>3
<1> QED BY <1>11, <1>12

LEMMA MunmapStep ==
  ASSUME BaseInv, NEW a \in AS, NEW va \in VA, Munmap(a, va)
  PROVE  /\ BaseInv' /\ (CowInv => CowInv') /\ MsgKept
         /\ \A o \in Key : Cont(m', o) = IF o = <<a, va>> THEN Zero ELSE Cont(m, o)
<1> DEFINE k == <<a, va>>
<1>1. k \in Key /\ Base(m, Extra) /\ Extra \in Extras /\ Extra[ZeroFrame] >= 1
      /\ (CowInv => Cow(m, Extra, vma))
  BY ExtraType DEF Key
<1>2. PICK nn : nn = UnassignPage(m, k) /\ m' = nn
  BY DEF Munmap
<1>3. vma' = [vma EXCEPT ![k] = "none"] /\ UNCHANGED <<creator, live, msg>>
  BY DEF Munmap
<1>4. Base(nn, Extra) /\ (CowInv => Cow(nn, Extra, vma))
  BY <1>1, <1>2, UnassignBase, UnassignCow
<1>5. /\ nn.pe[k].p = Null /\ Cont(nn, k) = Zero
      /\ \A o \in Key \ {k} : nn.pe[o] = m.pe[o] /\ Cont(nn, o) = Cont(m, o)
      /\ \A q \in Frame : Extra[q] > 0 => nn.data[q] = m.data[q]
  BY <1>1, <1>2, UnassignData
<1>6. /\ vma \in [Key -> {"none", "ro", "rw"}] /\ creator \in [AS -> AS \cup {Null}]
      /\ live \in SUBSET AS /\ \A o \in Key : vma[o] = "none" => m.pe[o].p = Null
      /\ \A o \in Key : o[1] \notin live => vma[o] = "none"
  BY DEF BaseInv
<1>7. /\ vma' \in [Key -> {"none", "ro", "rw"}] /\ vma'[k] = "none"
      /\ \A o \in Key \ {k} : vma'[o] = vma[o]
  BY <1>1, <1>3, <1>6
<1>8. BaseInv'
  <2>1. \A o \in Key : vma'[o] = "none" => nn.pe[o].p = Null
    BY <1>5, <1>6, <1>7
  <2>2. \A o \in Key : o[1] \notin live => vma'[o] = "none"
    BY <1>6, <1>7
  <2> QED BY <1>2, <1>3, <1>4, <1>6, <1>7, <2>1, <2>2, BaseRest
<1>9. ASSUME CowInv PROVE CowInv'
  <2>1. \A o \in Key : nn.pe[o].p \in Frame => nn.pe[o].p = m.pe[o].p
    BY <1>5, PageManAssumption
  <2>2. \A o \in Key : vma'[o] = "rw" => vma[o] = "rw"
    BY <1>7
  <2> QED BY <1>2, <1>3, <1>4, <1>9, <2>1, <2>2, CowRest
<1>10. MsgKept
  BY <1>2, <1>3, <1>5, ExtraKept DEF MsgKept
<1> QED BY <1>2, <1>5, <1>8, <1>9, <1>10

LEMMA AsNewStep ==
  ASSUME BaseInv, NEW a \in AS, NEW b \in AS, NEW snapshot \in BOOLEAN, AsNew(a, b, snapshot)
  PROVE  /\ BaseInv' /\ (CowInv => CowInv') /\ MsgKept /\ a # b
         /\ \A o \in Key : Cont(m', o) = IF snapshot /\ o[1] = b THEN Cont(m, <<a, o[2]>>)
                                         ELSE Cont(m, o)
<1>1. Base(m, Extra) /\ Extra \in Extras /\ (CowInv => Cow(m, Extra, vma))
  BY ExtraType
<1>2. /\ a \in live /\ b \notin live /\ live' = live \cup {b} /\ creator' = [creator EXCEPT ![b] = a]
      /\ UNCHANGED msg
  BY DEF AsNew, Running
<1>3. /\ vma \in [Key -> {"none", "ro", "rw"}] /\ creator \in [AS -> AS \cup {Null}]
      /\ live \in SUBSET AS /\ \A o \in Key : vma[o] = "none" => m.pe[o].p = Null
      /\ \A o \in Key : o[1] \notin live => vma[o] = "none"
  BY DEF BaseInv
<1>4. a # b /\ live' \in SUBSET AS /\ creator' \in [AS -> AS \cup {Null}]
  BY <1>2, <1>3
<1>5. \A va \in VA : <<a, va>> \in Key /\ <<b, va>> \in Key /\ m.pe[<<b, va>>].p = Null
  <2> SUFFICES ASSUME NEW va \in VA PROVE <<a, va>> \in Key /\ <<b, va>> \in Key /\ m.pe[<<b, va>>].p = Null
    OBVIOUS
  <2>1. <<a, va>> \in Key /\ <<b, va>> \in Key /\ <<b, va>>[1] = b
    BY DEF Key
  <2> QED BY <1>2, <1>3, <2>1
<1>6. \A o \in Key : o = <<o[1], o[2]>> /\ o[2] \in VA /\ o[1] \in AS
  BY DEF Key
<1>7. CASE snapshot
  <2>1. AsNew(a, b, TRUE)
    BY <1>7
  <2>2. PICK g : Loop(g, TRUE, m, a, b) /\ m' = g[VA]
    BY <2>1, AsNewLoop
  <2>3. vma' = [k \in Key |-> IF k[1] = b THEN vma[<<a, k[2]>>] ELSE vma[k]]
    BY <1>7 DEF AsNew
  <2>4. PICK nn : nn = g[VA]
    OBVIOUS
  <2>5. /\ Base(nn, Extra) /\ (CowInv => Cow(nn, Extra, vma))
        /\ \A va \in VA : nn.pe[<<b, va>>].p = m.pe[<<a, va>>].p
        /\ \A k \in Key : k[1] # b => nn.pe[k] = m.pe[k]
        /\ \A k \in Key : nn.pte[k].p = m.pte[k].p
        /\ nn.data = m.data
    <3>1. CopyDone(Extra, vma, m, g[VA], a, b)
      BY <1>1, <1>4, <1>5, <2>2, CopyLoop
    <3> QED BY <1>1, <2>4, <3>1 DEF CopyDone
  <2>6. vma' \in [Key -> {"none", "ro", "rw"}]
        /\ \A k \in Key : vma'[k] = IF k[1] = b THEN vma[<<a, k[2]>>] ELSE vma[k]
    BY <1>3, <1>5, <1>6, <2>3
  <2>7. \A k \in Key : nn.pe[k].p = IF k[1] = b THEN m.pe[<<a, k[2]>>].p ELSE m.pe[k].p
    BY <1>6, <2>5
  <2>8. BaseInv'
    <3>1. \A o \in Key : vma'[o] = "none" => nn.pe[o].p = Null
      BY <1>3, <1>5, <1>6, <2>6, <2>7
    <3>2. \A o \in Key : o[1] \notin live' => vma'[o] = "none"
      BY <1>2, <1>3, <2>6
    <3> QED BY <1>2, <1>4, <2>2, <2>4, <2>5, <2>6, <3>1, <3>2, BaseRest
  <2>9. ASSUME CowInv PROVE CowInv'
    <3>1. \A k \in Key : vma'[k] = "rw" /\ nn.pte[k].p # Null => vma[k] = "rw"
      <4> SUFFICES ASSUME NEW k \in Key, vma'[k] = "rw", nn.pte[k].p # Null, k[1] = b PROVE FALSE
        BY <2>6
      <4>1. m.pe[k].p = Null
        BY <1>5, <1>6
      <4>2. m.pte[k].p = Null
        BY <1>1, <4>1 DEF Base, Follows
      <4> QED BY <2>5, <4>2
    <3>2. \A k \in Key : nn.pe[k].p \in Frame => nn.pe[k].p = m.pe[k].p \/ O(m, nn.pe[k].p) > 0
      <4> SUFFICES ASSUME NEW k \in Key, nn.pe[k].p \in Frame, k[1] = b PROVE O(m, nn.pe[k].p) > 0
        BY <2>7
      <4>1. <<a, k[2]>> \in Key /\ nn.pe[k].p = m.pe[<<a, k[2]>>].p
        BY <1>5, <1>6, <2>7
      <4> QED BY <1>1, <4>1, RefBound, OwnerCounted
    <3> QED BY <1>2, <2>2, <2>4, <2>5, <2>9, <3>1, <3>2, CowRest
  <2>10. MsgKept
    BY <2>2, <2>4, <2>5 DEF MsgKept
  <2>11. \A o \in Key : Cont(nn, o) = IF o[1] = b THEN Cont(m, <<a, o[2]>>) ELSE Cont(m, o)
    BY <2>5, <2>7 DEF Cont
  <2> QED BY <1>4, <1>7, <2>2, <2>4, <2>8, <2>9, <2>10, <2>11
<1>8. CASE ~snapshot
  <2>1. vma' = vma /\ m' = m
    BY <1>8 DEF AsNew
  <2>2. \A o \in Key : o[1] \notin live' => vma[o] = "none"
    BY <1>2, <1>3
  <2>3. BaseInv'
    BY <1>1, <1>2, <1>3, <1>4, <2>1, <2>2, BaseRest
  <2>4. ASSUME CowInv PROVE CowInv'
    BY <1>1, <1>2, <2>1, <2>4, CowRest
  <2> QED BY <1>4, <1>8, <2>1, <2>3, <2>4 DEF MsgKept
<1> QED BY <1>7, <1>8

LEMMA DestroyStep ==
  ASSUME BaseInv, NEW a \in AS, NEW held \in [AS -> AS \cup {Null}], DestroyAs(a, held)
  PROVE  /\ BaseInv' /\ (CowInv => CowInv') /\ MsgKept
         /\ \A o \in Key : Cont(m', o) = IF o[1] = a THEN Zero ELSE Cont(m, o)
<1>1. Base(m, Extra) /\ Extra \in Extras /\ Extra[ZeroFrame] >= 1 /\ (CowInv => Cow(m, Extra, vma))
  BY ExtraType
<1>2. /\ vma' = [k \in Key |-> IF k[1] = a THEN "none" ELSE vma[k]]
      /\ live' = live \ {a}
      /\ creator' = [c \in AS |-> IF c = a THEN Null ELSE held[c]]
      /\ UNCHANGED msg
  BY DEF DestroyAs
<1>3. /\ vma \in [Key -> {"none", "ro", "rw"}] /\ creator \in [AS -> AS \cup {Null}]
      /\ live \in SUBSET AS /\ \A o \in Key : vma[o] = "none" => m.pe[o].p = Null
      /\ \A o \in Key : o[1] \notin live => vma[o] = "none"
  BY DEF BaseInv
<1>4. PICK g : Loop(g, FALSE, m, a, a) /\ m' = g[VA]
  BY DestroyLoop
<1>5. PICK nn : nn = g[VA]
  OBVIOUS
<1>6. /\ Base(nn, Extra) /\ (CowInv => Cow(nn, Extra, vma))
      /\ \A va \in VA : nn.pe[<<a, va>>].p = Null
      /\ \A k \in Key : k[1] # a => nn.pe[k] = m.pe[k] /\ Cont(nn, k) = Cont(m, k)
      /\ \A q \in Frame : Extra[q] > 0 => nn.data[q] = m.data[q]
  <2>1. DropDone(Extra, vma, m, g[VA], a)
    BY <1>1, <1>4, DropLoop
  <2> QED BY <1>1, <1>5, <2>1 DEF DropDone
<1>7. \A o \in Key : o = <<o[1], o[2]>> /\ o[2] \in VA
  BY DEF Key
<1>8. \A k \in Key : k[1] = a => nn.pe[k].p = Null
  BY <1>6, <1>7
<1>9. /\ vma' \in [Key -> {"none", "ro", "rw"}] /\ live' \in SUBSET AS
      /\ creator' \in [AS -> AS \cup {Null}]
      /\ \A k \in Key : vma'[k] = IF k[1] = a THEN "none" ELSE vma[k]
  BY <1>2, <1>3
<1>10. BaseInv'
  <2>1. \A o \in Key : vma'[o] = "none" => nn.pe[o].p = Null
    BY <1>3, <1>6, <1>8, <1>9
  <2>2. \A o \in Key : o[1] \notin live' => vma'[o] = "none"
    BY <1>2, <1>3, <1>9
  <2> QED BY <1>2, <1>4, <1>5, <1>6, <1>9, <2>1, <2>2, BaseRest
<1>11. ASSUME CowInv PROVE CowInv'
  <2>1. \A o \in Key : nn.pe[o].p \in Frame => nn.pe[o].p = m.pe[o].p
    BY <1>6, <1>8, PageManAssumption
  <2>2. \A o \in Key : vma'[o] = "rw" => vma[o] = "rw"
    BY <1>9
  <2> QED BY <1>2, <1>4, <1>5, <1>6, <1>11, <2>1, <2>2, CowRest
<1>12. MsgKept
  BY <1>2, <1>4, <1>5, <1>6, ExtraKept DEF MsgKept
<1>13. \A o \in Key : Cont(nn, o) = IF o[1] = a THEN Zero ELSE Cont(m, o)
  <2>1. \A o \in Key : o[1] = a => Cont(nn, o) = Zero
    BY <1>8 DEF Cont
  <2> QED BY <1>6, <2>1
<1> QED BY <1>4, <1>5, <1>10, <1>11, <1>12, <1>13

LEMMA SendPageStep ==
  ASSUME BaseInv, NEW a \in AS, NEW b \in AS, NEW src \in VA \cup {Null}, NEW dst \in VA,
         SendPage(a, src, b, dst)
  PROVE  /\ BaseInv' /\ (CowInv => CowInv') /\ MsgKept
         /\ \/ m' = m
            \/ /\ src \in VA
               /\ \A o \in Key : Cont(m', o) = IF o = <<b, dst>> THEN Cont(m, <<a, src>>)
                                               ELSE Cont(m, o)
<1> DEFINE k == <<b, dst>>
<1>1. k \in Key /\ Base(m, Extra) /\ Extra \in Extras /\ Extra[ZeroFrame] >= 1
      /\ (CowInv => Cow(m, Extra, vma)) /\ m \in Rec
  BY ExtraType DEF Key, Base
<1>2. PICK p : p = m.pe[<<a, src>>].p
  OBVIOUS
<1>3. /\ a \in live /\ b \in live /\ vma[k] = "none"
      /\ src # Null => vma[<<a, src>>] # "none"
      /\ vma' = [vma EXCEPT ![k] = "rw"] /\ UNCHANGED <<creator, live, msg>>
      /\ m' = IF src = Null \/ p = Null THEN m ELSE AssignPage(m, k, p, "SNAPSHOT")
  BY <1>2 DEF SendPage, Running
<1>4. /\ vma \in [Key -> {"none", "ro", "rw"}] /\ creator \in [AS -> AS \cup {Null}]
      /\ live \in SUBSET AS /\ \A o \in Key : vma[o] = "none" => m.pe[o].p = Null
      /\ \A o \in Key : o[1] \notin live => vma[o] = "none"
  BY DEF BaseInv
<1>5. /\ vma' \in [Key -> {"none", "ro", "rw"}] /\ vma'[k] = "rw"
      /\ (\A o \in Key \ {k} : vma'[o] = vma[o]) /\ m.pe[k].p = Null /\ m.pte[k].p = Null
  BY <1>1, <1>3, <1>4 DEF Base, Follows
<1>6. \A o \in Key : o[1] \notin live => vma'[o] = "none"
  <2>1. k[1] = b
    OBVIOUS
  <2> HIDE DEF k
  <2> QED BY <1>3, <1>4, <1>5, <2>1
<1>7. CASE src = Null \/ p = Null
  <2>1. m' = m
    BY <1>3, <1>7
  <2>2. \A o \in Key : vma'[o] = "none" => m.pe[o].p = Null
    BY <1>4, <1>5
  <2>3. \A o \in Key : vma'[o] = "rw" /\ m.pte[o].p # Null => vma[o] = "rw"
    BY <1>5
  <2>4. BaseInv'
    BY <1>1, <1>3, <1>4, <1>5, <1>6, <2>1, <2>2, BaseRest
  <2>5. ASSUME CowInv PROVE CowInv'
    BY <1>1, <1>3, <2>1, <2>3, <2>5, CowRest
  <2> QED BY <2>1, <2>4, <2>5 DEF MsgKept
<1>8. CASE src # Null /\ p # Null
  <2>1. PICK nn : nn = AssignPage(m, k, p, "SNAPSHOT")
    OBVIOUS
  <2>2. m' = nn /\ src \in VA /\ <<a, src>> \in Key
    BY <1>3, <1>8, <2>1 DEF Key
  <2>3. p \in Frame
    BY <1>1, <1>2, <1>8, <2>2 DEF Rec, Entry
  <2>4. m.ref[p] > 0 /\ O(m, p) > 0
    BY <1>1, <1>2, <2>2, <2>3, RefBound, OwnerCounted
  <2>5. "SNAPSHOT" \in PageFlag
    BY DEF PageFlag
  <2>6. Base(nn, Extra) /\ (CowInv => Cow(nn, Extra, vma))
    BY <1>1, <1>5, <2>1, <2>3, <2>4, <2>5, AssignBase, AssignCow
  <2>7. /\ nn.data = m.data /\ nn.pe[k].p = p /\ Cont(nn, k) = m.data[p]
        /\ \A o \in Key \ {k} : nn.pe[o] = m.pe[o] /\ Cont(nn, o) = Cont(m, o)
        /\ \A o \in Key : nn.pte[o].p = m.pte[o].p
    BY <1>1, <1>5, <2>1, <2>3, <2>5, AssignData
  <2>8. \A o \in Key : vma'[o] = "none" => nn.pe[o].p = Null
    BY <1>4, <1>5, <2>7
  <2>9. \A o \in Key : vma'[o] = "rw" /\ nn.pte[o].p # Null => vma[o] = "rw"
    BY <1>5, <2>7
  <2>10. BaseInv'
    BY <1>3, <1>4, <1>5, <1>6, <2>2, <2>6, <2>8, BaseRest
  <2>11. ASSUME CowInv PROVE CowInv'
    <3>1. \A o \in Key : nn.pe[o].p \in Frame => nn.pe[o].p = m.pe[o].p \/ O(m, nn.pe[o].p) > 0
      BY <2>4, <2>7
    <3> QED BY <1>3, <2>2, <2>6, <2>9, <2>11, <3>1, CowRest
  <2>12. Cont(m, <<a, src>>) = m.data[p]
    BY <1>2, <1>8 DEF Cont
  <2>13. MsgKept
    BY <2>2, <2>7 DEF MsgKept
  <2> HIDE DEF k
  <2>14. \A o \in Key : Cont(m', o) = IF o = k THEN Cont(m, <<a, src>>) ELSE Cont(m, o)
    BY <2>2, <2>7, <2>12
  <2> QED BY <2>2, <2>10, <2>11, <2>13, <2>14 DEF k
<1> QED BY <1>7, <1>8

LEMMA CreateTaskStep ==
  ASSUME BaseInv, NEW b \in AS, CreateTask(b)
  PROVE  BaseInv' /\ (CowInv => CowInv') /\ m' = m /\ msg' = msg
<1>1. Base(m, Extra) /\ (CowInv => Cow(m, Extra, vma))
  BY ExtraType
<1>2. creator' = [creator EXCEPT ![b] = Null] /\ UNCHANGED <<m, vma, live, msg>>
  BY DEF CreateTask
<1>3. BaseInv'
  BY <1>1, <1>2, BaseRest DEF BaseInv
<1>4. ASSUME CowInv PROVE CowInv'
  BY <1>1, <1>2, <1>4, CowRest
<1> QED BY <1>2, <1>3, <1>4

(* The message in flight is a reference to its page. *)
LEMMA ExtraSent ==
  ASSUME BaseInv, msg = Null, msg' \in Entry
  PROVE  /\ msg' # Null
         /\ msg'.p = Null => Extra' = Extra
         /\ msg'.p \in Frame => /\ Extra' \in Extras /\ Extra'[msg'.p] = Extra[msg'.p] + 1
                                /\ \A q \in Frame : q # msg'.p => Extra'[q] = Extra[q]
<1>1. msg' # Null
  BY MsgAssumption DEF Entry, MsgPage
<1>2. \A q \in Frame : Extra[q] = One(q = ZeroFrame)
  BY DEF Extra, InMsg, One
<1>3. Extra' = [q \in Frame |-> (IF msg'.p = q THEN 1 ELSE 0) + One(q = ZeroFrame)]
  BY <1>1 DEF Extra, InMsg
<1>4. Extra = [q \in Frame |-> One(q = ZeroFrame)]
  BY DEF Extra, InMsg, One
<1>5. CASE msg'.p = Null
  BY <1>1, <1>3, <1>4, <1>5, PageManAssumption DEF One
<1>6. CASE msg'.p \in Frame
  BY <1>1, <1>2, <1>3, <1>6, PageManAssumption DEF One, Extras
<1> QED BY <1>1, <1>5, <1>6

LEMMA MapFromUserStep ==
  ASSUME BaseInv, NEW a \in AS, NEW va \in VA, NEW size \in {"part", "whole"},
         NEW p \in Free(m), MapFromUser(a, va, size, p)
  PROVE  /\ BaseInv'
         /\ size = "part" /\ CowInv =>
              /\ CowInv' /\ msg = Null /\ msg' # Null /\ msg'.p # Null
              /\ m'.data[msg'.p] = Cont(m, <<a, va>>)
              /\ \A o \in Key : Cont(m', o) = Cont(m, o)
<1> DEFINE k == <<a, va>>
<1>1. k \in Key /\ Base(m, Extra) /\ Extra \in Extras /\ Extra[ZeroFrame] >= 1
      /\ (CowInv => Cow(m, Extra, vma)) /\ p \in Frame /\ m.ref[p] = 0 /\ m \in Rec
  BY ExtraType DEF Key, Free, Base
<1>2. O(m, p) = 0 /\ Extra[p] = 0 /\ p # ZeroFrame
  BY <1>1, FreeFrame
<1>3. msg = Null /\ UNCHANGED <<vma, creator, live>>
  BY DEF MapFromUser
<1>4. m.pe[k].p \in Frame \cup {Null} /\ m.data \in [Frame -> Value]
  BY <1>1 DEF Rec, Entry
<1>5. ASSUME m' \in Rec, Counted(m', Extra'), Follows(m'), msg' \in Entry, m'.pe = m.pe
      PROVE  BaseInv'
  BY <1>3, <1>5 DEF BaseInv
<1>6. CASE size = "part"
  <2>1. PICK c : c = IF m.pe[k].p = Null THEN Zero ELSE m.data[m.pe[k].p]
    OBVIOUS
  <2>2. c \in Value /\ c = Cont(m, k)
    BY <1>4, <2>1, PageManAssumption DEF Cont
  <2>3. msg' = [p |-> p, flag |-> "SHARED"] /\ m' = NewPage(m, p, c)
    BY <1>6, <2>1 DEF MapFromUser
  <2>4. msg'.p = p /\ msg'.flag = "SHARED" /\ msg' \in Entry
    BY <1>1, <2>3 DEF Entry, PageFlag
  <2>5. PICK x \in Extras : /\ x = [Extra EXCEPT ![p] = 1] /\ x[p] = 1
                            /\ \A q \in Frame : q # p => x[q] = Extra[q]
    BY <1>1, <1>2, ExtraTaken
  <2>6. /\ msg' # Null /\ Extra' \in Extras /\ Extra'[p] = Extra[p] + 1
        /\ \A q \in Frame : q # p => Extra'[q] = Extra[q]
    BY <1>1, <1>3, <2>4, ExtraSent
  <2>7. Extra' = x
    <3>1. \A q \in Frame : Extra'[q] = x[q]
      BY <1>2, <2>5, <2>6
    <3>2. PICK y : y = Extra'
      OBVIOUS
    <3>3. x \in [Frame -> 0 .. 3] /\ y \in [Frame -> 0 .. 3] /\ \A q \in Frame : y[q] = x[q]
      BY <2>6, <3>1, <3>2 DEF Extras
    <3>4. y = x
      BY <3>3
    <3> QED BY <3>2, <3>4
  <2>8. Base(m', x) /\ (CowInv => Cow(m', x, vma))
    BY <1>1, <2>2, <2>3, <2>5, NewBase, NewCow
  <2>9. /\ m'.pe = m.pe /\ m'.data[p] = c
        /\ \A o \in Key : Cont(m', o) = Cont(m, o)
    BY <1>1, <2>2, <2>3, NewData
  <2>10. BaseInv'
    BY <1>5, <2>4, <2>7, <2>8, <2>9 DEF Base
  <2>11. O(m', p) = 0
    BY <1>2, <2>9 DEF O, Owners
  <2>12. ASSUME CowInv PROVE CowInv'
    <3>1. Cow(m', Extra', vma')
      BY <1>3, <2>7, <2>8, <2>12
    <3> QED BY <1>1, <1>2, <2>4, <2>11, <3>1 DEF Cow, CowInv
  <2> QED BY <1>1, <1>3, <2>2, <2>4, <2>6, <2>9, <2>10, <2>12, PageManAssumption
<1>7. CASE size = "whole"
  <2>1. PICK q : q = m.pe[k].p
    OBVIOUS
  <2>2. /\ msg' = [p |-> q, flag |-> "SNAPSHOT"]
        /\ m' = IF q = Null THEN m ELSE [m EXCEPT !.ref[q] = @ + 1, !.snap[q] = @ + 1]
    BY <1>7, <2>1 DEF MapFromUser
  <2>3. msg'.p = q /\ msg' \in Entry
    BY <1>4, <2>1, <2>2 DEF Entry, PageFlag
  <2>4. CASE q = Null
    <3>1. m' = m /\ Extra' = Extra
      BY <1>3, <2>2, <2>3, <2>4, ExtraSent
    <3> QED BY <1>1, <1>5, <1>7, <2>3, <3>1 DEF Base
  <2>5. CASE q \in Frame
    <3>1. /\ Extra'[q] = Extra[q] + 1 /\ \A f \in Frame : f # q => Extra'[f] = Extra[f]
      BY <1>3, <2>3, <2>5, ExtraSent
    <3>2. PICK ref, snap : ref = [m.ref EXCEPT ![q] = @ + 1] /\ snap = [m.snap EXCEPT ![q] = @ + 1]
      OBVIOUS
    <3>3. ref \in [Frame -> Nat] /\ snap \in [Frame -> Nat]
          /\ ref[q] = m.ref[q] + 1 /\ \A f \in Frame : f # q => ref[f] = m.ref[f]
      BY <1>1, <2>5, <3>2 DEF Rec
    <3>4. m' = [m EXCEPT !.ref = ref, !.snap = snap]
      BY <1>1, <2>2, <2>5, <3>2, PageManAssumption DEF Rec
    <3>5. m' \in Rec /\ m'.pe = m.pe /\ m'.pte = m.pte /\ m'.ref = ref
      BY <1>1, <3>3, <3>4 DEF Rec
    <3>6. \A f \in Frame : O(m', f) = O(m, f) /\ m.ref[f] = O(m, f) + Extra[f] /\ O(m, f) \in Nat
                           /\ Extra[f] \in 0 .. 3
      <4>1. \A f \in Frame : O(m', f) = O(m, f)
        BY <3>5 DEF O, Owners
      <4> QED BY <1>1, <4>1, RefBound
    <3>7. Counted(m', Extra')
      BY <3>1, <3>3, <3>5, <3>6 DEF Counted
    <3>8. Follows(m')
      BY <1>1, <3>5 DEF Base, Follows
    <3> QED BY <1>5, <1>7, <2>3, <3>5, <3>7, <3>8
  <2> QED BY <1>4, <2>1, <2>4, <2>5
<1> QED BY <1>6, <1>7

(* The message is received: its reference goes. *)
LEMMA ExtraReceived ==
  ASSUME BaseInv, msg # Null, msg' = Null
  PROVE  /\ msg.p = Null => Extra' = Extra
         /\ msg.p \in Frame => Extra[msg.p] >= 1 /\ Extra' = [Extra EXCEPT ![msg.p] = @ - 1]
<1>1. Extra' = [q \in Frame |-> One(q = ZeroFrame)]
  BY DEF Extra, InMsg, One
<1>2. Extra = [q \in Frame |-> (IF msg.p = q THEN 1 ELSE 0) + One(q = ZeroFrame)]
  BY DEF Extra, InMsg
<1>3. CASE msg.p = Null
  BY <1>1, <1>2, <1>3, PageManAssumption DEF One
<1>4. CASE msg.p \in Frame
  <2>1. Extra[msg.p] >= 1
    BY <1>2, <1>4 DEF One
  <2>2. PICK y : y = [Extra EXCEPT ![msg.p] = @ - 1]
    OBVIOUS
  <2>3. y = [q \in Frame |-> IF q = msg.p THEN Extra[q] - 1 ELSE Extra[q]]
    BY <1>2, <1>4, <2>2
  <2>4. \A q \in Frame : (IF q = msg.p THEN Extra[q] - 1 ELSE Extra[q]) = One(q = ZeroFrame)
    BY <1>2, <1>4 DEF One
  <2>5. y = [q \in Frame |-> One(q = ZeroFrame)]
    BY <2>3, <2>4
  <2> QED BY <1>1, <1>4, <2>1, <2>2, <2>5, PageManAssumption
<1> QED BY <1>3, <1>4

LEMMA MapToUserStep ==
  ASSUME BaseInv, NEW b \in AS, NEW dst \in VA, MapToUser(b, dst)
  PROVE  /\ BaseInv'
         /\ CowInv =>
              /\ CowInv' /\ msg # Null /\ msg.p # Null /\ msg' = Null
              /\ \A o \in Key : Cont(m', o) = IF o = <<b, dst>> THEN m.data[msg.p] ELSE Cont(m, o)
<1> DEFINE k == <<b, dst>>
<1>1. k \in Key /\ Base(m, Extra) /\ Extra \in Extras /\ Extra[ZeroFrame] >= 1
      /\ (CowInv => Cow(m, Extra, vma)) /\ m \in Rec
  BY ExtraType DEF Key, Base
<1>2. PICK m1 : m1 = IF msg.p = Null THEN m ELSE AssignPage(m, k, msg.p, "SNAPSHOT")
  OBVIOUS
<1>3. /\ b \in live /\ msg # Null /\ vma[k] = "none" /\ vma' = [vma EXCEPT ![k] = "rw"]
      /\ m' = PageListFree(m1, msg) /\ msg' = Null /\ UNCHANGED <<creator, live>>
  BY <1>2 DEF MapToUser, Running
<1>4. /\ vma \in [Key -> {"none", "ro", "rw"}] /\ creator \in [AS -> AS \cup {Null}]
      /\ live \in SUBSET AS /\ \A o \in Key : vma[o] = "none" => m.pe[o].p = Null
      /\ (\A o \in Key : o[1] \notin live => vma[o] = "none") /\ msg \in Entry
  BY <1>3 DEF BaseInv
<1>5. /\ vma' \in [Key -> {"none", "ro", "rw"}] /\ vma'[k] = "rw"
      /\ (\A o \in Key \ {k} : vma'[o] = vma[o]) /\ m.pe[k].p = Null /\ m.pte[k].p = Null
  BY <1>1, <1>3, <1>4 DEF Base, Follows
<1>6. \A o \in Key : o[1] \notin live => vma'[o] = "none"
  <2>1. k[1] = b
    OBVIOUS
  <2> HIDE DEF k
  <2> QED BY <1>3, <1>4, <1>5, <2>1
<1>7. ASSUME Base(m', Extra'), \A o \in Key \ {k} : m'.pe[o] = m.pe[o]
      PROVE  BaseInv'
  <2>1. m' \in Rec /\ Counted(m', Extra') /\ Follows(m')
    BY <1>7 DEF Base
  <2>2. \A o \in Key : vma'[o] = "none" => m'.pe[o].p = Null
    BY <1>4, <1>5, <1>7
  <2> QED BY <1>3, <1>4, <1>5, <1>6, <2>1, <2>2 DEF BaseInv
<1>8. CASE msg.p = Null
  <2>1. m' = Panic(m, "kernel_fault") /\ Extra' = Extra
    BY <1>2, <1>3, <1>8, ExtraReceived DEF PageListFree
  <2>2. m' \in Rec /\ m'.pe = m.pe /\ m'.pte = m.pte /\ m'.ref = m.ref
    BY <1>1, <2>1 DEF Panic, Rec, Panics
  <2>3. \A f : O(m', f) = O(m, f)
    BY <2>2 DEF O, Owners
  <2>4. Base(m', Extra')
    BY <1>1, <2>1, <2>2, <2>3 DEF Base, Counted, Follows
  <2>5. ~CowInv
    BY <1>3, <1>8, PageManAssumption DEF CowInv
  <2> QED BY <1>7, <2>2, <2>4, <2>5
<1>9. CASE msg.p \in Frame
  <2>1. PICK p \in Frame : p = msg.p
    BY <1>9
  <2>2. m1 = AssignPage(m, k, p, "SNAPSHOT") /\ "SNAPSHOT" \in PageFlag
    BY <1>2, <1>9, <2>1, PageManAssumption DEF PageFlag
  <2>3. Extra[p] >= 1 /\ Extra' = [Extra EXCEPT ![p] = @ - 1]
    BY <1>3, <1>9, <2>1, ExtraReceived
  <2>4. m.ref[p] > 0
    BY <1>1, <2>3, RefBound
  <2>5. Base(m1, Extra) /\ (CowInv => Cow(m1, Extra, vma))
    BY <1>1, <1>5, <2>2, <2>4, AssignBase, AssignCow
  <2>6. /\ m1.data = m.data /\ m1.pe[k].p = p /\ Cont(m1, k) = m.data[p]
        /\ \A o \in Key \ {k} : m1.pe[o] = m.pe[o] /\ Cont(m1, o) = Cont(m, o)
        /\ \A o \in Key : m1.pte[o].p = m.pte[o].p
    BY <1>1, <1>5, <2>2, AssignData
  <2>7. PICK m2 : m2 = IF msg.flag = "SNAPSHOT" THEN [m1 EXCEPT !.snap[p] = Less(@, 1)] ELSE m1
    OBVIOUS
  <2>8. m' = PageUnref(m2, p)
    BY <1>3, <1>9, <2>1, <2>7, PageManAssumption DEF PageListFree
  <2>9. Base(m2, Extra) /\ m2.pe = m1.pe /\ m2.data = m1.data
    <3>1. m1 \in Rec
      BY <2>5 DEF Base
    <3>2. PICK snap : snap = [m1.snap EXCEPT ![p] = Less(@, 1)]
      OBVIOUS
    <3>3. snap \in [Frame -> Nat]
      BY <3>1, <3>2 DEF Rec, Less, Word
    <3>4. m2 = IF msg.flag = "SNAPSHOT" THEN [m1 EXCEPT !.snap = snap] ELSE m1
      BY <2>7, <3>1, <3>2 DEF Rec
    <3>5. m2 \in Rec /\ m2.pe = m1.pe /\ m2.data = m1.data /\ m2.ref = m1.ref /\ m2.pte = m1.pte
      BY <3>1, <3>3, <3>4 DEF Rec
    <3>6. \A f : O(m2, f) = O(m1, f)
      BY <3>5 DEF O, Owners
    <3> QED BY <2>5, <3>5, <3>6 DEF Base, Counted, Follows
  <2>10. Base(m', Extra') /\ m'.pe = m2.pe /\ \A o \in Key : Cont(m', o) = Cont(m2, o)
    BY <1>1, <2>3, <2>8, <2>9, UnrefBase, UnrefData
  <2>11. BaseInv'
    BY <1>7, <2>6, <2>9, <2>10
  <2>12. ASSUME CowInv
         PROVE  /\ CowInv' /\ msg # Null /\ msg.p # Null /\ msg' = Null
                /\ \A o \in Key : Cont(m', o) = IF o = <<b, dst>> THEN m.data[msg.p] ELSE Cont(m, o)
    <3>1. msg.flag = "SHARED" /\ p # ZeroFrame
      BY <1>3, <2>1, <2>12 DEF CowInv
    <3>2. m2 = m1
      BY <2>7, <3>1
    <3>3. Cow(m', Extra', vma)
      BY <1>1, <2>3, <2>5, <2>8, <2>12, <3>1, <3>2, UnrefCow
    <3>4. m'.pte = m1.pte
      <4>1. m1 \in Rec
        BY <2>5 DEF Base
      <4> QED BY <2>8, <3>2, <4>1 DEF PageUnref, Rec
    <3>5. \A o \in Key : vma'[o] = "rw" /\ m'.pte[o].p # Null => vma[o] = "rw"
      BY <1>5, <2>6, <3>4
    <3>6. CowInv'
      BY <1>3, <3>3, <3>5 DEF CowInv, Cow, Writable
    <3> HIDE DEF k
    <3>7. \A o \in Key : Cont(m', o) = IF o = k THEN m.data[msg.p] ELSE Cont(m, o)
      BY <2>1, <2>6, <2>10, <3>2
    <3> QED BY <1>3, <1>9, <3>6, <3>7, PageManAssumption DEF k
  <2> QED BY <2>11, <2>12
<1> QED BY <1>4, <1>8, <1>9 DEF Entry
-----------------------------------------------------------------------------
(* Every step preserves BaseInv, and CowInv if no message covers a whole page. *)
LEMMA NextInv ==
  ASSUME BaseInv, [Next]_vars
  PROVE  BaseInv' /\ ("whole" \notin Sends /\ CowInv => CowInv')
<1>1. CASE UNCHANGED vars
  <2>1. UNCHANGED msg /\ Extra' = Extra
    BY <1>1, ExtraKept DEF vars
  <2>2. BaseInv'
    BY <1>1, <2>1 DEF vars, BaseInv
  <2>3. CowInv => CowInv'
    BY <1>1, <2>1 DEF vars, CowInv
  <2> QED BY <2>2, <2>3
<1>2. CASE m.panic = "none" /\ UserStep
  <2>1. PICK a \in AS, va \in VA :
          \/ \E v \in Value : Store(a, va, v)
          \/ \E v \in Value, p \in Free(m) : CopyToUser(a, va, v, p)
          \/ \E write \in BOOLEAN, p \in Free(m) : PageFault(a, va, write, p)
          \/ Munmap(a, va)
    BY <1>2 DEF UserStep
  <2> QED BY <1>2, <2>1, StoreStep, CopyToUserStep, PageFaultStep, MunmapStep
<1>3. CASE AsStep
  <2>1. ASSUME NEW a \in AS, NEW b \in AS, NEW snapshot \in BOOLEAN, AsNew(a, b, snapshot)
        PROVE  BaseInv' /\ (CowInv => CowInv')
    BY <2>1, AsNewStep
  <2>2. ASSUME NEW b \in AS, CreateTask(b)
        PROVE  BaseInv' /\ (CowInv => CowInv')
    BY <2>2, CreateTaskStep
  <2>3. creator \in [AS -> AS \cup {Null}]
    BY DEF BaseInv
  <2>4. ASSUME NEW b \in AS, Destroy(b)
        PROVE  BaseInv' /\ (CowInv => CowInv')
    <3>1. PICK held : held = [c \in AS |-> IF creator[c] = b THEN c ELSE creator[c]]
      OBVIOUS
    <3>2. held \in [AS -> AS \cup {Null}] /\ DestroyAs(b, held)
      BY <2>3, <2>4, <3>1 DEF Destroy
    <3> QED BY <3>2, DestroyStep
  <2>5. ASSUME NEW a \in AS, NEW b \in AS, Exec(a, b)
        PROVE  BaseInv' /\ (CowInv => CowInv')
    <3>1. PICK held : held = [c \in AS |-> IF c = b THEN Null ELSE IF creator[c] = a THEN b
                                           ELSE creator[c]]
      OBVIOUS
    <3>2. held \in [AS -> AS \cup {Null}] /\ DestroyAs(a, held)
      BY <2>3, <2>5, <3>1 DEF Exec
    <3> QED BY <3>2, DestroyStep
  <2>6. ASSUME NEW a \in AS, NEW b \in AS, NEW src \in VA \cup {Null}, NEW dst \in VA,
               SendPage(a, src, b, dst)
        PROVE  BaseInv' /\ (CowInv => CowInv')
    BY <2>6, SendPageStep
  <2> QED BY <1>3, <2>1, <2>2, <2>4, <2>5, <2>6 DEF AsStep
<1>4. CASE MsgStep
  <2>1. ASSUME NEW a \in AS, NEW va \in VA, NEW size \in Sends, NEW p \in Free(m),
               MapFromUser(a, va, size, p)
        PROVE  BaseInv' /\ ("whole" \notin Sends /\ CowInv => CowInv')
    <3>1. size \in {"part", "whole"} /\ ("whole" \notin Sends => size = "part")
      BY PageManAssumption
    <3> QED BY <2>1, <3>1, MapFromUserStep
  <2>2. ASSUME NEW a \in AS, NEW va \in VA, MapToUser(a, va)
        PROVE  BaseInv' /\ (CowInv => CowInv')
    BY <2>2, MapToUserStep
  <2> QED BY <1>4, <2>1, <2>2 DEF MsgStep
<1> QED BY <1>1, <1>2, <1>3, <1>4 DEF Next

(***************************************************************************)
(* Reference counts are exact (page_man.c, copy.c): for any number of      *)
(* address spaces and pages, and however messages cover pages, a page is   *)
(* in the pool exactly when no entry and no message refers to it.          *)
(***************************************************************************)
THEOREM ReferencesExact == Spec => []RefCountExact
<1>1. Init => BaseInv
  BY InitInv
<1>2. BaseInv /\ [Next]_vars => BaseInv'
  BY NextInv
<1>3. BaseInv => RefCountExact
  <2> SUFFICES ASSUME BaseInv, NEW p \in Frame
               PROVE  m.ref[p] = Cardinality(Owners(m, p)) + InMsg(p)
                                 + (IF p = ZeroFrame THEN 1 ELSE 0)
    BY DEF RefCountExact
  <2>1. m.ref[p] = O(m, p) + Extra[p]
    BY DEF BaseInv, Counted
  <2>2. Extra[p] = InMsg(p) + (IF p = ZeroFrame THEN 1 ELSE 0)
    BY DEF Extra, One
  <2>3. InMsg(p) \in {0, 1}
    BY DEF InMsg
  <2>4. O(m, p) \in Nat
    BY ExtraType, RefBound
  <2> QED BY <2>1, <2>2, <2>3, <2>4 DEF O
<1> QED BY <1>1, <1>2, <1>3, PTL DEF Spec

(***************************************************************************)
(* The page tables follow the entries (unshare_page, unassign_page): no    *)
(* page table maps a page that its entry has left, whatever is shared,     *)
(* copied, sent or destroyed.                                              *)
(***************************************************************************)
THEOREM TablesFollow == Spec => []PageTableFollows
<1>1. Init => BaseInv
  BY InitInv
<1>2. BaseInv /\ [Next]_vars => BaseInv'
  BY NextInv
<1>3. BaseInv => PageTableFollows
  BY DEF BaseInv, Follows, PageTableFollows
<1> QED BY <1>1, <1>2, <1>3, PTL DEF Spec

(* Both invariants, as long as messages cover pages in part. *)
LEMMA CowInvariant ==
  ASSUME "whole" \notin Sends
  PROVE  Spec => [](BaseInv /\ CowInv)
<1>1. Init => BaseInv /\ CowInv
  BY InitInv
<1>2. BaseInv /\ CowInv /\ [Next]_vars => (BaseInv /\ CowInv)'
  BY NextInv
<1> QED BY <1>1, <1>2, PTL DEF Spec

(***************************************************************************)
(* "If a page has > 0 snapshots, it is mapped as read only in everyone's   *)
(* page table" (page_man.c:102-103), as long as messages cover pages in    *)
(* part (map_from_user counts a snapshot of a whole page and leaves the    *)
(* page table alone).                                                      *)
(***************************************************************************)
THEOREM SnapshotsProtected ==
  ASSUME "whole" \notin Sends
  PROVE  Spec => []SnapshotsReadOnly
<1>1. BaseInv /\ CowInv => SnapshotsReadOnly
  BY DEF CowInv, ReadOnly, SnapshotsReadOnly
<1> QED BY <1>1, CowInvariant, PTL

(***************************************************************************)
(* Of the panics of the memory manager (page_man.c:79, 169, 201,           *)
(* aspace.c:144, paging.c:75) only "snap_count == 0 but has snapshot" can  *)
(* be reached, under the same condition.                                   *)
(***************************************************************************)
THEOREM OnePanicOnly ==
  ASSUME "whole" \notin Sends
  PROVE  Spec => []OnlyHasSnapshotPanic
<1>1. BaseInv /\ CowInv => OnlyHasSnapshotPanic
  BY DEF CowInv, OnlyHasSnapshotPanic
<1> QED BY <1>1, CowInvariant, PTL
-----------------------------------------------------------------------------
(***************************************************************************)
(* The refinement of AddrSpaces: what each process reads, and the message. *)
(***************************************************************************)
View(mm) == [a \in AS |-> [va \in VA |-> Cont(mm, <<a, va>>)]]
MsgView(mm, e) == IF e = Null THEN Null ELSE IF e.p = Null THEN Zero ELSE mm.data[e.p]

LEMMA ViewType ==
  ASSUME NEW mm \in Rec
  PROVE  /\ View(mm) \in [AS -> [VA -> Value]]
         /\ \A a \in AS, va \in VA : View(mm)[a][va] = Cont(mm, <<a, va>>)
<1>1. \A k \in Key : mm.pe[k].p \in Frame \cup {Null} /\ mm.data \in [Frame -> Value]
  BY DEF Rec, Entry
<1>2. ASSUME NEW a \in AS, NEW va \in VA
      PROVE  Cont(mm, <<a, va>>) \in Value
  <2>1. <<a, va>> \in Key
    BY DEF Key
  <2> QED BY <1>1, <2>1, PageManAssumption DEF Cont
<1> QED BY <1>2 DEF View

(* A view, page by page. *)
LEMMA ViewIs ==
  ASSUME NEW mm \in Rec, NEW f \in [AS -> [VA -> Value]],
         \A a \in AS, va \in VA : Cont(mm, <<a, va>>) = f[a][va]
  PROVE  View(mm) = f
<1>1. PICK w : w = View(mm)
  OBVIOUS
<1>2. /\ w \in [AS -> [VA -> Value]]
      /\ \A a \in AS, va \in VA : w[a][va] = Cont(mm, <<a, va>>)
  BY <1>1, ViewType
<1>3. ASSUME NEW a \in AS PROVE w[a] = f[a]
  <2>1. w[a] \in [VA -> Value] /\ f[a] \in [VA -> Value] /\ \A va \in VA : w[a][va] = f[a][va]
    BY <1>2
  <2> QED BY <2>1
<1>4. w = f
  BY <1>2, <1>3
<1> QED BY <1>1, <1>4

(* Pages U of a now read c, the others what they did. *)
LEMMA ViewSet ==
  ASSUME NEW mm \in Rec, NEW nn \in Rec, NEW a \in AS, NEW U \in SUBSET VA, NEW c \in Value,
         \A k \in Key : Cont(nn, k) = IF k[1] = a /\ k[2] \in U THEN c ELSE Cont(mm, k)
  PROVE  View(nn) = [View(mm) EXCEPT ![a] = [va \in VA |-> IF va \in U THEN c ELSE @[va]]]
<1>1. PICK w : w = View(mm)
  OBVIOUS
<1>2. PICK f : f = [w EXCEPT ![a] = [va \in VA |-> IF va \in U THEN c ELSE w[a][va]]]
  OBVIOUS
<1>3. w \in [AS -> [VA -> Value]] /\ \A b \in AS, va \in VA : w[b][va] = Cont(mm, <<b, va>>)
  BY <1>1, ViewType
<1>4. f \in [AS -> [VA -> Value]]
      /\ \A b \in AS, va \in VA : f[b][va] = IF b = a /\ va \in U THEN c ELSE w[b][va]
  BY <1>2, <1>3
<1>5. ASSUME NEW b \in AS, NEW va \in VA
      PROVE  Cont(nn, <<b, va>>) = f[b][va]
  <2>1. <<b, va>> \in Key /\ <<b, va>>[1] = b /\ <<b, va>>[2] = va
    BY DEF Key
  <2> QED BY <1>3, <1>4, <2>1
<1>6. View(nn) = f
  BY <1>4, <1>5, ViewIs
<1> QED BY <1>1, <1>2, <1>6

(* One page of b now reads c. *)
LEMMA ViewSetOne ==
  ASSUME NEW mm \in Rec, NEW nn \in Rec, NEW b \in AS, NEW dst \in VA, NEW c \in Value,
         \A k \in Key : Cont(nn, k) = IF k = <<b, dst>> THEN c ELSE Cont(mm, k)
  PROVE  View(nn) = [View(mm) EXCEPT ![b][dst] = c]
<1>1. PICK w : w = View(mm)
  OBVIOUS
<1>2. PICK f : f = [w EXCEPT ![b][dst] = c]
  OBVIOUS
<1>3. w \in [AS -> [VA -> Value]] /\ \A a \in AS, va \in VA : w[a][va] = Cont(mm, <<a, va>>)
  BY <1>1, ViewType
<1>4. f \in [AS -> [VA -> Value]]
      /\ \A a \in AS, va \in VA : f[a][va] = IF a = b /\ va = dst THEN c ELSE w[a][va]
  BY <1>2, <1>3
<1>5. ASSUME NEW a \in AS, NEW va \in VA
      PROVE  Cont(nn, <<a, va>>) = f[a][va]
  <2>1. <<a, va>> \in Key /\ (<<a, va>> = <<b, dst>> <=> a = b /\ va = dst)
    BY DEF Key
  <2> QED BY <1>3, <1>4, <2>1
<1>6. View(nn) = f
  BY <1>4, <1>5, ViewIs
<1> QED BY <1>1, <1>2, <1>6

(* b now reads what a does. *)
LEMMA ViewCopy ==
  ASSUME NEW mm \in Rec, NEW nn \in Rec, NEW a \in AS, NEW b \in AS,
         \A k \in Key : Cont(nn, k) = IF k[1] = b THEN Cont(mm, <<a, k[2]>>) ELSE Cont(mm, k)
  PROVE  View(nn) = [View(mm) EXCEPT ![b] = View(mm)[a]]
<1>1. PICK w : w = View(mm)
  OBVIOUS
<1>2. PICK f : f = [w EXCEPT ![b] = w[a]]
  OBVIOUS
<1>3. w \in [AS -> [VA -> Value]] /\ \A c \in AS, va \in VA : w[c][va] = Cont(mm, <<c, va>>)
  BY <1>1, ViewType
<1>4. f \in [AS -> [VA -> Value]]
      /\ \A c \in AS, va \in VA : f[c][va] = IF c = b THEN w[a][va] ELSE w[c][va]
  BY <1>2, <1>3
<1>5. ASSUME NEW c \in AS, NEW va \in VA
      PROVE  Cont(nn, <<c, va>>) = f[c][va]
  <2>1. <<c, va>> \in Key /\ <<c, va>>[1] = c /\ <<c, va>>[2] = va
    BY DEF Key
  <2>2. Cont(nn, <<c, va>>) = IF c = b THEN Cont(mm, <<a, va>>) ELSE Cont(mm, <<c, va>>)
    BY <2>1
  <2>3. w[a][va] = Cont(mm, <<a, va>>) /\ w[c][va] = Cont(mm, <<c, va>>)
    BY <1>3
  <2>4. f[c][va] = IF c = b THEN w[a][va] ELSE w[c][va]
    BY <1>4
  <2> QED BY <2>2, <2>3, <2>4
<1>6. View(nn) = f
  BY <1>4, <1>5, ViewIs
<1> QED BY <1>1, <1>2, <1>6

(* Nobody reads anything else. *)
LEMMA ViewKept ==
  ASSUME NEW mm \in Rec, NEW nn \in Rec, \A k \in Key : Cont(nn, k) = Cont(mm, k)
  PROVE  View(nn) = View(mm)
<1>1. \A a \in AS, va \in VA : Cont(nn, <<a, va>>) = View(mm)[a][va]
  BY ViewType DEF Key
<1> QED BY <1>1, ViewType, ViewIs

(* The steps of AddrSpaces, in terms of the views. *)
VWrite(a, c) ==
  /\ \E U \in (SUBSET VA) \ {{}} :
       View(m') = [View(m) EXCEPT ![a] = [va \in VA |-> IF va \in U THEN c ELSE @[va]]]
  /\ MsgView(m', msg') = MsgView(m, msg)
VNew(a, b) ==
  /\ a # b
  /\ View(m') = [View(m) EXCEPT ![b] = View(m)[a]]
  /\ MsgView(m', msg') = MsgView(m, msg)
VUnmap(a) ==
  /\ \E U \in SUBSET VA :
       View(m') = [View(m) EXCEPT ![a] = [va \in VA |-> IF va \in U THEN Zero ELSE @[va]]]
  /\ MsgView(m', msg') = MsgView(m, msg)
VSendPage(a, src, b, dst) ==
  /\ View(m') = [View(m) EXCEPT ![b][dst] = View(m)[a][src]]
  /\ MsgView(m', msg') = MsgView(m, msg)
VSend(a, va) ==
  /\ MsgView(m, msg) = Null
  /\ MsgView(m', msg') = View(m)[a][va]
  /\ View(m') = View(m)
VReceive(b, va) ==
  /\ MsgView(m, msg) # Null
  /\ View(m') = [View(m) EXCEPT ![b][va] = MsgView(m, msg)]
  /\ MsgView(m', msg') = Null
VNext ==
  \/ \E a \in AS, c \in Value : VWrite(a, c)
  \/ \E a, b \in AS : VNew(a, b)
  \/ \E a \in AS : VUnmap(a)
  \/ \E a, b \in AS, src, dst \in VA : VSendPage(a, src, b, dst)
  \/ \E a \in AS, va \in VA : VSend(a, va) \/ VReceive(a, va)
VSame == View(m') = View(m) /\ MsgView(m', msg') = MsgView(m, msg)

LEMMA MsgSame ==
  ASSUME BaseInv, MsgKept, UNCHANGED msg
  PROVE  MsgView(m', msg') = MsgView(m, msg)
  BY DEF MsgKept, MsgView

LEMMA StepRefines ==
  ASSUME BaseInv, CowInv, BaseInv', "whole" \notin Sends, [Next]_vars
  PROVE  VNext \/ VSame
<1>0. m \in Rec /\ m' \in Rec
  BY DEF BaseInv
<1> USE <1>0
<1>1. CASE UNCHANGED vars
  BY <1>1 DEF vars, VSame
<1>2. ASSUME NEW a \in AS, NEW c \in Value, Written(a, c), MsgKept, UNCHANGED msg
      PROVE  VNext
  <2>1. PICK U \in (SUBSET VA) \ {{}} :
          \A k \in Key : Cont(m', k) = IF k[1] = a /\ k[2] \in U THEN c ELSE Cont(m, k)
    BY <1>2 DEF Written
  <2>2. View(m') = [View(m) EXCEPT ![a] = [va \in VA |-> IF va \in U THEN c ELSE @[va]]]
    BY <2>1, ViewSet
  <2>3. VWrite(a, c)
    BY <1>2, <2>2, MsgSame DEF VWrite
  <2> QED BY <2>3 DEF VNext
<1>3. ASSUME NEW a \in AS, NEW U \in SUBSET VA, MsgKept, UNCHANGED msg,
             \A k \in Key : Cont(m', k) = IF k[1] = a /\ k[2] \in U THEN Zero ELSE Cont(m, k)
      PROVE  VNext
  <2>1. View(m') = [View(m) EXCEPT ![a] = [va \in VA |-> IF va \in U THEN Zero ELSE @[va]]]
    BY <1>3, ViewSet, PageManAssumption, SMTT(30)
  <2>2. VUnmap(a)
    BY <1>3, <2>1, MsgSame DEF VUnmap
  <2> QED BY <2>2 DEF VNext
<1>4. ASSUME MsgKept, UNCHANGED msg, \A k \in Key : Cont(m', k) = Cont(m, k)
      PROVE  VSame
  BY <1>4, ViewKept, MsgSame DEF VSame
<1>5. ASSUME NEW a \in AS, NEW va \in VA, NEW c \in Value, Store(a, va, c) PROVE VNext
  <2>1. Written(a, c) /\ MsgKept /\ UNCHANGED msg
    BY <1>5, StoreStep DEF Store
  <2> QED BY <1>2, <2>1
<1>6. ASSUME NEW a \in AS, NEW va \in VA, NEW c \in Value, NEW p \in Free(m), CopyToUser(a, va, c, p)
      PROVE  VNext
  <2>1. Written(a, c) /\ MsgKept /\ UNCHANGED msg
    BY <1>6, CopyToUserStep DEF CopyToUser
  <2> QED BY <1>2, <2>1
<1>7. ASSUME m.panic = "none", NEW a \in AS, NEW va \in VA, NEW write \in BOOLEAN, NEW p \in Free(m),
             PageFault(a, va, write, p)
      PROVE  VSame
  <2>1. MsgKept /\ UNCHANGED msg /\ \A k \in Key : Cont(m', k) = Cont(m, k)
    BY <1>7, PageFaultStep DEF PageFault
  <2> QED BY <1>4, <2>1
<1>8. ASSUME NEW a \in AS, NEW va \in VA, Munmap(a, va) PROVE VNext
  <2>1. MsgKept /\ UNCHANGED msg /\ \A k \in Key : Cont(m', k) = IF k = <<a, va>> THEN Zero ELSE Cont(m, k)
    BY <1>8, MunmapStep DEF Munmap
  <2>2. \A k \in Key : k = <<a, va>> <=> k[1] = a /\ k[2] \in {va}
    BY DEF Key
  <2>3. \A k \in Key : Cont(m', k) = IF k[1] = a /\ k[2] \in {va} THEN Zero ELSE Cont(m, k)
    BY <2>1, <2>2
  <2> QED BY <1>3, <2>1, <2>3
<1>9. ASSUME NEW a \in AS, NEW b \in AS, NEW snapshot \in BOOLEAN, AsNew(a, b, snapshot)
      PROVE  VNext \/ VSame
  <2>1. /\ MsgKept /\ UNCHANGED msg /\ a # b
        /\ \A k \in Key : Cont(m', k) = IF snapshot /\ k[1] = b THEN Cont(m, <<a, k[2]>>)
                                        ELSE Cont(m, k)
    BY <1>9, AsNewStep DEF AsNew
  <2>2. CASE snapshot
    <3>1. View(m') = [View(m) EXCEPT ![b] = View(m)[a]]
      BY <2>1, <2>2, ViewCopy
    <3>2. VNew(a, b)
      BY <2>1, <3>1, MsgSame DEF VNew
    <3> QED BY <3>2 DEF VNext
  <2>3. CASE ~snapshot
    BY <1>4, <2>1, <2>3
  <2> QED BY <2>2, <2>3
<1>10. ASSUME NEW a \in AS, NEW held \in [AS -> AS \cup {Null}], DestroyAs(a, held) PROVE VNext
  <2>1. MsgKept /\ UNCHANGED msg /\ \A k \in Key : Cont(m', k) = IF k[1] = a THEN Zero ELSE Cont(m, k)
    BY <1>10, DestroyStep DEF DestroyAs
  <2>2. \A k \in Key : Cont(m', k) = IF k[1] = a /\ k[2] \in VA THEN Zero ELSE Cont(m, k)
    BY <2>1 DEF Key
  <2> QED BY <1>3, <2>1, <2>2
<1>11. ASSUME NEW a \in AS, NEW b \in AS, NEW src \in VA \cup {Null}, NEW dst \in VA,
              SendPage(a, src, b, dst)
       PROVE  VNext \/ VSame
  <2>1. MsgKept /\ UNCHANGED msg
    BY <1>11, SendPageStep DEF SendPage
  <2>2. CASE m' = m
    BY <2>1, <2>2 DEF VSame
  <2>3. CASE /\ src \in VA
             /\ \A k \in Key : Cont(m', k) = IF k = <<b, dst>> THEN Cont(m, <<a, src>>)
                                             ELSE Cont(m, k)
    <3>1. PICK c \in Value : c = Cont(m, <<a, src>>) /\ c = View(m)[a][src]
      BY <2>3, ViewType
    <3>2. View(m') = [View(m) EXCEPT ![b][dst] = c]
      BY <2>3, <3>1, ViewSetOne
    <3>3. VSendPage(a, src, b, dst)
      BY <2>1, <3>1, <3>2, MsgSame DEF VSendPage
    <3> QED BY <2>3, <3>3 DEF VNext
  <2> QED BY <1>11, <2>2, <2>3, SendPageStep
<1>12. ASSUME NEW a \in AS, NEW va \in VA, NEW size \in Sends, NEW p \in Free(m),
              MapFromUser(a, va, size, p)
       PROVE  VNext
  <2>1. size = "part"
    BY PageManAssumption
  <2>2. /\ msg = Null /\ msg' # Null /\ msg'.p # Null
        /\ m'.data[msg'.p] = Cont(m, <<a, va>>)
        /\ \A o \in Key : Cont(m', o) = Cont(m, o)
    BY <1>12, <2>1, MapFromUserStep
  <2>3. MsgView(m, msg) = Null /\ MsgView(m', msg') = Cont(m, <<a, va>>)
    BY <2>2 DEF MsgView
  <2>4. VSend(a, va)
    BY <2>2, <2>3, ViewKept, ViewType DEF VSend
  <2> QED BY <2>4 DEF VNext
<1>13. ASSUME NEW b \in AS, NEW dst \in VA, MapToUser(b, dst) PROVE VNext
  <2>1. /\ msg # Null /\ msg.p # Null /\ msg' = Null
        /\ \A o \in Key : Cont(m', o) = IF o = <<b, dst>> THEN m.data[msg.p] ELSE Cont(m, o)
    BY <1>13, MapToUserStep
  <2>2. msg.p \in Frame /\ m.data \in [Frame -> Value]
    BY <2>1 DEF BaseInv, Rec, Entry
  <2>3. PICK c \in Value : c = m.data[msg.p]
    BY <2>2
  <2>4. MsgView(m, msg) = c /\ MsgView(m', msg') = Null /\ c # Null
    BY <2>1, <2>3, PageManAssumption DEF MsgView
  <2>5. View(m') = [View(m) EXCEPT ![b][dst] = c]
    BY <2>1, <2>3, ViewSetOne
  <2>6. VReceive(b, dst)
    BY <2>4, <2>5 DEF VReceive
  <2> QED BY <2>6 DEF VNext
<1>14. creator \in [AS -> AS \cup {Null}]
  BY DEF BaseInv
<1>15. ASSUME NEW b \in AS, Destroy(b) PROVE VNext
  <2>1. PICK held : held = [c \in AS |-> IF creator[c] = b THEN c ELSE creator[c]]
    OBVIOUS
  <2>2. held \in [AS -> AS \cup {Null}] /\ DestroyAs(b, held)
    BY <1>14, <1>15, <2>1 DEF Destroy
  <2> QED BY <1>10, <2>2
<1>16. ASSUME NEW a \in AS, NEW b \in AS, Exec(a, b) PROVE VNext
  <2>1. PICK held : held = [c \in AS |-> IF c = b THEN Null ELSE IF creator[c] = a THEN b
                                         ELSE creator[c]]
    OBVIOUS
  <2>2. held \in [AS -> AS \cup {Null}] /\ DestroyAs(a, held)
    BY <1>14, <1>16, <2>1 DEF Exec
  <2> QED BY <1>10, <2>2
<1>17. ASSUME NEW b \in AS, CreateTask(b) PROVE VSame
  BY <1>17 DEF CreateTask, VSame
<1>18. CASE m.panic = "none" /\ UserStep
  BY <1>18, <1>5, <1>6, <1>7, <1>8 DEF UserStep
<1>19. CASE AsStep
  BY <1>19, <1>9, <1>11, <1>15, <1>16, <1>17 DEF AsStep
<1>20. CASE MsgStep
  BY <1>20, <1>12, <1>13 DEF MsgStep
<1> QED BY <1>1, <1>18, <1>19, <1>20 DEF Next

(***************************************************************************)
(* Memory is private: whatever pages are shared, snapshot, copied and      *)
(* handed back underneath, each process reads what it wrote, what it was   *)
(* given when its address space was made, or what was sent to it, and a    *)
(* message is what was sent.  (As long as messages cover pages in part: a  *)
(* page sent whole stays writable for its sender.)                         *)
(***************************************************************************)
THEOREM MemoryIsPrivate ==
  ASSUME "whole" \notin Sends
  PROVE  Spec => PrivateMemory
<1>1. Init => Abstract!AInit
  <2> SUFFICES ASSUME Init PROVE Abstract!AInit
    OBVIOUS
  <2>1. m \in Rec /\ msg = Null
    BY InitInv DEF BaseInv, Init
  <2>2. View(m) \in [AS -> [VA -> Value]] /\ \A a \in AS, va \in VA : View(m)[a][va] = Cont(m, <<a, va>>)
    BY <2>1, ViewType
  <2>3. ASSUME NEW b \in AS \ {InitAs} PROVE View(m)[b] = [va \in VA |-> Zero]
    <3>1. BaseInv /\ live = {InitAs}
      BY InitInv DEF Init
    <3>2. ASSUME NEW va \in VA PROVE Cont(m, <<b, va>>) = Zero
      <4>1. <<b, va>> \in Key /\ <<b, va>>[1] = b
        BY DEF Key
      <4>2. m.pe[<<b, va>>].p = Null
        BY <3>1, <4>1 DEF BaseInv
      <4> QED BY <4>2 DEF Cont
    <3>3. View(m)[b] = [va \in VA |-> Cont(m, <<b, va>>)]
      BY DEF View
    <3> QED BY <3>2, <3>3
  <2>4. View(m) = [a \in AS |-> [va \in VA |-> Contents(<<a, va>>)]]
    BY DEF View, Contents, Cont
  <2>5. \E a \in AS : \A b \in AS \ {a} : View(m)[b] = [va \in VA |-> Zero]
    BY <2>3, PageManAssumption
  <2> HIDE DEF View
  <2> QED BY <2>1, <2>2, <2>4, <2>5 DEF Abstract!AInit, Abstract!Blank
<1>2. Init => BaseInv /\ CowInv
  BY InitInv
<1>3. BaseInv /\ CowInv /\ [Next]_vars => (BaseInv /\ CowInv)' /\ (VNext \/ VSame)
  BY NextInv, StepRefines
<1>4. VNext \/ VSame => [Abstract!ANext]_Abstract!aVars
  <2>1. /\ View(m) = [a \in AS |-> [va \in VA |-> Contents(<<a, va>>)]]
        /\ View(m') = [a \in AS |-> [va \in VA |-> Contents(<<a, va>>)]]'
    BY DEF View, Contents, Cont
  <2>2. /\ MsgView(m, msg) = IF msg = Null THEN Null ELSE IF msg.p = Null THEN Zero ELSE m.data[msg.p]
        /\ MsgView(m', msg') = (IF msg = Null THEN Null ELSE IF msg.p = Null THEN Zero ELSE m.data[msg.p])'
    BY DEF MsgView
  <2>3. VSame => UNCHANGED Abstract!aVars
    BY <2>1, <2>2 DEF VSame, Abstract!aVars
  <2>4. \A a \in AS, c \in Value : VWrite(a, c) => Abstract!AWrite(a, c)
    <3> SUFFICES ASSUME NEW a \in AS, NEW c \in Value, VWrite(a, c) PROVE Abstract!AWrite(a, c)
      OBVIOUS
    <3> DEFINE w == [b \in AS |-> [va \in VA |-> Contents(<<b, va>>)]]
    <3>1. View(m) = w /\ View(m') = w'
      BY <2>1
    <3> HIDE DEF w
    <3>2. PICK U \in (SUBSET VA) \ {{}} :
            View(m') = [View(m) EXCEPT ![a] = [va \in VA |-> IF va \in U THEN c ELSE @[va]]]
      BY DEF VWrite
    <3>3. w' = [w EXCEPT ![a] = [va \in VA |-> IF va \in U THEN c ELSE @[va]]]
      BY <3>1, <3>2
    <3>4. \E T \in (SUBSET VA) \ {{}} :
            w' = [w EXCEPT ![a] = [va \in VA |-> IF va \in T THEN c ELSE @[va]]]
      BY <3>3
    <3>5. MsgView(m', msg') = MsgView(m, msg)
      BY DEF VWrite
    <3> QED BY <2>2, <3>4, <3>5, Zenon DEF w, Abstract!AWrite
  <2>5. \A a \in AS, b \in AS : VNew(a, b) => Abstract!ANew(a, b)
    BY <2>1, <2>2 DEF VNew, Abstract!ANew
  <2>6. \A a \in AS : VUnmap(a) => Abstract!AUnmap(a)
    <3> SUFFICES ASSUME NEW a \in AS, VUnmap(a) PROVE Abstract!AUnmap(a)
      OBVIOUS
    <3> DEFINE w == [b \in AS |-> [va \in VA |-> Contents(<<b, va>>)]]
    <3>1. View(m) = w /\ View(m') = w'
      BY <2>1
    <3> HIDE DEF w
    <3>2. PICK U \in SUBSET VA :
            View(m') = [View(m) EXCEPT ![a] = [va \in VA |-> IF va \in U THEN Zero ELSE @[va]]]
      BY DEF VUnmap
    <3>3. w' = [w EXCEPT ![a] = [va \in VA |-> IF va \in U THEN Zero ELSE @[va]]]
      BY <3>1, <3>2
    <3>4. \E T \in SUBSET VA :
            w' = [w EXCEPT ![a] = [va \in VA |-> IF va \in T THEN Zero ELSE @[va]]]
      BY <3>3
    <3>5. MsgView(m', msg') = MsgView(m, msg)
      BY DEF VUnmap
    <3> QED BY <2>2, <3>4, <3>5, Zenon DEF w, Abstract!AUnmap
  <2>7. \A a \in AS, b \in AS, src \in VA, dst \in VA :
          VSendPage(a, src, b, dst) => Abstract!ASendPage(a, src, b, dst)
    BY <2>1, <2>2 DEF VSendPage, Abstract!ASendPage
  <2>8. \A a \in AS, va \in VA : VSend(a, va) => Abstract!ASend(a, va)
    BY <2>1, <2>2 DEF VSend, Abstract!ASend
  <2>9. \A a \in AS, va \in VA : VReceive(a, va) => Abstract!AReceive(a, va)
    BY <2>1, <2>2 DEF VReceive, Abstract!AReceive
  <2>10. VNext => Abstract!ANext
    BY <2>4, <2>5, <2>6, <2>7, <2>8, <2>9 DEF VNext, Abstract!ANext
  <2> QED BY <2>3, <2>10
<1> QED BY <1>1, <1>2, <1>3, <1>4, PTL DEF Spec, PrivateMemory, Abstract!ASpec
=============================================================================
