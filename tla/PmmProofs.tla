----------------------------- MODULE PmmProofs -----------------------------
(***************************************************************************)
(* What holds of the page allocator for every memory map, every number of  *)
(* pages and every set of owners, with sys_wait's pmm_free interrupted or  *)
(* not.                                                                    *)
(***************************************************************************)
EXTENDS Pmm, FiniteSetTheorems, TLAPS

\* Every variable keeps its type: pages given out are pages of the machine,
\* whatever pmm_alloc and pmm_free do in whatever order.
THEOREM TypeCorrect == Spec => []TypeOK
<1> USE PmmConstants DEF TypeOK
<1>1. Init => TypeOK
  <2> SUFFICES ASSUME Init PROVE TypeOK
    OBVIOUS
  <2>1. BitmapAfterInit \subseteq Nat
    BY DEF BitmapAfterInit, ReservedAtBoot, Pages
  <2> QED
    BY <2>1, UsedAfterInitIsInt, Zenon DEF Init, pmm_init
<1>2. TypeOK /\ [Next]_vars => TypeOK'
  <2> SUFFICES ASSUME TypeOK, [Next]_vars PROVE TypeOK'
    OBVIOUS
  <2>0. Pages \subseteq Nat
    BY DEF Pages
  <2>1. ASSUME NEW o \in Owners, pmm_alloc(o) PROVE TypeOK'
    BY <2>0, <2>1 DEF pmm_alloc, TakePage
  <2>2. ASSUME NEW o \in Owners, pmm_alloc_panic(o) PROVE TypeOK'
    BY <2>2 DEF pmm_alloc_panic
  <2>7. ASSUME NEW o \in Owners, NEW p \in Pages, Clears(o, p)
        PROVE  bitmap' \subseteq Nat /\ held' \in [Owners -> SUBSET Pages]
    BY <2>7, Zenon DEF Clears
  <2>3. ASSUME NEW o \in Owners, pmm_free(o) PROVE TypeOK'
    BY <2>3, <2>7 DEF pmm_free
  <2>4. ASSUME NEW o \in Owners, pmm_free_clear(o) PROVE TypeOK'
    BY <2>4, <2>7 DEF pmm_free_clear
  <2>5. ASSUME NEW o \in Owners, pmm_free_count(o) PROVE TypeOK'
    BY <2>5 DEF pmm_free_count
  <2>6. CASE UNCHANGED vars
    BY <2>6 DEF vars
  <2> QED
    BY <2>1, <2>2, <2>3, <2>4, <2>5, <2>6 DEF Next, Halted
<1> QED
  BY <1>1, <1>2, PTL DEF Spec
-----------------------------------------------------------------------------
\* The reserved regions stay reserved: pmm_alloc never crosses the boundary
\* pmm_init drew, and no pmm_free of a page that was given out moves it.
THEOREM ReservedIsSafe == Spec => []ReservedStaysReserved
<1> USE PmmConstants DEF ReservedStaysReserved
<1>1. Init => ReservedStaysReserved
  BY DEF Init, pmm_init, BitmapAfterInit
<1>2. TypeOK /\ ReservedStaysReserved /\ [Next]_vars => ReservedStaysReserved'
  <2> SUFFICES ASSUME TypeOK, ReservedStaysReserved, [Next]_vars
               PROVE  ReservedStaysReserved'
    OBVIOUS
  <2>1. ASSUME NEW o \in Owners, pmm_alloc(o) PROVE ReservedStaysReserved'
    <3>1. PICK p \in Pages : FirstFree(p) /\ TakePage(o, p)
      BY <2>1 DEF pmm_alloc
    <3>2. p \notin ReservedAtBoot
      BY <3>1 DEF FirstFree, bitmap_test
    <3> QED
      BY <3>1, <3>2 DEF TakePage, TypeOK
  <2>2. ASSUME NEW o \in Owners, NEW p \in Pages, Clears(o, p)
        PROVE  ReservedStaysReserved'
    BY <2>2 DEF Clears, TypeOK
  <2>3. CASE UNCHANGED <<bitmap, held>>
    BY <2>3
  <2> QED
    BY <2>1, <2>2, <2>3 DEF Next, Halted, vars, pmm_alloc_panic, pmm_free,
       pmm_free_clear, pmm_free_count
<1> QED
  BY <1>1, <1>2, TypeCorrect, PTL DEF Spec
-----------------------------------------------------------------------------
\* pmm_alloc and pmm_free keep the pages of any number of owners apart, in
\* every interleaving.
THEOREM PagesAreExclusive == Spec => []PagesExclusive
<1> USE PmmConstants DEF PagesExclusive
<1>1. Init => PagesExclusive
  BY DEF Init
<1>2. TypeOK /\ PagesExclusive /\ [Next]_vars => PagesExclusive'
  <2> SUFFICES ASSUME TypeOK, PagesExclusive, [Next]_vars PROVE PagesExclusive'
    OBVIOUS
  <2>1. ASSUME NEW o \in Owners, pmm_alloc(o) PROVE PagesExclusive'
    BY <2>1 DEF pmm_alloc, TakePage, FirstFree, bitmap_test, TypeOK
  <2>2. ASSUME NEW o \in Owners, NEW p \in Pages, Clears(o, p)
        PROVE  PagesExclusive'
    BY <2>2 DEF Clears, TypeOK
  <2>3. CASE UNCHANGED <<bitmap, held>>
    BY <2>3
  <2> QED
    BY <2>1, <2>2, <2>3 DEF Next, Halted, vars, pmm_alloc_panic, pmm_free,
       pmm_free_clear, pmm_free_count
<1> QED
  BY <1>1, <1>2, TypeCorrect, PTL DEF Spec
-----------------------------------------------------------------------------
DriftInv == IsFiniteSet(bitmap) /\ CounterDoesNotDrift

\* The boot-time bitmap is a finite set, so its pages can be counted.
LEMMA BootBitmapFinite == IsFiniteSet(BitmapAfterInit)
<1> USE PmmConstants
<1>1. IsFiniteSet(Pages)
  BY FS_Interval DEF Pages
<1>2. IsFiniteSet(Pages \ UNION {EntryPages(e) : e \in UsableEntries})
  BY <1>1, FS_Difference, Zenon
<1>3. IsFiniteSet({0} \cup {BootPage} \cup (1 .. LowEnd - 1))
  <2>1. IsFiniteSet(1 .. LowEnd - 1)
    BY FS_Interval
  <2>2. IsFiniteSet({0}) /\ IsFiniteSet({BootPage})
    BY FS_Singleton, Zenon
  <2> QED
    BY ONLY <2>1, <2>2, FS_Union, Zenon
<1>4. IsFiniteSet((BitmapBase .. BitmapBase + BitmapPages - 1)
                  \cup (HeapBase .. HeapBase + HeapPages - 1))
  <2>1. IsFiniteSet(BitmapBase .. BitmapBase + BitmapPages - 1)
    BY FS_Interval
  <2>2. IsFiniteSet(HeapBase .. HeapBase + HeapPages - 1)
    BY FS_Interval
  <2> QED
    BY ONLY <2>1, <2>2, FS_Union, Zenon
<1>5. ReservedAtBoot = ({0} \cup {BootPage} \cup (1 .. LowEnd - 1))
                       \cup ((BitmapBase .. BitmapBase + BitmapPages - 1)
                             \cup (HeapBase .. HeapBase + HeapPages - 1))
  BY DEF ReservedAtBoot
<1>6. IsFiniteSet(ReservedAtBoot)
  BY <1>3, <1>4, <1>5, FS_Union, Zenon
<1> QED
  BY <1>2, <1>6, FS_Union, Zenon DEF BitmapAfterInit

\* used_pages follows the bits: whatever error pmm_init made in counting
\* stays the only lasting error, for every sequence of pmm_alloc and pmm_free.
THEOREM CounterIsStable == Spec => []CounterDoesNotDrift
<1> USE PmmConstants DEF DriftInv, CounterDoesNotDrift
<1>0. InitExcess \in Int
  BY BootBitmapFinite, FS_CardinalityType, UsedAfterInitIsInt DEF InitExcess
<1>1. Init => DriftInv
  BY BootBitmapFinite, FS_CardinalityType, FS_EmptySet, UsedAfterInitIsInt
     DEF Init, pmm_init, InitExcess
<1>2. TypeOK /\ PagesExclusive /\ DriftInv /\ [Next]_vars => DriftInv'
  <2> SUFFICES ASSUME TypeOK, PagesExclusive, DriftInv, [Next]_vars
               PROVE  DriftInv'
    OBVIOUS
  <2>0. /\ Cardinality(bitmap) \in Nat /\ IsFiniteSet(uncounted)
        /\ Cardinality(uncounted) \in Nat /\ used_pages \in Int
    BY FS_CardinalityType, FS_Subset DEF TypeOK
  <2>1. ASSUME NEW o \in Owners, pmm_alloc(o) PROVE DriftInv'
    <3>1. PICK p \in Pages : FirstFree(p) /\ TakePage(o, p)
      BY <2>1 DEF pmm_alloc
    <3>2. p \notin bitmap
      BY <3>1 DEF FirstFree, bitmap_test
    <3>3. IsFiniteSet(bitmap') /\ Cardinality(bitmap') = Cardinality(bitmap) + 1
      BY <3>1, <3>2, FS_AddElement DEF TakePage
    <3> QED
      BY <1>0, <2>0, <2>1, <3>1, <3>3 DEF pmm_alloc, TakePage
  <2>2. ASSUME NEW o \in Owners, NEW p \in Pages, Clears(o, p)
        PROVE  IsFiniteSet(bitmap') /\ Cardinality(bitmap') = Cardinality(bitmap) - 1
    <3>1. p \in bitmap /\ bitmap' = bitmap \ {p}
      BY <2>2 DEF Clears, PagesExclusive
    <3> QED
      BY <3>1, FS_RemoveElement
  <2>3. ASSUME NEW o \in Owners, pmm_free(o) PROVE DriftInv'
    BY <1>0, <2>0, <2>2, <2>3 DEF pmm_free
  <2>4. ASSUME NEW o \in Owners, pmm_free_clear(o) PROVE DriftInv'
    <3>1. Cardinality(uncounted') = Cardinality(uncounted) + 1
      BY <2>0, <2>4, FS_AddElement, Zenon DEF pmm_free_clear, Ready
    <3> QED
      BY <1>0, <2>0, <2>2, <2>4, <3>1 DEF pmm_free_clear
  <2>5. ASSUME NEW o \in Owners, pmm_free_count(o) PROVE DriftInv'
    <3>1. Cardinality(uncounted') = Cardinality(uncounted) - 1
      BY <2>0, <2>5, FS_RemoveElement, Zenon DEF pmm_free_count
    <3> QED
      BY <1>0, <2>0, <2>5, <3>1 DEF pmm_free_count
  <2>6. CASE UNCHANGED <<bitmap, used_pages, uncounted>>
    BY <2>6
  <2> QED
    BY <2>1, <2>3, <2>4, <2>5, <2>6 DEF Next, Halted, vars, pmm_alloc_panic
<1> QED
  BY <1>1, <1>2, PagesAreExclusive, TypeCorrect, PTL DEF Spec
=============================================================================
