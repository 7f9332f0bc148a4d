------------------------- MODULE AddressSpaceProofs -------------------------
(***************************************************************************)
(* For every number of processes, pages, regions and programs: no physical *)
(* page is used twice or lost, the page tables hang together and the heap  *)
(* is mapped up to the break, at every moment of fork, exec, heap growth   *)
(* and the interruptible reaping.                                          *)
(***************************************************************************)
EXTENDS AddressSpace, WellFoundedInduction, TLAPS

\* A process that can call heap_grow has a directory to map pages in.
LiveHasDirectory ==
    \A p \in Procs : status[p] = "live" => pml4 \in Present(p)

IInv == TypeOK /\ FramesExclusive /\ TablesPresent /\ LiveHasDirectory

\* The free pages after f has been mapped in p's directory old: none of f's,
\* and from p's own pages only when the whole directory was replaced.
FreeAfter(p, old, f) ==
    \A g \in free' :
        /\ g \notin Range(f)
        /\ \/ g \in free
           \/ /\ \A u \in Uses : old[u] = None
              /\ g # None /\ \E u \in Uses : g = frame[p][u]

\* The directory with the uses in it has a table for each page and a PML4 for
\* each table.
BringsTables(uses, old) ==
    /\ \A v \in Vas : Page(v) \in uses \/ old[Page(v)] # None =>
            Table(RegionOf(v)) \in uses \/ old[Table(RegionOf(v))] # None
    /\ \A r \in Regions : Table(r) \in uses \/ old[Table(r)] # None =>
            pml4 \in uses \/ old[pml4] # None

\* No other process changes its status.
OnlyStatusOf(p) == \A q \in Procs \ {p} : status'[q] = status[q]

PartOf(old, p) == \A u \in Uses : old[u] = None \/ old[u] = frame[p][u]

HasTables(p, uses, old) ==
    /\ frame' \in [Procs -> [Uses -> Pages \cup {None}]]
    /\ \A u \in Uses : u \in Present(p)' <=> u \in uses \/ old[u] # None
    /\ \A q \in Procs \ {p} : Present(q)' = Present(q)
    /\ TablesPresent'

\* f gives a fresh page to each of the uses.
Assigns(f, uses) == f = [u \in uses |-> f[u]] /\ Allocated(f)

\* FirstFit gives a page to each use, and nothing else is assumed of it.
LEMMA FirstFitDomain ==
    ASSUME NEW uses
    PROVE  /\ DOMAIN FirstFit(uses) = uses
           /\ FirstFit(uses) = [u \in uses |-> FirstFit(uses)[u]]
  <1> DEFINE choice(u) ==
        CHOOSE f \in free :
            Cardinality({g \in free : g < f}) =
            Cardinality({w \in uses : Position(w) < Position(u)})
  <1>1. FirstFit(uses) = [u \in uses |-> choice(u)]
    BY DEF FirstFit
  <1> HIDE DEF choice
  <1> QED
    BY <1>1

\* The directory new is old with the fresh pages f mapped in it.
IsMapped(new, old, f, uses) ==
    /\ new \in [Uses -> Pages \cup {None}]
    /\ \A u \in uses : new[u] = f[u] /\ f[u] \in free /\ f[u] \in Range(f) /\ f[u] # None
    /\ \A u \in Uses \ uses : new[u] = old[u]
    /\ \A u, w \in uses : f[u] = f[w] => u = w
    /\ \A g \in Range(f) : g \in free

\* A directory into which freshly allocated pages are mapped.
LEMMA MappedFacts ==
    ASSUME TypeOK, NEW uses \in SUBSET Uses, NEW f,
           Assigns(f, uses),
           NEW old \in [Uses -> Pages \cup {None}]
    PROVE  IsMapped(Mapped(old, f), old, f, uses)
  <1>1. DOMAIN f = uses /\ Allocated(f)
    BY DEF Assigns
  <1>2. \A u \in uses : f[u] \in free /\ f[u] \in Range(f)
    BY <1>1 DEF Allocated, Range
  <1>3. None \notin Pages /\ free \subseteq Pages
    BY AddressSpaceConstants, Zenon DEF TypeOK
  <1>4. \A g \in Range(f) : g \in free
    BY <1>1, <1>2 DEF Range
  <1>5. \A u, w \in uses : f[u] = f[w] => u = w
    BY <1>1 DEF Allocated, IsInjective
  <1> QED
    BY <1>1, <1>2, <1>3, <1>4, <1>5 DEF Mapped, IsMapped

\* Mapping fresh pages into p's directory, or replacing it, leaves every page
\* with one use.
LEMMA MapExclusive ==
    ASSUME TypeOK, FramesExclusive, NEW p \in Procs, NEW uses \in SUBSET Uses,
           NEW f, Assigns(f, uses),
           NEW old \in [Uses -> Pages \cup {None}],
           PartOf(old, p),
           frame' = [frame EXCEPT ![p] = Mapped(old, f)],
           FreeAfter(p, old, f)
    PROVE  FramesExclusive'
  <1> USE AddressSpaceConstants
  <1>1. frame \in [Procs -> [Uses -> Pages \cup {None}]]
    BY DEF TypeOK
  <1>2. /\ \A u \in uses : /\ frame'[p][u] = f[u] /\ f[u] \in free
                           /\ f[u] \in Range(f) /\ f[u] # None
        /\ \A u \in Uses \ uses : frame'[p][u] = old[u]
        /\ \A u, w \in uses : f[u] = f[w] => u = w
        /\ \A g \in Range(f) : g \in free
        /\ \A q \in Procs \ {p}, u \in Uses : frame'[q][u] = frame[q][u]
    <2> DEFINE new == Mapped(old, f)
    <2>1. IsMapped(new, old, f, uses)
      BY MappedFacts
    <2>2. frame' = [frame EXCEPT ![p] = new]
      OBVIOUS
    <2> HIDE DEF new
    <2>3. frame'[p] = new /\ \A q \in Procs \ {p} : frame'[q] = frame[q]
      BY <1>1, <2>2
    <2> QED
      BY <2>1, <2>3 DEF IsMapped
  <1>3. None \notin free
    BY Zenon DEF TypeOK
  <1>4. \A q \in Procs, u \in Uses : frame'[q][u] \notin free'
    <2> SUFFICES ASSUME NEW q \in Procs, NEW u \in Uses, frame'[q][u] \in free'
                 PROVE  FALSE
      OBVIOUS
    <2>1. CASE q = p /\ u \in uses
      BY <1>2, <2>1 DEF FreeAfter
    <2>2. CASE q = p /\ u \notin uses
      <3>1. frame'[p][u] = old[u] /\ old[u] \in free'
        BY <1>2, <2>2
      <3>2. old[u] = None \/ old[u] = frame[p][u]
        BY DEF PartOf
      <3>3. old[u] \notin free
        BY <1>3, <3>2 DEF FramesExclusive
      <3>4. old[u] = None /\ old[u] # None
        BY <3>1, <3>3 DEF FreeAfter
      <3> QED
        BY <3>4
    <2>3. CASE q # p
      BY <1>2, <1>3, <2>3 DEF FramesExclusive, FreeAfter
    <2> QED
      BY <2>1, <2>2, <2>3
  <1>5. ASSUME NEW q \in Procs, NEW r \in Procs, NEW u \in Uses, NEW w \in Uses,
               frame'[q][u] = frame'[r][w], frame'[q][u] # None
        PROVE  q = r /\ u = w
    <2>1. CASE q = p /\ u \in uses /\ r = p /\ w \in uses
      BY <1>2, <1>5, <2>1
    <2>2. CASE q = p /\ u \in uses /\ ~(r = p /\ w \in uses)
      BY <1>2, <1>5, <2>2 DEF FramesExclusive, PartOf
    <2>3. CASE ~(q = p /\ u \in uses) /\ r = p /\ w \in uses
      BY <1>2, <1>5, <2>3 DEF FramesExclusive, PartOf
    <2>4. CASE ~(q = p /\ u \in uses) /\ ~(r = p /\ w \in uses)
      <3>1. frame'[q][u] = frame[q][u] /\ frame'[r][w] = frame[r][w]
        BY <1>2, <1>5, <2>4 DEF PartOf
      <3> QED
        BY <1>5, <3>1 DEF FramesExclusive
    <2> QED
      BY <2>1, <2>2, <2>3, <2>4
  <1> QED
    BY <1>4, <1>5 DEF FramesExclusive

\* A directory without fresh pages has none.
LEMMA EmptyFacts ==
    EmptyDirectory \in [Uses -> Pages \cup {None}] /\ \A u \in Uses : EmptyDirectory[u] = None
  BY DEF EmptyDirectory

\* The uses a program asks for are uses, and bring their tables.
LEMMA ImageFacts ==
    ASSUME NEW prog \in Programs
    PROVE  /\ Image(prog) \in SUBSET Uses
           /\ pml4 \in Image(prog)
           /\ \A v \in Vas : Page(v) \in Image(prog) => Table(RegionOf(v)) \in Image(prog)
  <1> DEFINE vs == prog.pages \cup {StackVa}
  <1>1. vs \subseteq Vas
    <2>1. prog.pages \subseteq Vas \ {StackVa}
      BY AddressSpaceConstants
    <2>2. StackVa \in Vas
      BY AddressSpaceConstants DEF StackVa, Vas
    <2> QED
      BY <2>1, <2>2
  <1>2. \A v \in Vas : RegionOf(v) \in Regions
    BY DEF Regions
  <1>3. Image(prog) = NewImage \cup {Page(v) : v \in vs} \cup {Table(RegionOf(v)) : v \in vs}
    BY DEF Image, TablesFor
  <1> HIDE DEF vs
  <1>4. Image(prog) \in SUBSET Uses
    BY <1>1, <1>2, <1>3 DEF NewImage, Uses
  <1>5. pml4 \in Image(prog)
    BY <1>3 DEF NewImage
  <1>6. ASSUME NEW v \in Vas, Page(v) \in Image(prog)
        PROVE  Table(RegionOf(v)) \in Image(prog)
    <2>1. v \in vs
      BY <1>3, <1>6 DEF Page, Table, NewImage, kstack, pml4
    <2> QED
      BY <1>3, <2>1
  <1> QED
    BY <1>4, <1>5, <1>6

\* A function that FirstFit computes and the guard of an action accepts.
LEMMA FirstFitAssigns ==
    ASSUME NEW uses, Allocated(FirstFit(uses))
    PROVE  Assigns(FirstFit(uses), uses)
  BY FirstFitDomain DEF Assigns

\* The directory after mapping has its tables when the uses bring them.
LEMMA MapTables ==
    ASSUME TypeOK, TablesPresent, NEW p \in Procs, NEW uses \in SUBSET Uses,
           NEW f, Assigns(f, uses), NEW old \in [Uses -> Pages \cup {None}],
           frame' = [frame EXCEPT ![p] = Mapped(old, f)],
           BringsTables(uses, old)
    PROVE  HasTables(p, uses, old)
  <1> DEFINE new == Mapped(old, f)
  <1>1. IsMapped(new, old, f, uses)
    BY MappedFacts
  <1>2. frame' = [frame EXCEPT ![p] = new]
    OBVIOUS
  <1> HIDE DEF new
  <1>3. frame \in [Procs -> [Uses -> Pages \cup {None}]]
    BY DEF TypeOK
  <1>4. frame'[p] = new /\ \A q \in Procs \ {p} : frame'[q] = frame[q]
    BY <1>2, <1>3
  <1>5. frame' \in [Procs -> [Uses -> Pages \cup {None}]]
    BY <1>1, <1>2, <1>3 DEF IsMapped
  <1>6. \A u \in Uses : u \in Present(p)' <=> u \in uses \/ old[u] # None
    BY <1>1, <1>4 DEF Present, IsMapped
  <1>7. \A q \in Procs \ {p} : Present(q)' = Present(q)
    BY <1>4 DEF Present
  <1>8. pml4 \in Uses /\ (\A v \in Vas : Page(v) \in Uses /\ RegionOf(v) \in Regions)
        /\ (\A r \in Regions : Table(r) \in Uses)
    BY DEF Uses, Regions
  <1>9. TablesPresent'
    <2> SUFFICES ASSUME NEW q \in Procs
                 PROVE  /\ \A v \in Vas : Page(v) \in Present(q)' => Table(RegionOf(v)) \in Present(q)'
                        /\ \A r \in Regions : Table(r) \in Present(q)' => pml4 \in Present(q)'
      BY DEF TablesPresent
    <2>1. CASE q = p
      BY <1>6, <1>8, <2>1 DEF BringsTables
    <2>2. CASE q # p
      BY <1>7, <2>2 DEF TablesPresent
    <2> QED
      BY <2>1, <2>2
  <1> QED
    BY <1>5, <1>6, <1>7, <1>9 DEF HasTables

\* What is freed next is never the table of a page that is still mapped, nor
\* the PML4 of a table.
LEMMA FreedInOrder ==
    /\ \A v \in Vas : Position(Page(v)) < Position(Table(RegionOf(v)))
    /\ \A r \in Regions : Position(Table(r)) < Position(pml4)
  <1> USE AddressSpaceConstants
  <1> DEFINE size == RegionSize + 1
  <1>1. \A v \in Vas : Position(Page(v)) = RegionOf(v) * size + (v % RegionSize)
    BY DEF Position, Page
  <1>2. \A r \in Regions : Position(Table(r)) = r * size + RegionSize
    BY DEF Position, Table
  <1>3. Position(pml4) = (LastVa + 1) * size
    BY DEF Position, pml4
  <1>4. \A v \in Vas : /\ v % RegionSize \in 0 .. RegionSize - 1
                       /\ RegionOf(v) \in 0 .. LastVa
                       /\ RegionOf(v) * size \in Int
    <2> SUFFICES ASSUME NEW v \in Vas
                 PROVE  /\ v % RegionSize \in 0 .. RegionSize - 1
                        /\ RegionOf(v) \in 0 .. LastVa
                        /\ RegionOf(v) * size \in Int
      OBVIOUS
    <2>1. v \in Nat /\ v <= LastVa /\ RegionSize \in Nat /\ RegionSize > 0
      BY DEF Vas
    <2>2. v % RegionSize \in 0 .. RegionSize - 1 /\ v \div RegionSize \in 0 .. v
      BY <2>1
    <2> QED
      BY <2>1, <2>2 DEF RegionOf
  <1>5. ASSUME NEW r \in Regions
        PROVE  r * size + RegionSize < (LastVa + 1) * size
    <2>1. r \in 0 .. LastVa
      BY <1>4 DEF Regions
    <2>2. (r + 1) * size <= (LastVa + 1) * size
      BY <2>1
    <2>3. (r + 1) * size = r * size + RegionSize + 1
      BY <2>1
    <2>4. r * size \in Int /\ (LastVa + 1) * size \in Int
      BY <2>1
    <2> HIDE DEF size
    <2> QED
      BY <2>2, <2>3, <2>4
  <1>6. \A v \in Vas : RegionOf(v) \in Regions
    BY DEF Regions
  <1> HIDE DEF size
  <1>7. \A v \in Vas : Position(Page(v)) < Position(Table(RegionOf(v)))
    BY <1>1, <1>2, <1>4, <1>6
  <1> QED
    BY <1>2, <1>3, <1>5, <1>7

\* Positions can be compared.
LEMMA PositionInt ==
    /\ \A v \in Vas : Position(Page(v)) \in Int
    /\ \A r \in Regions : Position(Table(r)) \in Int
    /\ Position(pml4) \in Int
  <1> USE AddressSpaceConstants
  <1>1. \A v \in Vas : v \in Nat /\ v % RegionSize \in Int /\ RegionOf(v) \in Int
    <2>1. \A v \in Vas : v \in Nat
      BY DEF Vas
    <2>2. RegionSize \in Nat /\ RegionSize > 0
      OBVIOUS
    <2> QED
      BY <2>1, <2>2 DEF RegionOf
  <1>2. \A r \in Regions : r \in Int
    BY <1>1 DEF Regions
  <1>3. \A v \in Vas : Position(Page(v)) = RegionOf(v) * (RegionSize + 1) + (v % RegionSize)
    BY DEF Position, Page
  <1>4. \A r \in Regions : Position(Table(r)) = r * (RegionSize + 1) + RegionSize
    BY DEF Position, Table
  <1>5. Position(pml4) = (LastVa + 1) * (RegionSize + 1)
    BY DEF Position, pml4
  <1> QED
    BY <1>1, <1>2, <1>3, <1>4, <1>5

\* A bounded set of numbers has a maximum.
LEMMA MaxBounded ==
    ASSUME NEW b \in Nat, NEW S \in SUBSET (0 .. b), S # {}
    PROVE  Max(S) \in S /\ \A y \in S : Max(S) >= y
  <1> DEFINE R == OpToRel(<, Nat)
  <1>1. \A x, y \in Nat : x < y => <<x, y>> \in R
    BY DEF OpToRel
  <1>2. IsWellFoundedOn(R, Nat)
    BY NatLessThanWellFounded
  <1> HIDE DEF R
  <1> DEFINE T == {b - s : s \in S}
  <1>3. \A s \in S : s \in Nat /\ b - s \in Nat
    OBVIOUS
  <1>4. T \subseteq Nat /\ T # {}
    BY <1>3, Zenon
  <1>5. \E x \in T : \A y \in T : ~ (<<y, x>> \in R)
    BY <1>2, <1>4, WFMin, Zenon
  <1>6. PICK x \in S : \A y \in S : ~ (<<b - y, b - x>> \in R)
    BY <1>5
  <1>7. ASSUME NEW y \in S
        PROVE  x >= y
    <2>1. ~ (b - y < b - x)
      BY <1>1, <1>3, <1>6, Zenon
    <2> QED
      BY <1>3, <2>1
  <1>8. \E z \in S : \A y \in S : z >= y
    BY <1>7
  <1> QED
    BY <1>8, Zenon DEF Max

\* The heap starts at a natural number.
LEMMA HeapStartNat ==
    ASSUME NEW prog \in Programs
    PROVE  HeapStart(prog) \in Nat
  <1>1. prog.pages \in SUBSET (0 .. LastVa) /\ prog.pages # {}
    BY AddressSpaceConstants DEF Vas
  <1>2. Max(prog.pages) \in 0 .. LastVa
    BY <1>1, MaxBounded, AddressSpaceConstants, Zenon
  <1> QED
    BY <1>2, AddressSpaceConstants DEF HeapStart

\* A new image for p: process_spawn, process_exec and process_fork replace
\* the whole directory by one that brings its tables.
LEMMA ReplaceImage ==
    ASSUME IInv, NEW p \in Procs, NEW uses \in SUBSET Uses, pml4 \in uses,
           BringsTables(uses, EmptyDirectory), Allocated(FirstFit(uses)),
           frame' = [frame EXCEPT ![p] = Mapped(EmptyDirectory, FirstFit(uses))],
           FreeAfter(p, EmptyDirectory, FirstFit(uses)), OnlyStatusOf(p)
    PROVE  /\ frame' \in [Procs -> [Uses -> Pages \cup {None}]]
           /\ FramesExclusive' /\ TablesPresent' /\ LiveHasDirectory'
  <1> DEFINE f == FirstFit(uses)
  <1>1. Assigns(f, uses)
    BY FirstFitAssigns
  <1>2. TypeOK /\ FramesExclusive /\ TablesPresent /\ LiveHasDirectory
    BY DEF IInv
  <1>3. PartOf(EmptyDirectory, p)
    BY EmptyFacts DEF PartOf
  <1>4. frame' = [frame EXCEPT ![p] = Mapped(EmptyDirectory, f)] /\ FreeAfter(p, EmptyDirectory, f)
    OBVIOUS
  <1>5. BringsTables(uses, EmptyDirectory)
    OBVIOUS
  <1> HIDE DEF f
  <1>6. FramesExclusive'
    BY <1>1, <1>2, <1>3, <1>4, EmptyFacts, MapExclusive, Zenon
  <1>7. HasTables(p, uses, EmptyDirectory)
    BY <1>1, <1>2, <1>4, <1>5, EmptyFacts, MapTables, Zenon
  <1>8. LiveHasDirectory'
    <2>1. pml4 \in Present(p)'
      BY <1>7 DEF HasTables
    <2> QED
      BY <1>2, <1>7, <2>1 DEF LiveHasDirectory, HasTables, OnlyStatusOf
  <1> QED
    BY <1>6, <1>7, <1>8 DEF HasTables

\* The image of a program and the pages of a process bring their tables.
LEMMA ImageBringsTables ==
    ASSUME NEW prog \in Programs
    PROVE  BringsTables(Image(prog), EmptyDirectory)
  <1>1. \A v \in Vas : Page(v) \in Uses
    BY DEF Uses
  <1>2. \A r \in Regions : Table(r) \in Uses
    BY DEF Uses
  <1> QED
    BY <1>1, <1>2, ImageFacts, EmptyFacts DEF BringsTables

LEMMA PresentBringsTables ==
    ASSUME TablesPresent, NEW p \in Procs
    PROVE  BringsTables(Present(p), EmptyDirectory) /\ Present(p) \in SUBSET Uses
  <1>1. \A v \in Vas : Page(v) \in Uses
    BY DEF Uses
  <1>2. \A r \in Regions : Table(r) \in Uses
    BY DEF Uses
  <1>3. Present(p) \in SUBSET Uses
    BY DEF Present
  <1> QED
    BY <1>1, <1>2, <1>3, EmptyFacts DEF BringsTables, TablesPresent

\* The free pages when f is taken and what p had is given back.
LEMMA FreeAfterReplacing ==
    ASSUME IInv, NEW p \in Procs, NEW uses, Allocated(FirstFit(uses)),
           \/ free' = free \ Range(FirstFit(uses))
           \/ free' = (free \ Range(FirstFit(uses))) \cup {frame[p][u] : u \in Present(p)}
    PROVE  FreeAfter(p, EmptyDirectory, FirstFit(uses)) /\ free' \subseteq Pages
  <1> DEFINE f == FirstFit(uses)
  <1>1. Allocated(f) /\ DOMAIN f = uses
    BY FirstFitDomain
  <1>2. \/ free' = free \ Range(f)
        \/ free' = (free \ Range(f)) \cup {frame[p][u] : u \in Present(p)}
    OBVIOUS
  <1> HIDE DEF f
  <1>3. \A g \in Range(f) : g \in free
    BY <1>1 DEF Allocated, Range
  <1>4. \A u \in Present(p) : u \in Uses /\ frame[p][u] # None /\ frame[p][u] \in Pages
                             /\ frame[p][u] \notin free
    BY DEF IInv, TypeOK, Present, FramesExclusive
  <1>5. FreeAfter(p, EmptyDirectory, f)
    BY <1>2, <1>3, <1>4, EmptyFacts DEF FreeAfter
  <1>6. free' \subseteq Pages
    BY <1>2, <1>4 DEF IInv, TypeOK
  <1> QED
    BY <1>5, <1>6 DEF f

\* IInv is inductive, action by action.
LEMMA SpawnStep ==
    ASSUME IInv, NEW p \in Procs, NEW prog \in Programs, process_spawn(p, prog)
    PROVE  IInv'
  <1>1. FreeAfter(p, EmptyDirectory, FirstFit(Image(prog))) /\ free' \subseteq Pages
    BY FreeAfterReplacing DEF process_spawn
  <1>2. /\ frame' \in [Procs -> [Uses -> Pages \cup {None}]]
        /\ FramesExclusive' /\ TablesPresent' /\ LiveHasDirectory'
    <2>1. OnlyStatusOf(p)
      BY DEF OnlyStatusOf, process_spawn, IInv, TypeOK
    <2>2. /\ Allocated(FirstFit(Image(prog)))
          /\ frame' = [frame EXCEPT ![p] = Mapped(EmptyDirectory, FirstFit(Image(prog)))]
      BY DEF process_spawn
    <2> QED
      BY <1>1, <2>1, <2>2, ImageFacts, ImageBringsTables, ReplaceImage, Zenon
  <1>3. /\ status' \in [Procs -> {"none", "live", "dead"}] /\ panicked' \in BOOLEAN
        /\ heap_start' \in [Procs -> Nat] /\ heap_end' \in [Procs -> Nat]
    BY HeapStartNat DEF process_spawn, IInv, TypeOK
  <1> QED
    BY <1>1, <1>2, <1>3 DEF IInv, TypeOK

LEMMA ExecStep ==
    ASSUME IInv, NEW p \in Procs, NEW prog \in Programs, process_exec(p, prog)
    PROVE  IInv'
  <1>1. FreeAfter(p, EmptyDirectory, FirstFit(Image(prog))) /\ free' \subseteq Pages
    BY FreeAfterReplacing DEF process_exec
  <1>2. /\ frame' \in [Procs -> [Uses -> Pages \cup {None}]]
        /\ FramesExclusive' /\ TablesPresent' /\ LiveHasDirectory'
    <2>1. OnlyStatusOf(p)
      BY DEF OnlyStatusOf, process_exec
    <2>2. /\ Allocated(FirstFit(Image(prog)))
          /\ frame' = [frame EXCEPT ![p] = Mapped(EmptyDirectory, FirstFit(Image(prog)))]
      BY DEF process_exec
    <2> QED
      BY <1>1, <2>1, <2>2, ImageFacts, ImageBringsTables, ReplaceImage, Zenon
  <1>3. /\ status' \in [Procs -> {"none", "live", "dead"}] /\ panicked' \in BOOLEAN
        /\ heap_start' \in [Procs -> Nat] /\ heap_end' \in [Procs -> Nat]
    BY HeapStartNat DEF process_exec, IInv, TypeOK
  <1> QED
    BY <1>1, <1>2, <1>3 DEF IInv, TypeOK

LEMMA ForkStep ==
    ASSUME IInv, NEW p \in Procs, NEW c \in Procs, process_fork(p, c)
    PROVE  IInv'
  <1>1. FreeAfter(c, EmptyDirectory, FirstFit(Present(p))) /\ free' \subseteq Pages
    BY FreeAfterReplacing DEF process_fork
  <1>2. /\ frame' \in [Procs -> [Uses -> Pages \cup {None}]]
        /\ FramesExclusive' /\ TablesPresent' /\ LiveHasDirectory'
    <2>1. OnlyStatusOf(c)
      BY DEF OnlyStatusOf, process_fork, IInv, TypeOK
    <2>2. /\ Allocated(FirstFit(Present(p)))
          /\ frame' = [frame EXCEPT ![c] = Mapped(EmptyDirectory, FirstFit(Present(p)))]
      BY DEF process_fork
    <2>3. pml4 \in Present(p) /\ TablesPresent
      BY DEF process_fork, IInv, LiveHasDirectory
    <2> QED
      BY <1>1, <2>1, <2>2, <2>3, PresentBringsTables, ReplaceImage, Zenon
  <1>3. /\ status' \in [Procs -> {"none", "live", "dead"}] /\ panicked' \in BOOLEAN
        /\ heap_start' \in [Procs -> Nat] /\ heap_end' \in [Procs -> Nat]
    BY DEF process_fork, IInv, TypeOK
  <1> QED
    BY <1>1, <1>2, <1>3 DEF IInv, TypeOK

LEMMA GrowStep ==
    ASSUME IInv, NEW p \in Procs, NEW inc \in Increments, sys_heap_grow(p, inc)
    PROVE  IInv'
  <1> DEFINE uses == GrowthUses(p, inc)
  <1> DEFINE f == FirstFit(uses)
  <1> DEFINE vs == HeapPages(p, inc)
  <1>1. TypeOK /\ FramesExclusive /\ TablesPresent /\ LiveHasDirectory
    BY DEF IInv
  <1>2. /\ Allocated(f) /\ free' = free \ Range(f) /\ vs \subseteq Vas
        /\ frame' = [frame EXCEPT ![p] = Mapped(frame[p], f)]
        /\ status[p] = "live" /\ UNCHANGED <<status, heap_start, panicked>>
        /\ heap_end' = [heap_end EXCEPT ![p] = heap_end[p] + inc]
    BY <1>1 DEF sys_heap_grow, TypeOK
  <1>3. uses = {Page(v) : v \in vs} \cup ({Table(RegionOf(v)) : v \in vs} \ Present(p))
    BY DEF GrowthUses, TablesFor
  <1>4. Assigns(f, uses)
    BY <1>2, FirstFitAssigns
  <1> HIDE DEF uses, f, vs
  <1>5. /\ pml4 \in Uses /\ \A v \in Vas : Page(v) \in Uses /\ RegionOf(v) \in Regions
        /\ \A r \in Regions : Table(r) \in Uses
    BY DEF Uses, Regions
  <1>6. uses \in SUBSET Uses
    BY <1>2, <1>3, <1>5
  <1>7. frame[p] \in [Uses -> Pages \cup {None}]
    BY <1>1 DEF TypeOK
  <1>8. \A u \in Uses : u \in Present(p) <=> frame[p][u] # None
    BY DEF Present
  <1>9. BringsTables(uses, frame[p])
    <2>1. ASSUME NEW v \in Vas, Page(v) \in uses \/ frame[p][Page(v)] # None
          PROVE  Table(RegionOf(v)) \in uses \/ frame[p][Table(RegionOf(v))] # None
      <3>1. CASE Page(v) \in uses
        <4>1. v \in vs
          BY <1>3, <3>1 DEF Page, Table
        <4> QED
          BY <1>3, <1>5, <1>8, <4>1
      <3>2. CASE frame[p][Page(v)] # None
        BY <1>1, <1>5, <1>8, <3>2 DEF TablesPresent
      <3> QED
        BY <2>1, <3>1, <3>2
    <2>2. frame[p][pml4] # None
      BY <1>1, <1>2, <1>5, <1>8 DEF LiveHasDirectory
    <2> QED
      BY <2>1, <2>2 DEF BringsTables
  <1>10. FreeAfter(p, frame[p], f) /\ free' \subseteq Pages
    BY <1>1, <1>2 DEF FreeAfter, TypeOK
  <1>11. FramesExclusive'
    <2>1. PartOf(frame[p], p)
      BY DEF PartOf
    <2> QED
      BY <1>1, <1>2, <1>4, <1>6, <1>7, <1>10, <2>1, MapExclusive, Zenon
  <1>12. HasTables(p, uses, frame[p])
    BY <1>1, <1>2, <1>4, <1>6, <1>7, <1>9, MapTables, Zenon
  <1>13. LiveHasDirectory'
    <2>1. pml4 \in Present(p)'
      BY <1>1, <1>2, <1>5, <1>8, <1>12 DEF HasTables, LiveHasDirectory
    <2> QED
      BY <1>1, <1>2, <1>12, <2>1 DEF HasTables, LiveHasDirectory
  <1>14. heap_end' \in [Procs -> Nat]
    <2>1. heap_end[p] + inc \in Nat
      BY <1>1, AddressSpaceConstants DEF TypeOK
    <2> QED
      BY <1>1, <1>2, <2>1 DEF TypeOK
  <1>15. /\ status' \in [Procs -> {"none", "live", "dead"}] /\ panicked' \in BOOLEAN
         /\ heap_start' \in [Procs -> Nat]
    BY <1>1, <1>2 DEF TypeOK
  <1> QED
    BY <1>10, <1>11, <1>12, <1>13, <1>14, <1>15 DEF IInv, TypeOK, HasTables

\* A failed load gives back exactly the pages it took.
LEMMA FailStep ==
    ASSUME IInv, NEW p \in Procs, NEW prog \in Programs,
           process_spawn_fail(p, prog) \/ process_exec_fail(p, prog)
    PROVE  IInv'
  <1> DEFINE f == FirstFit(TakenFor(prog))
  <1>1. /\ Allocated(f) /\ free' = (free \ Range(f)) \cup Range(f)
        /\ UNCHANGED <<frame, status, panicked>>
    BY DEF process_spawn_fail, process_exec_fail
  <1>2. heap_start' \in [Procs -> Nat] /\ heap_end' \in [Procs -> Nat]
    <2>1. CASE process_spawn_fail(p, prog)
      BY <2>1 DEF process_spawn_fail, IInv, TypeOK
    <2>2. CASE process_exec_fail(p, prog)
      BY <2>2, HeapStartNat DEF process_exec_fail, IInv, TypeOK
    <2> QED
      BY <2>1, <2>2
  <1> HIDE DEF f
  <1>3. \A g \in Range(f) : g \in free
    BY <1>1 DEF Allocated, Range
  <1>4. free' = free
    BY <1>1, <1>3
  <1> QED
    BY <1>1, <1>2, <1>4
    DEF IInv, TypeOK, FramesExclusive, TablesPresent, LiveHasDirectory, Present

LEMMA WaitFreeStep ==
    ASSUME IInv, NEW p \in Procs, wait_free(p)
    PROVE  IInv'
  <1>1. PICK u \in Uses : /\ FreesNext(p, u)
                          /\ free' = free \cup {frame[p][u]}
                          /\ frame' = [frame EXCEPT ![p][u] = None]
    BY Zenon DEF wait_free
  <1>2. /\ status[p] = "dead" /\ UNCHANGED <<status, heap_start, heap_end, panicked>>
        /\ u \in Present(p) /\ \A w \in Present(p) : Position(u) <= Position(w)
    BY <1>1 DEF wait_free, FreesNext
  <1>3. frame \in [Procs -> [Uses -> Pages \cup {None}]] /\ free \subseteq Pages
    BY DEF IInv, TypeOK
  <1>4. /\ frame' \in [Procs -> [Uses -> Pages \cup {None}]]
        /\ frame'[p][u] = None
        /\ \A q \in Procs, w \in Uses : (q # p \/ w # u) => frame'[q][w] = frame[q][w]
    BY <1>1, <1>3
  <1>5. frame[p][u] \in Pages /\ frame[p][u] # None
    BY <1>2, <1>3 DEF Present
  <1>6. TypeOK'
    BY <1>1, <1>2, <1>3, <1>4, <1>5 DEF IInv, TypeOK
  <1>7. FramesExclusive'
    <2>1. ASSUME NEW q \in Procs, NEW w \in Uses
          PROVE  frame'[q][w] \notin free'
      <3>1. CASE q = p /\ w = u
        <4>1. None \notin free /\ None # frame[p][u]
          BY <1>3, <1>5, AddressSpaceConstants, Zenon
        <4> QED
          BY <1>1, <1>4, <3>1, <4>1
      <3>2. CASE q # p \/ w # u
        <4>1. frame'[q][w] = frame[q][w] /\ frame[q][w] \notin free
          BY <1>4, <3>2 DEF IInv, FramesExclusive
        <4>2. frame[q][w] # frame[p][u]
          BY <1>5, <3>2 DEF IInv, FramesExclusive
        <4> QED
          BY <1>1, <4>1, <4>2
      <3> QED
        BY <3>1, <3>2
    <2>2. ASSUME NEW q \in Procs, NEW r \in Procs, NEW v \in Uses, NEW w \in Uses,
                 frame'[q][v] = frame'[r][w], frame'[q][v] # None
          PROVE  q = r /\ v = w
      <3>1. frame'[q][v] = frame[q][v] /\ frame'[r][w] = frame[r][w]
        BY <1>4, <2>2
      <3>2. frame[q][v] = frame[r][w] /\ frame[q][v] # None
        BY <2>2, <3>1, Zenon
      <3>3. FramesExclusive
        BY DEF IInv
      <3> QED
        BY <3>2, <3>3 DEF FramesExclusive
    <2> QED
      BY <2>1, <2>2 DEF FramesExclusive
  <1>8. \A q \in Procs, w \in Uses :
            w \in Present(q)' <=> w \in Present(q) /\ ~(q = p /\ w = u)
    BY <1>4 DEF Present
  <1>9. /\ pml4 \in Uses /\ \A v \in Vas : Page(v) \in Uses /\ RegionOf(v) \in Regions
        /\ \A r \in Regions : Table(r) \in Uses
    BY DEF Uses, Regions
  <1>10. TablesPresent'
    <2>1. ASSUME NEW q \in Procs, NEW v \in Vas, Page(v) \in Present(q)'
          PROVE  Table(RegionOf(v)) \in Present(q)'
      <3>1. Page(v) \in Present(q) /\ Table(RegionOf(v)) \in Present(q)
        BY <1>8, <1>9, <2>1 DEF IInv, TablesPresent
      <3>2. q = p => Table(RegionOf(v)) # u
        BY <1>2, <1>9, <3>1, FreedInOrder, PositionInt
      <3> QED
        BY <1>8, <1>9, <3>1, <3>2
    <2>2. ASSUME NEW q \in Procs, NEW r \in Regions, Table(r) \in Present(q)'
          PROVE  pml4 \in Present(q)'
      <3>1. Table(r) \in Present(q) /\ pml4 \in Present(q)
        BY <1>8, <1>9, <2>2 DEF IInv, TablesPresent
      <3>2. q = p => pml4 # u
        BY <1>2, <1>9, <3>1, FreedInOrder, PositionInt
      <3> QED
        BY <1>8, <1>9, <3>1, <3>2
    <2> QED
      BY <2>1, <2>2 DEF TablesPresent
  <1>11. LiveHasDirectory'
    BY <1>2, <1>8, <1>9 DEF IInv, LiveHasDirectory
  <1> QED
    BY <1>6, <1>7, <1>10, <1>11 DEF IInv

LEMMA Inductive ==
    IInv /\ [Next]_vars => IInv'
  <1> SUFFICES ASSUME IInv, [Next]_vars
               PROVE  IInv'
    OBVIOUS
  <1>1. ASSUME NEW p \in Procs, NEW prog \in Programs,
               \/ process_spawn(p, prog) \/ process_spawn_fail(p, prog)
               \/ process_exec(p, prog)  \/ process_exec_fail(p, prog)
        PROVE  IInv'
    BY <1>1, SpawnStep, ExecStep, FailStep
  <1>2. ASSUME NEW p \in Procs, NEW c \in Procs, process_fork(p, c)
        PROVE  IInv'
    BY <1>2, ForkStep
  <1>3. ASSUME NEW p \in Procs, NEW inc \in Increments, sys_heap_grow(p, inc)
        PROVE  IInv'
    BY <1>3, GrowStep
  <1>4. ASSUME NEW p \in Procs, sys_exit(p) \/ wait_done(p)
        PROVE  IInv'
    <2>1. /\ UNCHANGED <<free, frame, heap_start, heap_end, panicked>>
          /\ \E s \in {"dead", "none"} : status' = [status EXCEPT ![p] = s]
      BY <1>4 DEF sys_exit, wait_done
    <2> QED
      BY <2>1 DEF IInv, TypeOK, FramesExclusive, TablesPresent, LiveHasDirectory, Present
  <1>5. ASSUME NEW p \in Procs, wait_free(p)
        PROVE  IInv'
    BY <1>5, WaitFreeStep
  <1>6. CASE pmm_alloc_panic
    BY <1>6 DEF pmm_alloc_panic, IInv, TypeOK, FramesExclusive, TablesPresent,
                LiveHasDirectory, Present
  <1>7. CASE Halted \/ UNCHANGED vars
    BY <1>7 DEF Halted, vars, IInv, TypeOK, FramesExclusive, TablesPresent,
                LiveHasDirectory, Present
  <1> QED
    BY <1>1, <1>2, <1>3, <1>4, <1>5, <1>6, <1>7 DEF Next

LEMMA Initially ==
    Init => IInv
  <1> SUFFICES ASSUME Init
               PROVE  IInv
    OBVIOUS
  <1>1. frame = [p \in Procs |-> [u \in Uses |-> None]]
    BY DEF Init
  <1>2. \A p \in Procs, u \in Uses : frame[p][u] = None
    BY <1>1
  <1>3. TypeOK
    BY <1>1, Zenon DEF Init, TypeOK
  <1>4. FramesExclusive
    BY <1>2, AddressSpaceConstants, Zenon DEF Init, FramesExclusive
  <1>5. TablesPresent
    BY <1>2 DEF TablesPresent, Present
  <1>6. LiveHasDirectory
    BY DEF Init, LiveHasDirectory
  <1> QED
    BY <1>3, <1>4, <1>5, <1>6 DEF IInv

LEMMA Invariance ==
    Spec => []IInv
  BY Initially, Inductive, PTL DEF Spec

\* Every page number, status and break stays in its range through spawn, fork,
\* exec, heap_grow, exit and the reaping.
THEOREM TypeCorrect ==
    Spec => []TypeOK
  <1>1. IInv => TypeOK
    BY DEF IInv
  <1> QED
    BY Invariance, <1>1, PTL

\* No physical page has two uses, and none in use is free, for any number of
\* processes and pages: fork copies, exec frees only the old image, and the
\* interruptible frees of sys_wait never release a page still referred to.
THEOREM PagesHaveOneUse ==
    Spec => []FramesExclusive
  <1>1. IInv => FramesExclusive
    BY DEF IInv
  <1> QED
    BY Invariance, <1>1, PTL

\* At every moment a mapped page has its table and a table its PML4, because
\* paging_free_directory frees bottom up and map_page_in creates top down.
THEOREM TablesHangTogether ==
    Spec => []TablesPresent
  <1>1. IInv => TablesPresent
    BY DEF IInv
  <1> QED
    BY Invariance, <1>1, PTL
-----------------------------------------------------------------------------
\* The break of a live process is above each page of its program and heap.
HeapIsAbove ==
    \A p \in Procs : status[p] = "live" =>
        \A v \in Vas \ {StackVa} : Page(v) \in Present(p) => PageSize * v < heap_end[p]

\* A slot that process_create may give out has nothing left to free.
FreeSlotIsEmpty ==
    \A p \in Procs : status[p] = "none" => Present(p) = {}

\* Each executable names an entry point, as linking with ENTRY(_start) does.
\* A file without one is mapped to the end and then refused, and the break it
\* leaves behind lets the next heap_grow map over pages that are in use.
EntryGiven == \A prog \in Programs : Built(prog) => prog.entry

KInv == IInv /\ HeapIsAbove /\ FreeSlotIsEmpty /\ NoPageLost

\* The page a break falls in or is the end of.
LEMMA RoundUpFacts ==
    ASSUME NEW a \in Nat, NEW v \in Nat
    PROVE  v < RoundUp(a) <=> PageSize * v < a
  <1> DEFINE b == a + PageSize - 1
  <1> DEFINE q == b \div PageSize
  <1>1. PageSize \in Nat /\ PageSize > 0 /\ b \in Nat
    BY AddressSpaceConstants
  <1>2. q \in Nat /\ PageSize * q <= b /\ b < PageSize * q + PageSize
    <2> HIDE DEF b
    <2> QED
      BY <1>1
  <1>3. RoundUp(a) = q
    BY DEF RoundUp
  <1> HIDE DEF q
  <1>4. PageSize * q \in Nat /\ PageSize * v \in Nat
    BY <1>1, <1>2
  <1>5. v < q => PageSize * v + PageSize <= PageSize * q
    <2> SUFFICES ASSUME v < q
                 PROVE  PageSize * v + PageSize <= PageSize * q
      OBVIOUS
    <2> DEFINE d == q - v - 1
    <2>1. d \in Nat /\ q = v + 1 + d
      BY <1>2
    <2> HIDE DEF d
    <2>2. PageSize * q = PageSize * v + PageSize + PageSize * d /\ PageSize * d \in Nat
      BY <1>1, <2>1
    <2> QED
      BY <1>1, <1>4, <2>2
  <1>6. v >= q => PageSize * v >= PageSize * q
    <2> SUFFICES ASSUME v >= q
                 PROVE  PageSize * v >= PageSize * q
      OBVIOUS
    <2> DEFINE d == v - q
    <2>1. d \in Nat /\ v = q + d
      BY <1>2
    <2> HIDE DEF d
    <2>2. PageSize * v = PageSize * q + PageSize * d /\ PageSize * d \in Nat
      BY <1>1, <1>2, <2>1
    <2> QED
      BY <1>1, <1>4, <2>2
  <1> QED
    BY <1>1, <1>2, <1>3, <1>4, <1>5, <1>6

\* A program's heap starts above each of its pages.
LEMMA HeapStartAbove ==
    ASSUME NEW prog \in Programs, NEW v \in prog.pages
    PROVE  PageSize * v < HeapStart(prog)
  <1>1. prog.pages \in SUBSET (0 .. LastVa) /\ prog.pages # {}
    BY AddressSpaceConstants DEF Vas
  <1> DEFINE m == Max(prog.pages)
  <1>2. m \in 0 .. LastVa /\ m >= v
    BY <1>1, MaxBounded, AddressSpaceConstants, Zenon
  <1>3. HeapStart(prog) = PageSize * (m + 1)
    BY DEF HeapStart
  <1>4. v \in Nat
    BY <1>1
  <1> HIDE DEF m
  <1> DEFINE d == m - v
  <1>5. d \in Nat /\ m = v + d
    BY <1>2, <1>4, AddressSpaceConstants
  <1> HIDE DEF d
  <1>6. PageSize * (m + 1) = PageSize * v + PageSize * d + PageSize
    BY <1>4, <1>5, AddressSpaceConstants
  <1>7. PageSize * v \in Nat /\ PageSize * d \in Nat
    BY <1>4, <1>5, AddressSpaceConstants
  <1> QED
    BY <1>3, <1>6, <1>7, AddressSpaceConstants

\* Mapping fresh pages into p's directory loses none, when whatever it
\* replaces is free again.
LEMMA MapKeeps ==
    ASSUME TypeOK, NoPageLost, NEW p \in Procs, NEW uses \in SUBSET Uses,
           NEW f, Assigns(f, uses), NEW old \in [Uses -> Pages \cup {None}],
           frame' = [frame EXCEPT ![p] = Mapped(old, f)],
           \A u \in Uses : \/ frame[p][u] = None
                           \/ frame[p][u] \in free'
                           \/ u \notin uses /\ old[u] = frame[p][u],
           \A g \in free : g \in free' \/ g \in Range(f)
    PROVE  NoPageLost'
  <1> DEFINE new == Mapped(old, f)
  <1>1. IsMapped(new, old, f, uses)
    BY MappedFacts
  <1>2. frame' = [frame EXCEPT ![p] = new]
    OBVIOUS
  <1> HIDE DEF new
  <1>3. frame'[p] = new /\ \A q \in Procs \ {p} : frame'[q] = frame[q]
    BY <1>2 DEF TypeOK
  <1> SUFFICES ASSUME NEW g \in Pages, g \notin free'
               PROVE  \E q \in Procs, u \in Uses : frame'[q][u] = g
    BY DEF NoPageLost
  <1>4. CASE g \in free
    <2>1. g \in Range(f)
      BY <1>4
    <2>2. PICK u \in uses : g = f[u]
      BY <2>1 DEF Range, Assigns
    <2>3. u \in Uses /\ frame'[p][u] = g
      BY <1>1, <1>3, <2>2 DEF IsMapped
    <2> QED
      BY <2>3
  <1>5. CASE g \notin free
    <2>1. PICK q \in Procs, u \in Uses : frame[q][u] = g
      BY <1>5 DEF NoPageLost
    <2>2. CASE q # p
      BY <1>3, <2>1, <2>2
    <2>3. CASE q = p
      <3>1. g # None
        BY AddressSpaceConstants, Zenon
      <3>2. u \notin uses /\ old[u] = g
        BY <2>1, <2>3, <3>1
      <3>3. frame'[p][u] = g
        BY <1>1, <1>3, <3>2 DEF IsMapped
      <3> QED
        BY <3>3
    <2> QED
      BY <2>2, <2>3
  <1> QED
    BY <1>4, <1>5

\* Which pages a new image has: those of the program and the stack.
LEMMA ImagePages ==
    ASSUME NEW prog \in Programs, NEW v \in Vas \ {StackVa}, Page(v) \in Image(prog)
    PROVE  v \in prog.pages
  BY DEF Image, NewImage, TablesFor, Page, Table, kstack, pml4

\* The parts of KInv that are about p only, after an action on p, when the
\* other processes keep their pages, their status and their break.
OnlyChanges(p) ==
    \A q \in Procs \ {p} :
        Present(q)' = Present(q) /\ status'[q] = status[q] /\ heap_end'[q] = heap_end[q]

LEMMA OthersKept ==
    ASSUME HeapIsAbove, FreeSlotIsEmpty, NEW p \in Procs, OnlyChanges(p),
           status'[p] = "live" =>
               \A v \in Vas \ {StackVa} : Page(v) \in Present(p)' => PageSize * v < heap_end'[p],
           status'[p] = "none" => Present(p)' = {}
    PROVE  HeapIsAbove' /\ FreeSlotIsEmpty'
  <1>1. HeapIsAbove'
    BY DEF HeapIsAbove, OnlyChanges
  <1>2. FreeSlotIsEmpty'
    BY DEF FreeSlotIsEmpty, OnlyChanges
  <1> QED
    BY <1>1, <1>2

\* process_spawn and process_exec: the image of prog replaces p's directory.
LEMMA ImageKeeps ==
    ASSUME KInv, NEW p \in Procs, NEW prog \in Programs,
           process_spawn(p, prog) \/ process_exec(p, prog)
    PROVE  HeapIsAbove' /\ FreeSlotIsEmpty' /\ NoPageLost'
  <1> DEFINE f == FirstFit(Image(prog))
  <1> DEFINE old == {frame[p][u] : u \in Present(p)}
  <1>1. TypeOK /\ FramesExclusive /\ TablesPresent /\ NoPageLost /\ HeapIsAbove /\ FreeSlotIsEmpty
    BY DEF KInv, IInv
  <1>2. /\ Allocated(f)
        /\ frame' = [frame EXCEPT ![p] = Mapped(EmptyDirectory, f)]
        /\ heap_end' = [heap_end EXCEPT ![p] = HeapStart(prog)]
        /\ status' = [status EXCEPT ![p] = "live"]
        /\ \/ free' = free \ Range(f) /\ status[p] = "none"
           \/ free' = (free \ Range(f)) \cup old
    BY <1>1 DEF process_spawn, process_exec, TypeOK
  <1>3. Assigns(f, Image(prog))
    BY <1>2, FirstFitAssigns
  <1> HIDE DEF f
  <1>4. \A u \in Uses : frame[p][u] = None \/ frame[p][u] \in free'
    <2> SUFFICES ASSUME NEW u \in Uses, frame[p][u] # None
                 PROVE  frame[p][u] \in free'
      OBVIOUS
    <2>1. u \in Present(p)
      BY DEF Present
    <2>2. status[p] # "none"
      BY <1>1, <2>1 DEF FreeSlotIsEmpty
    <2> QED
      BY <1>2, <2>1, <2>2
  <1>5. NoPageLost'
    <2>1. \A g \in free : g \in free' \/ g \in Range(f)
      BY <1>2
    <2> QED
      BY <1>1, <1>2, <1>3, <1>4, <2>1, EmptyFacts, ImageFacts, MapKeeps, Zenon
  <1>6. HasTables(p, Image(prog), EmptyDirectory)
    BY <1>1, <1>2, <1>3, ImageBringsTables, EmptyFacts, ImageFacts, MapTables, Zenon
  <1>7. OnlyChanges(p)
    BY <1>1, <1>2, <1>6 DEF OnlyChanges, HasTables, TypeOK
  <1>8. ASSUME NEW v \in Vas \ {StackVa}, Page(v) \in Present(p)'
        PROVE  PageSize * v < heap_end'[p]
    <2>1. Page(v) \in Image(prog)
      <3>1. Page(v) \in Uses
        BY DEF Uses
      <3> QED
        BY <1>6, <1>8, <3>1, EmptyFacts DEF HasTables
    <2>2. heap_end'[p] = HeapStart(prog)
      BY <1>1, <1>2 DEF TypeOK
    <2> QED
      BY <2>1, <2>2, ImagePages, HeapStartAbove, Zenon
  <1>9. status'[p] = "live"
    BY <1>1, <1>2 DEF TypeOK
  <1>10. status'[p] # "none"
    BY <1>9
  <1> QED
    BY <1>1, <1>5, <1>7, <1>8, <1>10, OthersKept, Zenon

\* process_fork: the child has a page for each of the parent's, and its break.
LEMMA ForkKeeps ==
    ASSUME KInv, NEW p \in Procs, NEW c \in Procs, process_fork(p, c)
    PROVE  HeapIsAbove' /\ FreeSlotIsEmpty' /\ NoPageLost'
  <1> DEFINE f == FirstFit(Present(p))
  <1>1. TypeOK /\ FramesExclusive /\ TablesPresent /\ NoPageLost /\ HeapIsAbove /\ FreeSlotIsEmpty
    BY DEF KInv, IInv
  <1>2. /\ Allocated(f) /\ status[p] = "live" /\ status[c] = "none"
        /\ free' = free \ Range(f)
        /\ frame' = [frame EXCEPT ![c] = Mapped(EmptyDirectory, f)]
        /\ status' = [status EXCEPT ![c] = "live"]
        /\ heap_end' = [heap_end EXCEPT ![c] = heap_end[p]]
    BY DEF process_fork
  <1>3. Assigns(f, Present(p))
    BY <1>2, FirstFitAssigns
  <1> HIDE DEF f
  <1>4. \A u \in Uses : frame[c][u] = None
    BY <1>1, <1>2 DEF FreeSlotIsEmpty, Present
  <1>5. \A g \in free : g \in free' \/ g \in Range(f)
    BY <1>2
  <1>6. NoPageLost'
    BY <1>1, <1>2, <1>3, <1>4, <1>5, EmptyFacts, PresentBringsTables, MapKeeps, Zenon
  <1>7. HasTables(c, Present(p), EmptyDirectory)
    BY <1>1, <1>2, <1>3, PresentBringsTables, EmptyFacts, MapTables, Zenon
  <1>8. OnlyChanges(c)
    BY <1>1, <1>2, <1>7 DEF OnlyChanges, HasTables, TypeOK
  <1>9. ASSUME NEW v \in Vas \ {StackVa}, Page(v) \in Present(c)'
        PROVE  PageSize * v < heap_end'[c]
    <2>1. Page(v) \in Present(p)
      <3>1. Page(v) \in Uses
        BY DEF Uses
      <3> QED
        BY <1>7, <1>9, <3>1, EmptyFacts DEF HasTables
    <2>2. heap_end'[c] = heap_end[p]
      BY <1>1, <1>2 DEF TypeOK
    <2> QED
      BY <1>1, <1>2, <2>1, <2>2 DEF HeapIsAbove
  <1>10. status'[c] # "none"
    BY <1>1, <1>2 DEF TypeOK
  <1> QED
    BY <1>1, <1>6, <1>8, <1>9, <1>10, OthersKept, Zenon

\* What sys_heap_grow does to p, for the three proofs that need it.
LEMMA GrowFacts ==
    ASSUME IInv, NEW p \in Procs, NEW inc \in Increments, sys_heap_grow(p, inc)
    PROVE  /\ Assigns(FirstFit(GrowthUses(p, inc)), GrowthUses(p, inc))
           /\ GrowthUses(p, inc) \in SUBSET Uses
           /\ frame' = [frame EXCEPT ![p] = Mapped(frame[p], FirstFit(GrowthUses(p, inc)))]
           /\ \A v \in Vas : Page(v) \in GrowthUses(p, inc) <=> v \in HeapPages(p, inc)
           /\ \A u \in Uses : u \in Present(p)' <=> u \in GrowthUses(p, inc) \/ u \in Present(p)
           /\ \A q \in Procs \ {p} : Present(q)' = Present(q)
           /\ heap_end[p] \in Nat /\ inc \in Nat /\ heap_end'[p] = heap_end[p] + inc
           /\ heap_start'[p] = heap_start[p]
           /\ \A v \in Vas : PageSize * v < heap_end'[p]
                                <=> PageSize * v < heap_end[p] \/ v \in HeapPages(p, inc)
  <1> DEFINE uses == GrowthUses(p, inc)
  <1> DEFINE f == FirstFit(uses)
  <1> DEFINE vs == HeapPages(p, inc)
  <1>1. TypeOK /\ FramesExclusive /\ TablesPresent /\ LiveHasDirectory
    BY DEF IInv
  <1>2. /\ Allocated(f) /\ vs \subseteq Vas
        /\ frame' = [frame EXCEPT ![p] = Mapped(frame[p], f)]
        /\ heap_end' = [heap_end EXCEPT ![p] = heap_end[p] + inc]
        /\ heap_start' = heap_start
    BY <1>1 DEF sys_heap_grow, TypeOK
  <1>3. uses = {Page(v) : v \in vs} \cup ({Table(RegionOf(v)) : v \in vs} \ Present(p))
    BY DEF GrowthUses, TablesFor
  <1>4. Assigns(f, uses)
    BY <1>2, FirstFitAssigns
  <1>5. heap_end[p] \in Nat /\ inc \in Nat /\ heap_end'[p] = heap_end[p] + inc
    BY <1>1, <1>2, AddressSpaceConstants DEF TypeOK
  <1>6. ASSUME NEW v \in Vas
        PROVE  PageSize * v < heap_end'[p] <=> PageSize * v < heap_end[p] \/ v \in vs
    <2>1. v \in Nat /\ heap_end[p] + inc \in Nat
      BY <1>5, AddressSpaceConstants DEF Vas
    <2> DEFINE low == RoundUp(heap_end[p])
    <2> DEFINE high == RoundUp(heap_end[p] + inc)
    <2>2. v < low <=> PageSize * v < heap_end[p]
      BY <1>5, <2>1, RoundUpFacts, Zenon
    <2>3. v < high <=> PageSize * v < heap_end[p] + inc
      BY <1>5, <2>1, RoundUpFacts, Zenon
    <2>4. low \in Int /\ high \in Int
      <3>1. PageSize \in Nat /\ PageSize > 0
        BY AddressSpaceConstants
      <3>2. heap_end[p] + PageSize - 1 \in Int /\ heap_end[p] + inc + PageSize - 1 \in Int
        BY <1>5, <3>1
      <3> QED
        BY <3>1, <3>2 DEF RoundUp
    <2>5. vs = low .. high - 1
      BY DEF HeapPages
    <2> HIDE DEF low, high, vs
    <2>6. PageSize * v \in Int
      BY <2>1, AddressSpaceConstants
    <2> QED
      BY <1>5, <2>1, <2>2, <2>3, <2>4, <2>5, <2>6
  <1> HIDE DEF uses, f, vs
  <1>7. /\ pml4 \in Uses /\ \A v \in Vas : Page(v) \in Uses /\ RegionOf(v) \in Regions
        /\ \A r \in Regions : Table(r) \in Uses
    BY DEF Uses, Regions
  <1>8. uses \in SUBSET Uses
    BY <1>2, <1>3, <1>7
  <1>9. \A v \in Vas : Page(v) \in uses <=> v \in vs
    BY <1>3 DEF Page, Table
  <1>10. frame[p] \in [Uses -> Pages \cup {None}]
    BY <1>1 DEF TypeOK
  <1>11. IsMapped(Mapped(frame[p], f), frame[p], f, uses)
    BY <1>1, <1>4, <1>8, <1>10, MappedFacts, Zenon
  <1>12. /\ frame'[p] = Mapped(frame[p], f)
         /\ \A q \in Procs \ {p} : frame'[q] = frame[q]
    BY <1>1, <1>2 DEF TypeOK
  <1>13. \A u \in Uses : u \in Present(p)' <=> u \in uses \/ u \in Present(p)
    BY <1>11, <1>12 DEF Present, IsMapped
  <1>14. \A q \in Procs \ {p} : Present(q)' = Present(q)
    BY <1>12 DEF Present
  <1> QED
    BY <1>2, <1>4, <1>5, <1>6, <1>8, <1>9, <1>13, <1>14, Zenon DEF uses, f, vs

\* sys_heap_grow maps only pages that were not mapped: those at and above the
\* break, and tables that were missing.
LEMMA GrowKeeps ==
    ASSUME KInv, NEW p \in Procs, NEW inc \in Increments, sys_heap_grow(p, inc)
    PROVE  HeapIsAbove' /\ FreeSlotIsEmpty' /\ NoPageLost'
  <1> DEFINE uses == GrowthUses(p, inc)
  <1> DEFINE f == FirstFit(uses)
  <1>1. IInv /\ TypeOK /\ NoPageLost /\ HeapIsAbove /\ FreeSlotIsEmpty
    BY DEF KInv, IInv
  <1>2. /\ Assigns(f, uses) /\ uses \in SUBSET Uses
        /\ frame' = [frame EXCEPT ![p] = Mapped(frame[p], f)]
        /\ \A v \in Vas : Page(v) \in uses <=> v \in HeapPages(p, inc)
        /\ \A u \in Uses : u \in Present(p)' <=> u \in uses \/ u \in Present(p)
        /\ \A q \in Procs \ {p} : Present(q)' = Present(q)
        /\ \A v \in Vas : PageSize * v < heap_end'[p]
                             <=> PageSize * v < heap_end[p] \/ v \in HeapPages(p, inc)
    BY <1>1, GrowFacts, Zenon
  <1>3. /\ free' = free \ Range(f) /\ status[p] = "live" /\ status' = status
        /\ HeapPages(p, inc) \subseteq Vas \ {StackVa}
        /\ heap_end' = [heap_end EXCEPT ![p] = @ + inc]
    BY DEF sys_heap_grow
  <1>4. \A u \in uses : u \notin Present(p)
    <2>1. ASSUME NEW v \in HeapPages(p, inc), Page(v) \in Present(p)
          PROVE  FALSE
      <3>1. v \in Vas \ {StackVa} /\ PageSize * v < heap_end[p]
        BY <1>1, <1>3, <2>1 DEF HeapIsAbove
      <3>2. v \in Nat /\ heap_end[p] \in Nat
        BY <1>1, <3>1, AddressSpaceConstants DEF Vas, TypeOK
      <3>3. v < RoundUp(heap_end[p])
        BY <3>1, <3>2, RoundUpFacts, Zenon
      <3>4. RoundUp(heap_end[p]) \in Int
        <4>1. PageSize \in Nat /\ PageSize > 0
          BY AddressSpaceConstants
        <4>2. heap_end[p] + PageSize - 1 \in Int
          BY <3>2, <4>1
        <4> QED
          BY <4>1, <4>2 DEF RoundUp
      <3> QED
        BY <2>1, <3>2, <3>3, <3>4 DEF HeapPages
    <2> QED
      BY <2>1 DEF GrowthUses
  <1> HIDE DEF uses, f
  <1>5. NoPageLost'
    <2>1. \A u \in Uses : frame[p][u] = None \/ u \notin uses
      BY <1>4 DEF Present
    <2>2. \A g \in free : g \in free' \/ g \in Range(f)
      BY <1>3
    <2>3. frame[p] \in [Uses -> Pages \cup {None}]
      BY <1>1 DEF TypeOK
    <2> QED
      BY <1>1, <1>2, <2>1, <2>2, <2>3, MapKeeps, Zenon
  <1>6. OnlyChanges(p)
    BY <1>1, <1>2, <1>3 DEF OnlyChanges, TypeOK
  <1>7. ASSUME NEW v \in Vas \ {StackVa}, Page(v) \in Present(p)'
        PROVE  PageSize * v < heap_end'[p]
    <2>1. Page(v) \in Uses
      BY DEF Uses
    <2>2. v \in HeapPages(p, inc) \/ PageSize * v < heap_end[p]
      BY <1>1, <1>2, <1>3, <1>7, <2>1 DEF HeapIsAbove
    <2> QED
      BY <1>2, <2>2, Zenon
  <1>8. status'[p] # "none"
    BY <1>3
  <1> QED
    BY <1>1, <1>5, <1>6, <1>7, <1>8, OthersKept, Zenon

\* A failed load leaves every page where it was, and the break too, since no
\* file gets as far as the break without an entry point.
LEMMA FailKeeps ==
    ASSUME EntryGiven, KInv, NEW p \in Procs, NEW prog \in Programs,
           process_spawn_fail(p, prog) \/ process_exec_fail(p, prog)
    PROVE  HeapIsAbove' /\ FreeSlotIsEmpty' /\ NoPageLost'
  <1> DEFINE f == FirstFit(TakenFor(prog))
  <1>1. /\ Allocated(f) /\ free' = (free \ Range(f)) \cup Range(f)
        /\ UNCHANGED <<frame, status>> /\ ~Loads(prog)
    BY DEF process_spawn_fail, process_exec_fail
  <1>2. heap_end' = heap_end
    BY <1>1 DEF process_spawn_fail, process_exec_fail, EntryGiven, Loads
  <1> HIDE DEF f
  <1>3. free' = free
    BY <1>1 DEF Allocated, Range
  <1> QED
    BY <1>1, <1>2, <1>3 DEF KInv, HeapIsAbove, FreeSlotIsEmpty, NoPageLost, Present

\* The page that sys_wait takes out of the directory is free.
LEMMA WaitFreeKeeps ==
    ASSUME KInv, NEW p \in Procs, wait_free(p)
    PROVE  HeapIsAbove' /\ FreeSlotIsEmpty' /\ NoPageLost'
  <1>1. PICK u \in Uses : /\ free' = free \cup {frame[p][u]}
                          /\ frame' = [frame EXCEPT ![p][u] = None]
    BY Zenon DEF wait_free
  <1>2. status[p] = "dead" /\ UNCHANGED <<status, heap_end>>
    BY DEF wait_free
  <1>3. TypeOK /\ NoPageLost /\ HeapIsAbove /\ FreeSlotIsEmpty
    BY DEF KInv, IInv
  <1>4. \A q \in Procs, w \in Uses : (q # p \/ w # u) => frame'[q][w] = frame[q][w]
    BY <1>1, <1>3 DEF TypeOK
  <1>5. NoPageLost'
    <2> SUFFICES ASSUME NEW g \in Pages, g \notin free'
                 PROVE  \E q \in Procs, w \in Uses : frame'[q][w] = g
      BY DEF NoPageLost
    <2>1. g \notin free /\ g # frame[p][u]
      BY <1>1
    <2>2. PICK q \in Procs, w \in Uses : frame[q][w] = g
      BY <1>3, <2>1 DEF NoPageLost
    <2>3. q # p \/ w # u
      BY <2>1, <2>2
    <2> QED
      BY <1>4, <2>2, <2>3
  <1>6. OnlyChanges(p)
    BY <1>2, <1>4 DEF OnlyChanges, Present
  <1>7. status'[p] # "live" /\ status'[p] # "none"
    BY <1>2
  <1> QED
    BY <1>3, <1>5, <1>6, <1>7, OthersKept, Zenon

\* KInv is inductive when every executable has an entry point.
LEMMA KeepsInductive ==
    ASSUME EntryGiven
    PROVE  KInv /\ [Next]_vars => KInv'
  <1> SUFFICES ASSUME KInv, [Next]_vars
               PROVE  KInv'
    OBVIOUS
  <1>1. IInv /\ IInv' /\ HeapIsAbove /\ FreeSlotIsEmpty /\ NoPageLost
    BY Inductive DEF KInv
  <1> SUFFICES HeapIsAbove' /\ FreeSlotIsEmpty' /\ NoPageLost'
    BY <1>1 DEF KInv
  <1>2. ASSUME NEW p \in Procs, NEW prog \in Programs,
               \/ process_spawn(p, prog) \/ process_spawn_fail(p, prog)
               \/ process_exec(p, prog)  \/ process_exec_fail(p, prog)
        PROVE  HeapIsAbove' /\ FreeSlotIsEmpty' /\ NoPageLost'
    BY <1>2, ImageKeeps, FailKeeps, Zenon
  <1>3. ASSUME NEW p \in Procs, NEW c \in Procs, process_fork(p, c)
        PROVE  HeapIsAbove' /\ FreeSlotIsEmpty' /\ NoPageLost'
    BY <1>3, ForkKeeps, Zenon
  <1>4. ASSUME NEW p \in Procs, NEW inc \in Increments, sys_heap_grow(p, inc)
        PROVE  HeapIsAbove' /\ FreeSlotIsEmpty' /\ NoPageLost'
    BY <1>4, GrowKeeps, Zenon
  <1>5. ASSUME NEW p \in Procs, wait_free(p)
        PROVE  HeapIsAbove' /\ FreeSlotIsEmpty' /\ NoPageLost'
    BY <1>5, WaitFreeKeeps, Zenon
  <1>6. ASSUME NEW p \in Procs, sys_exit(p) \/ wait_done(p)
        PROVE  HeapIsAbove' /\ FreeSlotIsEmpty' /\ NoPageLost'
    <2>1. /\ UNCHANGED <<free, frame, heap_end>>
          /\ \/ status' = [status EXCEPT ![p] = "dead"]
             \/ status' = [status EXCEPT ![p] = "none"] /\ Present(p) = {}
      BY <1>6 DEF sys_exit, wait_done
    <2>2. NoPageLost'
      BY <1>1, <2>1 DEF NoPageLost
    <2>3. OnlyChanges(p)
      BY <1>1, <2>1 DEF OnlyChanges, Present, IInv, TypeOK
    <2>4. status'[p] # "live" /\ (status'[p] = "none" => Present(p)' = {})
      BY <1>1, <2>1 DEF Present, IInv, TypeOK
    <2> QED
      BY <1>1, <2>2, <2>3, <2>4, OthersKept, Zenon
  <1>7. CASE pmm_alloc_panic \/ Halted \/ UNCHANGED vars
    BY <1>1, <1>7 DEF pmm_alloc_panic, Halted, vars, HeapIsAbove, FreeSlotIsEmpty,
                      NoPageLost, Present
  <1> QED
    BY <1>2, <1>3, <1>4, <1>5, <1>6, <1>7 DEF Next

\* No physical page is ever lost, for any number of processes and pages and
\* any sizes asked of heap_grow: each is free or in one address space, as long
\* as every executable names an entry point.
THEOREM EveryPageComesBack ==
    ASSUME EntryGiven
    PROVE  Spec => []NoPageLost
  <1>1. Init => KInv
    <2> SUFFICES ASSUME Init
                 PROVE  KInv
      OBVIOUS
    <2>1. \A p \in Procs : Present(p) = {} /\ status[p] = "none"
      BY DEF Init, Present
    <2>2. free = Pages
      BY DEF Init
    <2> QED
      BY <2>1, <2>2, Initially DEF KInv, HeapIsAbove, FreeSlotIsEmpty, NoPageLost
  <1>2. KInv /\ [Next]_vars => KInv'
    BY KeepsInductive
  <1>3. KInv => NoPageLost
    BY DEF KInv
  <1> QED
    BY <1>1, <1>2, <1>3, PTL DEF Spec

\* The heap of the others after an action on p.
LEMMA OthersMapped ==
    ASSUME HeapIsMapped, NEW p \in Procs, OnlyChanges(p),
           \A q \in Procs \ {p} : heap_start'[q] = heap_start[q],
           status'[p] = "live" =>
               \A v \in Vas : heap_start'[p] <= PageSize * v /\ PageSize * v < heap_end'[p]
                    => Page(v) \in Present(p)'
    PROVE  HeapIsMapped'
  BY DEF HeapIsMapped, OnlyChanges

\* An empty heap is mapped.
LEMMA EmptyHeap ==
    ASSUME TypeOK, NEW p \in Procs, heap_start'[p] = heap_end'[p], heap_end'[p] \in Nat,
           NEW v \in Vas
    PROVE  ~(heap_start'[p] <= PageSize * v /\ PageSize * v < heap_end'[p])
  <1>1. PageSize * v \in Nat
    BY AddressSpaceConstants DEF Vas
  <1> QED
    BY <1>1

\* Between heap_start and the break every page is mapped, whatever the sizes
\* asked of heap_grow and whatever program is loaded or refused: growth maps
\* each page from the rounded old break to the rounded new one.
THEOREM HeapStaysMapped ==
    Spec => []HeapIsMapped
  <1>1. Init => HeapIsMapped
    BY DEF Init, HeapIsMapped
  <1>2. IInv /\ IInv' /\ HeapIsMapped /\ [Next]_vars => HeapIsMapped'
    <2> SUFFICES ASSUME IInv, IInv', HeapIsMapped, [Next]_vars
                 PROVE  HeapIsMapped'
      OBVIOUS
    <2>0. TypeOK /\ TablesPresent /\ heap_end' \in [Procs -> Nat]
      BY DEF IInv, TypeOK
    <2>1. ASSUME NEW p \in Procs, NEW prog \in Programs,
                 process_spawn(p, prog) \/ process_exec(p, prog)
          PROVE  HeapIsMapped'
      <3>1. /\ frame' = [frame EXCEPT ![p] = Mapped(EmptyDirectory, FirstFit(Image(prog)))]
            /\ heap_start' = [heap_start EXCEPT ![p] = HeapStart(prog)]
            /\ heap_end' = [heap_end EXCEPT ![p] = HeapStart(prog)]
            /\ status' = [status EXCEPT ![p] = "live"]
        BY <2>0, <2>1 DEF process_spawn, process_exec, TypeOK
      <3>2. /\ \A q \in Procs \ {p} : /\ heap_start'[q] = heap_start[q]
                                      /\ heap_end'[q] = heap_end[q]
                                      /\ status'[q] = status[q]
                                      /\ frame'[q] = frame[q]
            /\ heap_start'[p] = heap_end'[p]
        BY <2>0, <3>1 DEF TypeOK
      <3>3. OnlyChanges(p)
        BY <3>2 DEF OnlyChanges, Present
      <3>4. heap_end'[p] \in Nat
        BY <2>0
      <3> QED
        BY <2>0, <3>2, <3>3, <3>4, EmptyHeap, OthersMapped, Zenon
    <2>2. ASSUME NEW p \in Procs, NEW prog \in Programs,
                 process_spawn_fail(p, prog) \/ process_exec_fail(p, prog)
          PROVE  HeapIsMapped'
      <3>1. /\ UNCHANGED <<frame, status>>
            /\ \/ UNCHANGED <<heap_start, heap_end>>
               \/ /\ heap_start' = [heap_start EXCEPT ![p] = HeapStart(prog)]
                  /\ heap_end' = [heap_end EXCEPT ![p] = HeapStart(prog)]
        BY <2>2 DEF process_spawn_fail, process_exec_fail
      <3>2. CASE UNCHANGED <<heap_start, heap_end>>
        BY <3>1, <3>2 DEF HeapIsMapped, Present
      <3>3. CASE /\ heap_start' = [heap_start EXCEPT ![p] = HeapStart(prog)]
                 /\ heap_end' = [heap_end EXCEPT ![p] = HeapStart(prog)]
        <4>1. /\ \A q \in Procs \ {p} : /\ heap_start'[q] = heap_start[q]
                                        /\ heap_end'[q] = heap_end[q]
              /\ heap_start'[p] = heap_end'[p]
          BY <2>0, <3>3 DEF TypeOK
        <4>2. OnlyChanges(p)
          BY <3>1, <4>1 DEF OnlyChanges, Present
        <4>3. heap_end'[p] \in Nat
          BY <2>0
        <4> QED
          BY <2>0, <4>1, <4>2, <4>3, EmptyHeap, OthersMapped, Zenon
      <3> QED
        BY <3>1, <3>2, <3>3
    <2>3. ASSUME NEW p \in Procs, NEW c \in Procs, process_fork(p, c)
          PROVE  HeapIsMapped'
      <3> DEFINE f == FirstFit(Present(p))
      <3>1. /\ Allocated(f) /\ status[p] = "live"
            /\ frame' = [frame EXCEPT ![c] = Mapped(EmptyDirectory, f)]
            /\ status' = [status EXCEPT ![c] = "live"]
            /\ heap_start' = [heap_start EXCEPT ![c] = heap_start[p]]
            /\ heap_end' = [heap_end EXCEPT ![c] = heap_end[p]]
        BY <2>3 DEF process_fork
      <3>2. HasTables(c, Present(p), EmptyDirectory)
        <4>1. Assigns(f, Present(p))
          BY <3>1, FirstFitAssigns
        <4> HIDE DEF f
        <4> QED
          BY <2>0, <3>1, <4>1, PresentBringsTables, EmptyFacts, MapTables, Zenon
      <3>3. /\ \A q \in Procs \ {c} : /\ heap_start'[q] = heap_start[q]
                                      /\ heap_end'[q] = heap_end[q]
                                      /\ status'[q] = status[q]
            /\ heap_start'[c] = heap_start[p] /\ heap_end'[c] = heap_end[p]
        BY <2>0, <3>1 DEF TypeOK
      <3>4. OnlyChanges(c)
        BY <3>2, <3>3 DEF OnlyChanges, HasTables
      <3>5. \A v \in Vas : Page(v) \in Present(p) => Page(v) \in Present(c)'
        <4>1. \A v \in Vas : Page(v) \in Uses
          BY DEF Uses
        <4> QED
          BY <3>2, <4>1 DEF HasTables
      <3>6. \A v \in Vas : heap_start'[c] <= PageSize * v /\ PageSize * v < heap_end'[c]
                => Page(v) \in Present(c)'
        BY <3>1, <3>3, <3>5 DEF HeapIsMapped
      <3> QED
        BY <3>3, <3>4, <3>6, OthersMapped, Zenon
    <2>4. ASSUME NEW p \in Procs, NEW inc \in Increments, sys_heap_grow(p, inc)
          PROVE  HeapIsMapped'
      <3> DEFINE uses == GrowthUses(p, inc)
      <3>1. /\ \A v \in Vas : Page(v) \in uses <=> v \in HeapPages(p, inc)
            /\ \A u \in Uses : u \in Present(p)' <=> u \in uses \/ u \in Present(p)
            /\ \A q \in Procs \ {p} : Present(q)' = Present(q)
            /\ heap_start'[p] = heap_start[p]
            /\ \A v \in Vas : PageSize * v < heap_end'[p]
                                 <=> PageSize * v < heap_end[p] \/ v \in HeapPages(p, inc)
        BY <2>4, GrowFacts, Zenon
      <3>2. /\ status[p] = "live" /\ status' = status /\ heap_start' = heap_start
            /\ heap_end' = [heap_end EXCEPT ![p] = @ + inc]
        BY <2>4 DEF sys_heap_grow
      <3> HIDE DEF uses
      <3>3. OnlyChanges(p)
        BY <2>0, <3>1, <3>2 DEF OnlyChanges, TypeOK
      <3>4. \A v \in Vas : heap_start'[p] <= PageSize * v /\ PageSize * v < heap_end'[p]
                => Page(v) \in Present(p)'
        <4>1. \A v \in Vas : Page(v) \in Uses
          BY DEF Uses
        <4>2. \A v \in Vas : heap_start[p] <= PageSize * v /\ PageSize * v < heap_end[p]
                => Page(v) \in Present(p)
          BY <3>2 DEF HeapIsMapped
        <4> QED
          BY <3>1, <4>1, <4>2, Zenon
      <3> QED
        BY <3>2, <3>3, <3>4, OthersMapped
    <2>5. ASSUME NEW p \in Procs, sys_exit(p) \/ wait_free(p) \/ wait_done(p)
          PROVE  HeapIsMapped'
      <3>1. /\ UNCHANGED <<heap_start, heap_end>>
            /\ \/ status' = [status EXCEPT ![p] = "dead"]
               \/ status' = [status EXCEPT ![p] = "none"]
               \/ status' = status /\ status[p] = "dead"
        BY <2>5 DEF sys_exit, wait_free, wait_done
      <3>2. \A q \in Procs \ {p} : frame'[q] = frame[q]
        BY <2>0, <2>5 DEF sys_exit, wait_free, wait_done, TypeOK
      <3>3. OnlyChanges(p) /\ status'[p] # "live"
        BY <2>0, <3>1, <3>2 DEF OnlyChanges, Present, TypeOK
      <3> QED
        BY <3>1, <3>3, OthersMapped
    <2>6. CASE pmm_alloc_panic \/ Halted \/ UNCHANGED vars
      BY <2>6 DEF pmm_alloc_panic, Halted, vars, HeapIsMapped, Present
    <2> QED
      BY <2>1, <2>2, <2>3, <2>4, <2>5, <2>6 DEF Next
  <1> QED
    BY <1>1, <1>2, Invariance, PTL DEF Spec
=============================================================================
