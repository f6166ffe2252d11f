----------------------------- MODULE HeapProofs -----------------------------
(***************************************************************************)
(* The heap is well formed whenever the mutator or the allocator looks at  *)
(* it, the remembered set is complete, a scavenge copies no object twice,  *)
(* the promotion guarantee is kept, and the heap implements the graph of   *)
(* objects that the mutator sees, which no collection changes: for every   *)
(* layout of the spaces, card size, set of object shapes, number of roots  *)
(* and objects.                                                            *)
(*                                                                         *)
(* The invariant describes the heap in the middle of each phase.  LayoutInv*)
(* (objects tile their spaces) holds whenever the heap can be walked,      *)
(* ScanInv during a scavenge, MarkInv, RewriteInv and SlideInv during a    *)
(* full collection.  IdInv says where an object may be twice: a scavenge   *)
(* has its original and its copy, which show the same.                     *)
(***************************************************************************)
EXTENDS Heap, OffsetsProofs, FiniteSetTheorems

USE OldAssumption, CardAssumption, EntryAssumption

-----------------------------------------------------------------------------
(* Types. *)

Objects == [id : Ids, size : Nat \ {0}, slots : Seq(Nat), age : Nat, fwd : Nat, marked : BOOLEAN]
Spans == [start : {SurvivorA, SurvivorB}, top : Nat]
Moves == [old : Nat, new : Nat, size : Nat \ {0}, age : Nat]
Requests == [root : Roots, shape : Shapes, worst : Int]
Returns == {"run", "retry", "last", "guarantee"}
Phases == Returns \cup {"roots", "card", "code", "cheney", "mark", "rewrite", "slide",
                        "promote_stall", "mutator_stall"}
Collector ==
    [phase : Phases, then : Returns, work : SUBSET (Nat \X Nat),
     age_table : [0 .. MaxAge -> Nat], card : Int, still_new : BOOLEAN,
     old_top_before : Nat, to_scan : Nat, old_scan : Nat,
     gray : SUBSET Nat, plan : SUBSET Moves, placed : SUBSET Moves,
     tops : [eden : Nat, from : Nat, old : Nat]]

MemIs(m) ==
    /\ m \in [DOMAIN m -> Objects]
    /\ DOMAIN m \subseteq Nat \ {0}
    /\ \A a \in DOMAIN m : Len(m[a].slots) < m[a].size
MemOK == MemIs(mem)

SpacesOK ==
    /\ from \in Spans /\ to \in Spans /\ from.start # to.start
    /\ EdenStart <= eden_top /\ eden_top <= EdenStart + EdenWords
    /\ from.start <= from.top /\ from.top <= from.start + SurvivorWords
    /\ to.start <= to.top /\ to.top <= to.start + SurvivorWords
    /\ OldStart <= old_top /\ old_top <= committed_end /\ committed_end <= OldEnd
    /\ eden_top \in Nat /\ old_top \in Nat /\ committed_end \in Nat

TypeInv ==
    /\ MemOK /\ SpacesOK
    /\ roots \in [Roots -> Nat]
    /\ dirty \subseteq Cards
    /\ gc \in Collector
    /\ gc.then # "run" \/ gc.phase \in Returns \ {"run"} => request \in Requests

-----------------------------------------------------------------------------
(* The heap between the steps of a collection. *)

Quiet == gc.phase \in Returns
Walkable == Quiet \/ Scanning \/ gc.phase \in {"mark", "rewrite"}

Within(a, start, top) == start <= a /\ a + mem[a].size <= top

\* Objects lie apart, each inside one space, and leave no gap.
Apart == \A a, b \in DOMAIN mem : a < b => a + mem[a].size <= b
Housed ==
    \A a \in DOMAIN mem : \/ Within(a, EdenStart, eden_top)
                          \/ Within(a, from.start, from.top)
                          \/ Within(a, to.start, to.top)
                          \/ Within(a, OldStart, old_top)
AllTiled ==
    /\ Tiled(EdenStart, eden_top) /\ Tiled(from.start, from.top)
    /\ Tiled(to.start, to.top) /\ Tiled(OldStart, old_top)
LayoutInv == Apart /\ Housed /\ AllTiled

\* The card an old object runs into has the entry record_object gives it.
TableInv ==
    \A i \in Cards, a \in DOMAIN mem :
        IsOld(a) /\ a <= CardBase(i) /\ CardBase(i) < a + mem[a].size => offsets[i] = Entry(i, a)

\* Every root and every slot holds nothing or an object.
Valid(v) == v = 0 \/ v \in DOMAIN mem
OopsInv ==
    /\ \A r \in Roots : Valid(roots[r])
    /\ \A a \in DOMAIN mem : \A j \in DOMAIN mem[a].slots : Valid(mem[a].slots[j])

WalkInv == Walkable => LayoutInv /\ TableInv /\ OopsInv

\* Outside a scavenge to-space is empty; headers are clean, until marking sets the
\* mark bit and forwarding_compute the forwarding word.
CleanInv ==
    /\ Quiet \/ gc.phase \in {"mark", "rewrite", "slide"} => to.top = to.start
    /\ Quiet \/ gc.phase = "mark" => \A a \in DOMAIN mem : mem[a].fwd = 0
    /\ Quiet \/ Scanning => \A a \in DOMAIN mem : ~mem[a].marked

-----------------------------------------------------------------------------
(* In a scavenge. *)

InFrom(v) == (EdenStart <= v /\ v < eden_top) \/ (from.start <= v /\ v < from.top)
InTo(v) == to.start <= v /\ v < to.top
SlotCard(a, j) == CardIndex(SlotAddr(a, j))

\* The scan pointers lie between objects.
ScanBounds ==
    /\ OldStart <= gc.old_top_before /\ gc.old_top_before <= gc.old_scan /\ gc.old_scan <= old_top
    /\ to.start <= gc.to_scan /\ gc.to_scan <= to.top
    /\ gc.phase \in {"roots", "card", "code"} =>
          gc.to_scan = to.start /\ gc.old_scan = gc.old_top_before
    /\ gc.phase = "roots" => gc.card = -1
    /\ gc.phase = "card" => gc.card \in Cards
    /\ \A a \in DOMAIN mem :
          /\ IsOld(a) /\ a < gc.old_top_before => a + mem[a].size <= gc.old_top_before
          /\ IsOld(a) /\ a < gc.old_scan => a + mem[a].size <= gc.old_scan
          /\ InTo(a) /\ a < gc.to_scan => a + mem[a].size <= gc.to_scan

\* Only what is left behind is forwarded, to its one copy.
ForwardInv ==
    \A a \in DOMAIN mem : mem[a].fwd # 0 =>
        InFrom(a) /\ mem[a].fwd \in DOMAIN mem /\ ~InFrom(mem[a].fwd)

\* The slots of what is left behind keep their values.
FromSlots ==
    \A a \in DOMAIN mem : InFrom(a) => \A j \in DOMAIN mem[a].slots : ~InTo(mem[a].slots[j])

\* The VM's roots come first, the code roots after the cards.
RootSlots ==
    /\ \A r \in VmRoots : InFrom(roots[r]) => gc.phase = "roots" /\ <<0, r>> \in gc.work
    /\ \A r \in CodeRoots :
          /\ gc.phase \in {"roots", "card"} => ~InTo(roots[r])
          /\ gc.phase = "code" /\ InFrom(roots[r]) => <<0, r>> \in gc.work
          /\ gc.phase = "cheney" => ~InFrom(roots[r])

\* A slot of an object that was old before is still to be visited on a dirty card
\* ahead, or in the batch, or it has been dealt with.
OldSlots ==
    \A a \in DOMAIN mem : IsOld(a) /\ a < gc.old_top_before => \A j \in DOMAIN mem[a].slots :
        LET v == mem[a].slots[j]
            c == SlotCard(a, j)
        IN  /\ InFrom(v) => \/ gc.phase = "roots"
                            \/ gc.phase = "card" /\ c > gc.card
                            \/ gc.phase = "card" /\ c = gc.card /\ <<a, j>> \in gc.work
            /\ InTo(v) => /\ gc.phase # "roots"
                          /\ gc.phase = "card" => c <= gc.card
                          /\ gc.phase = "card" /\ c = gc.card => gc.still_new

\* A copied object is scanned once the scan pointer of its space has passed it.
CopiedSlots(a, scan) ==
    \A j \in DOMAIN mem[a].slots :
        LET v == mem[a].slots[j]
        IN  IF a < scan THEN InFrom(v) => <<a, j>> \in gc.work ELSE ~InTo(v)
ToSlots == \A a \in DOMAIN mem : InTo(a) => CopiedSlots(a, gc.to_scan)
PromotedSlots == \A a \in DOMAIN mem : a >= gc.old_top_before => CopiedSlots(a, gc.old_scan)

\* Slots of old objects with young values lie on dirty cards.
Remembered ==
    \A a \in DOMAIN mem : IsOld(a) => \A j \in DOMAIN mem[a].slots :
        IsNew(mem[a].slots[j]) => SlotCard(a, j) \in dirty

\* The batch: slots of one kind in each phase, all of them of objects left behind.
HeapSlot(s) == s[1] \in DOMAIN mem /\ s[2] \in DOMAIN mem[s[1]].slots
WorkInv ==
    \A s \in gc.work :
        /\ InFrom(ValueOf(s))
        /\ gc.phase = "roots" => s[1] = 0 /\ s[2] \in VmRoots
        /\ gc.phase = "code" => s[1] = 0 /\ s[2] \in CodeRoots
        /\ gc.phase = "card" => /\ HeapSlot(s) /\ IsOld(s[1]) /\ s[1] < gc.old_top_before
                                /\ SlotCard(s[1], s[2]) = gc.card
        /\ gc.phase = "cheney" =>
              /\ HeapSlot(s)
              /\ \/ InTo(s[1]) /\ s[1] < gc.to_scan
                 \/ gc.old_top_before <= s[1] /\ s[1] < gc.old_scan

ScanInv ==
    Scanning => /\ ScanBounds /\ ForwardInv /\ FromSlots /\ RootSlots /\ OldSlots
                /\ ToSlots /\ PromotedSlots /\ WorkInv

RememberInv == Quiet \/ Scanning => Remembered

-----------------------------------------------------------------------------
(* In a full collection. *)

\* What is marked and no longer on the worklist refers only to what is marked.
MarkInv ==
    gc.phase = "mark" =>
        /\ gc.gray \subseteq Live
        /\ \A r \in Roots : roots[r] # 0 => roots[r] \in Live
        /\ \A a \in Live \ gc.gray : \A j \in DOMAIN mem[a].slots :
              mem[a].slots[j] # 0 => mem[a].slots[j] \in Live
        /\ gc.placed = {}

Entries == gc.plan \cup gc.placed
MovesIn(e, start, top, newtop) ==
    start <= e.new /\ e.old + e.size <= top /\ e.new + e.size <= newtop
Filled(start, newtop) ==
    \A w \in start .. newtop - 1 : \E e \in Entries :
        start <= e.new /\ e.new <= w /\ w < e.new + e.size /\ e.new + e.size <= newtop

\* The plan: downwards, in order, without overlap or gap.
PlanOrder ==
    /\ \A e, f \in Entries : e.old = f.old => e = f
    /\ \A e, f \in Entries : e.old < f.old => e.old + e.size <= f.old /\ e.new + e.size <= f.new
PlanPlaces ==
    \A e \in Entries :
        /\ e.new <= e.old
        /\ \/ MovesIn(e, EdenStart, eden_top, gc.tops.eden)
           \/ MovesIn(e, from.start, from.top, gc.tops.from)
           \/ MovesIn(e, OldStart, old_top, gc.tops.old)
PlanTops ==
    /\ EdenStart <= gc.tops.eden /\ gc.tops.eden <= eden_top
    /\ from.start <= gc.tops.from /\ gc.tops.from <= from.top
    /\ OldStart <= gc.tops.old /\ gc.tops.old <= old_top
PlanFilled ==
    /\ Filled(EdenStart, gc.tops.eden) /\ Filled(from.start, gc.tops.from)
    /\ Filled(OldStart, gc.tops.old)
PlanHeap == PlanOrder /\ PlanPlaces /\ PlanTops /\ PlanFilled
PlanInv == gc.phase \in {"rewrite", "slide"} => PlanHeap

\* Every planned object is forwarded to its place, and what it refers to is planned.
Planned(v) == \E e \in gc.plan : e.old = v
RewriteHeap ==
    /\ gc.placed = {}
    /\ \A a \in DOMAIN mem : mem[a].fwd # 0 => Planned(a)
    /\ \A e \in gc.plan :
          /\ e.old \in DOMAIN mem /\ mem[e.old].fwd = e.new /\ mem[e.old].size = e.size
          /\ \A j \in DOMAIN mem[e.old].slots :
                mem[e.old].slots[j] # 0 => Planned(mem[e.old].slots[j])
    /\ \A r \in Roots : roots[r] # 0 => Planned(roots[r])
RewriteInv == gc.phase = "rewrite" => RewriteHeap

\* While objects slide the oops name the places they will have.
WillBe(v) == v = 0 \/ \E e \in Entries : e.new = v
Carried(e, a) ==
    /\ a \in DOMAIN mem /\ mem[a].size = e.size
    /\ \A j \in DOMAIN mem[a].slots : WillBe(mem[a].slots[j])
SlideHeap ==
    /\ \A e \in gc.placed, f \in gc.plan : e.old < f.old
    /\ \A e \in gc.plan : Carried(e, e.old)
    /\ \A e \in gc.placed : Carried(e, e.new)
    /\ \A r \in Roots : WillBe(roots[r])
    /\ \A i \in Cards, e \in gc.placed :
          IsOld(e.new) /\ e.new <= CardBase(i) /\ CardBase(i) < e.new + e.size =>
              offsets[i] = Entry(i, e.new)
SlideInv == gc.phase = "slide" => SlideHeap

HeapInv ==
    /\ TypeInv /\ WalkInv /\ CleanInv /\ RememberInv /\ ScanInv
    /\ MarkInv /\ PlanInv /\ RewriteInv /\ SlideInv

-----------------------------------------------------------------------------
(* The promotion guarantee. *)

\* What a collection that comes before the scavenge leaves is not more than what the
\* guarantee was computed for.
WorstInv ==
    gc.phase = "guarantee" \/ (gc.then = "guarantee" /\ gc.phase \in {"mark", "rewrite", "slide"})
        => Worst <= request.worst

\* The words a scavenge may still have to promote.
ToPromote ==
    {w \in EdenStart .. OldStart - 1 :
        \E a \in DOMAIN mem : InFrom(a) /\ mem[a].fwd = 0 /\ a <= w /\ w < a + mem[a].size}

\* A scavenge returns to the mutator or to the allocation it was for.
ReturnInv == Scanning => gc.then # "guarantee"

RoomInv ==
    Scanning /\ guarantee_met /\ gc.then # "run" => Cardinality(ToPromote) <= committed_end - old_top

-----------------------------------------------------------------------------
(* The spaces and the objects in them. *)

\* The spaces follow each other: eden, the survivors in either order, old gen.
LEMMA Geometry ==
    ASSUME SpacesOK
    PROVE  /\ EdenStart \in Nat /\ EdenStart > 0 /\ EdenWords \in Nat /\ SurvivorWords \in Nat
           /\ eden_top \in Nat /\ from.start \in Nat /\ from.top \in Nat
           /\ to.start \in Nat /\ to.top \in Nat /\ old_top \in Nat /\ OldStart \in Nat
           /\ committed_end \in Nat /\ OldEnd \in Nat /\ Segment \in Nat \ {0}
           /\ EdenStart <= eden_top /\ eden_top <= EdenStart + EdenWords
           /\ EdenStart + EdenWords <= from.start /\ EdenStart + EdenWords <= to.start
           /\ from.start <= from.top /\ from.top <= from.start + SurvivorWords
           /\ to.start <= to.top /\ to.top <= to.start + SurvivorWords
           /\ from.start + SurvivorWords <= OldStart /\ to.start + SurvivorWords <= OldStart
           /\ \/ from.start + SurvivorWords <= to.start
              \/ to.start + SurvivorWords <= from.start
           /\ OldStart <= old_top /\ old_top <= committed_end /\ committed_end <= OldEnd
<1>1. EdenStart \in Nat /\ EdenStart > 0 /\ EdenWords \in Nat /\ SurvivorWords \in Nat /\ Segment \in Nat \ {0}
  BY LayoutAssumption
<1>2. /\ SurvivorA = EdenStart + EdenWords /\ SurvivorB = SurvivorA + SurvivorWords
      /\ OldStart = SurvivorB + SurvivorWords
  BY LayoutAssumption DEF SurvivorA, SurvivorB
<1>3. SurvivorA \in Nat /\ SurvivorB \in Nat  BY <1>1, <1>2
<1>4. /\ from.start \in {SurvivorA, SurvivorB} /\ from.top \in Nat
      /\ to.start \in {SurvivorA, SurvivorB} /\ to.top \in Nat /\ from.start # to.start
  BY DEF SpacesOK, Spans
<1>5. /\ EdenStart <= eden_top /\ eden_top <= EdenStart + EdenWords
      /\ from.start <= from.top /\ from.top <= from.start + SurvivorWords
      /\ to.start <= to.top /\ to.top <= to.start + SurvivorWords
      /\ OldStart <= old_top /\ old_top <= committed_end /\ committed_end <= OldEnd
      /\ eden_top \in Nat /\ old_top \in Nat /\ committed_end \in Nat
  BY DEF SpacesOK
<1>6. /\ EdenStart + EdenWords <= from.start /\ EdenStart + EdenWords <= to.start
      /\ from.start + SurvivorWords <= OldStart /\ to.start + SurvivorWords <= OldStart
      /\ \/ from.start + SurvivorWords <= to.start
         \/ to.start + SurvivorWords <= from.start
  BY <1>1, <1>2, <1>3, <1>4
<1> QED  BY <1>1, <1>3, <1>4, <1>5, <1>6

\* The fields of an object.
LEMMA ObjectIs ==
    ASSUME MemOK, NEW a \in DOMAIN mem
    PROVE  /\ a \in Nat /\ a > 0 /\ mem[a] \in Objects
           /\ mem[a].size \in Nat /\ mem[a].size > 0 /\ mem[a].fwd \in Nat /\ mem[a].age \in Nat
           /\ mem[a].slots \in Seq(Nat) /\ Len(mem[a].slots) \in Nat
           /\ DOMAIN mem[a].slots = 1 .. Len(mem[a].slots)
           /\ Len(mem[a].slots) < mem[a].size
           /\ \A j \in DOMAIN mem[a].slots : mem[a].slots[j] \in Nat /\ j \in Nat
<1>1. a \in Nat /\ a > 0 /\ mem[a] \in Objects /\ Len(mem[a].slots) < mem[a].size
  BY DEF MemOK, MemIs
<1>2. mem[a].size \in Nat \ {0} /\ mem[a].fwd \in Nat /\ mem[a].age \in Nat /\ mem[a].slots \in Seq(Nat)
  BY <1>1 DEF Objects
<1> QED  BY <1>1, <1>2, SeqElements

\* An object is old, left behind by a scavenge, or in to-space.
LEMMA Kinds ==
    ASSUME MemOK, SpacesOK, Housed, NEW a \in DOMAIN mem
    PROVE  /\ \/ IsOld(a) /\ Within(a, OldStart, old_top) /\ ~InFrom(a) /\ ~InTo(a)
              \/ /\ ~IsOld(a) /\ InFrom(a) /\ ~InTo(a) /\ a + mem[a].size <= OldStart
                 /\ EdenStart <= a
                 /\ Within(a, EdenStart, eden_top) \/ Within(a, from.start, from.top)
              \/ ~IsOld(a) /\ ~InFrom(a) /\ InTo(a) /\ Within(a, to.start, to.top)
<1>1. a \in Nat /\ mem[a].size \in Nat /\ mem[a].size > 0  BY ObjectIs
<1>2. \/ Within(a, EdenStart, eden_top) \/ Within(a, from.start, from.top)
      \/ Within(a, to.start, to.top) \/ Within(a, OldStart, old_top)
  BY DEF Housed
<1>3. CASE Within(a, EdenStart, eden_top)
  BY <1>1, <1>3, Geometry DEF Within, InFrom, InTo, IsOld
<1>4. CASE Within(a, from.start, from.top)
  BY <1>1, <1>4, Geometry DEF Within, InFrom, InTo, IsOld
<1>5. CASE Within(a, to.start, to.top)
  BY <1>1, <1>5, Geometry DEF Within, InFrom, InTo, IsOld
<1>6. CASE Within(a, OldStart, old_top)
  BY <1>1, <1>6, Geometry DEF Within, InFrom, InTo, IsOld
<1> QED  BY <1>2, <1>3, <1>4, <1>5, <1>6

\* A slot lies inside its object, on a card of the old generation.
LEMMA SlotLies ==
    ASSUME MemOK, NEW a \in DOMAIN mem, NEW j \in DOMAIN mem[a].slots
    PROVE  SlotAddr(a, j) \in Nat /\ a < SlotAddr(a, j) /\ SlotAddr(a, j) < a + mem[a].size
<1>1. /\ a \in Nat /\ mem[a].size \in Nat /\ Len(mem[a].slots) \in Nat
      /\ j \in 1 .. Len(mem[a].slots) /\ Len(mem[a].slots) < mem[a].size
  BY ObjectIs
<1> QED  BY <1>1, SMTT(30) DEF SlotAddr

-----------------------------------------------------------------------------
(* An object put at the top of its space. *)

\* What allocation, survival and promotion share: the object at p is new, and the top of
\* one space moves past it.
Extends(p, n) ==
    /\ DOMAIN mem' = DOMAIN mem \cup {p} /\ mem'[p].size = n
    /\ \A a \in DOMAIN mem : a # p => mem'[a].size = mem[a].size
    /\ from' = from /\ to'.start = to.start
    /\ \/ p = eden_top /\ eden_top' = p + n /\ to' = to /\ old_top' = old_top
       \/ p = to.top /\ to'.top = p + n /\ eden_top' = eden_top /\ old_top' = old_top
       \/ p = old_top /\ old_top' = p + n /\ to' = to /\ eden_top' = eden_top

\* It overlaps nothing.
LEMMA ExtendsApart ==
    ASSUME MemOK, SpacesOK, LayoutInv, SpacesOK', NEW p, NEW n \in Nat \ {0}, Extends(p, n)
    PROVE  p \in Nat /\ p > 0 /\ \A a \in DOMAIN mem : a + mem[a].size <= p \/ p + n <= a
<1>1. /\ from'.start = from.start /\ from'.top = from.top /\ to'.start = to.start
      /\ eden_top' <= EdenStart + EdenWords /\ to'.top <= to.start + SurvivorWords
  BY DEF Extends, SpacesOK
<1>2. p \in Nat /\ p > 0  BY Geometry DEF Extends
<1>3. ASSUME NEW a \in DOMAIN mem PROVE a + mem[a].size <= p \/ p + n <= a
  <2>1. a \in Nat /\ mem[a].size \in Nat /\ mem[a].size > 0  BY ObjectIs
  <2>2. \/ Within(a, EdenStart, eden_top) \/ Within(a, from.start, from.top)
        \/ Within(a, to.start, to.top) \/ Within(a, OldStart, old_top)
    BY DEF LayoutInv, Housed
  <2>3. CASE p = eden_top /\ eden_top' = p + n
    BY <1>1, <1>2, <2>1, <2>2, <2>3, Geometry DEF Within
  <2>4. CASE p = to.top /\ to'.top = p + n
    BY <1>1, <1>2, <2>1, <2>2, <2>4, Geometry DEF Within
  <2>5. CASE p = old_top
    BY <1>1, <1>2, <2>1, <2>2, <2>5, Geometry DEF Within
  <2> QED  BY <2>3, <2>4, <2>5 DEF Extends
<1> QED  BY <1>2, <1>3

\* A span stays tiled when its objects stay, and when one is put at its end.
LEMMA TiledStays ==
    ASSUME NEW start, NEW top, Tiled(start, top), DOMAIN mem \subseteq DOMAIN mem',
           \A a \in DOMAIN mem : mem'[a].size = mem[a].size
    PROVE  Tiled(start, top)'
BY DEF Tiled

\* A space tiled up to p is tiled up to p + n once an object of n words is put at p
\* (the bump allocators).
LEMMA TiledGrows ==
    ASSUME NEW start \in Nat, NEW p \in Nat, NEW n \in Nat \ {0}, start <= p, MemOK,
           Tiled(start, p), DOMAIN mem \subseteq DOMAIN mem', p \in DOMAIN mem', mem'[p].size = n,
           \A a \in DOMAIN mem : mem'[a].size = mem[a].size
    PROVE  \A w \in start .. (p + n) - 1 :
              \E a \in DOMAIN mem' : start <= a /\ a <= w /\ w < a + mem'[a].size /\ a + mem'[a].size <= p + n
<1> TAKE w \in start .. (p + n) - 1
<1>1. CASE w < p
  <2>1. w \in start .. p - 1  BY <1>1
  <2>2. PICK a \in DOMAIN mem : start <= a /\ a <= w /\ w < a + mem[a].size /\ a + mem[a].size <= p
    BY <2>1 DEF Tiled
  <2>3. a \in Nat /\ mem[a].size \in Nat  BY ObjectIs
  <2> QED  BY <2>2, <2>3
<1>2. CASE w >= p  BY <1>2
<1> QED  BY <1>1, <1>2

\* The layout is kept.
LEMMA ExtendsLayout ==
    ASSUME MemOK, SpacesOK, LayoutInv, SpacesOK', NEW p, NEW n \in Nat \ {0}, Extends(p, n)
    PROVE  LayoutInv' /\ p \notin DOMAIN mem
<1>1. p \in Nat /\ p > 0 /\ \A a \in DOMAIN mem : a + mem[a].size <= p \/ p + n <= a
  BY ExtendsApart
<1>2. p \notin DOMAIN mem
  <2>1. ASSUME p \in DOMAIN mem PROVE FALSE
    <3>1. mem[p].size \in Nat /\ mem[p].size > 0  BY <2>1, ObjectIs
    <3> QED  BY <1>1, <2>1, <3>1
  <2> QED  BY <2>1
<1>3. \A a \in DOMAIN mem : mem'[a].size = mem[a].size /\ a # p  BY <1>2 DEF Extends
<1>4. DOMAIN mem' = DOMAIN mem \cup {p} /\ mem'[p].size = n  BY DEF Extends
<1>5. Apart'
  <2> SUFFICES ASSUME NEW a \in DOMAIN mem', NEW b \in DOMAIN mem', a < b
               PROVE  a + mem'[a].size <= b
    BY DEF Apart
  <2>1. CASE a \in DOMAIN mem /\ b \in DOMAIN mem  BY <1>3, <2>1 DEF LayoutInv, Apart
  <2>2. CASE a \in DOMAIN mem /\ b = p
    <3>1. a \in Nat /\ mem[a].size \in Nat  BY <2>2, ObjectIs
    <3> QED  BY <1>1, <1>3, <2>2, <3>1
  <2>3. CASE a = p /\ b \in DOMAIN mem
    <3>1. b \in Nat /\ mem[b].size \in Nat  BY <2>3, ObjectIs
    <3> QED  BY <1>1, <1>4, <2>3, <3>1
  <2>4. CASE a = p /\ b = p  BY <1>1, <2>4
  <2> QED  BY <1>4, <2>1, <2>2, <2>3, <2>4
<1>6. Housed'
  <2> SUFFICES ASSUME NEW a \in DOMAIN mem'
               PROVE  \/ EdenStart <= a /\ a + mem'[a].size <= eden_top'
                      \/ from'.start <= a /\ a + mem'[a].size <= from'.top
                      \/ to'.start <= a /\ a + mem'[a].size <= to'.top
                      \/ OldStart <= a /\ a + mem'[a].size <= old_top'
    BY DEF Housed, Within
  <2>1. CASE a \in DOMAIN mem
    <3>1. a \in Nat /\ mem[a].size \in Nat  BY <2>1, ObjectIs
    <3>2. \/ EdenStart <= a /\ a + mem[a].size <= eden_top
          \/ from.start <= a /\ a + mem[a].size <= from.top
          \/ to.start <= a /\ a + mem[a].size <= to.top
          \/ OldStart <= a /\ a + mem[a].size <= old_top
      BY <2>1 DEF LayoutInv, Housed, Within
    <3>3. eden_top <= eden_top' /\ to.top <= to'.top /\ old_top <= old_top'
      BY Geometry DEF Extends
    <3>4. eden_top' \in Nat /\ to'.top \in Nat /\ old_top' \in Nat  BY DEF SpacesOK, Spans
    <3> QED  BY <1>3, <2>1, <3>1, <3>2, <3>3, <3>4, Geometry DEF Extends
  <2>2. CASE a = p  BY <1>4, <2>2, Geometry DEF Extends
  <2> QED  BY <1>4, <2>1, <2>2
<1>7. AllTiled'
  <2>1. DOMAIN mem \subseteq DOMAIN mem' /\ p \in DOMAIN mem'  BY <1>4
  <2>2. \A a \in DOMAIN mem : mem'[a].size = mem[a].size  BY <1>3
  <2>3. /\ Tiled(EdenStart, eden_top) /\ Tiled(from.start, from.top)
        /\ Tiled(to.start, to.top) /\ Tiled(OldStart, old_top)
    BY DEF LayoutInv, AllTiled
  <2>4. PICK e, f, t, o : e = eden_top /\ f = from /\ t = to /\ o = old_top  OBVIOUS
  <2>5. /\ Tiled(EdenStart, e)' /\ Tiled(f.start, f.top)'
        /\ Tiled(t.start, t.top)' /\ Tiled(OldStart, o)'
    BY <2>1, <2>2, <2>3, <2>4, TiledStays
  <2>6. CASE p = eden_top /\ eden_top' = p + n /\ to' = to /\ old_top' = old_top
    <3>1. Tiled(EdenStart, eden_top)'
      <4>1. \A w \in EdenStart .. (p + n) - 1 :
              \E a \in DOMAIN mem' : EdenStart <= a /\ a <= w /\ w < a + mem'[a].size /\ a + mem'[a].size <= p + n
        BY <1>1, <1>4, <2>1, <2>2, <2>3, <2>6, Geometry, TiledGrows
      <4> QED  BY <2>6, <4>1 DEF Tiled
    <3> QED  BY <2>4, <2>5, <2>6, <3>1 DEF AllTiled, Extends
  <2>7. CASE p = to.top /\ to'.top = p + n /\ eden_top' = eden_top /\ old_top' = old_top
    <3>1. Tiled(to.start, to.top)'
      <4>1. \A w \in to.start .. (p + n) - 1 :
              \E a \in DOMAIN mem' : to.start <= a /\ a <= w /\ w < a + mem'[a].size /\ a + mem'[a].size <= p + n
        BY <1>1, <1>4, <2>1, <2>2, <2>3, <2>7, Geometry, TiledGrows
      <4>2. to'.start = to.start  BY DEF Extends
      <4> QED  BY <2>7, <4>1, <4>2 DEF Tiled
    <3> QED  BY <2>4, <2>5, <2>7, <3>1 DEF AllTiled, Extends
  <2>8. CASE p = old_top /\ old_top' = p + n /\ to' = to /\ eden_top' = eden_top
    <3>1. Tiled(OldStart, old_top)'
      <4>1. \A w \in OldStart .. (p + n) - 1 :
              \E a \in DOMAIN mem' : OldStart <= a /\ a <= w /\ w < a + mem'[a].size /\ a + mem'[a].size <= p + n
        BY <1>1, <1>4, <2>1, <2>2, <2>3, <2>8, Geometry, TiledGrows
      <4> QED  BY <2>8, <4>1 DEF Tiled
    <3> QED  BY <2>4, <2>5, <2>8, <3>1 DEF AllTiled, Extends
  <2> QED  BY <2>6, <2>7, <2>8 DEF Extends
<1> QED  BY <1>2, <1>5, <1>6, <1>7 DEF LayoutInv

\* So is the table, with the new object recorded if it is old.
LEMMA ExtendsTable ==
    ASSUME MemOK, SpacesOK, LayoutInv, TableInv, SpacesOK', NEW p, NEW n \in Nat \ {0},
           Extends(p, n),
           offsets' = IF IsOld(p) THEN RecordObject(offsets, p, n) ELSE offsets
    PROVE  TableInv'
<1>1. p \in Nat /\ p > 0 /\ \A a \in DOMAIN mem : a + mem[a].size <= p \/ p + n <= a
  BY ExtendsApart
<1>2. p \notin DOMAIN mem  BY ExtendsLayout
<1>0. ASSUME IsOld(p), NEW i \in Cards
      PROVE  offsets'[i] = IF p <= CardBase(i) /\ CardBase(i) < p + n THEN Entry(i, p) ELSE offsets[i]
  <2>1. p \in Nat /\ p >= OldStart  BY <1>0, <1>1 DEF IsOld
  <2>2. offsets' = RecordObject(offsets, p, n)  BY <1>0
  <2>3. RecordObject(offsets, p, n)[i] =
           IF p <= CardBase(i) /\ CardBase(i) < p + n THEN Entry(i, p) ELSE offsets[i]
    BY <2>1, RecordIs
  <2> QED  BY <2>2, <2>3
<1> SUFFICES ASSUME NEW i \in Cards, NEW a \in DOMAIN mem', IsOld(a), a <= CardBase(i),
                    CardBase(i) < a + mem'[a].size
             PROVE  offsets'[i] = Entry(i, a)
  BY DEF TableInv, IsOld
<1>3. i \in Nat /\ CardBase(i) \in Int  BY CardsAre DEF CardBase
<1>4. IsOld(p) => offsets'[i] = IF p <= CardBase(i) /\ CardBase(i) < p + n THEN Entry(i, p) ELSE offsets[i]
  BY <1>0
<1>5. CASE a = p  BY <1>4, <1>5 DEF Extends
<1>6. CASE a # p
  <2>1. a \in DOMAIN mem /\ mem'[a].size = mem[a].size  BY <1>6 DEF Extends
  <2>2. a \in Nat /\ mem[a].size \in Nat  BY <2>1, ObjectIs
  <2>3. offsets[i] = Entry(i, a)  BY <2>1 DEF TableInv
  <2>4. ~(p <= CardBase(i) /\ CardBase(i) < p + n)  BY <1>1, <1>3, <2>1, <2>2
  <2> QED  BY <1>4, <2>3, <2>4
<1> QED  BY <1>5, <1>6

-----------------------------------------------------------------------------
(* What the invariant says in each phase. *)

QuietHeap ==
    /\ LayoutInv /\ TableInv /\ OopsInv /\ Remembered
    /\ to.top = to.start
    /\ \A a \in DOMAIN mem : mem[a].fwd = 0 /\ ~mem[a].marked

ScanHeap ==
    /\ LayoutInv /\ TableInv /\ OopsInv /\ Remembered
    /\ \A a \in DOMAIN mem : ~mem[a].marked
    /\ ScanBounds /\ ForwardInv /\ FromSlots /\ RootSlots /\ OldSlots
    /\ ToSlots /\ PromotedSlots /\ WorkInv

\* Between collections, and where a collection returns to, the invariant gives the
\* whole quiet heap.
LEMMA QuietHas ==
    ASSUME HeapInv, Quiet
    PROVE  TypeInv /\ QuietHeap
BY DEF HeapInv, WalkInv, Walkable, RememberInv, CleanInv, QuietHeap

\* A step that ends in a quiet state need only show the quiet heap.
LEMMA QuietAfter ==
    ASSUME TypeInv', Quiet', QuietHeap'
    PROVE  HeapInv'
<1>1. gc'.phase \in Returns  BY DEF Quiet
<1>2. gc'.phase \notin {"roots", "card", "code", "cheney", "mark", "rewrite", "slide"}
  BY <1>1 DEF Returns
<1>3. ~Scanning'  BY <1>2 DEF Scanning
<1>4. WalkInv' /\ RememberInv'  BY DEF WalkInv, RememberInv, QuietHeap
<1>5. CleanInv'  BY DEF CleanInv, QuietHeap
<1>6. ScanInv'  BY <1>3 DEF ScanInv
<1>7. MarkInv' /\ PlanInv' /\ RewriteInv' /\ SlideInv'
  BY <1>2 DEF MarkInv, PlanInv, RewriteInv, SlideInv
<1> QED  BY <1>4, <1>5, <1>6, <1>7 DEF HeapInv

\* During a scavenge the invariant gives the heap of a scavenge.
LEMMA ScanHas ==
    ASSUME HeapInv, Scanning
    PROVE  TypeInv /\ ScanHeap
BY DEF HeapInv, WalkInv, Walkable, RememberInv, CleanInv, ScanInv, ScanHeap

\* A step that ends inside a scavenge need only show the heap of a scavenge.
LEMMA ScanAfter ==
    ASSUME TypeInv', Scanning', ScanHeap'
    PROVE  HeapInv'
<1>1. gc'.phase \in {"roots", "card", "code", "cheney"}  BY DEF Scanning
<1>2. gc'.phase \notin {"mark", "rewrite", "slide"} /\ ~Quiet'  BY <1>1 DEF Quiet, Returns
<1>4. WalkInv' /\ RememberInv'  BY DEF WalkInv, RememberInv, ScanHeap
<1>5. CleanInv'  BY <1>2 DEF CleanInv, ScanHeap
<1>6. ScanInv'  BY DEF ScanInv, ScanHeap
<1>7. MarkInv' /\ PlanInv' /\ RewriteInv' /\ SlideInv'
  BY <1>2 DEF MarkInv, PlanInv, RewriteInv, SlideInv
<1> QED  BY <1>4, <1>5, <1>6, <1>7 DEF HeapInv

\* After a stall nothing is said of the heap.
LEMMA StallAfter ==
    ASSUME TypeInv', gc'.phase \in {"promote_stall", "mutator_stall"}
    PROVE  HeapInv'
<1>1. /\ gc'.phase \notin {"roots", "card", "code", "cheney", "mark", "rewrite", "slide"}
      /\ gc'.phase \notin Returns
  BY DEF Returns
<1>2. ~Scanning' /\ ~Quiet' /\ ~Walkable'  BY <1>1 DEF Scanning, Quiet, Walkable
<1>3. WalkInv' /\ RememberInv' /\ ScanInv'  BY <1>2 DEF WalkInv, RememberInv, ScanInv
<1>4. CleanInv'  BY <1>1, <1>2 DEF CleanInv
<1>5. MarkInv' /\ PlanInv' /\ RewriteInv' /\ SlideInv'
  BY <1>1 DEF MarkInv, PlanInv, RewriteInv, SlideInv
<1> QED  BY <1>3, <1>4, <1>5 DEF HeapInv

-----------------------------------------------------------------------------
(* The mutator. *)

\* A load or a drop gives a root nothing or an object.
LEMMA RootKeeps ==
    ASSUME HeapInv, gc.phase = "run", NEW q \in Roots, NEW v, Valid(v), v \in Nat,
           roots' = [roots EXCEPT ![q] = v],
           UNCHANGED <<mem, spaceVars, tableVars, request, gc>>
    PROVE  HeapInv'
<1>1. TypeInv /\ QuietHeap /\ Quiet  BY QuietHas DEF Quiet, Returns
<1>2. UNCHANGED <<mem, eden_top, from, to, old_top, committed_end, dirty, offsets, request, gc>>
  BY DEF spaceVars, tableVars
<1>3. roots' \in [Roots -> Nat]  BY <1>1 DEF TypeInv
<1>4. TypeInv'  BY <1>1, <1>2, <1>3 DEF TypeInv, MemOK, SpacesOK
<1>5. \A r \in Roots : Valid(roots'[r])
  BY <1>1 DEF TypeInv, QuietHeap, OopsInv
<1>6. OopsInv'  BY <1>1, <1>2, <1>5 DEF QuietHeap, OopsInv, Valid
<1>7. LayoutInv' /\ TableInv' /\ Remembered'
  BY <1>1, <1>2 DEF QuietHeap, LayoutInv, Apart, Housed, Within, AllTiled, Tiled, TableInv,
                    Remembered, SlotCard, SlotAddr
<1>8. QuietHeap'  BY <1>1, <1>2, <1>6, <1>7 DEF QuietHeap
<1>9. Quiet'  BY <1>1, <1>2 DEF Quiet
<1> QED  BY <1>4, <1>8, <1>9, QuietAfter

\* A mutator's load of a slot into a root keeps the invariant.
LEMMA LoadKeeps ==
    ASSUME HeapInv, NEW r \in Roots, NEW q \in Roots, Load(r, q)
    PROVE  HeapInv'
<1>1. gc.phase = "run" /\ roots[r] # 0  BY DEF Load, Mutator
<1>2. TypeInv /\ QuietHeap  BY <1>1, QuietHas DEF Quiet, Returns
<1>3. roots[r] \in DOMAIN mem  BY <1>1, <1>2 DEF QuietHeap, OopsInv, Valid
<1>4. PICK j \in DOMAIN mem[roots[r]].slots : roots' = [roots EXCEPT ![q] = mem[roots[r]].slots[j]]
  BY DEF Load
<1>5. mem[roots[r]].slots[j] \in Nat  BY <1>2, <1>3, ObjectIs DEF TypeInv
<1>6. Valid(mem[roots[r]].slots[j])  BY <1>2, <1>3 DEF QuietHeap, OopsInv
<1>7. UNCHANGED <<mem, spaceVars, tableVars, request, gc>>  BY DEF Load
<1> QED  BY <1>1, <1>4, <1>5, <1>6, <1>7, RootKeeps

\* So does clearing a root.
LEMMA DropKeeps ==
    ASSUME HeapInv, NEW r \in Roots, Drop(r)
    PROVE  HeapInv'
<1>1. gc.phase = "run" /\ roots' = [roots EXCEPT ![r] = 0]  BY DEF Drop, Mutator
<1>2. Valid(0) /\ 0 \in Nat  BY DEF Valid
<1>3. UNCHANGED <<mem, spaceVars, tableVars, request, gc>>  BY DEF Drop
<1> QED  BY <1>1, <1>2, <1>3, RootKeeps

\* What overwriting one slot does.
SlotsAs(m, m2, a, j, v) ==
    /\ DOMAIN m2 = DOMAIN m
    /\ \A b \in DOMAIN m :
          /\ m2[b].size = m[b].size /\ m2[b].fwd = m[b].fwd /\ m2[b].marked = m[b].marked
          /\ m2[b].id = m[b].id /\ m2[b].age = m[b].age
          /\ DOMAIN m2[b].slots = DOMAIN m[b].slots /\ Len(m2[b].slots) = Len(m[b].slots)
          /\ \A k \in DOMAIN m[b].slots :
                m2[b].slots[k] = IF b = a /\ k = j THEN v ELSE m[b].slots[k]

\* A store into slot j of the object at a changes that slot and nothing else.
LEMMA SlotWritten ==
    ASSUME NEW m, MemIs(m), NEW a \in DOMAIN m, NEW j \in DOMAIN m[a].slots, NEW v \in Nat,
           NEW m2, m2 = [m EXCEPT ![a].slots[j] = v]
    PROVE  MemIs(m2) /\ SlotsAs(m, m2, a, j, v)
<1>1. m \in [DOMAIN m -> Objects] /\ DOMAIN m \subseteq Nat \ {0}  BY DEF MemIs
<1>2. m[a] \in Objects /\ m[a].slots \in Seq(Nat)  BY <1>1 DEF Objects
<1>3. PICK t : t = [m[a].slots EXCEPT ![j] = v]  OBVIOUS
<1>4. /\ t \in Seq(Nat) /\ Len(t) = Len(m[a].slots) /\ DOMAIN t = DOMAIN m[a].slots
      /\ t[j] = v /\ \A k \in DOMAIN m[a].slots : k # j => t[k] = m[a].slots[k]
  BY <1>2, <1>3, SeqReplaced
<1>5. PICK o : o = [m[a] EXCEPT !.slots = t]  OBVIOUS
<1>6. /\ o \in Objects /\ o.size = m[a].size /\ o.fwd = m[a].fwd /\ o.marked = m[a].marked
      /\ o.slots = t /\ o.id = m[a].id /\ o.age = m[a].age
  BY <1>2, <1>4, <1>5 DEF Objects
<1>7. m2 = [m EXCEPT ![a] = o]  BY <1>3, <1>5
<1>8. DOMAIN m2 = DOMAIN m /\ m2[a] = o /\ \A b \in DOMAIN m : b # a => m2[b] = m[b]
  BY <1>1, <1>7
<1>9. MemIs(m2)
  <2>1. m2 \in [DOMAIN m2 -> Objects]  BY <1>1, <1>6, <1>7
  <2>2. \A b \in DOMAIN m2 : Len(m2[b].slots) < m2[b].size
    BY <1>4, <1>6, <1>8 DEF MemIs
  <2> QED  BY <1>1, <1>8, <2>1, <2>2 DEF MemIs
<1>10. SlotsAs(m, m2, a, j, v)
  <2> SUFFICES ASSUME NEW b \in DOMAIN m
               PROVE  /\ m2[b].size = m[b].size /\ m2[b].fwd = m[b].fwd /\ m2[b].marked = m[b].marked
                      /\ m2[b].id = m[b].id /\ m2[b].age = m[b].age
                      /\ DOMAIN m2[b].slots = DOMAIN m[b].slots /\ Len(m2[b].slots) = Len(m[b].slots)
                      /\ \A k \in DOMAIN m[b].slots :
                            m2[b].slots[k] = IF b = a /\ k = j THEN v ELSE m[b].slots[k]
    BY <1>8 DEF SlotsAs
  <2>1. CASE b = a
    <3>1. /\ m2[b].slots = t /\ m2[b].size = m[b].size /\ m2[b].fwd = m[b].fwd
          /\ m2[b].marked = m[b].marked /\ m2[b].id = m[b].id /\ m2[b].age = m[b].age
      BY <1>6, <1>8, <2>1
    <3>2. DOMAIN m2[b].slots = DOMAIN m[b].slots /\ Len(m2[b].slots) = Len(m[b].slots)
      BY <1>4, <2>1, <3>1
    <3>3. \A k \in DOMAIN m[b].slots : m2[b].slots[k] = IF b = a /\ k = j THEN v ELSE m[b].slots[k]
      BY <1>4, <2>1, <3>1
    <3> QED  BY <3>1, <3>2, <3>3
  <2>2. CASE b # a  BY <1>8, <2>2
  <2> QED  BY <2>1, <2>2
<1> QED  BY <1>9, <1>10

\* A slot stays where it is when sizes and lengths do.
LEMMA SlotStays ==
    ASSUME NEW a, NEW j, mem'[a].size = mem[a].size, Len(mem'[a].slots) = Len(mem[a].slots)
    PROVE  SlotAddr(a, j)' = SlotAddr(a, j) /\ SlotCard(a, j)' = SlotCard(a, j)
BY DEF SlotAddr, SlotCard

\* A store keeps the heap if its barrier remembers the slot.
LEMMA WriteKeeps ==
    ASSUME HeapInv, NEW r \in Roots, NEW j, NEW q \in Roots, WriteField(r, j, q),
           dirty \subseteq dirty', dirty' \subseteq Cards,
           IsOld(roots[r]) /\ IsNew(roots[q]) => SlotCard(roots[r], j) \in dirty'
    PROVE  HeapInv'
<1>1. gc.phase = "run" /\ roots[r] # 0 /\ j \in DOMAIN mem[roots[r]].slots  BY DEF WriteField, Mutator
<1>2. TypeInv /\ QuietHeap /\ Quiet  BY <1>1, QuietHas DEF Quiet, Returns
<1>3. UNCHANGED <<roots, eden_top, from, to, old_top, committed_end, offsets, request, gc>>
  BY DEF WriteField, spaceVars
<1>4. PICK a, v : a = roots[r] /\ v = roots[q]  OBVIOUS
<1>5. a \in DOMAIN mem /\ Valid(v) /\ v \in Nat
  BY <1>1, <1>2, <1>4 DEF QuietHeap, OopsInv, Valid, TypeInv
<1>6. mem' = [mem EXCEPT ![a].slots[j] = v]  BY <1>4 DEF WriteField
<1>7. MemIs(mem') /\ SlotsAs(mem, mem', a, j, v)
  BY <1>1, <1>2, <1>4, <1>5, <1>6, SlotWritten DEF TypeInv, MemOK
<1>8. MemOK'  BY <1>7 DEF MemOK
<1>9. TypeInv'
  <2>1. SpacesOK'  BY <1>2, <1>3 DEF TypeInv, SpacesOK
  <2> QED  BY <1>2, <1>3, <1>8, <2>1 DEF TypeInv
<1>10. DOMAIN mem' = DOMAIN mem /\ \A b \in DOMAIN mem : mem'[b].size = mem[b].size
  BY <1>7 DEF SlotsAs
<1>11. LayoutInv' /\ TableInv'
  BY <1>2, <1>3, <1>10 DEF QuietHeap, LayoutInv, Apart, Housed, Within, AllTiled, Tiled, TableInv
<1>12. OopsInv'
  <2>1. \A x : Valid(x)' <=> Valid(x)  BY <1>10 DEF Valid
  <2>2. \A b \in DOMAIN mem : \A k \in DOMAIN mem'[b].slots : Valid(mem'[b].slots[k])
    BY <1>2, <1>5, <1>7 DEF SlotsAs, QuietHeap, OopsInv
  <2> QED  BY <1>2, <1>3, <1>10, <2>1, <2>2 DEF QuietHeap, OopsInv
<1>13. Remembered'
  <2> SUFFICES ASSUME NEW b \in DOMAIN mem', IsOld(b), NEW k \in DOMAIN mem'[b].slots,
                      IsNew(mem'[b].slots[k])
               PROVE  SlotCard(b, k)' \in dirty'
    BY DEF Remembered, IsOld, IsNew
  <2>1. b \in DOMAIN mem /\ k \in DOMAIN mem[b].slots  BY <1>7 DEF SlotsAs
  <2>2. mem'[b].size = mem[b].size /\ Len(mem'[b].slots) = Len(mem[b].slots)
    BY <1>7, <2>1 DEF SlotsAs
  <2>3. SlotCard(b, k)' = SlotCard(b, k)  BY <2>2, SlotStays
  <2>4. CASE b = a /\ k = j
    <3>1. mem'[b].slots[k] = v  BY <1>7, <2>1, <2>4 DEF SlotsAs
    <3> QED  BY <1>4, <2>3, <2>4, <3>1
  <2>5. CASE ~(b = a /\ k = j)
    <3>1. mem'[b].slots[k] = mem[b].slots[k]  BY <1>7, <2>1, <2>5 DEF SlotsAs
    <3>2. SlotCard(b, k) \in dirty  BY <1>2, <2>1, <3>1 DEF QuietHeap, Remembered
    <3> QED  BY <2>3, <3>2
  <2> QED  BY <2>4, <2>5
<1>14. \A b \in DOMAIN mem' : mem'[b].fwd = 0 /\ ~mem'[b].marked
  BY <1>2, <1>7 DEF SlotsAs, QuietHeap
<1>15. QuietHeap'  BY <1>2, <1>3, <1>11, <1>12, <1>13, <1>14 DEF QuietHeap
<1>16. Quiet'  BY <1>2, <1>3 DEF Quiet
<1> QED  BY <1>9, <1>15, <1>16, QuietAfter

\* The card of a slot of an old object is one of the object's cards.
LEMMA CardOfSlot ==
    ASSUME MemOK, SpacesOK, Housed, NEW a \in DOMAIN mem, IsOld(a), NEW j \in DOMAIN mem[a].slots
    PROVE  SlotCard(a, j) \in CardsOf(a, a + mem[a].size) /\ SlotCard(a, j) \in Cards
<1>1. /\ SlotAddr(a, j) \in Nat /\ a < SlotAddr(a, j) /\ SlotAddr(a, j) < a + mem[a].size
      /\ a \in Nat /\ mem[a].size \in Nat
  BY SlotLies, ObjectIs
<1>2. a >= OldStart /\ a + mem[a].size <= OldEnd
  BY <1>1, Kinds, Geometry DEF IsOld, Within
<1>3. PICK w, n : w = SlotAddr(a, j) /\ n = a + mem[a].size  OBVIOUS
<1>4. /\ CardIndex(w) \in Nat /\ CardIndex(a) \in Nat /\ CardIndex(n - 1) \in Nat
      /\ CardIndex(OldEnd - 1) \in Nat
      /\ CardBase(CardIndex(w)) <= w /\ CardBase(CardIndex(a)) <= a
      /\ CardBase(CardIndex(w)) \in Int /\ CardBase(CardIndex(a)) \in Int
  BY <1>1, <1>2, <1>3, CardHolds
<1>5. CardIndex(a) <= CardIndex(w)  BY <1>1, <1>2, <1>3, <1>4, CardBelow
<1>6. CardIndex(w) <= CardIndex(n - 1) /\ CardIndex(w) <= CardIndex(OldEnd - 1)
  BY <1>1, <1>2, <1>3, <1>4, CardBelow
<1> QED  BY <1>1, <1>3, <1>4, <1>5, <1>6 DEF SlotCard, CardsOf, Cards

\* `store` dirties the card of the slot.
LEMMA StoreKeeps ==
    ASSUME HeapInv, NEW r \in Roots, NEW q \in Roots, Store(r, q)
    PROVE  HeapInv'
<1>1. PICK j \in 1 .. 2 : WriteField(r, j, q) /\ dirty' = SlotBarrier(roots[r], j, roots[q])
  BY DEF Store
<1>2. gc.phase = "run" /\ roots[r] # 0 /\ j \in DOMAIN mem[roots[r]].slots
  BY <1>1 DEF WriteField, Mutator
<1>3. TypeInv /\ QuietHeap  BY <1>2, QuietHas DEF Quiet, Returns
<1>4. roots[r] \in DOMAIN mem  BY <1>2, <1>3 DEF QuietHeap, OopsInv, Valid
<1>5. IsOld(roots[r]) => SlotCard(roots[r], j) \in Cards
  BY <1>2, <1>3, <1>4, CardOfSlot DEF TypeInv, QuietHeap, LayoutInv
<1>6. dirty' = IF IsOld(roots[r]) /\ IsNew(roots[q]) THEN dirty \cup {SlotCard(roots[r], j)} ELSE dirty
  BY <1>1 DEF SlotBarrier, SlotCard
<1>7. dirty \subseteq Cards  BY <1>3 DEF TypeInv
<1>8. dirty \subseteq dirty' /\ dirty' \subseteq Cards  BY <1>5, <1>6, <1>7
<1>9. IsOld(roots[r]) /\ IsNew(roots[q]) => SlotCard(roots[r], j) \in dirty'  BY <1>6
<1> QED  BY <1>1, <1>8, <1>9, WriteKeeps

\* post_write_barrier dirties all cards of the object.
LEMMA RuntimeStoreKeeps ==
    ASSUME HeapInv, NEW r \in Roots, NEW q \in Roots, RuntimeStore(r, q)
    PROVE  HeapInv'
<1>1. PICK j \in 1 .. 2 : WriteField(r, j, q) /\ dirty' = ObjectBarrier(roots[r])
  BY DEF RuntimeStore
<1>2. gc.phase = "run" /\ roots[r] # 0 /\ j \in DOMAIN mem[roots[r]].slots
  BY <1>1 DEF WriteField, Mutator
<1>3. TypeInv /\ QuietHeap  BY <1>2, QuietHas DEF Quiet, Returns
<1>4. roots[r] \in DOMAIN mem /\ IsOld(roots[r])
  BY <1>2, <1>3 DEF QuietHeap, OopsInv, Valid, RuntimeStore
<1>5. SlotCard(roots[r], j) \in CardsOf(roots[r], roots[r] + mem[roots[r]].size)
  BY <1>2, <1>3, <1>4, CardOfSlot DEF TypeInv, QuietHeap, LayoutInv
<1>6. dirty' = dirty \cup CardsOf(roots[r], roots[r] + mem[roots[r]].size)
  BY <1>1, <1>4 DEF ObjectBarrier
<1>7. dirty \subseteq Cards  BY <1>3 DEF TypeInv
<1>8. dirty \subseteq dirty' /\ dirty' \subseteq Cards  BY <1>6, <1>7 DEF CardsOf
<1>9. SlotCard(roots[r], j) \in dirty'  BY <1>5, <1>6
<1> QED  BY <1>1, <1>8, <1>9, WriteKeeps

-----------------------------------------------------------------------------
(* Allocation. *)

\* The state outside a collection.
LEMMA NoGCIs ==
    /\ NoGC \in Collector /\ NoGC.phase = "run" /\ NoGC.then = "run"
    /\ NoGC.work = {} /\ NoGC.placed = {} /\ NoGC.gray = {} /\ NoGC.plan = {} /\ NoGC.card = -1
<1>1. MaxAge \in Nat  BY AgeAssumption
<1>2. [g \in 0 .. MaxAge |-> 0] \in [0 .. MaxAge -> Nat]  BY <1>1
<1>3. [eden |-> 0, from |-> 0, old |-> 0] \in [eden : Nat, from : Nat, old : Nat]  OBVIOUS
<1>4. "run" \in Phases /\ "run" \in Returns  BY DEF Phases, Returns
<1> QED  BY <1>2, <1>3, <1>4 DEF NoGC, Collector

\* Putting an object into a memory of objects.
LEMMA PutMem ==
    ASSUME NEW m, MemIs(m), NEW a \in Nat \ {0}, NEW o \in Objects, Len(o.slots) < o.size,
           NEW g, g = Put(m, a, o)
    PROVE  MemIs(g)
<1>1. /\ DOMAIN g = DOMAIN m \cup {a} /\ g[a] = o
      /\ \A x \in DOMAIN m : x # a => g[x] = m[x]
      /\ g = [x \in DOMAIN g |-> g[x]]
  BY DEF Put
<1>2. m \in [DOMAIN m -> Objects] /\ DOMAIN m \subseteq Nat \ {0}
      /\ \A x \in DOMAIN m : Len(m[x].slots) < m[x].size
  BY DEF MemIs
<1>3. \A x \in DOMAIN g : g[x] \in Objects /\ Len(g[x].slots) < g[x].size  BY <1>1, <1>2
<1>4. g \in [DOMAIN g -> Objects]  BY <1>1, <1>3
<1> QED  BY <1>1, <1>2, <1>3, <1>4 DEF MemIs

\* The sizes of the objects considered.
LEMMA ShapeIs ==
    ASSUME NEW s \in Shapes
    PROVE  s.size \in Nat \ {0} /\ s.slots \in Nat /\ s.slots < s.size
BY ShapeAssumption

\* The new object: all its slots hold nothing.
LEMMA FreshIs ==
    ASSUME NEW i \in FreeIds, NEW s \in Shapes
    PROVE  /\ Fresh(s, i) \in Objects /\ Fresh(s, i).size = s.size /\ s.size \in Nat \ {0}
           /\ Fresh(s, i).fwd = 0 /\ ~Fresh(s, i).marked /\ Len(Fresh(s, i).slots) < s.size
           /\ \A j \in DOMAIN Fresh(s, i).slots : Fresh(s, i).slots[j] = 0
           /\ Fresh(s, i).id = i /\ i \in Ids \ HeapIds /\ Fresh(s, i).age = 0
           /\ Fresh(s, i).slots = [j \in 1 .. s.slots |-> 0]
<1>1. s.size \in Nat /\ s.slots \in Nat /\ s.slots < s.size  BY ShapeAssumption
<1>2. i \in Ids \ HeapIds  BY DEF FreeIds, HeapIds
<1>3. PICK t : t = [j \in 1 .. s.slots |-> 0]  OBVIOUS
<1>4. t \in Seq(Nat) /\ Len(t) = s.slots /\ DOMAIN t = 1 .. s.slots /\ \A j \in DOMAIN t : t[j] = 0
  BY <1>1, <1>3
<1>5. Fresh(s, i) = [id |-> i, size |-> s.size, slots |-> t, age |-> 0, fwd |-> 0, marked |-> FALSE]
  BY <1>3 DEF Fresh
<1>6. Fresh(s, i).id = i /\ Fresh(s, i).age = 0 /\ Fresh(s, i).slots = [j \in 1 .. s.slots |-> 0]
  BY <1>3, <1>5
<1> QED  BY <1>1, <1>2, <1>4, <1>5, <1>6 DEF Objects

\* An object bumped onto eden or old gen.
LEMMA PlacedKeeps ==
    ASSUME HeapInv, Quiet, NEW r \in Roots, NEW s \in Shapes, NEW p, NEW i \in FreeIds,
           mem' = Put(mem, p, Fresh(s, i)), roots' = [roots EXCEPT ![r] = p],
           SpacesOK', UNCHANGED <<from, to>>,
           \/ p = eden_top /\ eden_top' = p + s.size /\ old_top' = old_top
           \/ p = old_top /\ old_top' = p + s.size /\ eden_top' = eden_top,
           offsets' = IF IsOld(p) THEN RecordObject(offsets, p, s.size) ELSE offsets,
           dirty \subseteq dirty', dirty' \subseteq Cards,
           gc' \in Collector, gc'.phase = "run", gc'.then # "run" => request' \in Requests
    PROVE  HeapInv'
<1>1. TypeInv /\ QuietHeap  BY QuietHas
<1>2. MemOK /\ SpacesOK /\ LayoutInv /\ TableInv  BY <1>1 DEF TypeInv, QuietHeap
<1>3. PICK o, n : o = Fresh(s, i) /\ n = s.size  OBVIOUS
<1>4. /\ o \in Objects /\ o.size = n /\ n \in Nat \ {0} /\ o.fwd = 0 /\ ~o.marked
      /\ Len(o.slots) < n /\ \A j \in DOMAIN o.slots : o.slots[j] = 0
  <2>1. i \in FreeIds /\ s \in Shapes  OBVIOUS
  <2>2. Fresh(s, i) \in Objects  BY ONLY <2>1, FreshIs, ZenonT(30)
  <2>3. Fresh(s, i).size = s.size /\ Fresh(s, i).fwd = 0  BY DEF Fresh
  <2>4. ~Fresh(s, i).marked  BY ONLY <2>1, FreshIs, ZenonT(30)
  <2>5. s.size \in Nat \ {0}  BY <2>1, ShapeIs
  <2>6. Len(Fresh(s, i).slots) < s.size  BY ONLY <2>1, FreshIs, ZenonT(30)
  <2>7. \A j \in DOMAIN Fresh(s, i).slots : Fresh(s, i).slots[j] = 0
    BY ONLY <2>1, FreshIs, ZenonT(30)
  <2> QED  BY <1>3, <2>2, <2>3, <2>4, <2>5, <2>6, <2>7
<1>5. /\ DOMAIN mem' = DOMAIN mem \cup {p} /\ mem'[p] = o
      /\ \A a \in DOMAIN mem : a # p => mem'[a] = mem[a]
  BY <1>3 DEF Put
<1>6. Extends(p, n)  BY <1>3, <1>4, <1>5 DEF Extends
<1>7. p \in Nat /\ p > 0  BY <1>2, <1>4, <1>6, ExtendsApart
<1>8. LayoutInv' /\ p \notin DOMAIN mem  BY <1>2, <1>4, <1>6, ExtendsLayout
<1>9. offsets' = IF IsOld(p) THEN RecordObject(offsets, p, n) ELSE offsets  BY <1>3
<1>10. TableInv'  BY <1>2, <1>4, <1>6, <1>9, ExtendsTable
<1>11. MemOK'
  <2>1. MemIs(mem)  BY <1>2 DEF MemOK
  <2>2. MemIs(mem')  BY <1>3, <1>4, <1>7, <2>1, PutMem
  <2> QED  BY <2>2 DEF MemOK
<1>12. roots' \in [Roots -> Nat]  BY <1>1, <1>7 DEF TypeInv
<1>13. TypeInv'
  <2>1. gc'.phase \notin Returns \ {"run"}  OBVIOUS
  <2> QED  BY <1>11, <1>12, <2>1 DEF TypeInv
<1>14. OopsInv'
  <2>1. \A x : Valid(x) => x = 0 \/ x \in DOMAIN mem'  BY <1>5 DEF Valid
  <2>2. \A q \in Roots : roots'[q] = 0 \/ roots'[q] \in DOMAIN mem'
    <3> TAKE q \in Roots
    <3>1. CASE q = r  BY <1>1, <1>5, <3>1 DEF TypeInv
    <3>2. CASE q # r
      <4>1. roots'[q] = roots[q] /\ Valid(roots[q])  BY <1>1, <3>2 DEF TypeInv, QuietHeap, OopsInv
      <4> QED  BY <2>1, <4>1
    <3> QED  BY <3>1, <3>2
  <2>3. \A a \in DOMAIN mem : \A j \in DOMAIN mem'[a].slots :
           mem'[a].slots[j] = 0 \/ mem'[a].slots[j] \in DOMAIN mem'
    <3> TAKE a \in DOMAIN mem
    <3>1. mem'[a] = mem[a]  BY <1>5, <1>8
    <3>2. \A j \in DOMAIN mem[a].slots : Valid(mem[a].slots[j])  BY <1>1 DEF QuietHeap, OopsInv
    <3> QED  BY <2>1, <3>1, <3>2
  <2>4. \A j \in DOMAIN mem'[p].slots : mem'[p].slots[j] = 0  BY <1>4, <1>5
  <2> QED  BY <1>5, <2>2, <2>3, <2>4 DEF OopsInv, Valid
<1>15. Remembered'
  <2> SUFFICES ASSUME NEW b \in DOMAIN mem', IsOld(b), NEW k \in DOMAIN mem'[b].slots,
                      IsNew(mem'[b].slots[k])
               PROVE  SlotCard(b, k)' \in dirty'
    BY DEF Remembered, IsOld, IsNew
  <2>1. b # p  BY <1>4, <1>5 DEF IsNew
  <2>2. b \in DOMAIN mem /\ mem'[b] = mem[b]  BY <1>5, <2>1
  <2>3. SlotCard(b, k)' = SlotCard(b, k)  BY <2>2, SlotStays
  <2>4. SlotCard(b, k) \in dirty  BY <1>1, <2>2 DEF QuietHeap, Remembered
  <2> QED  BY <2>3, <2>4
<1>16. \A a \in DOMAIN mem' : mem'[a].fwd = 0 /\ ~mem'[a].marked
  BY <1>1, <1>4, <1>5 DEF QuietHeap
<1>17. QuietHeap'  BY <1>1, <1>8, <1>10, <1>14, <1>15, <1>16 DEF QuietHeap
<1>18. Quiet'  BY DEF Quiet, Returns
<1> QED  BY <1>13, <1>17, <1>18, QuietAfter

\* The bump in eden.
LEMMA EdenKeeps ==
    ASSUME HeapInv, Quiet, NEW r \in Roots, NEW s \in Shapes, PlaceInEden(r, s),
           gc' \in Collector, gc'.phase = "run", gc'.then # "run" => request' \in Requests
    PROVE  HeapInv'
<1>1. TypeInv  BY QuietHas
<1>2. s.size \in Nat \ {0}  BY ShapeIs
<1>3. /\ eden_top + s.size <= EdenStart + EdenWords /\ eden_top' = eden_top + s.size
      /\ UNCHANGED <<from, to, old_top, committed_end, dirty, offsets>>
      /\ roots' = [roots EXCEPT ![r] = eden_top]
  BY DEF PlaceInEden, EdenFits, tableVars
<1>0. PICK i \in FreeIds : mem' = Put(mem, eden_top, Fresh(s, i))  BY DEF PlaceInEden
<1>4. SpacesOK'
  <2>1. /\ EdenStart <= eden_top' /\ eden_top' <= EdenStart + EdenWords /\ eden_top' \in Nat
    BY <1>1, <1>2, <1>3, Geometry DEF TypeInv
  <2> QED  BY <1>1, <1>3, <2>1 DEF TypeInv, SpacesOK
<1>5. ~IsOld(eden_top)
  BY <1>1, <1>2, <1>3, Geometry DEF TypeInv, IsOld
<1>6. dirty \subseteq dirty' /\ dirty' \subseteq Cards  BY <1>1, <1>3 DEF TypeInv
<1>7. PICK p : p = eden_top  OBVIOUS
<1>8. /\ mem' = Put(mem, p, Fresh(s, i)) /\ roots' = [roots EXCEPT ![r] = p]
      /\ p = eden_top /\ eden_top' = p + s.size /\ old_top' = old_top
      /\ offsets' = IF IsOld(p) THEN RecordObject(offsets, p, s.size) ELSE offsets
  BY <1>0, <1>3, <1>5, <1>7
<1> QED  BY <1>3, <1>4, <1>6, <1>8, PlacedKeeps

\* Growth stays inside the reservation.
LEMMA GrownIs ==
    ASSUME SpacesOK
    PROVE  Grown(committed_end) \in Nat /\ committed_end <= Grown(committed_end)
           /\ Grown(committed_end) <= OldEnd
BY Geometry DEF Grown, LesserOf

\* Growing old space until the worst case fits stays inside the reservation and
\* gives nothing back.
LEMMA GrowUntilIs ==
    ASSUME SpacesOK, NEW worst
    PROVE  /\ GrowUntil(worst) \in Nat /\ committed_end <= GrowUntil(worst)
           /\ GrowUntil(worst) <= OldEnd
<1>1. /\ committed_end \in Nat /\ OldEnd \in Nat /\ Segment \in Nat /\ committed_end <= OldEnd
      /\ OldStart \in Nat
  BY Geometry
<1>2. PICK E : E = {LesserOf(committed_end + n * Segment, OldEnd) : n \in 0 .. OldEnd - OldStart}
  OBVIOUS
<1>3. \A e \in E : e \in Nat /\ committed_end <= e /\ e <= OldEnd
  <2> SUFFICES ASSUME NEW n \in 0 .. OldEnd - OldStart
               PROVE  /\ LesserOf(committed_end + n * Segment, OldEnd) \in Nat
                      /\ committed_end <= LesserOf(committed_end + n * Segment, OldEnd)
                      /\ LesserOf(committed_end + n * Segment, OldEnd) <= OldEnd
    BY <1>2
  <2>1. n \in Nat  BY <1>1
  <2>2. n * Segment \in Nat  BY <1>1, <2>1
  <2>3. PICK k \in Nat : k = n * Segment  BY <2>2
  <2> QED  BY <1>1, <2>3 DEF LesserOf
<1>4. PICK G : G = {e \in E : FreeOld(e) >= worst}  OBVIOUS
<1>5. GrowUntil(worst) = IF G = {} THEN OldEnd ELSE Min(G)
  BY <1>2, <1>4 DEF GrowUntil
<1>6. G \in SUBSET Nat /\ G \subseteq E  BY <1>3, <1>4
<1>7. G # {} => Min(G) \in G
  <2> SUFFICES ASSUME G # {} PROVE Min(G) \in G  OBVIOUS
  <2>1. \E m \in G : \A j \in G : m <= j  BY <1>6, LeastNat
  <2> QED  BY <2>1 DEF Min
<1>8. PICK g : g = GrowUntil(worst)  OBVIOUS
<1>9. g = OldEnd \/ g \in E  BY <1>5, <1>6, <1>7, <1>8
<1>10. g \in Nat /\ committed_end <= g /\ g <= OldEnd  BY <1>1, <1>3, <1>9
<1> QED  BY <1>8, <1>10

\* try_old_alloc.
LEMMA OldKeeps ==
    ASSUME HeapInv, Quiet, NEW r \in Roots, NEW s \in Shapes, PlaceInOld(r, s),
           gc' \in Collector, gc'.phase = "run", gc'.then # "run" => request' \in Requests
    PROVE  HeapInv'
<1>1. TypeInv /\ SpacesOK  BY QuietHas DEF TypeInv
<1>2. s.size \in Nat \ {0}  BY ShapeIs
<1>3. PICK end : end = IF OldFits(s.size, committed_end) THEN committed_end ELSE Grown(committed_end)
  OBVIOUS
<1>4. /\ old_top + s.size <= end /\ committed_end' = end /\ old_top' = old_top + s.size
      /\ UNCHANGED <<from, to, eden_top>>
      /\ offsets' = RecordObject(offsets, old_top, s.size)
      /\ dirty' = dirty \cup CardsOf(old_top, old_top + s.size)
      /\ roots' = [roots EXCEPT ![r] = old_top]
  BY <1>3 DEF PlaceInOld, OldFits
<1>0. PICK i \in FreeIds : mem' = Put(mem, old_top, Fresh(s, i))  BY DEF PlaceInOld
<1>5. end \in Nat /\ committed_end <= end /\ end <= OldEnd
  BY <1>1, <1>3, GrownIs, Geometry
<1>6. SpacesOK'
  <2>1. /\ OldStart <= old_top' /\ old_top' <= committed_end' /\ committed_end' <= OldEnd
        /\ old_top' \in Nat /\ committed_end' \in Nat
    BY <1>1, <1>2, <1>4, <1>5, Geometry
  <2> QED  BY <1>1, <1>4, <2>1 DEF SpacesOK
<1>7. IsOld(old_top)  BY <1>1, Geometry DEF IsOld
<1>8. dirty \subseteq dirty' /\ dirty' \subseteq Cards  BY <1>1, <1>4 DEF TypeInv, CardsOf
<1>9. PICK p : p = old_top  OBVIOUS
<1>10. /\ mem' = Put(mem, p, Fresh(s, i)) /\ roots' = [roots EXCEPT ![r] = p]
       /\ p = old_top /\ old_top' = p + s.size /\ eden_top' = eden_top
       /\ offsets' = IF IsOld(p) THEN RecordObject(offsets, p, s.size) ELSE offsets
  BY <1>0, <1>4, <1>7, <1>9
<1> QED  BY <1>4, <1>6, <1>8, <1>10, PlacedKeeps

\* The mutator's fast path, an allocation in eden, keeps the invariant.
LEMMA AllocateKeeps ==
    ASSUME HeapInv, NEW r \in Roots, NEW s \in Shapes, Allocate(r, s)
    PROVE  HeapInv'
<1>1. gc.phase = "run" /\ HaveId /\ PlaceInEden(r, s) /\ UNCHANGED gc  BY DEF Allocate, Mutator
<1>2. Quiet  BY <1>1 DEF Quiet, Returns
<1>3. TypeInv  BY <1>2, QuietHas
<1>4. request' = request  BY DEF Allocate
<1>5. gc' \in Collector /\ gc'.phase = "run" /\ (gc'.then # "run" => request' \in Requests)
  BY <1>1, <1>3, <1>4 DEF TypeInv
<1> QED  BY <1>1, <1>2, <1>5, EdenKeeps

\* So does the allocation retried after a collection (alloc_slow).
LEMMA SatisfyKeeps ==
    ASSUME HeapInv, Satisfy
    PROVE  HeapInv'
<1>1. gc.phase \in {"retry", "last"} /\ HaveId /\ gc' = NoGC  BY DEF Satisfy
<1>2. Quiet /\ TypeInv  BY <1>1, QuietHas DEF Quiet, Returns
<1>3. request \in Requests  BY <1>1, <1>2 DEF TypeInv, Returns
<1>4. PICK r, s : r = request.root /\ s = request.shape  OBVIOUS
<1>5. r \in Roots /\ s \in Shapes  BY <1>3, <1>4 DEF Requests
<1>6. gc' \in Collector /\ gc'.phase = "run" /\ (gc'.then # "run" => request' \in Requests)
  BY <1>1, NoGCIs
<1>7. PlaceInEden(r, s) \/ PlaceInOld(r, s)  BY <1>4 DEF Satisfy
<1> QED  BY <1>1, <1>2, <1>5, <1>6, <1>7, EdenKeeps, OldKeeps

-----------------------------------------------------------------------------
(* A collection begins. *)

\* A scavenge: every young root of the VM is in the first batch.
LEMMA ScavengeStarts ==
    ASSUME HeapInv, Quiet, NEW then \in Returns, StartScavenge(then), SpacesOK',
           UNCHANGED <<mem, roots, eden_top, from, old_top, dirty, offsets>>,
           then # "run" => request' \in Requests
    PROVE  HeapInv'
<1>1. TypeInv /\ QuietHeap /\ MemOK /\ SpacesOK /\ Housed
  BY QuietHas DEF TypeInv, QuietHeap, LayoutInv
<1>2. to' = to
  <2>1. to \in Spans /\ to.top = to.start  BY <1>1 DEF QuietHeap, SpacesOK
  <2> QED  BY <2>1 DEF StartScavenge, Spans
<1>3. PICK w : w = YoungOf({<<0, r>> : r \in VmRoots})  OBVIOUS
<1>4. \A s : s \in w <=> \E r \in VmRoots : s = <<0, r>> /\ roots[r] # 0 /\ ~IsOld(roots[r])
  BY <1>3 DEF YoungOf, Passes, ValueOf
<1>5. VmRoots \subseteq Roots /\ Roots \subseteq Nat  BY RootAssumption DEF Roots
<1>6. w \in SUBSET (Nat \X Nat)  BY <1>4, <1>5
<1>7. gc' = [NoGC EXCEPT !.phase = "roots", !.then = then, !.old_top_before = old_top,
                         !.to_scan = to.start, !.old_scan = old_top, !.work = w]
  BY <1>3 DEF StartScavenge
<1>8. /\ gc'.phase = "roots" /\ gc'.then = then /\ gc'.old_top_before = old_top
      /\ gc'.to_scan = to.start /\ gc'.old_scan = old_top /\ gc'.work = w /\ gc'.card = -1
  BY <1>7 DEF NoGC
<1>9. gc' \in Collector
  <2>1. "roots" \in Phases  BY DEF Phases
  <2>2. old_top \in Nat /\ to.start \in Nat  BY <1>1, Geometry
  <2> QED  BY <1>6, <1>7, <2>1, <2>2, NoGCIs DEF Collector
<1>10. TypeInv'
  <2>1. gc'.phase \notin Returns  BY <1>8 DEF Returns
  <2>2. MemOK'  BY <1>1 DEF MemOK
  <2> QED  BY <1>1, <1>8, <1>9, <2>1, <2>2 DEF TypeInv
<1>11. LayoutInv' /\ TableInv' /\ OopsInv' /\ Remembered' /\ \A a \in DOMAIN mem' : ~mem'[a].marked
  BY <1>1, <1>2 DEF QuietHeap, LayoutInv, Apart, Housed, Within, AllTiled, Tiled, TableInv,
                    Remembered, SlotCard, SlotAddr, OopsInv, Valid
<1>12. (\A v : InFrom(v)' = InFrom(v)) /\ (\A v \in Nat : ~InTo(v)')
  <2>1. to.top = to.start /\ to.start \in Nat  BY <1>1, Geometry DEF QuietHeap
  <2>2. \A v : InFrom(v)' = InFrom(v)  BY DEF InFrom
  <2>3. \A v \in Nat : ~(to.start <= v /\ v < to.top)  BY <2>1
  <2> QED  BY <1>2, <2>2, <2>3 DEF InTo
<1>13. \A a \in DOMAIN mem : IsOld(a) => a + mem[a].size <= old_top /\ a < old_top
  <2> SUFFICES ASSUME NEW a \in DOMAIN mem, IsOld(a)
               PROVE  a + mem[a].size <= old_top /\ a < old_top
    OBVIOUS
  <2>1. a \in Nat /\ mem[a].size \in Nat /\ mem[a].size > 0 /\ old_top \in Nat
    BY <1>1, ObjectIs, Geometry
  <2>2. a + mem[a].size <= old_top  BY <1>1, Kinds DEF Within
  <2> QED  BY <2>1, <2>2
<1>14. /\ \A a \in DOMAIN mem : a \in Nat
       /\ \A a \in DOMAIN mem : \A j \in DOMAIN mem[a].slots : mem[a].slots[j] \in Nat
       /\ \A r \in Roots : roots[r] \in Nat
  BY <1>1, ObjectIs DEF TypeInv
<1>15. ScanBounds'
  <2>1. /\ OldStart <= old_top /\ old_top \in Nat /\ to.start <= to.top /\ to.start \in Nat /\ to.top \in Nat
        /\ OldStart \in Nat
    BY <1>1, Geometry
  <2>2. \A a \in DOMAIN mem' :
          /\ IsOld(a) /\ a < gc'.old_top_before => a + mem'[a].size <= gc'.old_top_before
          /\ IsOld(a) /\ a < gc'.old_scan => a + mem'[a].size <= gc'.old_scan
    BY <1>8, <1>13
  <2>3. \A a \in DOMAIN mem' : ~InTo(a)'  BY <1>12, <1>14
  <2> QED  BY <1>2, <1>8, <2>1, <2>2, <2>3 DEF ScanBounds, IsOld
<1>16. ForwardInv'  BY <1>1 DEF ForwardInv, QuietHeap
<1>17. FromSlots'  BY <1>12, <1>14 DEF FromSlots
<1>18. RootSlots'
  <2>1. ASSUME NEW r \in VmRoots, InFrom(roots[r]) PROVE <<0, r>> \in w
    <3>1. roots[r] \in Nat  BY <1>5, <1>14
    <3>2. roots[r] # 0 /\ ~IsOld(roots[r])
      BY <1>1, <2>1, <3>1, Geometry DEF InFrom, IsOld
    <3> QED  BY <1>4, <3>2
  <2>2. \A r \in CodeRoots : r \in Roots  BY DEF Roots
  <2> QED  BY <1>8, <1>12, <1>14, <2>1, <2>2 DEF RootSlots
<1>19. OldSlots'  BY <1>8, <1>12, <1>14 DEF OldSlots
<1>20. ToSlots'  BY <1>12, <1>14 DEF ToSlots
<1>21. PromotedSlots'
  <2>1. \A a \in DOMAIN mem : ~(a >= old_top)
    <3> TAKE a \in DOMAIN mem
    <3>1. OldStart \in Nat /\ old_top \in Nat /\ a \in Nat /\ OldStart <= old_top
      BY <1>1, <1>14, Geometry
    <3> QED  BY <1>13, <3>1 DEF IsOld
  <2> QED  BY <1>8, <2>1 DEF PromotedSlots
<1>22. WorkInv'
  <2> SUFFICES ASSUME NEW s \in w
               PROVE  InFrom(ValueOf(s)') /\ s[1] = 0 /\ s[2] \in VmRoots
    BY <1>8, <1>12 DEF WorkInv
  <2>1. PICK r \in VmRoots : s = <<0, r>> /\ roots[r] # 0 /\ ~IsOld(roots[r])  BY <1>4
  <2>2. ValueOf(s)' = roots[r] /\ s[1] = 0 /\ s[2] = r  BY <2>1 DEF ValueOf
  <2>3. roots[r] \in DOMAIN mem  BY <1>1, <1>5, <2>1 DEF QuietHeap, OopsInv, Valid
  <2>4. ~InTo(roots[r])  BY <1>2, <1>12, <1>14, <2>3 DEF InTo
  <2>5. InFrom(roots[r])  BY <1>1, <2>1, <2>3, <2>4, Kinds
  <2> QED  BY <2>2, <2>5
<1>23. ScanHeap'
  BY <1>11, <1>15, <1>16, <1>17, <1>18, <1>19, <1>20, <1>21, <1>22 DEF ScanHeap
<1>24. Scanning'  BY <1>8 DEF Scanning
<1> QED  BY <1>10, <1>23, <1>24, ScanAfter

\* The heap while it is marked.
MarkHeap ==
    /\ LayoutInv /\ TableInv /\ OopsInv
    /\ to.top = to.start
    /\ \A a \in DOMAIN mem : mem[a].fwd = 0
    /\ gc.gray \subseteq Live
    /\ \A r \in Roots : roots[r] # 0 => roots[r] \in Live
    /\ \A a \in Live \ gc.gray : \A j \in DOMAIN mem[a].slots :
          mem[a].slots[j] # 0 => mem[a].slots[j] \in Live
    /\ gc.placed = {}

\* What the invariant says while the heap is marked.
LEMMA MarkHas ==
    ASSUME HeapInv, gc.phase = "mark"
    PROVE  TypeInv /\ MarkHeap
<1>1. Walkable  BY DEF Walkable
<1> QED  BY <1>1 DEF HeapInv, WalkInv, CleanInv, MarkInv, MarkHeap

\* And what has to be shown for it.
LEMMA MarkAfter ==
    ASSUME TypeInv', gc'.phase = "mark", MarkHeap'
    PROVE  HeapInv'
<1>1. gc'.phase \notin {"roots", "card", "code", "cheney", "rewrite", "slide"} /\ gc'.phase \notin Returns
  BY DEF Returns
<1>2. ~Scanning' /\ ~Quiet'  BY <1>1 DEF Scanning, Quiet
<1>3. WalkInv' /\ RememberInv' /\ ScanInv'
  BY <1>2 DEF WalkInv, RememberInv, ScanInv, MarkHeap
<1>4. CleanInv'  BY <1>2 DEF CleanInv, MarkHeap
<1>5. MarkInv'  BY DEF MarkInv, MarkHeap
<1>6. PlanInv' /\ RewriteInv' /\ SlideInv'  BY <1>1 DEF PlanInv, RewriteInv, SlideInv
<1> QED  BY <1>3, <1>4, <1>5, <1>6 DEF HeapInv

\* mark_push changes only mark bits.
MarkedAs(m, m2, vs) ==
    /\ DOMAIN m2 = DOMAIN m
    /\ \A b \in DOMAIN m :
          /\ m2[b].size = m[b].size /\ m2[b].fwd = m[b].fwd /\ m2[b].slots = m[b].slots
          /\ m2[b].id = m[b].id /\ m2[b].age = m[b].age
          /\ m2[b].marked = (m[b].marked \/ b \in vs)

\* mark_push keeps a memory of objects one.
LEMMA Pushed ==
    ASSUME NEW m, MemIs(m), NEW vs, NEW m2, m2 = PushAll(m, vs)
    PROVE  MemIs(m2) /\ MarkedAs(m, m2, vs)
<1>1. /\ m \in [DOMAIN m -> Objects] /\ DOMAIN m \subseteq Nat \ {0}
      /\ \A a \in DOMAIN m : Len(m[a].slots) < m[a].size
  BY DEF MemIs
<1>2. m2 = [a \in DOMAIN m |-> IF a \in vs THEN [m[a] EXCEPT !.marked = TRUE] ELSE m[a]]
  BY DEF PushAll
<1>3. ASSUME NEW a \in DOMAIN m
      PROVE  /\ m2[a] \in Objects /\ m2[a].size = m[a].size /\ m2[a].fwd = m[a].fwd
             /\ m2[a].slots = m[a].slots /\ m2[a].marked = (m[a].marked \/ a \in vs)
             /\ m2[a].id = m[a].id /\ m2[a].age = m[a].age
  <2>1. m[a] \in Objects /\ m[a].marked \in BOOLEAN  BY <1>1 DEF Objects
  <2>2. CASE a \in vs
    <3>1. m2[a] = [m[a] EXCEPT !.marked = TRUE]  BY <1>2, <2>2
    <3> QED  BY <2>1, <2>2, <3>1 DEF Objects
  <2>3. CASE a \notin vs
    <3>1. m2[a] = m[a]  BY <1>2, <2>3
    <3> QED  BY <2>1, <2>3, <3>1
  <2> QED  BY <2>2, <2>3
<1>4. DOMAIN m2 = DOMAIN m  BY <1>2
<1>5. m2 \in [DOMAIN m2 -> Objects]  BY <1>2, <1>3, <1>4
<1>6. \A a \in DOMAIN m2 : Len(m2[a].slots) < m2[a].size  BY <1>1, <1>3, <1>4
<1> QED  BY <1>1, <1>3, <1>4, <1>5, <1>6 DEF MemIs, MarkedAs

\* Layout, table and oops do not depend on the marks.
LEMMA MarkedKeeps ==
    ASSUME LayoutInv, TableInv, OopsInv, NEW vs, MarkedAs(mem, mem', vs),
           UNCHANGED <<roots, eden_top, from, to, old_top, offsets>>
    PROVE  LayoutInv' /\ TableInv' /\ OopsInv'
<1>1. DOMAIN mem' = DOMAIN mem /\ \A b \in DOMAIN mem : mem'[b].size = mem[b].size /\ mem'[b].slots = mem[b].slots
  BY DEF MarkedAs
<1>2. LayoutInv' /\ TableInv'
  BY <1>1 DEF LayoutInv, Apart, Housed, Within, AllTiled, Tiled, TableInv
<1>3. OopsInv'  BY <1>1 DEF OopsInv, Valid
<1> QED  BY <1>2, <1>3

\* A full collection: the roots are marked and gray.
LEMMA FullGCStarts ==
    ASSUME HeapInv, Quiet, NEW then \in Returns, StartFullGC(then), SpacesOK',
           UNCHANGED <<roots, eden_top, from, to, old_top, dirty, offsets>>,
           then # "run" => request' \in Requests
    PROVE  HeapInv'
<1>1. TypeInv /\ QuietHeap /\ MemOK  BY QuietHas DEF TypeInv
<1>2. PICK rs : rs = Targets({roots[r] : r \in Roots})  OBVIOUS
<1>3. \A v : v \in rs <=> v # 0 /\ \E r \in Roots : v = roots[r]  BY <1>2 DEF Targets
<1>4. rs \subseteq DOMAIN mem /\ rs \subseteq Nat
  BY <1>1, <1>3 DEF QuietHeap, OopsInv, Valid, TypeInv
<1>5. /\ gc' = [NoGC EXCEPT !.phase = "mark", !.then = then, !.gray = rs]
      /\ mem' = PushAll(mem, rs)
  BY <1>2 DEF StartFullGC
<1>6. gc'.phase = "mark" /\ gc'.then = then /\ gc'.gray = rs /\ gc'.placed = {}
  BY <1>5 DEF NoGC
<1>7. gc' \in Collector
  <2>1. "mark" \in Phases  BY DEF Phases
  <2> QED  BY <1>4, <1>5, <2>1, NoGCIs DEF Collector
<1>8. MemIs(mem') /\ MarkedAs(mem, mem', rs)  BY <1>1, <1>5, Pushed DEF MemOK
<1>9. TypeInv'
  <2>1. gc'.phase \notin Returns  BY <1>6 DEF Returns
  <2> QED  BY <1>1, <1>6, <1>7, <1>8, <2>1 DEF TypeInv, MemOK
<1>10. LayoutInv' /\ TableInv' /\ OopsInv'  BY <1>1, <1>8, MarkedKeeps DEF QuietHeap
<1>11. Live' = rs
  <2>1. \A a \in DOMAIN mem : mem'[a].marked = (a \in rs)  BY <1>1, <1>8 DEF QuietHeap, MarkedAs
  <2>2. DOMAIN mem' = DOMAIN mem  BY <1>8 DEF MarkedAs
  <2> QED  BY <1>4, <2>1, <2>2 DEF Live
<1>12. \A a \in DOMAIN mem' : mem'[a].fwd = 0  BY <1>1, <1>8 DEF QuietHeap, MarkedAs
<1>13. MarkHeap'
  BY <1>1, <1>3, <1>6, <1>10, <1>11, <1>12 DEF MarkHeap, QuietHeap
<1> QED  BY <1>6, <1>9, <1>13, MarkAfter

\* The spaces when a scavenge starts: to-space is empty already.
LEMMA StartSpaces ==
    ASSUME SpacesOK, to.top = to.start, NEW then, StartScavenge(then),
           UNCHANGED <<eden_top, from, old_top>>,
           committed_end' \in Nat, committed_end <= committed_end', committed_end' <= OldEnd
    PROVE  SpacesOK'
<1>1. to' = to  BY DEF StartScavenge, SpacesOK, Spans
<1>2. old_top <= committed_end'  BY Geometry
<1> QED  BY <1>1, <1>2 DEF SpacesOK

\* alloc_words scavenges.
LEMMA AllocateScavengesKeeps ==
    ASSUME HeapInv, NEW r \in Roots, NEW s \in Shapes, AllocateScavenges(r, s)
    PROVE  HeapInv'
<1>1. gc.phase = "run" /\ StartScavenge("retry")  BY DEF AllocateScavenges, Mutator
<1>2. Quiet  BY <1>1 DEF Quiet, Returns
<1>3. TypeInv /\ SpacesOK /\ to.top = to.start  BY <1>2, QuietHas DEF TypeInv, QuietHeap
<1>4. UNCHANGED <<mem, roots, eden_top, from, old_top, committed_end, dirty, offsets>>
  BY DEF AllocateScavenges, tableVars
<1>9. committed_end' \in Nat /\ committed_end <= committed_end' /\ committed_end' <= OldEnd
  BY <1>3, <1>4, Geometry
<1>5. SpacesOK'  BY <1>1, <1>3, <1>4, <1>9, StartSpaces
<1>6. Worst \in Int  BY <1>3, Geometry DEF Worst
<1>7. request' \in Requests  BY <1>6 DEF AllocateScavenges, Requests
<1>8. "retry" \in Returns  BY DEF Returns
<1> QED  BY <1>1, <1>2, <1>4, <1>5, <1>7, <1>8, ScavengeStarts

\* ensure_promotion_guarantee compacts first.
LEMMA AllocateCompactsKeeps ==
    ASSUME HeapInv, NEW r \in Roots, NEW s \in Shapes, AllocateCompacts(r, s)
    PROVE  HeapInv'
<1>1. gc.phase = "run" /\ StartFullGC("guarantee")  BY DEF AllocateCompacts, Mutator
<1>2. Quiet  BY <1>1 DEF Quiet, Returns
<1>3. TypeInv /\ SpacesOK  BY <1>2, QuietHas DEF TypeInv
<1>4. UNCHANGED <<roots, eden_top, from, to, old_top, committed_end, dirty, offsets>>
  BY DEF AllocateCompacts, tableVars, spaceVars
<1>5. SpacesOK'  BY <1>3, <1>4 DEF SpacesOK
<1>6. Worst \in Int  BY <1>3, Geometry DEF Worst
<1>7. request' \in Requests  BY <1>6 DEF AllocateCompacts, Requests
<1>8. "guarantee" \in Returns  BY DEF Returns
<1> QED  BY <1>1, <1>2, <1>4, <1>5, <1>7, <1>8, FullGCStarts

\* And scavenges then.
LEMMA EnsureGuaranteeKeeps ==
    ASSUME HeapInv, EnsureGuarantee
    PROVE  HeapInv'
<1>1. gc.phase = "guarantee" /\ StartScavenge("retry")  BY DEF EnsureGuarantee
<1>2. Quiet  BY <1>1 DEF Quiet, Returns
<1>3. TypeInv /\ SpacesOK /\ to.top = to.start  BY <1>2, QuietHas DEF TypeInv, QuietHeap
<1>4. UNCHANGED <<mem, roots, eden_top, from, old_top, dirty, offsets, request>>
  BY DEF EnsureGuarantee, tableVars
<1>5. committed_end' \in Nat /\ committed_end <= committed_end' /\ committed_end' <= OldEnd
  BY <1>3, GrowUntilIs DEF EnsureGuarantee
<1>6. SpacesOK'  BY <1>1, <1>3, <1>4, <1>5, StartSpaces
<1>7. request' \in Requests  BY <1>1, <1>3, <1>4 DEF TypeInv, Returns
<1>8. "retry" \in Returns  BY DEF Returns
<1> QED  BY <1>1, <1>2, <1>4, <1>6, <1>7, <1>8, ScavengeStarts

\* The last resort.
LEMMA LastResortKeeps ==
    ASSUME HeapInv, LastResort
    PROVE  HeapInv'
<1>1. gc.phase = "retry" /\ StartFullGC("last")  BY DEF LastResort
<1>2. Quiet  BY <1>1 DEF Quiet, Returns
<1>3. TypeInv /\ SpacesOK  BY <1>2, QuietHas DEF TypeInv
<1>4. UNCHANGED <<roots, eden_top, from, to, old_top, dirty, offsets, request>>
  BY DEF LastResort, tableVars
<1>5. committed_end' \in Nat /\ committed_end <= committed_end' /\ committed_end' <= OldEnd
  BY <1>3, GrownIs DEF LastResort, Unsatisfied
<1>6. SpacesOK'
  <2>1. old_top <= committed_end'  BY <1>3, <1>5, Geometry
  <2> QED  BY <1>3, <1>4, <1>5, <2>1 DEF SpacesOK
<1>7. request' \in Requests  BY <1>1, <1>3, <1>4 DEF TypeInv, Returns
<1>8. "last" \in Returns  BY DEF Returns
<1> QED  BY <1>1, <1>2, <1>4, <1>6, <1>7, <1>8, FullGCStarts

\* stall_exit.
LEMMA AllocateStallKeeps ==
    ASSUME HeapInv, AllocateStall
    PROVE  HeapInv'
<1>1. gc.phase = "last" /\ gc' = [NoGC EXCEPT !.phase = "mutator_stall"]  BY DEF AllocateStall
<1>2. TypeInv /\ SpacesOK  BY <1>1, QuietHas DEF TypeInv, Quiet, Returns
<1>3. UNCHANGED <<mem, roots, eden_top, from, to, old_top, dirty, offsets, request>>
  BY DEF AllocateStall, tableVars
<1>4. committed_end' \in Nat /\ committed_end <= committed_end' /\ committed_end' <= OldEnd
  BY <1>2, GrownIs DEF AllocateStall, Unsatisfied
<1>5. SpacesOK'
  <2>1. old_top <= committed_end'  BY <1>2, <1>4, Geometry
  <2> QED  BY <1>2, <1>3, <1>4, <2>1 DEF SpacesOK
<1>6. gc'.phase = "mutator_stall" /\ gc' \in Collector
  BY <1>1, NoGCIs DEF Collector, Phases, NoGC
<1>7. TypeInv'
  <2>1. request \in Requests  BY <1>1, <1>2 DEF TypeInv, Returns
  <2> QED  BY <1>2, <1>3, <1>5, <1>6, <2>1 DEF TypeInv, MemOK
<1> QED  BY <1>6, <1>7, StallAfter

\* Smalltalk gcScavenge.
LEMMA PrimScavengeKeeps ==
    ASSUME HeapInv, PrimScavenge
    PROVE  HeapInv'
<1>1. gc.phase = "run" /\ StartScavenge("run")  BY DEF PrimScavenge, Mutator
<1>2. Quiet  BY <1>1 DEF Quiet, Returns
<1>3. TypeInv /\ SpacesOK /\ to.top = to.start  BY <1>2, QuietHas DEF TypeInv, QuietHeap
<1>4. UNCHANGED <<mem, roots, eden_top, from, old_top, committed_end, dirty, offsets>>
  BY DEF PrimScavenge, tableVars
<1>9. committed_end' \in Nat /\ committed_end <= committed_end' /\ committed_end' <= OldEnd
  BY <1>3, <1>4, Geometry
<1>5. SpacesOK'  BY <1>1, <1>3, <1>4, <1>9, StartSpaces
<1>6. "run" \in Returns  BY DEF Returns
<1> QED  BY <1>1, <1>2, <1>4, <1>5, <1>6, ScavengeStarts

\* Smalltalk gcFull.
LEMMA PrimFullKeeps ==
    ASSUME HeapInv, PrimFull
    PROVE  HeapInv'
<1>1. gc.phase = "run" /\ StartFullGC("run")  BY DEF PrimFull, Mutator
<1>2. Quiet  BY <1>1 DEF Quiet, Returns
<1>3. TypeInv /\ SpacesOK  BY <1>2, QuietHas DEF TypeInv
<1>4. UNCHANGED <<roots, eden_top, from, to, old_top, committed_end, dirty, offsets>>
  BY DEF PrimFull, tableVars, spaceVars
<1>5. SpacesOK'  BY <1>3, <1>4 DEF SpacesOK
<1>6. "run" \in Returns  BY DEF Returns
<1> QED  BY <1>1, <1>2, <1>4, <1>5, <1>6, FullGCStarts

-----------------------------------------------------------------------------
(* One slot scavenged. *)

\* Copying an object to p and leaving a forwarding word behind.
CopyTo(m, p, o, v) == [Put(m, p, o) EXCEPT ![v].fwd = p]
CopiedAs(m, m1, p, o, v) ==
    /\ DOMAIN m1 = DOMAIN m \cup {p} /\ m1[p] = o
    /\ \A b \in DOMAIN m :
          /\ m1[b].size = m[b].size /\ m1[b].slots = m[b].slots /\ m1[b].marked = m[b].marked
          /\ m1[b].fwd = IF b = v THEN p ELSE m[b].fwd
          /\ m1[b].id = m[b].id /\ m1[b].age = m[b].age

\* The copy keeps a memory of objects one.
LEMMA CopyMade ==
    ASSUME NEW m, MemIs(m), NEW v \in DOMAIN m, NEW p \in Nat \ {0}, p \notin DOMAIN m,
           NEW o \in Objects, o.size = m[v].size, o.slots = m[v].slots,
           NEW m1, m1 = CopyTo(m, p, o, v)
    PROVE  MemIs(m1) /\ CopiedAs(m, m1, p, o, v)
<1>1. /\ m \in [DOMAIN m -> Objects] /\ DOMAIN m \subseteq Nat \ {0}
      /\ \A a \in DOMAIN m : Len(m[a].slots) < m[a].size
  BY DEF MemIs
<1>2. PICK g : g = Put(m, p, o)  OBVIOUS
<1>3. Len(o.slots) < o.size  BY <1>1
<1>4. MemIs(g)  BY <1>2, <1>3, PutMem
<1>5. DOMAIN g = DOMAIN m \cup {p} /\ g[p] = o /\ \A x \in DOMAIN m : g[x] = m[x]
  BY <1>2 DEF Put
<1>6. PICK u : u = [m[v] EXCEPT !.fwd = p]  OBVIOUS
<1>7. /\ u \in Objects /\ u.size = m[v].size /\ u.slots = m[v].slots /\ u.marked = m[v].marked
      /\ u.fwd = p /\ u.id = m[v].id /\ u.age = m[v].age
  BY <1>1, <1>6 DEF Objects
<1>8. m1 = [g EXCEPT ![v] = u]  BY <1>2, <1>5, <1>6 DEF CopyTo
<1>9. DOMAIN m1 = DOMAIN g /\ m1[v] = u /\ \A b \in DOMAIN g : b # v => m1[b] = g[b]
  BY <1>4, <1>5, <1>8 DEF MemIs
<1>10. MemIs(m1)
  <2>1. g \in [DOMAIN g -> Objects]  BY <1>4 DEF MemIs
  <2>2. m1 \in [DOMAIN m1 -> Objects]  BY <1>7, <1>8, <2>1
  <2>3. ASSUME NEW b \in DOMAIN m1 PROVE Len(m1[b].slots) < m1[b].size
    <3>1. CASE b = v
      <4>1. m1[b] = u /\ Len(m[v].slots) < m[v].size  BY <1>1, <1>9, <3>1
      <4> QED  BY <1>7, <4>1
    <3>2. CASE b # v
      <4>1. m1[b] = g[b] /\ b \in DOMAIN g  BY <1>9, <3>2
      <4> QED  BY <1>4, <4>1 DEF MemIs
    <3> QED  BY <3>1, <3>2
  <2> QED  BY <1>4, <1>9, <2>2, <2>3 DEF MemIs
<1>11. m1[p] = o  BY <1>5, <1>9
<1>12. ASSUME NEW b \in DOMAIN m
       PROVE  /\ m1[b].size = m[b].size /\ m1[b].slots = m[b].slots /\ m1[b].marked = m[b].marked
              /\ m1[b].fwd = IF b = v THEN p ELSE m[b].fwd
              /\ m1[b].id = m[b].id /\ m1[b].age = m[b].age
  <2>1. CASE b = v
    <3>1. m1[b] = u  BY <1>9, <2>1
    <3>2. /\ m1[b].size = m[v].size /\ m1[b].slots = m[v].slots /\ m1[b].marked = m[v].marked
          /\ m1[b].id = m[v].id /\ m1[b].age = m[v].age
      BY <1>7, <3>1
    <3>3. m1[b].fwd = p  BY <1>7, <3>1
    <3> QED  BY <2>1, <3>2, <3>3
  <2>2. CASE b # v
    <3>1. m1[b] = m[b]  BY <1>5, <1>9, <2>2
    <3> QED  BY <2>2, <3>1
  <2> QED  BY <2>1, <2>2
<1> QED  BY <1>5, <1>9, <1>10, <1>11, <1>12 DEF CopiedAs

\* No object lies at a top that has room above it.
LEMMA TopIsFree ==
    ASSUME MemOK, SpacesOK, Housed
    PROVE  /\ old_top \notin DOMAIN mem
           /\ to.top < to.start + SurvivorWords => to.top \notin DOMAIN mem
<1>1. ASSUME NEW a \in DOMAIN mem, a = old_top PROVE FALSE
  <2>1. a \in Nat /\ mem[a].size \in Nat /\ mem[a].size > 0  BY <1>1, ObjectIs
  <2>2. \/ Within(a, EdenStart, eden_top) \/ Within(a, from.start, from.top)
        \/ Within(a, to.start, to.top) \/ Within(a, OldStart, old_top)
    BY DEF Housed
  <2> QED  BY <1>1, <2>1, <2>2, Geometry DEF Within
<1>2. ASSUME NEW a \in DOMAIN mem, a = to.top, to.top < to.start + SurvivorWords PROVE FALSE
  <2>1. a \in Nat /\ mem[a].size \in Nat /\ mem[a].size > 0  BY <1>2, ObjectIs
  <2>2. \/ Within(a, EdenStart, eden_top) \/ Within(a, from.start, from.top)
        \/ Within(a, to.start, to.top) \/ Within(a, OldStart, old_top)
    BY DEF Housed
  <2> QED  BY <1>2, <2>1, <2>2, Geometry DEF Within
<1> QED  BY <1>1, <1>2

\* Where the object that the slot named lies now: it had been copied, or it survives, or
\* it is promoted.
Lands(v, nv) ==
    \/ nv \in DOMAIN mem /\ ~InFrom(nv) /\ UNCHANGED <<to, old_top, dirty, offsets>>
    \/ /\ nv \notin DOMAIN mem /\ nv = to.top /\ to' = [to EXCEPT !.top = nv + mem[v].size]
       /\ nv + mem[v].size <= to.start + SurvivorWords
       /\ UNCHANGED <<old_top, dirty, offsets>>
    \/ /\ nv \notin DOMAIN mem /\ nv = old_top /\ old_top' = nv + mem[v].size /\ nv + mem[v].size <= committed_end
       /\ offsets' = RecordObject(offsets, nv, mem[v].size)
       /\ dirty' = dirty \cup CardsOf(nv, nv + mem[v].size)
       /\ UNCHANGED to

\* What scavenging slot s with value v does.
Scavenged(s, v, nv) ==
    /\ s \in gc.work /\ v = ValueOf(s) /\ v \in DOMAIN mem /\ InFrom(v) /\ nv \in Nat \ {0}
    /\ MemIs(mem') /\ DOMAIN mem' = DOMAIN mem \cup {nv}
    /\ \A b \in DOMAIN mem :
          /\ mem'[b].size = mem[b].size /\ mem'[b].marked = mem[b].marked
          /\ mem'[b].fwd = IF b = v THEN nv ELSE mem[b].fwd
          /\ DOMAIN mem'[b].slots = DOMAIN mem[b].slots /\ Len(mem'[b].slots) = Len(mem[b].slots)
          /\ \A k \in DOMAIN mem[b].slots :
                mem'[b].slots[k] = IF b = s[1] /\ k = s[2] THEN nv ELSE mem[b].slots[k]
          /\ mem'[b].id = mem[b].id /\ mem'[b].age = mem[b].age
    /\ \A r \in Roots : roots'[r] = IF s[1] = 0 /\ s[2] = r THEN nv ELSE roots[r]
    /\ roots' \in [Roots -> Nat]
    /\ nv \notin DOMAIN mem =>
          /\ mem'[nv].size = mem[v].size /\ mem'[nv].slots = mem[v].slots
          /\ mem'[nv].fwd = 0 /\ ~mem'[nv].marked /\ mem[v].fwd = 0
          /\ mem'[nv].id = mem[v].id
          /\ mem'[nv].age = mem[v].age \/ mem'[nv].age = LesserOf(mem[v].age + 1, MaxAge)
    /\ nv \in DOMAIN mem => mem[v].fwd = nv
    /\ UNCHANGED <<eden_top, from, committed_end, request>>
    /\ Lands(v, nv)
    /\ gc'.phase = gc.phase /\ gc'.then = gc.then /\ gc'.work = gc.work \ {s}
    /\ gc'.card = gc.card /\ gc'.old_top_before = gc.old_top_before
    /\ gc'.to_scan = gc.to_scan /\ gc'.old_scan = gc.old_scan
    /\ gc'.still_new = (gc.phase = "card" /\ (gc.still_new \/ IsNew(nv)))
    /\ gc' \in Collector

\* Slots of the batch are roots, or slots of objects that were not left behind.
LEMMA BatchSlot ==
    ASSUME TypeInv, ScanHeap, Scanning, NEW s \in gc.work
    PROVE  /\ s \in Nat \X Nat /\ s = <<s[1], s[2]>> /\ ValueOf(s) \in DOMAIN mem /\ InFrom(ValueOf(s))
           /\ \/ s[1] = 0 /\ s[2] \in Roots /\ ValueOf(s) = roots[s[2]]
              \/ /\ s[1] # 0 /\ HeapSlot(s) /\ ~InFrom(s[1])
                 /\ ValueOf(s) = mem[s[1]].slots[s[2]]
<1>1. s \in Nat \X Nat  BY DEF TypeInv, Collector
<1>2. /\ InFrom(ValueOf(s))
      /\ gc.phase = "roots" => s[1] = 0 /\ s[2] \in VmRoots
      /\ gc.phase = "code" => s[1] = 0 /\ s[2] \in CodeRoots
      /\ gc.phase = "card" => HeapSlot(s) /\ IsOld(s[1])
      /\ gc.phase = "cheney" => HeapSlot(s) /\ (InTo(s[1]) \/ gc.old_top_before <= s[1])
  BY DEF ScanHeap, WorkInv
<1>3. gc.phase \in {"roots", "code", "card", "cheney"}  BY DEF Scanning
<1>4. MemOK /\ SpacesOK /\ Housed /\ OopsInv /\ roots \in [Roots -> Nat]
  BY DEF TypeInv, ScanHeap, LayoutInv
<1>5. CASE s[1] = 0 /\ s[2] \in Roots
  <2>1. ValueOf(s) = roots[s[2]] /\ ValueOf(s) \in Nat  BY <1>4, <1>5 DEF ValueOf
  <2>2. ValueOf(s) # 0  BY <1>2, <1>4, <2>1, Geometry DEF InFrom
  <2>3. ValueOf(s) \in DOMAIN mem  BY <1>4, <1>5, <2>1, <2>2 DEF OopsInv, Valid
  <2> QED  BY <1>1, <1>2, <1>5, <2>1, <2>3
<1>6. CASE gc.phase \in {"card", "cheney"}
  <2>1. HeapSlot(s) /\ (IsOld(s[1]) \/ InTo(s[1]) \/ gc.old_top_before <= s[1])  BY <1>2, <1>6
  <2>2. s[1] \in DOMAIN mem /\ s[2] \in DOMAIN mem[s[1]].slots  BY <2>1 DEF HeapSlot
  <2>3. s[1] \in Nat /\ s[1] # 0 /\ mem[s[1]].slots[s[2]] \in Nat  BY <1>4, <2>2, ObjectIs
  <2>4. OldStart <= gc.old_top_before /\ gc.old_top_before \in Nat  BY DEF ScanHeap, ScanBounds, TypeInv, Collector
  <2>5. IsOld(s[1]) \/ InTo(s[1])  BY <1>4, <2>1, <2>3, <2>4, Geometry DEF IsOld
  <2>6. ~InFrom(s[1])  BY <1>4, <2>2, <2>5, Kinds
  <2>7. ValueOf(s) = mem[s[1]].slots[s[2]]  BY <2>3 DEF ValueOf
  <2>8. ValueOf(s) # 0  BY <1>2, <1>4, <2>3, <2>7, Geometry DEF InFrom
  <2>9. ValueOf(s) \in DOMAIN mem  BY <1>4, <2>2, <2>7, <2>8 DEF OopsInv, Valid
  <2> QED  BY <1>1, <1>2, <2>1, <2>3, <2>6, <2>7, <2>9
<1>7. VmRoots \subseteq Roots /\ CodeRoots \subseteq Roots  BY DEF Roots
<1> QED  BY <1>2, <1>3, <1>5, <1>6, <1>7

\* The copy differs from the object in its age only.
LEMMA CopyIs ==
    ASSUME MemOK, NEW v \in DOMAIN mem
    PROVE  /\ Copy(v) \in Objects /\ Copy(v).size = mem[v].size /\ Copy(v).slots = mem[v].slots
           /\ Copy(v).fwd = mem[v].fwd /\ Copy(v).marked = mem[v].marked
           /\ ~Promotes(v) => Copy(v).age \in 0 .. MaxAge
           /\ Copy(v).id = mem[v].id
           /\ Copy(v).age = mem[v].age \/ Copy(v).age = LesserOf(mem[v].age + 1, MaxAge)
<1>1. mem[v] \in Objects /\ mem[v].age \in Nat  BY ObjectIs
<1>2. CASE Promotes(v)  BY <1>1, <1>2 DEF Copy
<1>3. CASE ~Promotes(v)
  <2>1. PICK g : g = LesserOf(mem[v].age + 1, MaxAge)  OBVIOUS
  <2>2. g \in 0 .. MaxAge /\ g \in Nat  BY <1>1, <2>1, AgeAssumption DEF LesserOf
  <2>3. Copy(v) = [mem[v] EXCEPT !.age = g]  BY <1>3, <2>1 DEF Copy
  <2>4. Copy(v).age = g /\ Copy(v).id = mem[v].id  BY <1>1, <2>3 DEF Objects
  <2> QED  BY <1>1, <2>1, <2>2, <2>3, <2>4 DEF Objects
<1> QED  BY <1>2, <1>3

\* One slot of the batch is scavenged.
LEMMA ScavengeSlotDoes ==
    ASSUME TypeInv, ScanHeap, ScavengeSlot
    PROVE  \E s, v, nv : Scavenged(s, v, nv)
<1>1. Scanning  BY DEF ScavengeSlot
<1>2. PICK s \in gc.work :
         LET v == ValueOf(s)
             nv == NewValue(v)
         IN  /\ ~(ToCopy(v) /\ Promotes(v) /\ NoRoom(v))
             /\ IF ToCopy(v)
                THEN /\ IF Promotes(v) THEN Promote(v) ELSE Survive(v)
                     /\ WriteSlot([Put(mem, nv, Copy(v)) EXCEPT ![v].fwd = nv], s, nv)
                ELSE /\ WriteSlot(mem, s, nv)
                     /\ UNCHANGED <<to, old_top, tableVars>>
             /\ gc' = [gc EXCEPT !.work = @ \ {s},
                                 !.still_new = gc.phase = "card" /\ (@ \/ IsNew(nv)),
                                 !.age_table = Recorded(v)]
  BY DEF ScavengeSlot
<1>3. PICK v, nv : v = ValueOf(s) /\ nv = NewValue(v)  OBVIOUS
<1>4. /\ ~(ToCopy(v) /\ Promotes(v) /\ NoRoom(v))
      /\ ToCopy(v) => /\ IF Promotes(v) THEN Promote(v) ELSE Survive(v)
                      /\ WriteSlot([Put(mem, nv, Copy(v)) EXCEPT ![v].fwd = nv], s, nv)
      /\ ~ToCopy(v) => /\ WriteSlot(mem, s, nv)
                       /\ UNCHANGED <<to, old_top, tableVars>>
      /\ gc' = [gc EXCEPT !.work = @ \ {s},
                          !.still_new = gc.phase = "card" /\ (@ \/ IsNew(nv)),
                          !.age_table = Recorded(v)]
  BY <1>2, <1>3
<1>5. UNCHANGED <<eden_top, from, committed_end, request>>  BY DEF ScavengeSlot
<1>6. MemOK /\ MemIs(mem) /\ SpacesOK /\ Housed /\ roots \in [Roots -> Nat] /\ gc \in Collector
  BY DEF TypeInv, ScanHeap, LayoutInv, MemOK
<1>7. /\ s \in Nat \X Nat /\ v \in DOMAIN mem /\ InFrom(v)
      /\ \/ s[1] = 0 /\ s[2] \in Roots
         \/ s[1] # 0 /\ s[1] \in DOMAIN mem /\ s[2] \in DOMAIN mem[s[1]].slots
  BY <1>1, <1>3, BatchSlot DEF HeapSlot
<1>8. mem[v].size \in Nat /\ mem[v].size > 0 /\ mem[v].fwd \in Nat  BY <1>6, <1>7, ObjectIs
<1>9. PICK sn : sn = (gc.phase = "card" /\ (gc.still_new \/ IsNew(nv)))  OBVIOUS
<1>10. /\ gc'.phase = gc.phase /\ gc'.then = gc.then /\ gc'.work = gc.work \ {s}
       /\ gc'.card = gc.card /\ gc'.old_top_before = gc.old_top_before
       /\ gc'.to_scan = gc.to_scan /\ gc'.old_scan = gc.old_scan
       /\ gc'.still_new = (gc.phase = "card" /\ (gc.still_new \/ IsNew(nv)))
  BY <1>4, <1>6 DEF Collector
<1>11. gc' \in Collector
  <2>1. Recorded(v) \in [0 .. MaxAge -> Nat]
    <3>1. gc.age_table \in [0 .. MaxAge -> Nat]  BY <1>6 DEF Collector
    <3>2. CASE ToCopy(v) /\ ~Promotes(v)
      <4>1. PICK g : g = Copy(v).age  OBVIOUS
      <4>2. g \in 0 .. MaxAge  BY <1>6, <1>7, <3>2, <4>1, CopyIs
      <4>3. Recorded(v) = [gc.age_table EXCEPT ![g] = @ + mem[v].size]
        BY <3>2, <4>1 DEF Recorded
      <4>4. PICK t, n : t = gc.age_table /\ n = mem[v].size  OBVIOUS
      <4>5. t \in [0 .. MaxAge -> Nat] /\ n \in Nat /\ t[g] \in Nat  BY <1>8, <3>1, <4>2, <4>4
      <4>6. Recorded(v) = [t EXCEPT ![g] = t[g] + n]  BY <4>3, <4>4
      <4> QED  BY <4>2, <4>5, <4>6
    <3>3. CASE ~(ToCopy(v) /\ ~Promotes(v))
      BY <3>1, <3>3 DEF Recorded
    <3> QED  BY <3>2, <3>3
  <2>2. PICK t : t = Recorded(v)  OBVIOUS
  <2>3. gc' = [gc EXCEPT !.work = gc.work \ {s}, !.still_new = sn, !.age_table = t]
    BY <1>4, <1>6, <1>9, <2>2 DEF Collector
  <2>4. sn \in BOOLEAN  BY <1>9
  <2> QED  BY <1>6, <2>1, <2>2, <2>3, <2>4 DEF Collector
\* What WriteSlot does to a memory of objects.
<1>12. ASSUME NEW m, MemIs(m), DOMAIN mem \subseteq DOMAIN m, nv \in Nat, WriteSlot(m, s, nv),
              \A b \in DOMAIN mem : m[b].slots = mem[b].slots
       PROVE  /\ MemIs(mem') /\ roots' \in [Roots -> Nat] /\ SlotsAs(m, mem', s[1], s[2], nv)
              /\ \A r \in Roots : roots'[r] = IF s[1] = 0 /\ s[2] = r THEN nv ELSE roots[r]
  <2>1. CASE s[1] = 0
    <3>1. mem' = m /\ roots' = [roots EXCEPT ![s[2]] = nv]  BY <1>12, <2>1 DEF WriteSlot
    <3>2. \A b \in DOMAIN m : b # 0  BY <1>12 DEF MemIs
    <3>3. SlotsAs(m, mem', s[1], s[2], nv)  BY <2>1, <3>1, <3>2 DEF SlotsAs
    <3> QED  BY <1>6, <1>7, <1>12, <2>1, <3>1, <3>3
  <2>2. CASE s[1] # 0
    <3>1. mem' = [m EXCEPT ![s[1]].slots[s[2]] = nv] /\ roots' = roots
      BY <1>12, <2>2 DEF WriteSlot
    <3>2. s[1] \in DOMAIN m /\ s[2] \in DOMAIN m[s[1]].slots  BY <1>7, <1>12, <2>2
    <3>3. PICK a, j : a = s[1] /\ j = s[2]  OBVIOUS
    <3>4. mem' = [m EXCEPT ![a].slots[j] = nv] /\ a \in DOMAIN m /\ j \in DOMAIN m[a].slots
      BY <3>1, <3>2, <3>3
    <3>5. MemIs(mem') /\ SlotsAs(m, mem', a, j, nv)  BY <1>12, <3>4, SlotWritten
    <3> QED  BY <1>6, <2>2, <3>1, <3>3, <3>5
  <2> QED  BY <2>1, <2>2
<1>13. CASE ~ToCopy(v)
  <2>1. mem[v].fwd # 0 /\ nv = mem[v].fwd  BY <1>3, <1>13 DEF ToCopy, Forwarded, NewValue
  <2>2. nv \in DOMAIN mem /\ ~InFrom(nv)  BY <1>7, <2>1 DEF ScanHeap, ForwardInv
  <2>3. nv \in Nat \ {0}  BY <1>8, <2>1
  <2>4. WriteSlot(mem, s, nv) /\ UNCHANGED <<to, old_top, dirty, offsets>>  BY <1>4, <1>13 DEF tableVars
  <2>5. /\ MemIs(mem') /\ roots' \in [Roots -> Nat] /\ SlotsAs(mem, mem', s[1], s[2], nv)
        /\ \A r \in Roots : roots'[r] = IF s[1] = 0 /\ s[2] = r THEN nv ELSE roots[r]
    BY <1>6, <1>12, <2>3, <2>4
  <2>6. Lands(v, nv)  BY <2>2, <2>4 DEF Lands
  <2>7. DOMAIN mem' = DOMAIN mem \cup {nv}  BY <2>2, <2>5 DEF SlotsAs
  <2>8. \A b \in DOMAIN mem :
          /\ mem'[b].size = mem[b].size /\ mem'[b].marked = mem[b].marked
          /\ mem'[b].fwd = IF b = v THEN nv ELSE mem[b].fwd
          /\ DOMAIN mem'[b].slots = DOMAIN mem[b].slots /\ Len(mem'[b].slots) = Len(mem[b].slots)
          /\ \A k \in DOMAIN mem[b].slots :
                mem'[b].slots[k] = IF b = s[1] /\ k = s[2] THEN nv ELSE mem[b].slots[k]
          /\ mem'[b].id = mem[b].id /\ mem'[b].age = mem[b].age
    BY <2>1, <2>5 DEF SlotsAs
  <2>9. Scavenged(s, v, nv)
    BY <1>3, <1>5, <1>7, <1>10, <1>11, <2>1, <2>2, <2>3, <2>5, <2>6, <2>7, <2>8 DEF Scavenged
  <2> QED  BY <2>9
<1>14. CASE ToCopy(v)
  <2>1. mem[v].fwd = 0 /\ nv = IF Promotes(v) THEN old_top ELSE to.top
    BY <1>3, <1>14 DEF ToCopy, Forwarded, NewValue
  <2>2. PICK o : o = Copy(v)  OBVIOUS
  <2>3. /\ o \in Objects /\ o.size = mem[v].size /\ o.slots = mem[v].slots /\ o.fwd = 0
        /\ o.marked = mem[v].marked /\ o.id = mem[v].id
        /\ o.age = mem[v].age \/ o.age = LesserOf(mem[v].age + 1, MaxAge)
    BY <1>6, <1>7, <2>1, <2>2, CopyIs
  <2>4. ~mem[v].marked  BY <1>7 DEF ScanHeap
  <2>5. Lands(v, nv) /\ nv \notin DOMAIN mem /\ nv \in Nat \ {0}
    <3>1. CASE Promotes(v)
      <4>1. nv = old_top /\ Promote(v)  BY <1>4, <1>14, <2>1, <3>1
      <4>2. old_top + mem[v].size <= committed_end
        BY <1>4, <1>6, <1>8, <1>14, <3>1, Geometry DEF NoRoom
      <4>3. nv \notin DOMAIN mem /\ nv \in Nat \ {0}  BY <1>6, <4>1, TopIsFree, Geometry
      <4>4. Lands(v, nv)  BY <4>1, <4>2, <4>3 DEF Lands, Promote
      <4> QED  BY <4>3, <4>4
    <3>2. CASE ~Promotes(v)
      <4>1. nv = to.top /\ Survive(v)  BY <1>4, <1>14, <2>1, <3>2
      <4>2. to.top + mem[v].size <= to.start + SurvivorWords
        BY <1>6, <1>8, <3>2, Geometry DEF Promotes
      <4>3. to.top < to.start + SurvivorWords  BY <1>6, <1>8, <4>2, Geometry
      <4>4. nv \notin DOMAIN mem /\ nv \in Nat \ {0}  BY <1>6, <4>1, <4>3, TopIsFree, Geometry
      <4>5. to' = [to EXCEPT !.top = nv + mem[v].size] /\ UNCHANGED <<old_top, dirty, offsets>>
        BY <1>6, <4>1 DEF Survive, tableVars, SpacesOK, Spans
      <4>6. Lands(v, nv)  BY <4>1, <4>2, <4>4, <4>5 DEF Lands
      <4> QED  BY <4>4, <4>6
    <3> QED  BY <3>1, <3>2
  <2>6. PICK m1 : m1 = CopyTo(mem, nv, o, v)  OBVIOUS
  <2>7. WriteSlot(m1, s, nv)  BY <1>4, <1>14, <2>2, <2>6 DEF CopyTo
  <2>8. /\ MemIs(m1) /\ DOMAIN m1 = DOMAIN mem \cup {nv} /\ m1[nv] = o
        /\ \A b \in DOMAIN mem :
              /\ m1[b].size = mem[b].size /\ m1[b].slots = mem[b].slots /\ m1[b].marked = mem[b].marked
              /\ m1[b].fwd = IF b = v THEN nv ELSE mem[b].fwd
              /\ m1[b].id = mem[b].id /\ m1[b].age = mem[b].age
    <3>1. /\ MemIs(mem) /\ v \in DOMAIN mem /\ nv \in Nat \ {0} /\ nv \notin DOMAIN mem
          /\ o \in Objects /\ o.size = mem[v].size /\ o.slots = mem[v].slots
      BY <1>6, <1>7, <2>3, <2>5
    <3>2. MemIs(m1) /\ CopiedAs(mem, m1, nv, o, v)  BY ONLY <2>6, <3>1, CopyMade
    <3> QED  BY ONLY <3>2 DEF CopiedAs
  <2>9. /\ MemIs(mem') /\ roots' \in [Roots -> Nat] /\ SlotsAs(m1, mem', s[1], s[2], nv)
        /\ \A r \in Roots : roots'[r] = IF s[1] = 0 /\ s[2] = r THEN nv ELSE roots[r]
    BY <1>12, <2>5, <2>7, <2>8
  <2>10. DOMAIN mem' = DOMAIN mem \cup {nv}  BY <2>8, <2>9 DEF SlotsAs
  <2>11. ASSUME NEW b \in DOMAIN mem
         PROVE  /\ mem'[b].size = mem[b].size /\ mem'[b].marked = mem[b].marked
                /\ mem'[b].fwd = IF b = v THEN nv ELSE mem[b].fwd
                /\ DOMAIN mem'[b].slots = DOMAIN mem[b].slots /\ Len(mem'[b].slots) = Len(mem[b].slots)
                /\ \A k \in DOMAIN mem[b].slots :
                      mem'[b].slots[k] = IF b = s[1] /\ k = s[2] THEN nv ELSE mem[b].slots[k]
                /\ mem'[b].id = mem[b].id /\ mem'[b].age = mem[b].age
    <3>1. /\ m1[b].size = mem[b].size /\ m1[b].slots = mem[b].slots /\ m1[b].marked = mem[b].marked
          /\ b \in DOMAIN m1 /\ m1[b].id = mem[b].id /\ m1[b].age = mem[b].age
          /\ m1[b].fwd = IF b = v THEN nv ELSE mem[b].fwd
      BY <2>8
    <3> QED  BY <2>9, <3>1 DEF SlotsAs
  <2>12. /\ mem'[nv].size = mem[v].size /\ mem'[nv].slots = mem[v].slots
         /\ mem'[nv].fwd = 0 /\ ~mem'[nv].marked /\ mem'[nv].id = mem[v].id
         /\ mem'[nv].age = mem[v].age \/ mem'[nv].age = LesserOf(mem[v].age + 1, MaxAge)
    <3>1. nv \in DOMAIN m1 /\ nv # s[1]  BY <1>7, <2>5, <2>8
    <3>2. /\ mem'[nv].size = o.size /\ mem'[nv].fwd = o.fwd /\ mem'[nv].marked = o.marked
          /\ mem'[nv].id = o.id /\ mem'[nv].age = o.age
          /\ DOMAIN mem'[nv].slots = DOMAIN o.slots /\ Len(mem'[nv].slots) = Len(o.slots)
          /\ \A k \in DOMAIN o.slots : mem'[nv].slots[k] = o.slots[k]
      BY <2>8, <2>9, <3>1 DEF SlotsAs
    <3>3. mem'[nv].slots \in Seq(Nat) /\ o.slots \in Seq(Nat)
      BY <2>3, <2>9, <2>10 DEF MemIs, Objects
    <3>4. mem'[nv].slots = o.slots  BY <3>2, <3>3
    <3> QED  BY <2>3, <2>4, <3>2, <3>4
  <2>13. Scavenged(s, v, nv)
    BY <1>3, <1>5, <1>7, <1>10, <1>11, <2>1, <2>5, <2>9, <2>10, <2>11, <2>12 DEF Scavenged
  <2> QED  BY <2>13
<1> QED  BY <1>13, <1>14

\* A word of an old object lies on one of its cards.
LEMMA CardOfWord ==
    ASSUME NEW a \in Nat, NEW n \in Nat, NEW w \in Nat, OldStart <= a, a <= w, w < a + n,
           a + n <= OldEnd
    PROVE  CardIndex(w) \in CardsOf(a, a + n) /\ CardIndex(w) \in Cards
<1>1. PICK e : e = a + n  OBVIOUS
<1>2. e \in Nat /\ a < e /\ w <= e - 1 /\ e - 1 >= OldStart /\ w <= OldEnd - 1 /\ w >= OldStart
  BY <1>1
<1>4. /\ CardIndex(w) \in Nat /\ CardIndex(a) \in Nat /\ CardIndex(e - 1) \in Nat
      /\ CardIndex(OldEnd - 1) \in Nat
      /\ CardBase(CardIndex(w)) <= w /\ CardBase(CardIndex(a)) <= a
      /\ CardBase(CardIndex(w)) \in Int /\ CardBase(CardIndex(a)) \in Int
  BY <1>2, CardHolds
<1>5. CardIndex(a) <= CardIndex(w)  BY <1>2, <1>4, CardBelow
<1>6. CardIndex(w) <= CardIndex(e - 1)  BY <1>2, <1>4, CardBelow
<1>7. CardIndex(w) <= CardIndex(OldEnd - 1)  BY <1>2, <1>4, CardBelow
<1> QED  BY <1>1, <1>2, <1>4, <1>5, <1>6, <1>7 DEF CardsOf, Cards

\* Types and layout after a slot is scavenged.
LEMMA ScavengedLayout ==
    ASSUME TypeInv, ScanHeap, Scanning, NEW s, NEW v, NEW nv, Scavenged(s, v, nv)
    PROVE  TypeInv' /\ LayoutInv' /\ TableInv' /\ dirty \subseteq dirty'
<1>1. MemOK /\ SpacesOK /\ LayoutInv /\ TableInv  BY DEF TypeInv, ScanHeap
<1>2. MemOK' /\ v \in DOMAIN mem /\ nv \in Nat \ {0}  BY DEF Scavenged, MemOK
<1>3. mem[v].size \in Nat /\ mem[v].size > 0  BY <1>1, <1>2, ObjectIs
<1>4. PICK n : n = mem[v].size  OBVIOUS
<1>5. UNCHANGED <<eden_top, from, committed_end, request>>  BY DEF Scavenged
<1>6. SpacesOK' /\ dirty \subseteq dirty' /\ dirty' \subseteq Cards
  <2>1. CASE nv \in DOMAIN mem /\ UNCHANGED <<to, old_top, dirty, offsets>>
    BY <1>1, <1>5, <2>1 DEF SpacesOK, TypeInv
  <2>2. CASE /\ nv = to.top /\ to' = [to EXCEPT !.top = nv + mem[v].size]
             /\ nv + mem[v].size <= to.start + SurvivorWords
             /\ UNCHANGED <<old_top, dirty, offsets>>
    <3>1. to \in Spans  BY <1>1 DEF SpacesOK
    <3>2. nv + n \in Nat /\ to.start <= nv + n  BY <1>1, <1>3, <1>4, <2>2, Geometry
    <3>3. to' \in Spans /\ to'.start = to.start /\ to'.top = nv + n
      BY <1>4, <2>2, <3>1, <3>2 DEF Spans
    <3> QED  BY <1>1, <1>4, <1>5, <2>2, <3>2, <3>3 DEF SpacesOK, TypeInv
  <2>3. CASE /\ nv = old_top /\ old_top' = nv + mem[v].size /\ nv + mem[v].size <= committed_end
             /\ offsets' = RecordObject(offsets, nv, mem[v].size)
             /\ dirty' = dirty \cup CardsOf(nv, nv + mem[v].size)
             /\ UNCHANGED to
    <3>1. nv + n \in Nat /\ OldStart <= nv + n  BY <1>1, <1>3, <1>4, <2>3, Geometry
    <3>2. dirty \subseteq Cards  BY DEF TypeInv
    <3> QED  BY <1>1, <1>4, <1>5, <2>3, <3>1, <3>2 DEF SpacesOK, CardsOf
  <2> QED  BY <2>1, <2>2, <2>3 DEF Scavenged, Lands
<1>7. TypeInv'
  <2>1. gc' \in Collector /\ gc'.then = gc.then /\ gc'.phase = gc.phase /\ roots' \in [Roots -> Nat]
    BY DEF Scavenged
  <2> QED  BY <1>2, <1>5, <1>6, <2>1 DEF TypeInv
<1>8. /\ DOMAIN mem' = DOMAIN mem \cup {nv}
      /\ \A b \in DOMAIN mem : mem'[b].size = mem[b].size
      /\ nv \notin DOMAIN mem => mem'[nv].size = n
  BY <1>4 DEF Scavenged
<1>9. CASE nv \in DOMAIN mem /\ UNCHANGED <<to, old_top, dirty, offsets>>
  <2>1. DOMAIN mem' = DOMAIN mem  BY <1>8, <1>9
  <2> QED
    BY <1>1, <1>5, <1>6, <1>7, <1>8, <1>9, <2>1 DEF LayoutInv, Apart, Housed, Within, AllTiled, Tiled, TableInv
<1>10. CASE nv \notin DOMAIN mem
  <2>1. Extends(nv, n)
    <3>1. CASE nv = to.top /\ to' = [to EXCEPT !.top = nv + mem[v].size] /\ UNCHANGED <<old_top, dirty, offsets>>
      <4>1. to'.start = to.start /\ to'.top = nv + n  BY <1>1, <1>4, <3>1 DEF SpacesOK, Spans
      <4> QED  BY <1>5, <1>8, <1>10, <3>1, <4>1 DEF Extends
    <3>2. CASE nv = old_top /\ old_top' = nv + mem[v].size /\ UNCHANGED to
      BY <1>4, <1>5, <1>8, <1>10, <3>2 DEF Extends
    <3> QED  BY <1>10, <3>1, <3>2 DEF Scavenged, Lands
  <2>2. n \in Nat \ {0}  BY <1>3, <1>4
  <2>3. LayoutInv'  BY <1>1, <1>6, <2>1, <2>2, ExtendsLayout
  <2>4. offsets' = IF IsOld(nv) THEN RecordObject(offsets, nv, n) ELSE offsets
    <3>1. CASE nv = to.top /\ nv + n <= to.start + SurvivorWords /\ UNCHANGED <<old_top, dirty, offsets>>
      <4>1. ~IsOld(nv)  BY <1>1, <2>2, <3>1, Geometry DEF IsOld
      <4> QED  BY <3>1, <4>1
    <3>2. CASE nv = old_top /\ offsets' = RecordObject(offsets, nv, mem[v].size)
      <4>1. IsOld(nv)  BY <1>1, <3>2, Geometry DEF IsOld
      <4> QED  BY <1>4, <3>2, <4>1
    <3> QED  BY <1>4, <1>10, <3>1, <3>2 DEF Scavenged, Lands
  <2>5. TableInv'  BY <1>1, <1>6, <2>1, <2>2, <2>4, ExtendsTable
  <2> QED  BY <1>6, <1>7, <2>3, <2>5
<1> QED  BY <1>9, <1>10 DEF Scavenged, Lands

\* Where things lie after a slot is scavenged.
LEMMA ScavengedPlaces ==
    ASSUME TypeInv, ScanHeap, Scanning, NEW s, NEW v, NEW nv, Scavenged(s, v, nv)
    PROVE  /\ \A x \in Nat : InFrom(x)' <=> InFrom(x)
           /\ \A x \in Nat : Valid(x) => (InTo(x)' <=> InTo(x))
           /\ ~InFrom(nv)
           /\ (IsOld(nv) /\ ~InTo(nv)') \/ (~IsOld(nv) /\ InTo(nv)')
           /\ old_top <= old_top' /\ to.top <= to'.top /\ to'.start = to.start
           /\ nv \notin DOMAIN mem /\ IsOld(nv) =>
                 /\ nv = old_top /\ nv + mem[v].size <= OldEnd
                 /\ CardsOf(nv, nv + mem[v].size) \subseteq dirty'
           /\ nv \notin DOMAIN mem /\ ~IsOld(nv) => nv = to.top
<1>1. MemOK /\ SpacesOK /\ LayoutInv /\ Housed  BY DEF TypeInv, ScanHeap, LayoutInv
<1>2. v \in DOMAIN mem /\ nv \in Nat \ {0}  BY DEF Scavenged
<1>3. mem[v].size \in Nat /\ mem[v].size > 0  BY <1>1, <1>2, ObjectIs
<1>4. UNCHANGED <<eden_top, from, committed_end>>  BY DEF Scavenged
<1>5. \A x \in Nat : InFrom(x)' <=> InFrom(x)  BY <1>4 DEF InFrom
<1>6. CASE nv \in DOMAIN mem /\ ~InFrom(nv) /\ UNCHANGED <<to, old_top, dirty, offsets>>
  <2>1. \A x \in Nat : InTo(x)' <=> InTo(x)  BY <1>6 DEF InTo
  <2>2. (IsOld(nv) /\ ~InTo(nv)) \/ (~IsOld(nv) /\ InTo(nv))  BY <1>1, <1>6, Kinds
  <2>3. (IsOld(nv) /\ ~InTo(nv)') \/ (~IsOld(nv) /\ InTo(nv)')  BY <1>2, <2>1, <2>2
  <2>4. old_top <= old_top' /\ to.top <= to'.top /\ to'.start = to.start  BY <1>1, <1>6, Geometry
  <2> QED  BY <1>5, <1>6, <2>1, <2>3, <2>4
<1>7. CASE /\ nv = to.top /\ to' = [to EXCEPT !.top = nv + mem[v].size]
           /\ nv + mem[v].size <= to.start + SurvivorWords
           /\ UNCHANGED <<old_top, dirty, offsets>>
  <2>1. to'.start = to.start /\ to'.top = nv + mem[v].size  BY <1>1, <1>7 DEF SpacesOK, Spans
  <2>2. ~IsOld(nv) /\ ~InFrom(nv) /\ to.start <= nv /\ nv < nv + mem[v].size
    BY <1>1, <1>3, <1>7, Geometry DEF IsOld, InFrom
  <2>3. InTo(nv)'  BY <2>1, <2>2 DEF InTo
  <2>4. ASSUME NEW x \in Nat, Valid(x) PROVE InTo(x)' <=> InTo(x)
    <3>1. CASE x = 0  BY <1>1, <2>1, <3>1, Geometry DEF InTo
    <3>2. CASE x \in DOMAIN mem
      <4>1. mem[x].size \in Nat /\ mem[x].size > 0  BY <1>1, <3>2, ObjectIs
      <4>2. \/ Within(x, EdenStart, eden_top) \/ Within(x, from.start, from.top)
            \/ Within(x, to.start, to.top) \/ Within(x, OldStart, old_top)
        BY <1>1, <3>2 DEF Housed
      <4> QED  BY <1>1, <1>3, <1>7, <2>1, <4>1, <4>2, Geometry DEF InTo, Within
    <3> QED  BY <2>4, <3>1, <3>2 DEF Valid
  <2>5. old_top <= old_top' /\ to.top <= to'.top
    <3>1. nv \in Nat /\ old_top \in Nat  BY <1>1, <1>7, Geometry
    <3> QED  BY <1>3, <1>7, <2>1, <3>1
  <2> QED  BY <1>5, <1>7, <2>1, <2>2, <2>3, <2>4, <2>5
<1>8. CASE /\ nv = old_top /\ old_top' = nv + mem[v].size /\ nv + mem[v].size <= committed_end
           /\ dirty' = dirty \cup CardsOf(nv, nv + mem[v].size)
           /\ UNCHANGED to
  <2>1. IsOld(nv) /\ ~InFrom(nv) /\ ~InTo(nv)  BY <1>1, <1>8, Geometry DEF IsOld, InFrom, InTo
  <2>2. \A x \in Nat : InTo(x)' <=> InTo(x)  BY <1>8 DEF InTo
  <2>3. old_top <= old_top' /\ to.top <= to'.top /\ to'.start = to.start
    <3>1. old_top \in Nat /\ to.top \in Nat  BY <1>1, Geometry
    <3> QED  BY <1>3, <1>8, <3>1
  <2>4. nv + mem[v].size <= OldEnd  BY <1>1, <1>2, <1>3, <1>8, Geometry
  <2>5. ~InTo(nv)'  BY <1>2, <2>1, <2>2
  <2> QED  BY <1>5, <1>8, <2>1, <2>2, <2>3, <2>4, <2>5
<1> QED  BY <1>6, <1>7, <1>8 DEF Scavenged, Lands

\* In to-space as the step leaves it.
InToAfter(x) == to'.start <= x /\ x < to'.top

\* After a slot is scavenged the heap is as a scavenge in progress leaves it.
LEMMA ScavengedKeeps ==
    ASSUME TypeInv, ScanHeap, Scanning, NEW s, NEW v, NEW nv, Scavenged(s, v, nv)
    PROVE  ScanHeap'
<1>1. TypeInv' /\ LayoutInv' /\ TableInv' /\ dirty \subseteq dirty'  BY ScavengedLayout
<1>2. /\ \A x \in Nat : InFrom(x)' <=> InFrom(x)
      /\ \A x \in Nat : Valid(x) => (InToAfter(x) <=> InTo(x))
      /\ ~InFrom(nv)
      /\ (IsOld(nv) /\ ~InToAfter(nv)) \/ (~IsOld(nv) /\ InToAfter(nv))
      /\ old_top <= old_top' /\ to.top <= to'.top /\ to'.start = to.start
      /\ nv \notin DOMAIN mem /\ IsOld(nv) =>
            /\ nv = old_top /\ nv + mem[v].size <= OldEnd
            /\ CardsOf(nv, nv + mem[v].size) \subseteq dirty'
      /\ nv \notin DOMAIN mem /\ ~IsOld(nv) => nv = to.top
  BY ScavengedPlaces DEF InTo, InToAfter
<1>3. MemOK /\ SpacesOK /\ Housed /\ OopsInv /\ roots \in [Roots -> Nat]
  BY DEF TypeInv, ScanHeap, LayoutInv
<1>4. s \in gc.work /\ v = ValueOf(s) /\ v \in DOMAIN mem /\ InFrom(v) /\ nv \in Nat \ {0}
  BY DEF Scavenged
<1>5. /\ s \in Nat \X Nat /\ s = <<s[1], s[2]>>
      /\ \/ s[1] = 0 /\ s[2] \in Roots /\ v = roots[s[2]]
         \/ s[1] # 0 /\ HeapSlot(s) /\ ~InFrom(s[1]) /\ v = mem[s[1]].slots[s[2]]
  BY <1>4, BatchSlot
<1>6. DOMAIN mem' = DOMAIN mem \cup {nv}  BY DEF Scavenged
<1>7. \A b \in DOMAIN mem :
         /\ mem'[b].size = mem[b].size /\ mem'[b].marked = mem[b].marked
         /\ mem'[b].fwd = IF b = v THEN nv ELSE mem[b].fwd
         /\ DOMAIN mem'[b].slots = DOMAIN mem[b].slots /\ Len(mem'[b].slots) = Len(mem[b].slots)
         /\ \A k \in DOMAIN mem[b].slots :
               mem'[b].slots[k] = IF b = s[1] /\ k = s[2] THEN nv ELSE mem[b].slots[k]
  BY DEF Scavenged
<1>8. \A r \in Roots : roots'[r] = IF s[1] = 0 /\ s[2] = r THEN nv ELSE roots[r]  BY DEF Scavenged
<1>9. nv \notin DOMAIN mem =>
         /\ mem'[nv].size = mem[v].size /\ mem'[nv].slots = mem[v].slots
         /\ mem'[nv].fwd = 0 /\ ~mem'[nv].marked
  BY DEF Scavenged
<1>10. /\ gc'.phase = gc.phase /\ gc'.work = gc.work \ {s}
       /\ gc'.card = gc.card /\ gc'.old_top_before = gc.old_top_before
       /\ gc'.to_scan = gc.to_scan /\ gc'.old_scan = gc.old_scan
       /\ gc'.still_new = (gc.phase = "card" /\ (gc.still_new \/ IsNew(nv)))
  BY DEF Scavenged
<1>11. /\ \A a \in DOMAIN mem : a \in Nat /\ Valid(a)
       /\ \A a \in DOMAIN mem : \A j \in DOMAIN mem[a].slots : mem[a].slots[j] \in Nat /\ Valid(mem[a].slots[j])
       /\ \A r \in Roots : roots[r] \in Nat /\ Valid(roots[r])
  BY <1>3, ObjectIs DEF OopsInv, Valid
<1>12. OopsInv'
  <2>1. \A x : Valid(x) => x = 0 \/ x \in DOMAIN mem'  BY <1>6 DEF Valid
  <2>2. nv \in DOMAIN mem'  BY <1>6
  <2>3. \A r \in Roots : roots'[r] = 0 \/ roots'[r] \in DOMAIN mem'  BY <1>8, <1>11, <2>1, <2>2
  <2>4. \A a \in DOMAIN mem : \A j \in DOMAIN mem'[a].slots :
           mem'[a].slots[j] = 0 \/ mem'[a].slots[j] \in DOMAIN mem'
    BY <1>7, <1>11, <2>1, <2>2
  <2>5. nv \notin DOMAIN mem => \A j \in DOMAIN mem'[nv].slots :
           mem'[nv].slots[j] = 0 \/ mem'[nv].slots[j] \in DOMAIN mem'
    BY <1>4, <1>9, <1>11, <2>1
  <2> QED  BY <1>6, <2>3, <2>4, <2>5 DEF OopsInv, Valid
<1>13. \A a \in DOMAIN mem' : ~mem'[a].marked  BY <1>6, <1>7, <1>9 DEF ScanHeap
<1>14. IsNew(v)
  <2>1. v \in Nat /\ v # 0  BY <1>3, <1>4, ObjectIs
  <2>2. ~IsOld(v)  BY <1>3, <1>4, Kinds
  <2> QED  BY <2>1, <2>2 DEF IsNew
<1>15. Remembered'
  <2> SUFFICES ASSUME NEW b \in DOMAIN mem', IsOld(b), NEW k \in DOMAIN mem'[b].slots,
                      IsNew(mem'[b].slots[k])
               PROVE  SlotCard(b, k)' \in dirty'
    BY DEF Remembered, IsOld, IsNew
  <2>1. CASE b \in DOMAIN mem
    <3>1. SlotCard(b, k)' = SlotCard(b, k)  BY <1>7, <2>1, SlotStays
    <3>2. k \in DOMAIN mem[b].slots  BY <1>7, <2>1
    <3>3. CASE b = s[1] /\ k = s[2]
      <4>1. b # 0  BY <1>11, <2>1, <1>3, ObjectIs
      <4>2. v = mem[b].slots[k]  BY <1>5, <3>3, <4>1
      <4> QED  BY <1>1, <1>14, <2>1, <3>1, <3>2, <4>2 DEF ScanHeap, Remembered
    <3>4. CASE ~(b = s[1] /\ k = s[2])
      <4>1. mem'[b].slots[k] = mem[b].slots[k]  BY <1>7, <2>1, <3>2, <3>4
      <4> QED  BY <1>1, <2>1, <3>1, <3>2, <4>1 DEF ScanHeap, Remembered
    <3> QED  BY <3>3, <3>4
  <2>2. CASE b \notin DOMAIN mem
    <3>1. b = nv /\ nv \notin DOMAIN mem /\ IsOld(nv)  BY <1>6, <2>2
    <3>2. mem'[b].size = mem[v].size /\ mem'[b].slots = mem[v].slots  BY <1>9, <3>1
    <3>3. /\ mem[v].size \in Nat /\ Len(mem[v].slots) \in Nat /\ k \in 1 .. Len(mem[v].slots)
          /\ Len(mem[v].slots) < mem[v].size
      BY <1>3, <1>4, <3>2, ObjectIs
    <3>4. PICK n, w : n = mem[v].size /\ w = b + mem[v].size - Len(mem[v].slots) + k - 1  OBVIOUS
    <3>5. SlotCard(b, k)' = CardIndex(w)  BY <3>2, <3>4 DEF SlotCard, SlotAddr
    <3>6. b \in Nat /\ n \in Nat /\ w \in Nat /\ OldStart <= b /\ b <= w /\ w < b + n /\ b + n <= OldEnd
      BY <1>2, <1>4, <3>1, <3>3, <3>4, SMTT(30) DEF IsOld
    <3>7. CardIndex(w) \in CardsOf(b, b + n)  BY <3>6, CardOfWord
    <3> QED  BY <1>2, <3>1, <3>4, <3>5, <3>7
  <2> QED  BY <2>1, <2>2
<1>16. /\ OldStart <= gc.old_top_before /\ gc.old_top_before <= gc.old_scan /\ gc.old_scan <= old_top
       /\ to.start <= gc.to_scan /\ gc.to_scan <= to.top
       /\ gc.old_top_before \in Nat /\ gc.old_scan \in Nat /\ gc.to_scan \in Nat
       /\ old_top \in Nat /\ to.top \in Nat /\ to.start \in Nat /\ OldStart \in Nat
       /\ old_top' \in Nat /\ to'.top \in Nat
  <2>1. SpacesOK'  BY <1>1 DEF TypeInv
  <2>2. old_top' \in Nat /\ to'.top \in Nat  BY <2>1 DEF SpacesOK, Spans
  <2> QED  BY <1>3, <2>2, Geometry DEF ScanHeap, ScanBounds, TypeInv, Collector
<1>17. nv \notin DOMAIN mem =>
         /\ IsOld(nv) => nv >= gc.old_scan /\ nv >= gc.old_top_before
         /\ ~IsOld(nv) => nv >= gc.to_scan
  BY <1>2, <1>16
<1>18. ScanBounds'
  <2>1. /\ gc'.old_scan <= old_top' /\ to'.start <= gc'.to_scan /\ gc'.to_scan <= to'.top
        /\ OldStart <= gc'.old_top_before /\ gc'.old_top_before <= gc'.old_scan
    BY <1>2, <1>10, <1>16
  <2>2. /\ gc'.phase \in {"roots", "card", "code"} =>
              gc'.to_scan = to'.start /\ gc'.old_scan = gc'.old_top_before
        /\ gc'.phase = "roots" => gc'.card = -1
        /\ gc'.phase = "card" => gc'.card \in Cards
    BY <1>2, <1>10 DEF ScanHeap, ScanBounds
  <2>3. ASSUME NEW a \in DOMAIN mem'
        PROVE  /\ IsOld(a) /\ a < gc'.old_top_before => a + mem'[a].size <= gc'.old_top_before
               /\ IsOld(a) /\ a < gc'.old_scan => a + mem'[a].size <= gc'.old_scan
               /\ InToAfter(a) /\ a < gc'.to_scan => a + mem'[a].size <= gc'.to_scan
    <3>1. CASE a \in DOMAIN mem
      <4>1. mem'[a].size = mem[a].size /\ (InToAfter(a) <=> InTo(a))  BY <1>2, <1>7, <1>11, <3>1
      <4> QED  BY <1>10, <3>1, <4>1 DEF ScanHeap, ScanBounds
    <3>2. CASE a \notin DOMAIN mem
      <4>1. a = nv /\ nv \notin DOMAIN mem /\ nv \in Nat  BY <1>4, <1>6, <3>2
      <4> QED  BY <1>2, <1>10, <1>16, <1>17, <4>1
    <3> QED  BY <3>1, <3>2
  <2> QED  BY <2>1, <2>2, <2>3 DEF ScanBounds, IsOld, InTo, InToAfter
<1>0. UNCHANGED <<eden_top, from>>  BY DEF Scavenged
<1>19. ForwardInv'
  <2> SUFFICES ASSUME NEW a \in DOMAIN mem', mem'[a].fwd # 0
               PROVE  InFrom(a) /\ mem'[a].fwd \in DOMAIN mem' /\ ~InFrom(mem'[a].fwd)
    BY <1>0 DEF ForwardInv, InFrom
  <2>1. a \in DOMAIN mem  BY <1>6, <1>9
  <2>2. CASE a = v
    <3>1. mem'[a].fwd = nv  BY <1>7, <2>1, <2>2
    <3> QED  BY <1>2, <1>4, <1>6, <2>2, <3>1
  <2>3. CASE a # v
    <3>1. mem'[a].fwd = mem[a].fwd  BY <1>7, <2>1, <2>3
    <3>2. InFrom(a) /\ mem[a].fwd \in DOMAIN mem /\ ~InFrom(mem[a].fwd)
      BY <2>1, <3>1 DEF ScanHeap, ForwardInv
    <3> QED  BY <1>6, <3>1, <3>2
  <2> QED  BY <2>2, <2>3
<1>20. FromSlots'
  <2> SUFFICES ASSUME NEW a \in DOMAIN mem', InFrom(a), NEW j \in DOMAIN mem'[a].slots
               PROVE  ~InToAfter(mem'[a].slots[j])
    BY <1>0 DEF FromSlots, InFrom, InTo, InToAfter
  <2>1. a \in DOMAIN mem /\ a # s[1]
    <3>1. a \in DOMAIN mem /\ a \in Nat /\ a # 0  BY <1>2, <1>3, <1>6, ObjectIs
    <3> QED  BY <1>5, <3>1
  <2>2. j \in DOMAIN mem[a].slots /\ mem'[a].slots[j] = mem[a].slots[j]  BY <1>7, <2>1
  <2>3. ~InTo(mem[a].slots[j])  BY <2>1, <2>2 DEF ScanHeap, FromSlots
  <2> QED  BY <1>2, <1>11, <2>1, <2>2, <2>3
<1>21. RootSlots'
  <2> SUFFICES
        /\ \A r \in VmRoots : InFrom(roots'[r]) => gc'.phase = "roots" /\ <<0, r>> \in gc'.work
        /\ \A r \in CodeRoots :
              /\ gc'.phase \in {"roots", "card"} => ~InToAfter(roots'[r])
              /\ gc'.phase = "code" /\ InFrom(roots'[r]) => <<0, r>> \in gc'.work
              /\ gc'.phase = "cheney" => ~InFrom(roots'[r])
    BY <1>0 DEF RootSlots, InFrom, InTo, InToAfter
  <2>1. VmRoots \subseteq Roots /\ CodeRoots \subseteq Roots /\ VmRoots \cap CodeRoots = {}
    BY RootAssumption DEF Roots
  <2>2. ASSUME NEW r \in VmRoots, InFrom(roots'[r])
        PROVE  gc'.phase = "roots" /\ <<0, r>> \in gc'.work
    <3>1. ~(s[1] = 0 /\ s[2] = r) /\ roots'[r] = roots[r]  BY <1>2, <1>8, <2>1, <2>2
    <3>2. gc.phase = "roots" /\ <<0, r>> \in gc.work  BY <2>2, <3>1 DEF ScanHeap, RootSlots
    <3>3. s # <<0, r>>  BY <3>1
    <3> QED  BY <1>10, <3>2, <3>3
  <2>3. ASSUME NEW r \in CodeRoots
        PROVE  /\ gc'.phase \in {"roots", "card"} => ~InToAfter(roots'[r])
               /\ gc'.phase = "code" /\ InFrom(roots'[r]) => <<0, r>> \in gc'.work
               /\ gc'.phase = "cheney" => ~InFrom(roots'[r])
    <3>0. /\ gc.phase \in {"roots", "card"} => ~InTo(roots[r])
          /\ gc.phase = "code" /\ InFrom(roots[r]) => <<0, r>> \in gc.work
          /\ gc.phase = "cheney" => ~InFrom(roots[r])
      BY DEF ScanHeap, RootSlots
    <3>1. CASE s[1] = 0 /\ s[2] = r
      <4>1. roots'[r] = nv  BY <1>8, <2>1, <3>1
      <4>2. r \notin VmRoots  BY <2>1
      <4>3. gc.phase \notin {"roots", "card"}
        <5>1. /\ gc.phase = "roots" => s[2] \in VmRoots
              /\ gc.phase = "card" => s[1] \in DOMAIN mem
          BY <1>4 DEF ScanHeap, WorkInv, HeapSlot
        <5>2. 0 \notin DOMAIN mem  BY <1>3 DEF MemOK, MemIs
        <5> QED  BY <3>1, <4>2, <5>1, <5>2
      <4> QED  BY <1>2, <1>10, <4>1, <4>3
    <3>2. CASE ~(s[1] = 0 /\ s[2] = r)
      <4>1. roots'[r] = roots[r]  BY <1>8, <2>1, <3>2
      <4>2. InToAfter(roots[r]) <=> InTo(roots[r])  BY <1>2, <1>11, <2>1
      <4>3. s # <<0, r>>  BY <3>2
      <4> QED  BY <1>10, <3>0, <4>1, <4>2, <4>3
    <3> QED  BY <3>1, <3>2
  <2> QED  BY <2>2, <2>3
<1>22. s[1] \in DOMAIN mem =>
          /\ gc.phase \in {"card", "cheney"}
          /\ gc.phase = "card" => /\ IsOld(s[1]) /\ s[1] < gc.old_top_before
                                  /\ SlotCard(s[1], s[2]) = gc.card
          /\ gc.phase = "cheney" => \/ InTo(s[1]) /\ s[1] < gc.to_scan
                                    \/ gc.old_top_before <= s[1] /\ s[1] < gc.old_scan
  <2>1. 0 \notin DOMAIN mem  BY <1>3 DEF MemOK, MemIs
  <2> QED  BY <1>4, <2>1 DEF ScanHeap, WorkInv, Scanning
<1>23. \A a \in DOMAIN mem : InTo(a) => ~IsOld(a)
  BY <1>3, Kinds
<1>24. OldSlots'
  <2> SUFFICES ASSUME NEW a \in DOMAIN mem', IsOld(a), a < gc'.old_top_before,
                      NEW j \in DOMAIN mem'[a].slots
               PROVE  /\ InFrom(mem'[a].slots[j]) =>
                            \/ gc'.phase = "roots"
                            \/ gc'.phase = "card" /\ SlotCard(a, j)' > gc'.card
                            \/ gc'.phase = "card" /\ SlotCard(a, j)' = gc'.card /\ <<a, j>> \in gc'.work
                      /\ InToAfter(mem'[a].slots[j]) =>
                            /\ gc'.phase # "roots"
                            /\ gc'.phase = "card" => SlotCard(a, j)' <= gc'.card
                            /\ gc'.phase = "card" /\ SlotCard(a, j)' = gc'.card => gc'.still_new
    BY <1>0 DEF OldSlots, InFrom, InTo, InToAfter, IsOld
  <2>1. a \in DOMAIN mem
    <3>1. CASE a = nv /\ nv \notin DOMAIN mem  BY <1>4, <1>10, <1>16, <1>17, <3>1
    <3> QED  BY <1>6, <3>1
  <2>2. SlotCard(a, j)' = SlotCard(a, j) /\ j \in DOMAIN mem[a].slots  BY <1>7, <2>1, SlotStays
  <2>3. PICK x, c : x = mem[a].slots[j] /\ c = SlotCard(a, j)  OBVIOUS
  <2>4. /\ InFrom(x) => \/ gc.phase = "roots"
                        \/ gc.phase = "card" /\ c > gc.card
                        \/ gc.phase = "card" /\ c = gc.card /\ <<a, j>> \in gc.work
        /\ InTo(x) => /\ gc.phase # "roots"
                      /\ gc.phase = "card" => c <= gc.card
                      /\ gc.phase = "card" /\ c = gc.card => gc.still_new
    BY <1>10, <2>1, <2>2, <2>3 DEF ScanHeap, OldSlots
  <2>5. CASE a = s[1] /\ j = s[2]
    <3>1. mem'[a].slots[j] = nv  BY <1>7, <2>1, <2>2, <2>5
    <3>2. gc.phase = "card" /\ c = gc.card
      <4>1. a \in Nat  BY <1>11, <2>1
      <4>2. ~(gc.old_top_before <= s[1])  BY <1>10, <1>16, <2>5, <4>1
      <4> QED  BY <1>22, <1>23, <2>1, <2>3, <2>5, <4>2
    <3>3. gc.card \in Int  BY DEF TypeInv, Collector
    <3>4. InToAfter(nv) => IsNew(nv)  BY <1>2, <1>4 DEF IsNew
    <3>5. gc'.phase = "card" /\ SlotCard(a, j)' <= gc'.card  BY <1>10, <2>2, <2>3, <3>2, <3>3
    <3>6. InToAfter(nv) => gc'.still_new
      <4> SUFFICES ASSUME InToAfter(nv) PROVE gc'.still_new  OBVIOUS
      <4>1. gc.phase = "card" /\ (gc.still_new \/ IsNew(nv))  BY <3>2, <3>4
      <4>2. gc'.still_new = (gc.phase = "card" /\ (gc.still_new \/ IsNew(nv)))  BY <1>10
      <4> QED  BY <4>1, <4>2
    <3>7. ~InFrom(nv)  BY <1>2
    <3> QED  BY <3>1, <3>5, <3>6, <3>7
  <2>6. CASE ~(a = s[1] /\ j = s[2])
    <3>1. mem'[a].slots[j] = x  BY <1>7, <2>1, <2>2, <2>3, <2>6
    <3>2. InToAfter(x) <=> InTo(x)  BY <1>2, <1>11, <2>1, <2>2, <2>3
    <3>3. s # <<a, j>>  BY <2>6
    <3> QED  BY <1>10, <2>2, <2>3, <2>4, <3>1, <3>2, <3>3
  <2> QED  BY <2>5, <2>6
<1>25. ASSUME NEW a \in DOMAIN mem, NEW scan, CopiedSlots(a, scan), a = s[1] => a < scan,
              NEW j \in DOMAIN mem'[a].slots
       PROVE  IF a < scan THEN InFrom(mem'[a].slots[j]) => <<a, j>> \in gc'.work
              ELSE ~InToAfter(mem'[a].slots[j])
  <2>1. j \in DOMAIN mem[a].slots  BY <1>7
  <2>2. PICK x : x = mem[a].slots[j]  OBVIOUS
  <2>3. IF a < scan THEN InFrom(x) => <<a, j>> \in gc.work ELSE ~InTo(x)
    BY <1>25, <2>1, <2>2 DEF CopiedSlots
  <2>4. CASE a = s[1] /\ j = s[2]
    <3>1. mem'[a].slots[j] = nv  BY <1>7, <2>1, <2>4
    <3> QED  BY <1>2, <1>25, <2>4, <3>1
  <2>5. CASE ~(a = s[1] /\ j = s[2])
    <3>1. mem'[a].slots[j] = x  BY <1>7, <2>1, <2>2, <2>5
    <3>2. InToAfter(x) <=> InTo(x)  BY <1>2, <1>11, <2>1, <2>2
    <3>3. s # <<a, j>>  BY <2>5
    <3> QED  BY <1>10, <2>3, <3>1, <3>2, <3>3
  <2> QED  BY <2>4, <2>5
<1>26. ASSUME nv \notin DOMAIN mem, NEW j \in DOMAIN mem'[nv].slots
       PROVE  ~InToAfter(mem'[nv].slots[j])
  <2>1. mem'[nv].slots = mem[v].slots /\ j \in DOMAIN mem[v].slots  BY <1>9, <1>26
  <2>2. ~InTo(mem[v].slots[j])  BY <1>4, <2>1 DEF ScanHeap, FromSlots
  <2> QED  BY <1>2, <1>4, <1>11, <2>1, <2>2
<1>27. ToSlots'
  <2> SUFFICES ASSUME NEW a \in DOMAIN mem', InToAfter(a), NEW j \in DOMAIN mem'[a].slots
               PROVE  IF a < gc'.to_scan THEN InFrom(mem'[a].slots[j]) => <<a, j>> \in gc'.work
                      ELSE ~InToAfter(mem'[a].slots[j])
    BY <1>0 DEF ToSlots, CopiedSlots, InFrom, InTo, InToAfter
  <2>1. CASE a \in DOMAIN mem
    <3>1. InTo(a)  BY <1>2, <1>11, <2>1
    <3>2. CopiedSlots(a, gc.to_scan)  BY <2>1, <3>1 DEF ScanHeap, ToSlots
    <3>3. a = s[1] => a < gc.to_scan
      <4>1. ~IsOld(a) /\ a \in Nat  BY <1>11, <1>23, <2>1, <3>1
      <4>2. ~(gc.old_top_before <= a)  BY <1>16, <4>1 DEF IsOld
      <4> QED  BY <1>22, <2>1, <4>1, <4>2
    <3> QED  BY <1>10, <1>25, <2>1, <3>2, <3>3
  <2>2. CASE a \notin DOMAIN mem
    <3>1. a = nv /\ nv \notin DOMAIN mem  BY <1>6, <2>2
    <3>2. ~(nv < gc'.to_scan)  BY <1>2, <1>4, <1>10, <1>16, <1>17, <3>1
    <3> QED  BY <1>26, <3>1, <3>2
  <2> QED  BY <2>1, <2>2
<1>28. PromotedSlots'
  <2> SUFFICES ASSUME NEW a \in DOMAIN mem', a >= gc'.old_top_before, NEW j \in DOMAIN mem'[a].slots
               PROVE  IF a < gc'.old_scan THEN InFrom(mem'[a].slots[j]) => <<a, j>> \in gc'.work
                      ELSE ~InToAfter(mem'[a].slots[j])
    BY <1>0 DEF PromotedSlots, CopiedSlots, InFrom, InTo, InToAfter
  <2>1. CASE a \in DOMAIN mem
    <3>1. a \in Nat /\ a >= gc.old_top_before /\ IsOld(a)  BY <1>10, <1>11, <1>16, <2>1 DEF IsOld
    <3>2. CopiedSlots(a, gc.old_scan)  BY <2>1, <3>1 DEF ScanHeap, PromotedSlots
    <3>3. a = s[1] => a < gc.old_scan
      <4>1. ~InTo(a) /\ ~(a < gc.old_top_before)  BY <1>16, <1>23, <2>1, <3>1
      <4> QED  BY <1>22, <2>1, <4>1
    <3> QED  BY <1>10, <1>25, <2>1, <3>2, <3>3
  <2>2. CASE a \notin DOMAIN mem
    <3>1. a = nv /\ nv \notin DOMAIN mem /\ nv \in Nat  BY <1>4, <1>6, <2>2
    <3>2. IsOld(nv)  BY <1>10, <1>16, <3>1 DEF IsOld
    <3>3. ~(nv < gc'.old_scan)  BY <1>10, <1>16, <1>17, <3>1, <3>2
    <3> QED  BY <1>26, <3>1, <3>3
  <2> QED  BY <2>1, <2>2
<1>29. WorkInv'
  <2> SUFFICES ASSUME NEW t \in gc'.work
               PROVE  /\ InFrom(ValueOf(t)')
                      /\ gc'.phase = "roots" => t[1] = 0 /\ t[2] \in VmRoots
                      /\ gc'.phase = "code" => t[1] = 0 /\ t[2] \in CodeRoots
                      /\ gc'.phase = "card" => /\ HeapSlot(t)' /\ IsOld(t[1]) /\ t[1] < gc'.old_top_before
                                               /\ SlotCard(t[1], t[2])' = gc'.card
                      /\ gc'.phase = "cheney" =>
                            /\ HeapSlot(t)'
                            /\ \/ InToAfter(t[1]) /\ t[1] < gc'.to_scan
                               \/ gc'.old_top_before <= t[1] /\ t[1] < gc'.old_scan
    BY <1>0 DEF WorkInv, InFrom, InTo, InToAfter, IsOld
  <2>1. t \in gc.work /\ t # s  BY <1>10
  <2>2. /\ t \in Nat \X Nat /\ t = <<t[1], t[2]>> /\ InFrom(ValueOf(t))
        /\ \/ t[1] = 0 /\ t[2] \in Roots /\ ValueOf(t) = roots[t[2]]
           \/ t[1] # 0 /\ HeapSlot(t) /\ ValueOf(t) = mem[t[1]].slots[t[2]]
    BY <2>1, BatchSlot
  <2>3. ~(t[1] = s[1] /\ t[2] = s[2])  BY <1>5, <2>1, <2>2
  <2>4. /\ gc.phase = "roots" => t[1] = 0 /\ t[2] \in VmRoots
        /\ gc.phase = "code" => t[1] = 0 /\ t[2] \in CodeRoots
        /\ gc.phase = "card" => /\ HeapSlot(t) /\ IsOld(t[1]) /\ t[1] < gc.old_top_before
                                /\ SlotCard(t[1], t[2]) = gc.card
        /\ gc.phase = "cheney" =>
              /\ HeapSlot(t)
              /\ \/ InTo(t[1]) /\ t[1] < gc.to_scan
                 \/ gc.old_top_before <= t[1] /\ t[1] < gc.old_scan
    BY <2>1 DEF ScanHeap, WorkInv
  <2>5. CASE t[1] = 0
    <3>1. 0 \notin DOMAIN mem  BY <1>3 DEF MemOK, MemIs
    <3>2. ~HeapSlot(t)  BY <2>5, <3>1 DEF HeapSlot
    <3>3. ValueOf(t)' = roots'[t[2]]  BY <2>5 DEF ValueOf
    <3>4. roots'[t[2]] = roots[t[2]] /\ ValueOf(t) = roots[t[2]]  BY <1>8, <2>2, <2>3, <2>5
    <3> QED  BY <1>10, <2>2, <2>4, <3>2, <3>3, <3>4
  <2>6. CASE t[1] # 0
    <3>1. HeapSlot(t) /\ ValueOf(t) = mem[t[1]].slots[t[2]]  BY <2>2, <2>6
    <3>2. t[1] \in DOMAIN mem /\ t[2] \in DOMAIN mem[t[1]].slots  BY <3>1 DEF HeapSlot
    <3>3. ValueOf(t)' = mem'[t[1]].slots[t[2]]  BY <2>6 DEF ValueOf
    <3>4. mem'[t[1]].slots[t[2]] = mem[t[1]].slots[t[2]]  BY <1>7, <2>3, <3>2
    <3>5. HeapSlot(t)'  BY <1>6, <1>7, <3>2 DEF HeapSlot
    <3>6. SlotCard(t[1], t[2])' = SlotCard(t[1], t[2])  BY <1>7, <3>2, SlotStays
    <3>7. InToAfter(t[1]) <=> InTo(t[1])  BY <1>2, <1>11, <3>2
    <3> QED  BY <1>10, <2>2, <2>4, <2>6, <3>1, <3>3, <3>4, <3>5, <3>6, <3>7
  <2> QED  BY <2>5, <2>6
<1> QED
  BY <1>1, <1>12, <1>13, <1>15, <1>18, <1>19, <1>20, <1>21, <1>24, <1>27, <1>28, <1>29 DEF ScanHeap

\* scavenge_oop on one slot.
LEMMA ScavengeSlotKeeps ==
    ASSUME HeapInv, ScavengeSlot
    PROVE  HeapInv'
<1>1. Scanning  BY DEF ScavengeSlot
<1>2. TypeInv /\ ScanHeap  BY <1>1, ScanHas
<1>3. PICK s, v, nv : Scavenged(s, v, nv)  BY <1>2, ScavengeSlotDoes
<1>4. TypeInv'  BY <1>1, <1>2, <1>3, ScavengedLayout
<1>5. ScanHeap'  BY <1>1, <1>2, <1>3, ScavengedKeeps
<1>6. Scanning'  BY <1>1, <1>3 DEF Scanning, Scavenged
<1> QED  BY <1>4, <1>5, <1>6, ScanAfter

\* A scavenge that runs out of room ends the program.
LEMMA ScavengeStallKeeps ==
    ASSUME HeapInv, ScavengeStall
    PROVE  HeapInv'
<1>1. Scanning /\ gc' = [gc EXCEPT !.phase = "promote_stall"]  BY DEF ScavengeStall
<1>2. TypeInv  BY <1>1, ScanHas
<1>3. UNCHANGED <<mem, roots, eden_top, from, to, old_top, committed_end, dirty, request>>
  BY DEF ScavengeStall, spaceVars, tableVars
<1>4. gc'.phase = "promote_stall" /\ gc' \in Collector /\ gc'.then = gc.then
  BY <1>1, <1>2 DEF TypeInv, Collector, Phases
<1>5. "promote_stall" \notin Returns  BY DEF Returns
<1>6. TypeInv'  BY <1>2, <1>3, <1>4, <1>5 DEF TypeInv, MemOK, SpacesOK
<1> QED  BY <1>4, <1>6, StallAfter

-----------------------------------------------------------------------------
(* The next batch. *)

\* resolve finds the object that the first word of a card belongs to.
LEMMA ResolvesTo ==
    ASSUME MemOK, SpacesOK, LayoutInv, TableInv, NEW i \in Cards, CardBase(i) < old_top
    PROVE  LET h == Resolve(offsets, i)
           IN  h \in DOMAIN mem /\ IsOld(h) /\ h <= CardBase(i) /\ CardBase(i) < h + mem[h].size
<1>1. PICK H : H = {a \in DOMAIN mem : IsOld(a)}  OBVIOUS
<1>2. PICK sz : sz = [a \in H |-> mem[a].size]  OBVIOUS
<1>3. \A a \in DOMAIN mem : a \in Nat /\ mem[a].size \in Nat \ {0}  BY ObjectIs
<1>4. H \in SUBSET Nat /\ sz \in [H -> Nat \ {0}] /\ \A a \in H : sz[a] = mem[a].size
  BY <1>1, <1>2, <1>3
<1>5. \A a \in H : a >= OldStart  BY <1>1 DEF IsOld
<1>6. \A a, b \in H : a < b => a + sz[a] <= b  BY <1>1, <1>4 DEF LayoutInv, Apart
<1>7. ASSUME NEW k \in Cards, CardBase(k) < old_top
      PROVE  \E a \in H : a <= CardBase(k) /\ CardBase(k) < a + sz[a] /\ offsets[k] = Entry(k, a)
  <2>1. k \in Nat /\ CardBase(k) \in Int /\ CardBase(k) >= OldStart /\ old_top \in Nat
    <3>1. k \in Nat  BY CardsAre
    <3>2. k * CardWords \in Nat  BY <3>1
    <3>3. PICK w \in Nat : w = k * CardWords  BY <3>2
    <3> QED  BY <3>1, <3>3, Geometry DEF CardBase
  <2>2. CardBase(k) \in OldStart .. old_top - 1  BY <1>7, <2>1
  <2>3. PICK a \in DOMAIN mem : OldStart <= a /\ a <= CardBase(k) /\ CardBase(k) < a + mem[a].size
    BY <2>2 DEF LayoutInv, AllTiled, Tiled
  <2>4. a \in Nat  BY <1>3
  <2>5. IsOld(a)  BY <2>3, <2>4 DEF IsOld
  <2>6. offsets[k] = Entry(k, a)  BY <2>3, <2>5 DEF TableInv
  <2> QED  BY <1>1, <1>4, <2>3, <2>5, <2>6
<1>8. old_top \in Int  BY Geometry
<1>9. PICK top, offs : top = old_top /\ offs = offsets  OBVIOUS
<1>10. \A k \in Cards : CardBase(k) < top =>
          \E a \in H : a <= CardBase(k) /\ CardBase(k) < a + sz[a] /\ offs[k] = Entry(k, a)
  BY <1>7, <1>9
<1>11. \A k \in Cards : CardBase(k) < top =>
          \E a \in H : a = Resolve(offs, k) /\ a <= CardBase(k) /\ CardBase(k) < a + sz[a]
  BY <1>4, <1>5, <1>6, <1>8, <1>9, <1>10, ResolveFinds
<1>12. PICK a \in H : a = Resolve(offs, i) /\ a <= CardBase(i) /\ CardBase(i) < a + sz[a]
  BY <1>9, <1>11
<1> QED  BY <1>1, <1>4, <1>9, <1>12

\* A step that only picks a batch leaves the objects as they are.
LEMMA BatchFrame ==
    ASSUME ScanHeap, UNCHANGED <<mem, roots, eden_top, from, to, old_top, offsets>>
    PROVE  /\ LayoutInv' /\ TableInv' /\ OopsInv' /\ ForwardInv' /\ FromSlots'
           /\ \A a \in DOMAIN mem' : ~mem'[a].marked
<1>1. LayoutInv' /\ TableInv'
  BY DEF ScanHeap, LayoutInv, Apart, Housed, Within, AllTiled, Tiled, TableInv
<1>2. OopsInv' /\ ForwardInv' /\ FromSlots'
  BY DEF ScanHeap, OopsInv, Valid, ForwardInv, FromSlots, InFrom, InTo
<1> QED  BY <1>1, <1>2 DEF ScanHeap

\* An object of the young generation is left behind, or a copy.
LEMMA YoungLies ==
    ASSUME MemOK, SpacesOK, Housed, NEW x, Valid(x), IsNew(x)
    PROVE  InFrom(x) \/ InTo(x)
<1>1. x \in DOMAIN mem /\ ~IsOld(x)  BY DEF Valid, IsNew
<1> QED  BY <1>1, Kinds

\* The card of a slot holds its address.
LEMMA SlotOnCard ==
    ASSUME MemOK, SpacesOK, Housed, NEW a \in DOMAIN mem, IsOld(a), NEW j \in DOMAIN mem[a].slots
    PROVE  /\ SlotCard(a, j) \in Cards /\ SlotCard(a, j) \in Nat
           /\ CardBase(SlotCard(a, j)) <= SlotAddr(a, j) /\ SlotAddr(a, j) < CardEnd(SlotCard(a, j))
           /\ CardBase(SlotCard(a, j)) \in Int
           /\ SlotAddr(a, j) \in Nat /\ a < SlotAddr(a, j) /\ SlotAddr(a, j) < a + mem[a].size
           /\ a \in Nat /\ mem[a].size \in Nat /\ SlotAddr(a, j) >= OldStart
<1>1. /\ SlotAddr(a, j) \in Nat /\ a < SlotAddr(a, j) /\ SlotAddr(a, j) < a + mem[a].size
      /\ a \in Nat /\ mem[a].size \in Nat
  BY SlotLies, ObjectIs
<1>2. SlotAddr(a, j) >= OldStart  BY <1>1 DEF IsOld
<1>3. SlotCard(a, j) \in Cards  BY CardOfSlot
<1>4. PICK w : w = SlotAddr(a, j)  OBVIOUS
<1>5. /\ CardIndex(w) \in Nat /\ CardBase(CardIndex(w)) \in Int
      /\ CardBase(CardIndex(w)) <= w /\ w < CardBase(CardIndex(w) + 1)
  BY <1>1, <1>2, <1>4, CardHolds
<1> QED  BY <1>1, <1>2, <1>3, <1>4, <1>5 DEF SlotCard, CardEnd

\* Between batches of the card scan: a slot that still has to be visited lies on a dirty
\* card ahead.
LEMMA SlotAhead ==
    ASSUME TypeInv, ScanHeap, ScanningCards, NEW a \in DOMAIN mem, IsOld(a), a < gc.old_top_before,
           NEW j \in DOMAIN mem[a].slots, InFrom(mem[a].slots[j])
    PROVE  SlotCard(a, j) \in CardsAhead
<1>1. gc.phase \in {"roots", "card"} /\ gc.work = {}  BY DEF ScanningCards
<1>2. MemOK /\ SpacesOK /\ Housed  BY DEF TypeInv, ScanHeap, LayoutInv
<1>3. PICK c : c = SlotCard(a, j)  OBVIOUS
<1>4. gc.phase = "roots" \/ c > gc.card  BY <1>1, <1>3 DEF ScanHeap, OldSlots
<1>5. /\ c \in Nat /\ CardBase(c) <= SlotAddr(a, j) /\ CardBase(c) \in Int
      /\ SlotAddr(a, j) \in Nat /\ SlotAddr(a, j) < a + mem[a].size /\ a \in Nat /\ mem[a].size \in Nat
  BY <1>2, <1>3, SlotOnCard
<1>6. gc.card < c
  <2>1. gc.phase = "roots" => gc.card = -1  BY DEF ScanHeap, ScanBounds
  <2>2. gc.card \in Int  BY DEF TypeInv, Collector
  <2> QED  BY <1>4, <1>5, <2>1, <2>2
<1>7. CardBase(c) < gc.old_top_before
  <2>1. a + mem[a].size <= gc.old_top_before  BY DEF ScanHeap, ScanBounds
  <2>2. gc.old_top_before \in Nat  BY DEF TypeInv, Collector
  <2> QED  BY <1>5, <2>1, <2>2
<1>8. IsNew(mem[a].slots[j])
  <2>1. mem[a].slots[j] \in Nat  BY <1>2, ObjectIs
  <2> QED  BY <1>2, <2>1, Geometry DEF InFrom, IsNew, IsOld
<1>9. c \in dirty  BY <1>3, <1>8 DEF ScanHeap, Remembered
<1> QED  BY <1>3, <1>6, <1>7, <1>9 DEF CardsAhead

\* Cleaning the card just scanned forgets no young oop.
LEMMA CleanedRemembers ==
    ASSUME TypeInv, ScanHeap, ScanningCards, mem' = mem, dirty' = Cleaned
    PROVE  Remembered' /\ dirty' \subseteq Cards
<1>1. gc.phase \in {"roots", "card"} /\ gc.work = {}  BY DEF ScanningCards
<1>2. MemOK /\ SpacesOK /\ Housed /\ OopsInv /\ dirty \subseteq Cards
  BY DEF TypeInv, ScanHeap, LayoutInv
<1>3. dirty' \subseteq Cards  BY <1>2 DEF Cleaned
<1>4. Remembered'
  <2> SUFFICES ASSUME NEW a \in DOMAIN mem, IsOld(a), NEW j \in DOMAIN mem[a].slots,
                      IsNew(mem[a].slots[j])
               PROVE  SlotCard(a, j) \in dirty'
    BY DEF Remembered, IsOld, IsNew, SlotCard, SlotAddr
  <2>1. SlotCard(a, j) \in dirty  BY DEF ScanHeap, Remembered
  <2>2. CASE gc.phase = "card" /\ ~gc.still_new /\ CardEnd(gc.card) <= gc.old_top_before
             /\ SlotCard(a, j) = gc.card
    <3>1. PICK c : c = SlotCard(a, j)  OBVIOUS
    <3>2. /\ SlotAddr(a, j) < CardEnd(c) /\ SlotAddr(a, j) \in Nat /\ a < SlotAddr(a, j) /\ a \in Nat
          /\ c \in Nat
      BY <1>2, <3>1, SlotOnCard
    <3>3. gc.old_top_before \in Nat /\ CardEnd(c) \in Int
      BY <3>2 DEF TypeInv, Collector, CardEnd, CardBase
    <3>4. a < gc.old_top_before  BY <2>2, <3>1, <3>2, <3>3
    <3>5. InFrom(mem[a].slots[j]) \/ InTo(mem[a].slots[j])
      <4>1. Valid(mem[a].slots[j])  BY <1>2 DEF OopsInv
      <4> QED  BY <1>2, <4>1, YoungLies
    <3>6. /\ InFrom(mem[a].slots[j]) => c > gc.card
          /\ InTo(mem[a].slots[j]) => gc.still_new
      BY <1>1, <2>2, <3>1, <3>4 DEF ScanHeap, OldSlots
    <3>7. ~(c > gc.card)  BY <2>2, <3>1, <3>2
    <3> QED  BY <2>2, <3>5, <3>6, <3>7
  <2>3. CASE ~(gc.phase = "card" /\ ~gc.still_new /\ CardEnd(gc.card) <= gc.old_top_before
             /\ SlotCard(a, j) = gc.card)
    BY <2>1, <2>3 DEF Cleaned
  <2> QED  BY <2>2, <2>3
<1> QED  BY <1>3, <1>4

\* What the scan pointers and copies look like before the Cheney loop.
LEMMA BeforeCheney ==
    ASSUME TypeInv, ScanHeap, ScanningCards, UNCHANGED <<mem, eden_top, from, to, old_top>>,
           gc'.to_scan = gc.to_scan, gc'.old_scan = gc.old_scan,
           gc'.old_top_before = gc.old_top_before
    PROVE  ToSlots' /\ PromotedSlots' /\ gc.to_scan = to.start /\ gc.old_scan = gc.old_top_before
<1>1. gc.phase \in {"roots", "card"}  BY DEF ScanningCards
<1>2. gc.to_scan = to.start /\ gc.old_scan = gc.old_top_before
  BY <1>1 DEF ScanHeap, ScanBounds
<1>3. MemOK /\ to.start \in Nat /\ gc.old_top_before \in Nat
  BY Geometry DEF TypeInv, Collector
<1>4. ToSlots'
  <2> SUFFICES ASSUME NEW a \in DOMAIN mem, InTo(a)
               PROVE  \A j \in DOMAIN mem[a].slots :
                         IF a < gc.to_scan THEN InFrom(mem[a].slots[j]) => <<a, j>> \in gc'.work
                         ELSE ~InTo(mem[a].slots[j])
    BY DEF ToSlots, CopiedSlots, InTo, InFrom
  <2>1. a \in Nat  BY <1>3, ObjectIs
  <2>2. ~(a < gc.to_scan)  BY <1>2, <1>3, <2>1 DEF InTo
  <2>3. CopiedSlots(a, gc.to_scan)  BY DEF ScanHeap, ToSlots
  <2> QED  BY <2>2, <2>3 DEF CopiedSlots
<1>5. PromotedSlots'
  <2> SUFFICES ASSUME NEW a \in DOMAIN mem, a >= gc.old_top_before
               PROVE  \A j \in DOMAIN mem[a].slots :
                         IF a < gc.old_scan THEN InFrom(mem[a].slots[j]) => <<a, j>> \in gc'.work
                         ELSE ~InTo(mem[a].slots[j])
    BY DEF PromotedSlots, CopiedSlots, InTo, InFrom
  <2>1. a \in Nat  BY <1>3, ObjectIs
  <2>2. ~(a < gc.old_scan)  BY <1>2, <1>3, <2>1
  <2>3. CopiedSlots(a, gc.old_scan)  BY DEF ScanHeap, PromotedSlots
  <2> QED  BY <2>2, <2>3 DEF CopiedSlots
<1> QED  BY <1>2, <1>4, <1>5

\* The next dirty card: every slot of it that has to be visited is in the batch.
LEMMA NextCardKeeps ==
    ASSUME HeapInv, NextCard
    PROVE  HeapInv'
<1>1. ScanningCards /\ CardsAhead # {} /\ dirty' = Cleaned  BY DEF NextCard
<1>2. gc.phase \in {"roots", "card"} /\ gc.work = {} /\ Scanning  BY <1>1 DEF ScanningCards, Scanning
<1>3. TypeInv /\ ScanHeap  BY <1>2, ScanHas
<1>4. UNCHANGED <<mem, roots, eden_top, from, to, old_top, committed_end, offsets, request>>
  BY DEF NextCard, spaceVars
<1>5. MemOK /\ SpacesOK /\ Housed /\ LayoutInv /\ TableInv /\ OopsInv
  BY <1>3 DEF TypeInv, ScanHeap, LayoutInv
<1>6. PICK i : i = Min(CardsAhead)  OBVIOUS
<1>7. i \in CardsAhead /\ \A k \in CardsAhead : i <= k
  <2>1. CardsAhead \in SUBSET Nat  BY <1>3, CardsAre DEF CardsAhead, TypeInv
  <2>2. PICK T : T = CardsAhead  OBVIOUS
  <2>3. \E m \in T : \A k \in T : m <= k  BY <1>1, <2>1, <2>2, LeastNat
  <2> QED  BY <1>6, <2>2, <2>3 DEF Min
<1>8. /\ i \in Cards /\ i \in Nat /\ i \in dirty /\ gc.card < i /\ CardBase(i) < gc.old_top_before
      /\ gc.card \in Int
  BY <1>3, <1>7, CardsAre DEF CardsAhead, TypeInv, Collector
<1>9. PICK w : w = YoungOf(CardSlots(i))  OBVIOUS
<1>10. /\ gc.old_top_before \in Nat /\ old_top \in Nat /\ OldStart \in Nat
       /\ OldStart <= gc.old_top_before /\ gc.old_top_before <= old_top
  <2>1. OldStart <= gc.old_top_before /\ gc.old_top_before <= gc.old_scan /\ gc.old_scan <= old_top
    BY <1>3 DEF ScanHeap, ScanBounds
  <2>2. gc.old_top_before \in Nat /\ gc.old_scan \in Nat  BY <1>3 DEF TypeInv, Collector
  <2> QED  BY <1>5, <2>1, <2>2, Geometry
<1>11. PICK h : h = Resolve(offsets, i)  OBVIOUS
<1>12. h \in DOMAIN mem /\ IsOld(h) /\ h <= CardBase(i) /\ CardBase(i) < h + mem[h].size
  <2>1. CardBase(i) \in Int  BY <1>8 DEF CardBase
  <2>2. CardBase(i) < old_top  BY <1>8, <1>10, <2>1
  <2> QED  BY <1>5, <1>8, <1>11, <2>2, ResolvesTo
<1>13. \A s : s \in w <=>
          \E a \in DOMAIN mem : \E j \in DOMAIN mem[a].slots :
             /\ s = <<a, j>> /\ h <= a /\ a < CardEnd(i) /\ a < gc.old_top_before
             /\ CardBase(i) <= SlotAddr(a, j) /\ SlotAddr(a, j) < CardEnd(i)
             /\ ~Passes(ValueOf(s))
  BY <1>9, <1>11 DEF YoungOf, CardSlots, SlotsOf
<1>14. \A a \in DOMAIN mem : a \in Nat /\ a # 0 /\ \A j \in DOMAIN mem[a].slots : j \in Nat
  BY <1>5, ObjectIs
<1>15. w \in SUBSET (Nat \X Nat)  BY <1>13, <1>14
<1>16. gc' = [gc EXCEPT !.phase = "card", !.card = i, !.work = w, !.still_new = FALSE]
  BY <1>6, <1>9 DEF NextCard
<1>17. gc' \in Collector
  <2>1. "card" \in Phases /\ i \in Int  BY <1>8 DEF Phases
  <2> QED  BY <1>3, <1>15, <1>16, <2>1 DEF TypeInv, Collector
<1>18. /\ gc'.phase = "card" /\ gc'.card = i /\ gc'.work = w /\ ~gc'.still_new /\ gc'.then = gc.then
       /\ gc'.old_top_before = gc.old_top_before /\ gc'.to_scan = gc.to_scan
       /\ gc'.old_scan = gc.old_scan
  BY <1>3, <1>16 DEF TypeInv, Collector
<1>19. Remembered' /\ dirty' \subseteq Cards  BY <1>1, <1>3, <1>4, CleanedRemembers
<1>20. TypeInv'
  <2>1. "card" \notin Returns /\ "roots" \notin Returns  BY DEF Returns
  <2> QED  BY <1>2, <1>3, <1>4, <1>17, <1>18, <1>19, <2>1 DEF TypeInv, MemOK, SpacesOK
<1>21. /\ LayoutInv' /\ TableInv' /\ OopsInv' /\ ForwardInv' /\ FromSlots'
       /\ \A a \in DOMAIN mem' : ~mem'[a].marked
  BY <1>3, <1>4, BatchFrame
<1>22. ToSlots' /\ PromotedSlots' /\ gc.to_scan = to.start /\ gc.old_scan = gc.old_top_before
  BY <1>1, <1>3, <1>4, <1>18, BeforeCheney
<1>23. ScanBounds'
  BY <1>3, <1>4, <1>8, <1>18, <1>22 DEF ScanHeap, ScanBounds, InTo, IsOld
<1>24. RootSlots'
  <2>1. /\ \A r \in VmRoots : ~InFrom(roots[r])
        /\ \A r \in CodeRoots : ~InTo(roots[r])
    BY <1>2, <1>3 DEF ScanHeap, RootSlots
  <2> QED  BY <1>4, <1>18, <2>1 DEF RootSlots, InFrom, InTo
\* A slot of the batch.
<1>25. ASSUME NEW a \in DOMAIN mem, NEW j \in DOMAIN mem[a].slots, IsOld(a), a < gc.old_top_before,
              SlotCard(a, j) >= i
       PROVE  ~InTo(mem[a].slots[j])
  <2>1. SlotCard(a, j) \in Nat  BY <1>5, <1>25, SlotOnCard
  <2>2. InTo(mem[a].slots[j]) => gc.phase = "card" /\ SlotCard(a, j) <= gc.card
    BY <1>2, <1>3, <1>25 DEF ScanHeap, OldSlots
  <2> QED  BY <1>8, <1>25, <2>1, <2>2
<1>26. OldSlots'
  <2> SUFFICES ASSUME NEW a \in DOMAIN mem, IsOld(a), a < gc.old_top_before,
                      NEW j \in DOMAIN mem[a].slots
               PROVE  /\ InFrom(mem[a].slots[j]) =>
                            \/ SlotCard(a, j) > i
                            \/ SlotCard(a, j) = i /\ <<a, j>> \in w
                      /\ InTo(mem[a].slots[j]) => SlotCard(a, j) <= i /\ SlotCard(a, j) # i
    BY <1>4, <1>18 DEF OldSlots, InFrom, InTo, IsOld, SlotCard, SlotAddr
  <2>1. PICK c : c = SlotCard(a, j)  OBVIOUS
  <2>2. /\ c \in Nat /\ CardBase(c) <= SlotAddr(a, j) /\ SlotAddr(a, j) < CardEnd(c)
        /\ CardBase(c) \in Int
        /\ SlotAddr(a, j) \in Nat /\ a < SlotAddr(a, j) /\ SlotAddr(a, j) < a + mem[a].size
        /\ a \in Nat /\ mem[a].size \in Nat
    BY <1>5, <2>1, SlotOnCard
  <2>3. InTo(mem[a].slots[j]) => c <= i /\ c # i  BY <1>8, <1>25, <2>1, <2>2
  <2>4. ASSUME InFrom(mem[a].slots[j]) PROVE c > i \/ (c = i /\ <<a, j>> \in w)
    <3>1. i <= c  BY <1>1, <1>3, <1>7, <2>1, <2>4, SlotAhead
    <3>2. CASE c = i
      <4>1. h <= a
        <5>1. h \in Nat /\ mem[h].size \in Nat  BY <1>5, <1>12, ObjectIs
        <5>2. a < h => a + mem[a].size <= h  BY <1>5, <1>12 DEF LayoutInv, Apart
        <5> QED  BY <1>12, <2>2, <3>2, <5>1, <5>2
      <4>2. CardEnd(c) \in Int  BY <2>2 DEF CardEnd, CardBase
      <4>3. a < CardEnd(i)  BY <2>2, <3>2, <4>2
      <4>4. ~Passes(ValueOf(<<a, j>>))
        <5>1. ValueOf(<<a, j>>) = mem[a].slots[j]  BY <1>14 DEF ValueOf
        <5>2. mem[a].slots[j] \in Nat  BY <1>5, ObjectIs
        <5>3. mem[a].slots[j] # 0 /\ ~IsOld(mem[a].slots[j])
          BY <1>5, <2>4, <5>2, Geometry DEF InFrom, IsOld
        <5> QED  BY <5>1, <5>3 DEF Passes
      <4>5. <<a, j>> \in w  BY <1>13, <2>2, <3>2, <4>1, <4>3, <4>4
      <4> QED  BY <3>2, <4>5
    <3>3. CASE c # i  BY <1>8, <2>2, <3>1, <3>3
    <3> QED  BY <3>2, <3>3
  <2> QED  BY <2>1, <2>3, <2>4
<1>27. WorkInv'
  <2> SUFFICES ASSUME NEW s \in w
               PROVE  /\ InFrom(ValueOf(s)) /\ HeapSlot(s) /\ IsOld(s[1]) /\ s[1] < gc.old_top_before
                      /\ SlotCard(s[1], s[2]) = i
    BY <1>4, <1>18 DEF WorkInv, InFrom, HeapSlot, IsOld, SlotCard, SlotAddr, ValueOf
  <2>1. PICK a \in DOMAIN mem : \E j \in DOMAIN mem[a].slots :
             /\ s = <<a, j>> /\ h <= a /\ a < CardEnd(i) /\ a < gc.old_top_before
             /\ CardBase(i) <= SlotAddr(a, j) /\ SlotAddr(a, j) < CardEnd(i)
             /\ ~Passes(ValueOf(s))
    BY <1>13
  <2>2. PICK j \in DOMAIN mem[a].slots :
             /\ s = <<a, j>> /\ h <= a /\ a < CardEnd(i) /\ a < gc.old_top_before
             /\ CardBase(i) <= SlotAddr(a, j) /\ SlotAddr(a, j) < CardEnd(i)
             /\ ~Passes(ValueOf(s))
    BY <2>1
  <2>3. s[1] = a /\ s[2] = j /\ ValueOf(s) = mem[a].slots[j]  BY <1>14, <2>2 DEF ValueOf
  <2>4. IsOld(a)
    <3>1. h \in Nat /\ h >= OldStart  BY <1>5, <1>12, ObjectIs DEF IsOld
    <3> QED  BY <1>10, <1>14, <2>2, <3>1 DEF IsOld
  <2>5. SlotCard(a, j) = i
    <3>1. PICK c, x : c = SlotCard(a, j) /\ x = SlotAddr(a, j)  OBVIOUS
    <3>2. /\ c \in Nat /\ CardBase(c) <= x /\ x < CardEnd(c) /\ x \in Nat
          /\ CardBase(c) \in Int
      BY <1>5, <2>4, <3>1, SlotOnCard
    <3>3. CardBase(i) <= x /\ x < CardEnd(i)  BY <2>2, <3>1
    <3>4. c < i => CardBase(c) \in Int /\ CardBase(i) \in Int /\ CardBase(c) + CardWords <= CardBase(i)
      BY <1>8, <3>2, CardsApart
    <3>5. i < c => CardBase(c) \in Int /\ CardBase(i) \in Int /\ CardBase(i) + CardWords <= CardBase(c)
      BY <1>8, <3>2, CardsApart
    <3>6. CardEnd(c) = CardBase(c) + CardWords /\ CardEnd(i) = CardBase(i) + CardWords
      <4>1. \A k \in Nat : CardEnd(k) = CardBase(k) + CardWords  BY DEF CardEnd, CardBase
      <4> QED  BY <1>8, <3>2, <4>1
    <3>7. CardBase(i) \in Int  BY <1>8 DEF CardBase
    <3>8. c = i  BY <1>8, <3>2, <3>3, <3>4, <3>5, <3>6, <3>7
    <3> QED  BY <3>1, <3>8
  <2>6. InFrom(mem[a].slots[j])
    <3>1. Valid(mem[a].slots[j]) /\ IsNew(mem[a].slots[j])
      BY <1>5, <2>2, <2>3 DEF OopsInv, Passes, IsNew
    <3>2. SlotCard(a, j) >= i  BY <1>8, <2>5
    <3>3. ~InTo(mem[a].slots[j])  BY <1>25, <2>2, <2>4, <3>2
    <3> QED  BY <1>5, <3>1, <3>3, YoungLies
  <2>7. HeapSlot(s)  BY <2>3 DEF HeapSlot
  <2> QED  BY <2>2, <2>3, <2>4, <2>5, <2>6, <2>7
<1>28. ScanHeap'
  BY <1>19, <1>21, <1>22, <1>23, <1>24, <1>26, <1>27 DEF ScanHeap
<1>29. Scanning'  BY <1>18 DEF Scanning
<1> QED  BY <1>20, <1>28, <1>29, ScanAfter

\* The card scan is over: no slot of an old object is left to visit; the code roots
\* come next.
LEMMA CardsDoneKeeps ==
    ASSUME HeapInv, CardsDone
    PROVE  HeapInv'
<1>1. ScanningCards /\ CardsAhead = {} /\ dirty' = Cleaned  BY DEF CardsDone
<1>2. gc.phase \in {"roots", "card"} /\ gc.work = {} /\ Scanning  BY <1>1 DEF ScanningCards, Scanning
<1>3. TypeInv /\ ScanHeap  BY <1>2, ScanHas
<1>4. UNCHANGED <<mem, roots, eden_top, from, to, old_top, committed_end, offsets, request>>
  BY DEF CardsDone, spaceVars
<1>5. MemOK /\ SpacesOK /\ Housed /\ OopsInv /\ roots \in [Roots -> Nat]
  BY <1>3 DEF TypeInv, ScanHeap, LayoutInv
<1>6. CodeRoots \subseteq Roots /\ Roots \subseteq Nat  BY RootAssumption DEF Roots
<1>7. PICK w : w = YoungOf({<<0, r>> : r \in CodeRoots})  OBVIOUS
<1>8. \A s : s \in w <=> \E r \in CodeRoots : s = <<0, r>> /\ roots[r] # 0 /\ ~IsOld(roots[r])
  BY <1>7 DEF YoungOf, Passes, ValueOf
<1>9. w \in SUBSET (Nat \X Nat)  BY <1>6, <1>8
<1>10. gc' = [gc EXCEPT !.phase = "code", !.work = w]  BY <1>7 DEF CardsDone
<1>11. gc' \in Collector
  <2>1. "code" \in Phases  BY DEF Phases
  <2> QED  BY <1>3, <1>9, <1>10, <2>1 DEF TypeInv, Collector
<1>12. /\ gc'.phase = "code" /\ gc'.work = w /\ gc'.then = gc.then
       /\ gc'.old_top_before = gc.old_top_before /\ gc'.to_scan = gc.to_scan
       /\ gc'.old_scan = gc.old_scan
  BY <1>3, <1>10 DEF TypeInv, Collector
<1>13. Remembered' /\ dirty' \subseteq Cards  BY <1>1, <1>3, <1>4, CleanedRemembers
<1>14. TypeInv'
  <2>1. "code" \notin Returns  BY DEF Returns
  <2> QED  BY <1>3, <1>4, <1>11, <1>12, <1>13, <2>1 DEF TypeInv, MemOK, SpacesOK
<1>15. /\ LayoutInv' /\ TableInv' /\ OopsInv' /\ ForwardInv' /\ FromSlots'
       /\ \A a \in DOMAIN mem' : ~mem'[a].marked
  BY <1>3, <1>4, BatchFrame
<1>16. ToSlots' /\ PromotedSlots' /\ gc.to_scan = to.start /\ gc.old_scan = gc.old_top_before
  BY <1>1, <1>3, <1>4, <1>12, BeforeCheney
<1>17. ScanBounds'
  BY <1>3, <1>4, <1>12, <1>16 DEF ScanHeap, ScanBounds, InTo, IsOld
<1>18. \A r \in CodeRoots : ~InTo(roots[r])  BY <1>2, <1>3 DEF ScanHeap, RootSlots
<1>19. RootSlots'
  <2>1. \A r \in VmRoots : ~InFrom(roots[r])  BY <1>2, <1>3 DEF ScanHeap, RootSlots
  <2>2. ASSUME NEW r \in CodeRoots, InFrom(roots[r]) PROVE <<0, r>> \in w
    <3>1. roots[r] \in Nat  BY <1>5, <1>6
    <3>2. roots[r] # 0 /\ ~IsOld(roots[r])  BY <1>5, <2>2, <3>1, Geometry DEF InFrom, IsOld
    <3> QED  BY <1>8, <3>2
  <2> QED  BY <1>4, <1>12, <2>1, <2>2 DEF RootSlots, InFrom, InTo
<1>20. OldSlots'
  <2>1. \A a \in DOMAIN mem : IsOld(a) /\ a < gc.old_top_before =>
           \A j \in DOMAIN mem[a].slots : ~InFrom(mem[a].slots[j])
    BY <1>1, <1>3, SlotAhead
  <2> QED  BY <1>4, <1>12, <2>1 DEF OldSlots, InFrom, InTo, IsOld
<1>21. WorkInv'
  <2> SUFFICES ASSUME NEW s \in w
               PROVE  InFrom(ValueOf(s)) /\ s[1] = 0 /\ s[2] \in CodeRoots
    BY <1>4, <1>12 DEF WorkInv, InFrom, ValueOf
  <2>1. PICK r \in CodeRoots : s = <<0, r>> /\ roots[r] # 0 /\ ~IsOld(roots[r])  BY <1>8
  <2>2. ValueOf(s) = roots[r] /\ s[1] = 0 /\ s[2] = r  BY <2>1 DEF ValueOf
  <2>3. Valid(roots[r]) /\ IsNew(roots[r])  BY <1>5, <1>6, <2>1 DEF OopsInv, IsNew
  <2>4. InFrom(roots[r])  BY <1>5, <1>18, <2>3, YoungLies
  <2> QED  BY <2>2, <2>4
<1>22. ScanHeap'
  BY <1>13, <1>15, <1>16, <1>17, <1>19, <1>20, <1>21 DEF ScanHeap
<1>23. Scanning'  BY <1>12 DEF Scanning
<1> QED  BY <1>14, <1>22, <1>23, ScanAfter

\* In the Cheney loop between two objects: what has been scanned refers to no object
\* left behind, what has not been to no copy.
LEMMA CheneyHas ==
    ASSUME TypeInv, ScanHeap, InCheneyLoop
    PROVE  /\ \A r \in Roots : ~InFrom(roots[r])
           /\ \A a \in DOMAIN mem : \A j \in DOMAIN mem[a].slots :
                 /\ IsOld(a) /\ a < gc.old_scan => ~InFrom(mem[a].slots[j])
                 /\ InTo(a) /\ a < gc.to_scan => ~InFrom(mem[a].slots[j])
                 /\ InTo(a) /\ ~(a < gc.to_scan) => ~InTo(mem[a].slots[j])
                 /\ IsOld(a) /\ ~(a < gc.old_scan) => ~InTo(mem[a].slots[j])
<1>1. gc.phase \in {"code", "cheney"} /\ gc.work = {}  BY DEF InCheneyLoop
<1>2. \A r \in Roots : ~InFrom(roots[r])  BY <1>1 DEF ScanHeap, RootSlots, Roots
<1>3. ASSUME NEW a \in DOMAIN mem, NEW j \in DOMAIN mem[a].slots
      PROVE  /\ IsOld(a) /\ a < gc.old_scan => ~InFrom(mem[a].slots[j])
             /\ InTo(a) /\ a < gc.to_scan => ~InFrom(mem[a].slots[j])
             /\ InTo(a) /\ ~(a < gc.to_scan) => ~InTo(mem[a].slots[j])
             /\ IsOld(a) /\ ~(a < gc.old_scan) => ~InTo(mem[a].slots[j])
  <2>1. InTo(a) => CopiedSlots(a, gc.to_scan)  BY DEF ScanHeap, ToSlots
  <2>2. a >= gc.old_top_before => CopiedSlots(a, gc.old_scan)  BY DEF ScanHeap, PromotedSlots
  <2>3. IsOld(a) /\ a < gc.old_top_before => ~InFrom(mem[a].slots[j])
    BY <1>1 DEF ScanHeap, OldSlots
  <2>4. /\ a \in Nat /\ gc.old_top_before \in Nat /\ gc.old_scan \in Nat
        /\ gc.old_top_before <= gc.old_scan
    BY ObjectIs DEF TypeInv, Collector, ScanHeap, ScanBounds
  <2>5. a < gc.old_top_before \/ a >= gc.old_top_before  BY <2>4
  <2>6. ~(a < gc.old_scan) => a >= gc.old_top_before  BY <2>4
  <2> QED  BY <1>1, <2>1, <2>2, <2>3, <2>5, <2>6 DEF CopiedSlots
<1> QED  BY <1>2, <1>3

\* The object the scan pointer of its space has reached is scanned.
LEMMA ObjectScanned ==
    ASSUME HeapInv, InCheneyLoop, NEW a \in DOMAIN mem, NEW ts, NEW os,
           \/ a = gc.to_scan /\ InTo(a) /\ ts = a + mem[a].size /\ os = gc.old_scan
           \/ a = gc.old_scan /\ IsOld(a) /\ os = a + mem[a].size /\ ts = gc.to_scan,
           gc' = [gc EXCEPT !.phase = "cheney", !.work = YoungOf(SlotsOf(a)),
                            !.to_scan = ts, !.old_scan = os],
           UNCHANGED <<mem, roots, eden_top, from, to, old_top, committed_end, dirty, offsets, request>>
    PROVE  HeapInv'
<1>1. gc.phase \in {"code", "cheney"} /\ gc.work = {} /\ Scanning  BY DEF InCheneyLoop, Scanning
<1>2. TypeInv /\ ScanHeap  BY <1>1, ScanHas
<1>3. MemOK /\ SpacesOK /\ Housed /\ Apart /\ OopsInv  BY <1>2 DEF TypeInv, ScanHeap, LayoutInv
<1>4. /\ \A r \in Roots : ~InFrom(roots[r])
      /\ \A b \in DOMAIN mem : \A j \in DOMAIN mem[b].slots :
            /\ IsOld(b) /\ b < gc.old_scan => ~InFrom(mem[b].slots[j])
            /\ InTo(b) /\ b < gc.to_scan => ~InFrom(mem[b].slots[j])
            /\ InTo(b) /\ ~(b < gc.to_scan) => ~InTo(mem[b].slots[j])
            /\ IsOld(b) /\ ~(b < gc.old_scan) => ~InTo(mem[b].slots[j])
  BY <1>2, CheneyHas
<1>5. /\ \A b \in DOMAIN mem : b \in Nat /\ b # 0 /\ mem[b].size \in Nat /\ mem[b].size > 0
      /\ \A b \in DOMAIN mem : \A j \in DOMAIN mem[b].slots : j \in Nat /\ mem[b].slots[j] \in Nat
  BY <1>3, ObjectIs
<1>6. PICK w : w = YoungOf(SlotsOf(a))  OBVIOUS
<1>7. \A s : s \in w <=> \E j \in DOMAIN mem[a].slots : s = <<a, j>> /\ ~Passes(mem[a].slots[j])
  BY <1>5, <1>6 DEF YoungOf, SlotsOf, ValueOf
<1>8. w \in SUBSET (Nat \X Nat)  BY <1>5, <1>7
<1>9. /\ OldStart <= gc.old_top_before /\ gc.old_top_before <= gc.old_scan /\ gc.old_scan <= old_top
      /\ to.start <= gc.to_scan /\ gc.to_scan <= to.top
      /\ gc.old_top_before \in Nat /\ gc.old_scan \in Nat /\ gc.to_scan \in Nat
      /\ old_top \in Nat /\ to.top \in Nat /\ to.start \in Nat /\ OldStart \in Nat
  BY <1>2, <1>3, Geometry DEF ScanHeap, ScanBounds, TypeInv, Collector
<1>10. /\ InTo(a) => ~IsOld(a) /\ a + mem[a].size <= to.top
       /\ IsOld(a) => ~InTo(a) /\ a + mem[a].size <= old_top
  BY <1>3, Kinds DEF Within
<1>11. /\ ts \in Nat /\ os \in Nat /\ gc.to_scan <= ts /\ ts <= to.top
       /\ gc.old_scan <= os /\ os <= old_top
  BY <1>5, <1>9, <1>10
<1>12. gc' = [gc EXCEPT !.phase = "cheney", !.work = w, !.to_scan = ts, !.old_scan = os]  BY <1>6
<1>13. gc' \in Collector
  <2>1. "cheney" \in Phases  BY DEF Phases
  <2> QED  BY <1>2, <1>8, <1>11, <1>12, <2>1, ZenonT(60) DEF TypeInv, Collector
<1>14. /\ gc'.phase = "cheney" /\ gc'.work = w /\ gc'.then = gc.then
       /\ gc'.old_top_before = gc.old_top_before /\ gc'.to_scan = ts /\ gc'.old_scan = os
  BY <1>2, <1>12 DEF TypeInv, Collector
<1>15. TypeInv'
  <2>1. "cheney" \notin Returns  BY DEF Returns
  <2> QED  BY <1>2, <1>13, <1>14, <2>1 DEF TypeInv, MemOK, SpacesOK
<1>16. /\ LayoutInv' /\ TableInv' /\ OopsInv' /\ ForwardInv' /\ FromSlots'
       /\ \A b \in DOMAIN mem' : ~mem'[b].marked
  BY <1>2, BatchFrame
<1>17. Remembered'  BY <1>2 DEF ScanHeap, Remembered, IsOld, IsNew, SlotCard, SlotAddr
\* Between a scan pointer and where it moves lies only a.
<1>18. \A b \in DOMAIN mem :
          /\ InTo(b) /\ b < ts => b < gc.to_scan \/ (b = a /\ a + mem[a].size <= ts)
          /\ IsOld(b) /\ b < os => b < gc.old_scan \/ (b = a /\ a + mem[a].size <= os)
  <2> TAKE b \in DOMAIN mem
  <2>1. b \in Nat /\ a \in Nat /\ mem[a].size \in Nat  BY <1>5
  <2>2. a < b => a + mem[a].size <= b  BY <1>3 DEF Apart
  <2> QED  BY <1>9, <2>1, <2>2
<1>19. ScanBounds'
  <2>1. \A b \in DOMAIN mem :
          /\ IsOld(b) /\ b < gc.old_top_before => b + mem[b].size <= gc.old_top_before
          /\ IsOld(b) /\ b < gc.old_scan => b + mem[b].size <= gc.old_scan
          /\ InTo(b) /\ b < gc.to_scan => b + mem[b].size <= gc.to_scan
    BY <1>2 DEF ScanHeap, ScanBounds
  <2>2. \A b \in DOMAIN mem :
          /\ IsOld(b) /\ b < os => b + mem[b].size <= os
          /\ InTo(b) /\ b < ts => b + mem[b].size <= ts
    <3> TAKE b \in DOMAIN mem
    <3>1. b \in Nat /\ mem[b].size \in Nat  BY <1>5
    <3> QED  BY <1>9, <1>11, <1>18, <2>1, <3>1
  <2>3. /\ gc.old_top_before <= os /\ to.start <= ts  BY <1>9, <1>11
  <2> QED  BY <1>9, <1>11, <1>14, <2>1, <2>2, <2>3 DEF ScanBounds, InTo, IsOld
<1>20. RootSlots'  BY <1>4, <1>14 DEF RootSlots, Roots, InFrom, InTo
<1>21. OldSlots'
  <2>1. \A b \in DOMAIN mem : IsOld(b) /\ b < gc.old_top_before =>
           \A j \in DOMAIN mem[b].slots : ~InFrom(mem[b].slots[j])
    BY <1>1, <1>2 DEF ScanHeap, OldSlots
  <2> QED  BY <1>14, <2>1 DEF OldSlots, InFrom, InTo, IsOld
<1>22. ASSUME NEW j \in DOMAIN mem[a].slots, InFrom(mem[a].slots[j]) PROVE <<a, j>> \in w
  <2>1. mem[a].slots[j] \in Nat  BY <1>5
  <2>2. ~Passes(mem[a].slots[j])  BY <1>3, <1>22, <2>1, Geometry DEF InFrom, IsOld, Passes
  <2> QED  BY <1>7, <2>2
<1>23. ToSlots'
  <2> SUFFICES ASSUME NEW b \in DOMAIN mem, InTo(b), NEW j \in DOMAIN mem[b].slots
               PROVE  IF b < ts THEN InFrom(mem[b].slots[j]) => <<b, j>> \in w
                      ELSE ~InTo(mem[b].slots[j])
    BY <1>14 DEF ToSlots, CopiedSlots, InFrom, InTo
  <2>1. CASE b < ts  BY <1>4, <1>18, <1>22, <2>1
  <2>2. CASE ~(b < ts)
    <3>1. ~(b < gc.to_scan)  BY <1>5, <1>9, <1>11, <2>2
    <3> QED  BY <1>4, <2>2, <3>1
  <2> QED  BY <2>1, <2>2
<1>24. PromotedSlots'
  <2> SUFFICES ASSUME NEW b \in DOMAIN mem, b >= gc.old_top_before, NEW j \in DOMAIN mem[b].slots
               PROVE  IF b < os THEN InFrom(mem[b].slots[j]) => <<b, j>> \in w
                      ELSE ~InTo(mem[b].slots[j])
    BY <1>14 DEF PromotedSlots, CopiedSlots, InFrom, InTo
  <2>1. IsOld(b)  BY <1>5, <1>9 DEF IsOld
  <2>2. CASE b < os  BY <1>4, <1>18, <1>22, <2>1, <2>2
  <2>3. CASE ~(b < os)
    <3>1. ~(b < gc.old_scan)  BY <1>5, <1>9, <1>11, <2>3
    <3> QED  BY <1>4, <2>1, <2>3, <3>1
  <2> QED  BY <2>2, <2>3
<1>25. WorkInv'
  <2> SUFFICES ASSUME NEW s \in w
               PROVE  /\ InFrom(ValueOf(s)) /\ HeapSlot(s)
                      /\ \/ InTo(s[1]) /\ s[1] < ts
                         \/ gc.old_top_before <= s[1] /\ s[1] < os
    BY <1>14 DEF WorkInv, InFrom, InTo, HeapSlot, ValueOf
  <2>1. PICK j \in DOMAIN mem[a].slots : s = <<a, j>> /\ ~Passes(mem[a].slots[j])  BY <1>7
  <2>2. s[1] = a /\ s[2] = j /\ ValueOf(s) = mem[a].slots[j]  BY <1>5, <2>1 DEF ValueOf
  <2>3. ~InTo(mem[a].slots[j])
    <3>1. a = gc.to_scan => ~(a < gc.to_scan)  BY <1>5
    <3>2. a = gc.old_scan => ~(a < gc.old_scan)  BY <1>5
    <3> QED  BY <1>4, <3>1, <3>2
  <2>4. Valid(mem[a].slots[j]) /\ IsNew(mem[a].slots[j])
    BY <1>3, <2>1 DEF OopsInv, Passes, IsNew
  <2>5. InFrom(mem[a].slots[j])  BY <1>3, <2>3, <2>4, YoungLies
  <2>6. (InTo(a) /\ a < ts) \/ (gc.old_top_before <= a /\ a < os)
    <3>1. a \in Nat /\ mem[a].size \in Nat /\ mem[a].size > 0  BY <1>5
    <3> QED  BY <1>9, <3>1
  <2> QED  BY <2>2, <2>5, <2>6 DEF HeapSlot
<1>26. ScanHeap'
  BY <1>16, <1>17, <1>19, <1>20, <1>21, <1>23, <1>24, <1>25 DEF ScanHeap
<1>27. Scanning'  BY <1>14 DEF Scanning
<1> QED  BY <1>15, <1>26, <1>27, ScanAfter

\* The Cheney loop's next object: the scan pointers lie on headers.
LEMMA ScanObjectKeeps ==
    ASSUME HeapInv, ScanObject
    PROVE  HeapInv'
<1>1. InCheneyLoop  BY DEF ScanObject
<1>2. TypeInv /\ ScanHeap  BY <1>1, ScanHas DEF InCheneyLoop, Scanning
<1>3. MemOK /\ SpacesOK /\ Housed /\ AllTiled /\ gc \in Collector
  BY <1>2 DEF TypeInv, ScanHeap, LayoutInv
<1>4. UNCHANGED <<mem, roots, eden_top, from, to, old_top, committed_end, dirty, offsets, request>>
  BY DEF ScanObject, spaceVars, tableVars
<1>5. /\ OldStart <= gc.old_scan /\ to.start <= gc.to_scan
      /\ gc.old_scan \in Nat /\ gc.to_scan \in Nat /\ old_top \in Nat /\ to.top \in Nat
      /\ to.start \in Nat /\ OldStart \in Nat
  <2>1. OldStart <= gc.old_top_before /\ gc.old_top_before <= gc.old_scan /\ to.start <= gc.to_scan
    BY <1>2 DEF ScanHeap, ScanBounds
  <2>2. gc.old_top_before \in Nat /\ gc.old_scan \in Nat /\ gc.to_scan \in Nat  BY <1>3 DEF Collector
  <2> QED  BY <1>3, <2>1, <2>2, Geometry
<1>6. \A b \in DOMAIN mem :
         /\ IsOld(b) /\ b < gc.old_scan => b + mem[b].size <= gc.old_scan
         /\ InTo(b) /\ b < gc.to_scan => b + mem[b].size <= gc.to_scan
  BY <1>2 DEF ScanHeap, ScanBounds
<1>7. CASE /\ gc.to_scan < to.top
           /\ gc' = [gc EXCEPT !.phase = "cheney", !.work = YoungOf(SlotsOf(gc.to_scan)),
                               !.to_scan = @ + mem[@].size]
  <2>1. PICK a : a = gc.to_scan  OBVIOUS
  <2>2. a \in DOMAIN mem /\ InTo(a)
    <3>1. a \in to.start .. to.top - 1  BY <1>5, <1>7, <2>1
    <3>2. PICK b \in DOMAIN mem : to.start <= b /\ b <= a /\ a < b + mem[b].size /\ b + mem[b].size <= to.top
      BY <1>3, <3>1 DEF AllTiled, Tiled
    <3>3. b \in Nat /\ mem[b].size \in Nat /\ mem[b].size > 0  BY <1>3, ObjectIs
    <3>4. InTo(b)  BY <1>5, <3>2, <3>3 DEF InTo
    <3>5. ~(b < a)  BY <1>5, <1>6, <2>1, <3>2, <3>3, <3>4
    <3>6. b = a  BY <1>5, <2>1, <3>2, <3>3, <3>5
    <3> QED  BY <3>4, <3>6
  <2>3. PICK ts, os : ts = a + mem[a].size /\ os = gc.old_scan  OBVIOUS
  <2>4. gc' = [gc EXCEPT !.phase = "cheney", !.work = YoungOf(SlotsOf(a)), !.to_scan = ts, !.old_scan = os]
    BY <1>3, <1>7, <2>1, <2>3 DEF Collector
  <2> QED  BY <1>1, <1>4, <2>1, <2>2, <2>3, <2>4, ObjectScanned
<1>8. CASE /\ gc.to_scan = to.top /\ gc.old_scan < old_top
           /\ gc' = [gc EXCEPT !.phase = "cheney", !.work = YoungOf(SlotsOf(gc.old_scan)),
                               !.old_scan = @ + mem[@].size]
  <2>1. PICK a : a = gc.old_scan  OBVIOUS
  <2>2. a \in DOMAIN mem /\ IsOld(a)
    <3>1. a \in OldStart .. old_top - 1  BY <1>5, <1>8, <2>1
    <3>2. PICK b \in DOMAIN mem : OldStart <= b /\ b <= a /\ a < b + mem[b].size /\ b + mem[b].size <= old_top
      BY <1>3, <3>1 DEF AllTiled, Tiled
    <3>3. b \in Nat /\ mem[b].size \in Nat /\ mem[b].size > 0  BY <1>3, ObjectIs
    <3>4. IsOld(b)  BY <1>5, <3>2, <3>3 DEF IsOld
    <3>5. ~(b < a)  BY <1>5, <1>6, <2>1, <3>2, <3>3, <3>4
    <3>6. b = a  BY <1>5, <2>1, <3>2, <3>3, <3>5
    <3> QED  BY <3>4, <3>6
  <2>3. PICK ts, os : ts = gc.to_scan /\ os = a + mem[a].size  OBVIOUS
  <2>4. gc' = [gc EXCEPT !.phase = "cheney", !.work = YoungOf(SlotsOf(a)), !.to_scan = ts, !.old_scan = os]
    BY <1>3, <1>8, <2>1, <2>3 DEF Collector
  <2> QED  BY <1>1, <1>4, <2>1, <2>2, <2>3, <2>4, ObjectScanned
<1> QED  BY <1>7, <1>8 DEF ScanObject

\* The fixed point: nothing that stays refers to what is given up.
LEMMA FinishScavengeKeeps ==
    ASSUME HeapInv, FinishScavenge
    PROVE  HeapInv'
<1>1. InCheneyLoop /\ gc.to_scan = to.top /\ gc.old_scan = old_top  BY DEF FinishScavenge
<1>2. TypeInv /\ ScanHeap  BY <1>1, ScanHas DEF InCheneyLoop, Scanning
<1>3. MemOK /\ SpacesOK /\ LayoutInv /\ Housed /\ Apart /\ AllTiled /\ OopsInv /\ gc \in Collector
  BY <1>2 DEF TypeInv, ScanHeap, LayoutInv
<1>4. /\ from' = to /\ to' = [start |-> from.start, top |-> from.start] /\ eden_top' = EdenStart
      /\ mem' = [a \in {x \in DOMAIN mem : IsOld(x) \/ (to.start <= x /\ x < to.top)} |-> mem[a]]
      /\ gc' = [NoGC EXCEPT !.phase = gc.then]
      /\ UNCHANGED <<roots, old_top, committed_end, dirty, offsets, request>>
  BY DEF FinishScavenge, tableVars
<1>5. \A a : a \in DOMAIN mem' <=> a \in DOMAIN mem /\ (IsOld(a) \/ InTo(a))  BY <1>4 DEF InTo
<1>6. \A a \in DOMAIN mem' : mem'[a] = mem[a] /\ a \in DOMAIN mem /\ (IsOld(a) \/ InTo(a))
  BY <1>4, <1>5
<1>7. \A a \in DOMAIN mem' : ~InFrom(a)  BY <1>3, <1>6, Kinds
<1>8. /\ \A r \in Roots : ~InFrom(roots[r])
      /\ \A a \in DOMAIN mem : \A j \in DOMAIN mem[a].slots :
            /\ IsOld(a) /\ a < gc.old_scan => ~InFrom(mem[a].slots[j])
            /\ InTo(a) /\ a < gc.to_scan => ~InFrom(mem[a].slots[j])
  BY <1>1, <1>2, CheneyHas
<1>9. \A a \in DOMAIN mem' : \A j \in DOMAIN mem[a].slots : ~InFrom(mem[a].slots[j])
  <2> TAKE a \in DOMAIN mem'
  <2>1. a \in DOMAIN mem /\ (IsOld(a) \/ InTo(a))  BY <1>6
  <2>2. a \in Nat /\ mem[a].size \in Nat /\ mem[a].size > 0 /\ old_top \in Nat
    BY <1>3, <2>1, ObjectIs, Geometry
  <2>3. IsOld(a) => a < old_top
    <3>1. IsOld(a) => a + mem[a].size <= old_top  BY <1>3, <2>1, Kinds DEF Within
    <3> QED  BY <2>2, <3>1
  <2>4. InTo(a) => a < to.top  BY DEF InTo
  <2> QED  BY <1>1, <1>8, <2>1, <2>3, <2>4
<1>10. \A x : Valid(x) /\ ~InFrom(x) => x = 0 \/ x \in DOMAIN mem'
  <2> SUFFICES ASSUME NEW x \in DOMAIN mem, ~InFrom(x) PROVE x \in DOMAIN mem'  BY DEF Valid
  <2>1. IsOld(x) \/ InTo(x)  BY <1>3, Kinds
  <2> QED  BY <1>5, <2>1
<1>11. OopsInv'
  <2>1. \A r \in Roots : roots'[r] = 0 \/ roots'[r] \in DOMAIN mem'
    BY <1>3, <1>4, <1>8, <1>10 DEF OopsInv
  <2>2. \A a \in DOMAIN mem' : \A j \in DOMAIN mem'[a].slots :
           mem'[a].slots[j] = 0 \/ mem'[a].slots[j] \in DOMAIN mem'
    BY <1>3, <1>6, <1>9, <1>10 DEF OopsInv
  <2> QED  BY <2>1, <2>2 DEF OopsInv, Valid
<1>12. SpacesOK'
  <2>1. to \in Spans /\ from \in Spans  BY <1>3 DEF SpacesOK
  <2>2. from.start \in {SurvivorA, SurvivorB} /\ from.start \in Nat  BY <1>3, <2>1, Geometry DEF Spans
  <2>3. to' \in Spans /\ to'.start = from.start /\ to'.top = from.start  BY <1>4, <2>2 DEF Spans
  <2>4. from.start <= from.start + SurvivorWords /\ EdenStart <= EdenStart /\ EdenStart <= EdenStart + EdenWords
        /\ EdenStart \in Nat /\ from.start <= from.start
    BY <1>3, Geometry
  <2> QED  BY <1>3, <1>4, <2>1, <2>3, <2>4 DEF SpacesOK
<1>13. MemOK'
  <2>1. MemIs(mem)  BY <1>3 DEF MemOK
  <2>2. mem' \in [DOMAIN mem' -> Objects]
    <3>1. \A a \in DOMAIN mem' : mem'[a] \in Objects  BY <1>6, <2>1 DEF MemIs
    <3> QED  BY <1>4, <3>1
  <2> QED  BY <1>6, <2>1, <2>2 DEF MemOK, MemIs
<1>14. gc' \in Collector /\ gc'.phase = gc.then /\ gc'.then = "run" /\ gc.then \in Returns
  <2>1. gc.then \in Returns /\ gc.then \in Phases  BY <1>3 DEF Collector, Phases
  <2>2. gc' \in Collector  BY <1>4, <2>1, NoGCIs DEF Collector
  <2> QED  BY <1>4, <2>1, <2>2 DEF NoGC
<1>15. TypeInv'
  <2>1. gc'.phase \in Returns \ {"run"} => request' \in Requests  BY <1>2, <1>4, <1>14 DEF TypeInv
  <2> QED  BY <1>2, <1>4, <1>12, <1>13, <1>14, <2>1 DEF TypeInv
<1>16. LayoutInv'
  <2>1. Apart'  BY <1>3, <1>6 DEF Apart
  <2>2. Housed'
    <3> SUFFICES ASSUME NEW a \in DOMAIN mem'
                 PROVE  \/ from'.start <= a /\ a + mem'[a].size <= from'.top
                        \/ OldStart <= a /\ a + mem'[a].size <= old_top'
      BY DEF Housed, Within
    <3>1. a \in DOMAIN mem /\ mem'[a] = mem[a] /\ (IsOld(a) \/ InTo(a))  BY <1>6
    <3>2. Within(a, OldStart, old_top) \/ Within(a, to.start, to.top)  BY <1>3, <3>1, Kinds
    <3> QED  BY <1>4, <3>1, <3>2 DEF Within
  <2>3. Tiled(EdenStart, eden_top)' /\ Tiled(to.start, to.top)'
    <3>1. to'.start = to'.top /\ to'.top \in Nat /\ EdenStart \in Nat  BY <1>3, <1>4, Geometry
    <3>2. EdenStart .. eden_top' - 1 = {} /\ to'.start .. to'.top - 1 = {}  BY <1>4, <3>1
    <3> QED  BY <3>2 DEF Tiled
  <2>4. Tiled(from.start, from.top)'
    <3> SUFFICES ASSUME NEW w \in to.start .. to.top - 1
                 PROVE  \E a \in DOMAIN mem' : to.start <= a /\ a <= w /\ w < a + mem'[a].size
                                               /\ a + mem'[a].size <= to.top
      BY <1>4 DEF Tiled
    <3>1. PICK a \in DOMAIN mem : to.start <= a /\ a <= w /\ w < a + mem[a].size /\ a + mem[a].size <= to.top
      BY <1>3 DEF AllTiled, Tiled
    <3>2. a \in Nat /\ mem[a].size \in Nat /\ mem[a].size > 0 /\ to.top \in Nat  BY <1>3, ObjectIs, Geometry
    <3>3. InTo(a)  BY <3>1, <3>2 DEF InTo
    <3>4. a \in DOMAIN mem' /\ mem'[a] = mem[a]  BY <1>5, <1>6, <3>3
    <3> QED  BY <3>1, <3>4
  <2>5. Tiled(OldStart, old_top)'
    <3> SUFFICES ASSUME NEW w \in OldStart .. old_top - 1
                 PROVE  \E a \in DOMAIN mem' : OldStart <= a /\ a <= w /\ w < a + mem'[a].size
                                               /\ a + mem'[a].size <= old_top
      BY <1>4 DEF Tiled
    <3>1. PICK a \in DOMAIN mem : OldStart <= a /\ a <= w /\ w < a + mem[a].size /\ a + mem[a].size <= old_top
      BY <1>3 DEF AllTiled, Tiled
    <3>2. a \in Nat  BY <1>3, ObjectIs
    <3>3. IsOld(a)  BY <3>1, <3>2 DEF IsOld
    <3>4. a \in DOMAIN mem' /\ mem'[a] = mem[a]  BY <1>5, <1>6, <3>3
    <3> QED  BY <3>1, <3>4
  <2> QED  BY <2>1, <2>2, <2>3, <2>4, <2>5 DEF LayoutInv, AllTiled
<1>17. TableInv'  BY <1>2, <1>4, <1>6 DEF ScanHeap, TableInv, IsOld
<1>18. Remembered'
  <2> SUFFICES ASSUME NEW a \in DOMAIN mem', IsOld(a), NEW j \in DOMAIN mem'[a].slots,
                      IsNew(mem'[a].slots[j])
               PROVE  SlotCard(a, j)' \in dirty'
    BY DEF Remembered, IsOld, IsNew
  <2>1. a \in DOMAIN mem /\ mem'[a] = mem[a]  BY <1>6
  <2>2. SlotCard(a, j)' = SlotCard(a, j)  BY <2>1, SlotStays
  <2> QED  BY <1>2, <1>4, <2>1, <2>2 DEF ScanHeap, Remembered
<1>19. \A a \in DOMAIN mem' : mem'[a].fwd = 0 /\ ~mem'[a].marked
  BY <1>2, <1>6, <1>7 DEF ScanHeap, ForwardInv
<1>20. to'.top = to'.start  BY <1>4
<1>21. QuietHeap'  BY <1>11, <1>16, <1>17, <1>18, <1>19, <1>20 DEF QuietHeap
<1>22. Quiet'  BY <1>14 DEF Quiet
<1> QED  BY <1>15, <1>21, <1>22, QuietAfter

\* A step of the scavenger keeps the heap.
LEMMA ScavengeStepKeeps ==
    ASSUME HeapInv, ScavengeStep
    PROVE  HeapInv'
BY ScavengeSlotKeeps, ScavengeStallKeeps, NextCardKeeps, CardsDoneKeeps, ScanObjectKeeps,
   FinishScavengeKeeps DEF ScavengeStep

-----------------------------------------------------------------------------
(* Marking. *)

\* Every object lies below the end of the reservation.
LEMMA BelowEnd ==
    ASSUME MemOK, SpacesOK, Housed, NEW a \in DOMAIN mem
    PROVE  a \in 0 .. OldEnd /\ EdenStart <= a /\ a + mem[a].size <= OldEnd
<1>1. a \in Nat /\ mem[a].size \in Nat /\ mem[a].size > 0  BY ObjectIs
<1>2. \/ EdenStart <= a /\ a + mem[a].size <= eden_top
      \/ from.start <= a /\ a + mem[a].size <= from.top
      \/ to.start <= a /\ a + mem[a].size <= to.top
      \/ OldStart <= a /\ a + mem[a].size <= old_top
  BY DEF Housed, Within
<1> QED  BY <1>1, <1>2, Geometry

\* One object of the worklist: what it refers to is marked and pushed.
LEMMA MarkObjectKeeps ==
    ASSUME HeapInv, MarkObject
    PROVE  HeapInv'
<1>1. gc.phase = "mark" /\ gc.gray # {}  BY DEF MarkObject
<1>2. TypeInv /\ MarkHeap /\ MemOK /\ SpacesOK /\ Housed /\ OopsInv
  BY <1>1, MarkHas DEF TypeInv, MarkHeap, LayoutInv
<1>3. PICK a : a = Max(gc.gray)  OBVIOUS
<1>4. a \in gc.gray
  <2>1. gc.gray \subseteq DOMAIN mem  BY <1>2 DEF MarkHeap, Live
  <2>2. gc.gray \in SUBSET (0 .. OldEnd)  BY <1>2, <2>1, BelowEnd
  <2>3. OldEnd \in Nat  BY <1>2, Geometry
  <2>4. PICK m \in gc.gray : \A j \in gc.gray : j <= m  BY <1>1, <2>2, <2>3, Greatest
  <2>5. \A j \in gc.gray : m >= j  BY <2>2, <2>4
  <2> QED  BY <1>3, <2>5 DEF Max
<1>5. a \in DOMAIN mem /\ mem[a].marked  BY <1>2, <1>4 DEF MarkHeap, Live
<1>6. PICK new : new = {v \in Targets({mem[a].slots[j] : j \in DOMAIN mem[a].slots}) : ~mem[v].marked}
  OBVIOUS
<1>7. /\ mem' = PushAll(mem, new) /\ gc' = [gc EXCEPT !.gray = (@ \ {a}) \cup new]
      /\ UNCHANGED <<roots, eden_top, from, to, old_top, committed_end, dirty, offsets, request>>
  BY <1>3, <1>6 DEF MarkObject, spaceVars, tableVars
<1>8. \A v : v \in new <=> v # 0 /\ ~mem[v].marked /\ \E j \in DOMAIN mem[a].slots : v = mem[a].slots[j]
  BY <1>6 DEF Targets
<1>9. new \subseteq DOMAIN mem /\ new \subseteq Nat
  <2>1. new \subseteq DOMAIN mem  BY <1>2, <1>5, <1>8 DEF OopsInv, Valid
  <2> QED  BY <1>2, <2>1, ObjectIs
<1>10. gc \in Collector  BY <1>2 DEF TypeInv
<1>11. /\ gc'.phase = "mark" /\ gc'.gray = (gc.gray \ {a}) \cup new /\ gc'.placed = gc.placed
       /\ gc'.then = gc.then
  BY <1>1, <1>7, <1>10 DEF Collector
<1>12. gc' \in Collector
  <2>1. (gc.gray \ {a}) \cup new \in SUBSET Nat  BY <1>9, <1>10 DEF Collector
  <2> QED  BY <1>7, <1>10, <2>1 DEF Collector
<1>13. MemIs(mem') /\ MarkedAs(mem, mem', new)  BY <1>2, <1>7, Pushed DEF MemOK
<1>14. TypeInv'
  <2>1. gc'.phase \notin Returns  BY <1>11 DEF Returns
  <2>2. SpacesOK'  BY <1>2, <1>7 DEF SpacesOK
  <2>3. roots' \in [Roots -> Nat] /\ dirty' \subseteq Cards /\ MemOK'
    BY <1>2, <1>7, <1>13 DEF TypeInv, MemOK
  <2>4. gc'.then # "run" => request' \in Requests  BY <1>2, <1>7, <1>11 DEF TypeInv
  <2> QED  BY <1>12, <2>1, <2>2, <2>3, <2>4 DEF TypeInv
<1>15. LayoutInv' /\ TableInv' /\ OopsInv'  BY <1>2, <1>7, <1>13, MarkedKeeps DEF MarkHeap
<1>16. Live' = Live \cup new
  <2>1. \A b \in DOMAIN mem : mem'[b].marked = (mem[b].marked \/ b \in new)  BY <1>13 DEF MarkedAs
  <2>2. DOMAIN mem' = DOMAIN mem  BY <1>13 DEF MarkedAs
  <2> QED  BY <1>9, <2>1, <2>2 DEF Live
<1>17. \A b \in DOMAIN mem' : mem'[b].fwd = 0  BY <1>2, <1>13 DEF MarkHeap, MarkedAs
<1>18. gc'.gray \subseteq Live'  BY <1>2, <1>11, <1>16 DEF MarkHeap
<1>19. \A r \in Roots : roots'[r] # 0 => roots'[r] \in Live'  BY <1>2, <1>7, <1>16 DEF MarkHeap
<1>20. ASSUME NEW b \in Live' \ gc'.gray, NEW j \in DOMAIN mem'[b].slots, mem'[b].slots[j] # 0
       PROVE  mem'[b].slots[j] \in Live'
  <2>1. b \in Live /\ (b = a \/ b \notin gc.gray)  BY <1>11, <1>16, <1>20
  <2>2. b \in DOMAIN mem  BY <2>1 DEF Live
  <2>3. mem'[b].slots = mem[b].slots  BY <1>13, <2>2 DEF MarkedAs
  <2>4. CASE b = a
    <3>1. PICK v : v = mem[a].slots[j]  OBVIOUS
    <3>2. v # 0 /\ j \in DOMAIN mem[a].slots  BY <1>20, <2>3, <2>4, <3>1
    <3>3. v \in DOMAIN mem  BY <1>2, <1>5, <3>1, <3>2 DEF OopsInv, Valid
    <3>4. mem[v].marked \/ v \in new  BY <1>8, <3>1, <3>2
    <3>5. v \in Live \cup new  BY <3>3, <3>4 DEF Live
    <3> QED  BY <1>16, <2>3, <2>4, <3>1, <3>5
  <2>5. CASE b \notin gc.gray
    BY <1>2, <1>16, <1>20, <2>1, <2>3, <2>5 DEF MarkHeap
  <2> QED  BY <2>1, <2>4, <2>5
<1>21. MarkHeap'
  <2>1. to'.top = to'.start /\ gc'.placed = {}  BY <1>2, <1>7, <1>11 DEF MarkHeap
  <2> QED  BY <1>15, <1>17, <1>18, <1>19, <1>20, <2>1 DEF MarkHeap
<1> QED  BY <1>11, <1>14, <1>21, MarkAfter

-----------------------------------------------------------------------------
(* Where the compaction puts the live objects. *)

\* A word of a live object, and stretches of only such words or of none.
LiveWord(w) == \E c \in Live : c <= w /\ w < c + mem[c].size
AllLive(a, b) == \A w \in a .. b - 1 : LiveWord(w)
NoneLive(a, b) == \A w \in a .. b - 1 : ~LiveWord(w)

\* The number of live words behind the walk, before and after a stretch of it.
LEMMA WordsCounted ==
    ASSUME NEW start \in Nat, NEW a \in Nat, NEW b \in Nat, start <= a, a <= b
    PROVE  \E x, y \in Nat :
              /\ CompactionPointer(start, a) = start + x /\ start + x <= a
              /\ CompactionPointer(start, b) = start + x + y
              /\ AllLive(a, b) => y = b - a
              /\ NoneLive(a, b) => y = 0
<1>1. PICK W : W = {w \in Nat : LiveWord(w)}  OBVIOUS
<1>2. PICK A, B, D, I, J : /\ A = LiveWords(start, a) /\ B = LiveWords(start, b)
                           /\ D = W \cap (a .. b - 1) /\ I = start .. a - 1 /\ J = a .. b - 1
  OBVIOUS
<1>3. A = W \cap (start .. a - 1) /\ B = W \cap (start .. b - 1)
  BY <1>1, <1>2 DEF LiveWords, LiveWord
<1>4. B = A \cup D /\ A \cap D = {} /\ A \in SUBSET I /\ D \in SUBSET J
  BY <1>2, <1>3
<1>5. /\ IsFiniteSet(I) /\ Cardinality(I) = a - start
      /\ IsFiniteSet(J) /\ Cardinality(J) = b - a
  <2>1. PICK k, l \in Int : k = a - 1 /\ l = b - 1  OBVIOUS
  <2>2. I = start .. k /\ J = a .. l  BY <1>2, <2>1
  <2>3. IsFiniteSet(I) /\ Cardinality(I) = IF start > k THEN 0 ELSE k - start + 1  BY <2>2, FS_Interval
  <2>4. IsFiniteSet(J) /\ Cardinality(J) = IF a > l THEN 0 ELSE l - a + 1  BY <2>2, FS_Interval
  <2> QED  BY <2>1, <2>3, <2>4
<1>6. /\ IsFiniteSet(A) /\ Cardinality(A) <= a - start /\ IsFiniteSet(D)
  <2>1. IsFiniteSet(A) /\ Cardinality(A) <= Cardinality(I)  BY <1>4, <1>5, FS_Subset
  <2>2. IsFiniteSet(D)  BY <1>4, <1>5, FS_Subset
  <2> QED  BY <1>5, <2>1, <2>2
<1>7. Cardinality(A) \in Nat /\ Cardinality(D) \in Nat  BY <1>6, FS_CardinalityType
<1>8. Cardinality(B) = Cardinality(A) + Cardinality(D)
  <2>1. Cardinality(A \cap D) = 0  BY <1>4, FS_EmptySet
  <2>2. Cardinality(A \cup D) = Cardinality(A) + Cardinality(D) - Cardinality(A \cap D)
    BY <1>6, FS_Union
  <2> QED  BY <1>4, <1>7, <2>1, <2>2
<1>9. /\ CompactionPointer(start, a) = start + Cardinality(A)
      /\ CompactionPointer(start, b) = start + Cardinality(B)
  BY <1>2 DEF CompactionPointer
<1>10. ASSUME AllLive(a, b)
       PROVE  Cardinality(D) = b - a
  <2>1. J \subseteq W  BY <1>1, <1>2, <1>10 DEF AllLive
  <2>2. D = J  BY <1>2, <2>1
  <2> QED  BY <1>5, <2>2
<1>11. ASSUME NoneLive(a, b)
       PROVE  Cardinality(D) = 0
  <2>1. D = {}  BY <1>1, <1>2, <1>11 DEF NoneLive
  <2> QED  BY <2>1, FS_EmptySet
<1>12. PICK x, y \in Nat : x = Cardinality(A) /\ y = Cardinality(D)  BY <1>7
<1>13. /\ CompactionPointer(start, a) = start + x /\ CompactionPointer(start, b) = start + x + y
       /\ start + x <= a
  BY <1>6, <1>8, <1>9, <1>12
<1>14. AllLive(a, b) => y = b - a  BY <1>10, <1>12
<1>15. NoneLive(a, b) => y = 0  BY <1>11, <1>12
<1> QED  BY <1>12, <1>13, <1>14, <1>15

\* The compaction pointer never overtakes the walk and never goes back.
LEMMA PointerAdvances ==
    ASSUME NEW start \in Nat, NEW a \in Nat, NEW b \in Nat, start <= a, a <= b
    PROVE  /\ CompactionPointer(start, a) \in Nat
           /\ start <= CompactionPointer(start, a) /\ CompactionPointer(start, a) <= a
           /\ CompactionPointer(start, a) <= CompactionPointer(start, b)
<1>1. PICK x, y \in Nat :
         /\ CompactionPointer(start, a) = start + x /\ start + x <= a
         /\ CompactionPointer(start, b) = start + x + y
         /\ AllLive(a, b) => y = b - a
         /\ NoneLive(a, b) => y = 0
  BY WordsCounted
<1> QED  BY <1>1

\* It advances with the walk over live words.
LEMMA PointerOverLive ==
    ASSUME NEW start \in Nat, NEW a \in Nat, NEW b \in Nat, start <= a, a <= b, AllLive(a, b)
    PROVE  CompactionPointer(start, b) = CompactionPointer(start, a) + (b - a)
<1>1. PICK x, y \in Nat :
         /\ CompactionPointer(start, a) = start + x /\ start + x <= a
         /\ CompactionPointer(start, b) = start + x + y
         /\ AllLive(a, b) => y = b - a
         /\ NoneLive(a, b) => y = 0
  BY WordsCounted
<1> QED  BY <1>1

\* It stays where it is over dead words.
LEMMA PointerOverDead ==
    ASSUME NEW start \in Nat, NEW a \in Nat, NEW b \in Nat, start <= a, a <= b, NoneLive(a, b)
    PROVE  CompactionPointer(start, b) = CompactionPointer(start, a)
<1>1. PICK x, y \in Nat :
         /\ CompactionPointer(start, a) = start + x /\ start + x <= a
         /\ CompactionPointer(start, b) = start + x + y
         /\ AllLive(a, b) => y = b - a
         /\ NoneLive(a, b) => y = 0
  BY WordsCounted
<1> QED  BY <1>1

\* The words of a live object.
LEMMA ObjectLive ==
    ASSUME MemOK, NEW a \in Live, NEW b \in Nat, b <= a + mem[a].size
    PROVE  AllLive(a, b)
<1>1. a \in DOMAIN mem  BY DEF Live
<1>2. a \in Nat /\ mem[a].size \in Nat  BY <1>1, ObjectIs
<1>3. ASSUME NEW w \in a .. b - 1
      PROVE  LiveWord(w)
  <2>1. a <= w /\ w < a + mem[a].size  BY <1>2
  <2> QED  BY <2>1 DEF LiveWord
<1> QED  BY <1>3 DEF AllLive

\* The three spaces a full collection compacts.
IsSpace(start, top) ==
    \/ start = EdenStart /\ top = eden_top
    \/ start = from.start /\ top = from.top
    \/ start = OldStart /\ top = old_top

\* An object that holds a word of a space lies in that space.
LEMMA LiesIn ==
    ASSUME MemOK, SpacesOK, Housed, to.top = to.start, NEW start, NEW top, IsSpace(start, top),
           NEW b \in DOMAIN mem, NEW x \in Nat, start <= x, x < top, b <= x, x < b + mem[b].size
    PROVE  start <= b /\ b + mem[b].size <= top /\ Bottom(b) = start
<1>1. b \in Nat /\ mem[b].size \in Nat /\ mem[b].size > 0  BY ObjectIs
<1>2. \/ EdenStart <= b /\ b + mem[b].size <= eden_top
      \/ from.start <= b /\ b + mem[b].size <= from.top
      \/ to.start <= b /\ b + mem[b].size <= to.top
      \/ OldStart <= b /\ b + mem[b].size <= old_top
  BY DEF Housed, Within
<1>3. PICK n \in Nat : n = mem[b].size /\ n > 0  BY <1>1
<1>4. CASE start = EdenStart /\ top = eden_top
  <2>1. start <= b /\ b + n <= top  BY <1>1, <1>2, <1>3, <1>4, Geometry
  <2>2. ~IsOld(b) /\ InSpace(b, EdenStart, EdenStart + EdenWords)
    BY <1>1, <1>3, <1>4, <2>1, Geometry DEF IsOld, InSpace
  <2> QED  BY <1>3, <1>4, <2>1, <2>2 DEF Bottom
<1>5. CASE start = from.start /\ top = from.top
  <2>1. start <= b /\ b + n <= top  BY <1>1, <1>2, <1>3, <1>5, Geometry
  <2>2. ~IsOld(b) /\ ~InSpace(b, EdenStart, EdenStart + EdenWords)
    BY <1>1, <1>3, <1>5, <2>1, Geometry DEF IsOld, InSpace
  <2> QED  BY <1>3, <1>5, <2>1, <2>2 DEF Bottom
<1>6. CASE start = OldStart /\ top = old_top
  <2>1. start <= b /\ b + n <= top  BY <1>1, <1>2, <1>3, <1>6, Geometry
  <2>2. OldStart <= b  BY <1>6, <2>1
  <2>3. IsOld(b)  BY <1>1, <2>2, OldAssumption DEF IsOld
  <2>4. ~InSpace(b, EdenStart, EdenStart + EdenWords)  BY <1>1, <2>2, Geometry DEF InSpace
  <2>5. Bottom(b) = OldStart  BY <2>3, <2>4 DEF Bottom
  <2> QED  BY <1>3, <1>6, <2>1, <2>5
<1> QED  BY <1>4, <1>5, <1>6 DEF IsSpace

\* Where the live object at a goes: down, within its space.
LEMMA PlaceIs ==
    ASSUME MemOK, SpacesOK, Housed, to.top = to.start, NEW a \in Live
    PROVE  /\ a \in DOMAIN mem /\ NewPlace(a) \in Nat /\ NewPlace(a) <= a
           /\ \E start, top : /\ IsSpace(start, top) /\ start \in Nat /\ top \in Nat
                              /\ start <= a /\ a + mem[a].size <= top
                              /\ NewPlace(a) = CompactionPointer(start, a)
                              /\ start <= NewPlace(a)
                              /\ NewPlace(a) + mem[a].size = CompactionPointer(start, a + mem[a].size)
                              /\ NewPlace(a) + mem[a].size <= CompactionPointer(start, top)
<1>1. a \in DOMAIN mem  BY DEF Live
<1>2. a \in Nat /\ mem[a].size \in Nat /\ mem[a].size > 0  BY <1>1, ObjectIs
<1>3. \/ Within(a, EdenStart, eden_top) \/ Within(a, from.start, from.top) \/ Within(a, OldStart, old_top)
  <2>1. Within(a, EdenStart, eden_top) \/ Within(a, from.start, from.top) \/ Within(a, OldStart, old_top)
        \/ Within(a, to.start, to.top)
    BY <1>1 DEF Housed
  <2>2. ~Within(a, to.start, to.top)  BY <1>2, Geometry DEF Within
  <2> QED  BY <2>1, <2>2
<1>4. PICK start, top : IsSpace(start, top) /\ start <= a /\ a + mem[a].size <= top
  BY <1>3 DEF IsSpace, Within
<1>5. start \in Nat /\ top \in Nat  BY <1>4, Geometry DEF IsSpace
<1>6. PICK z \in Nat : z = a + mem[a].size /\ a < z /\ z <= top  BY <1>2, <1>4
<1>7. Bottom(a) = start  BY <1>1, <1>2, <1>4, <1>5, <1>6, LiesIn
<1>8. NewPlace(a) = CompactionPointer(start, a)  BY <1>7 DEF NewPlace
<1>9. AllLive(a, z)  BY <1>2, <1>6, ObjectLive
<1>10. /\ CompactionPointer(start, a) \in Nat /\ start <= CompactionPointer(start, a)
       /\ CompactionPointer(start, a) <= a
       /\ CompactionPointer(start, z) = CompactionPointer(start, a) + (z - a)
  <2>1. /\ CompactionPointer(start, a) \in Nat /\ start <= CompactionPointer(start, a)
        /\ CompactionPointer(start, a) <= a
    BY <1>2, <1>4, <1>5, PointerAdvances
  <2>2. a <= z  BY <1>2, <1>6
  <2>3. CompactionPointer(start, z) = CompactionPointer(start, a) + (z - a)
    BY <1>2, <1>4, <1>5, <1>6, <1>9, <2>2, PointerOverLive
  <2> QED  BY <2>1, <2>3
<1>11. CompactionPointer(start, z) <= CompactionPointer(start, top)
  BY <1>2, <1>4, <1>5, <1>6, PointerAdvances
<1>12. NewPlace(a) + mem[a].size = CompactionPointer(start, z)  BY <1>2, <1>6, <1>8, <1>10
<1> QED  BY <1>1, <1>4, <1>5, <1>6, <1>8, <1>10, <1>11, <1>12

\* Live objects keep their order and stay apart.
LEMMA PlacesApart ==
    ASSUME MemOK, SpacesOK, LayoutInv, to.top = to.start, NEW a \in Live, NEW b \in Live, a < b
    PROVE  a + mem[a].size <= b /\ NewPlace(a) + mem[a].size <= NewPlace(b)
<1>1. Housed /\ a \in DOMAIN mem /\ b \in DOMAIN mem  BY DEF LayoutInv, Live
<1>2. /\ a \in Nat /\ b \in Nat /\ mem[a].size \in Nat /\ mem[a].size > 0
      /\ mem[b].size \in Nat /\ mem[b].size > 0
  BY <1>1, ObjectIs
<1>3. a + mem[a].size <= b  BY <1>1 DEF LayoutInv, Apart
<1>4. PICK s, t : /\ IsSpace(s, t) /\ s \in Nat /\ t \in Nat /\ s <= a /\ a + mem[a].size <= t
                  /\ NewPlace(a) + mem[a].size = CompactionPointer(s, a + mem[a].size)
  BY <1>1, PlaceIs
<1>5. PICK u, v : /\ IsSpace(u, v) /\ u \in Nat /\ v \in Nat /\ u <= b /\ b + mem[b].size <= v
                  /\ NewPlace(b) = CompactionPointer(u, b) /\ u <= NewPlace(b)
  BY <1>1, PlaceIs
<1>6. NewPlace(a) \in Nat /\ NewPlace(a) <= a /\ NewPlace(b) \in Nat  BY <1>1, PlaceIs
<1>7. CASE s = u
  <2>1. PICK z \in Nat : z = a + mem[a].size /\ s <= z /\ z <= b  BY <1>2, <1>3, <1>4
  <2>2. CompactionPointer(s, z) <= CompactionPointer(s, b)  BY <1>2, <1>4, <2>1, PointerAdvances
  <2> QED  BY <1>3, <1>4, <1>5, <1>7, <2>1, <2>2
<1>8. CASE s # u
  <2>1. t <= u \/ v <= s  BY <1>4, <1>5, <1>8, Geometry DEF IsSpace
  <2>2. t <= u  BY <1>2, <1>3, <1>4, <1>5, <2>1
  <2> QED  BY <1>2, <1>3, <1>4, <1>5, <1>6, <2>2
<1> QED  BY <1>7, <1>8

\* Every word below a new top is taken by a live object.
LEMMA PlacesFill ==
    ASSUME MemOK, SpacesOK, Housed, to.top = to.start, NEW start, NEW top, IsSpace(start, top),
           NEW w \in start .. CompactionPointer(start, top) - 1
    PROVE  \E a \in Live : /\ start <= a /\ a + mem[a].size <= top
                           /\ start <= NewPlace(a) /\ NewPlace(a) <= w
                           /\ w < NewPlace(a) + mem[a].size
                           /\ NewPlace(a) + mem[a].size <= CompactionPointer(start, top)
<1>1. start \in Nat /\ top \in Nat /\ start <= top  BY Geometry DEF IsSpace
<1>2. CompactionPointer(start, top) \in Nat
  <2>1. top <= top  BY <1>1
  <2> QED  BY ONLY <1>1, <2>1, PointerAdvances, ZenonT(30)
<1>3. w \in Nat /\ start <= w /\ w < CompactionPointer(start, top)  BY <1>1, <1>2
<1>4. PICK T : T = {x \in start .. top : CompactionPointer(start, x) <= w}  OBVIOUS
<1>5. start \in T
  <2>1. CompactionPointer(start, start) <= start  BY <1>1, PointerAdvances
  <2>2. CompactionPointer(start, start) \in Nat  BY <1>1, PointerAdvances
  <2> QED  BY <1>1, <1>3, <1>4, <2>1, <2>2
<1>6. T \in SUBSET (0 .. top)  BY <1>1, <1>4
<1>7. PICK x \in T : \A j \in T : j <= x  BY <1>1, <1>5, <1>6, Greatest
<1>8. x \in Nat /\ start <= x /\ x <= top /\ CompactionPointer(start, x) <= w  BY <1>1, <1>4
<1>9. x # top  BY <1>2, <1>3, <1>8
<1>10. PICK y \in Nat : y = x + 1 /\ y \in start .. top  BY <1>1, <1>8, <1>9
<1>11. CompactionPointer(start, y) > w
  <2>1. y \notin T  BY <1>7, <1>8, <1>10
  <2>2. CompactionPointer(start, y) \in Nat  BY <1>1, <1>10, PointerAdvances
  <2> QED  BY <1>3, <1>4, <1>10, <2>1, <2>2
<1>12. LiveWord(x)
  <2> SUFFICES ASSUME ~LiveWord(x) PROVE FALSE  OBVIOUS
  <2>1. \A i \in x .. y - 1 : i = x  BY <1>8, <1>10
  <2>2. NoneLive(x, y)  BY <2>1 DEF NoneLive
  <2>3. x <= y  BY <1>8, <1>10
  <2>4. CompactionPointer(start, y) = CompactionPointer(start, x)
    BY <1>1, <1>8, <2>2, <2>3, PointerOverDead
  <2>5. CompactionPointer(start, x) \in Nat  BY <1>1, <1>8, PointerAdvances
  <2> QED  BY <1>3, <1>8, <1>11, <2>4, <2>5
<1>13. PICK a \in Live : a <= x /\ x < a + mem[a].size  BY <1>12 DEF LiveWord
<1>14. a \in DOMAIN mem  BY DEF Live
<1>15. a \in Nat /\ mem[a].size \in Nat /\ mem[a].size > 0  BY <1>14, ObjectIs
<1>16. start <= a /\ a + mem[a].size <= top /\ Bottom(a) = start
  <2>1. x < top  BY <1>1, <1>8, <1>9
  <2> QED  BY <1>1, <1>8, <1>13, <1>14, <2>1, LiesIn
<1>17. NewPlace(a) = CompactionPointer(start, a)  BY <1>16 DEF NewPlace
<1>18. PICK z \in Nat : z = a + mem[a].size /\ z <= top /\ y <= z /\ a <= z /\ a <= y
  BY <1>1, <1>8, <1>10, <1>13, <1>15, <1>16
<1>19. CompactionPointer(start, a) \in Nat /\ start <= CompactionPointer(start, a)
  BY <1>1, <1>15, <1>16, PointerAdvances
<1>20. AllLive(a, x) /\ AllLive(a, y) /\ AllLive(a, z)
  <2>1. x <= a + mem[a].size /\ y <= a + mem[a].size /\ z <= a + mem[a].size
    BY <1>8, <1>10, <1>13, <1>15, <1>18
  <2> QED  BY <1>8, <1>10, <1>18, <2>1, ObjectLive
<1>21. /\ CompactionPointer(start, x) = CompactionPointer(start, a) + (x - a)
       /\ CompactionPointer(start, y) = CompactionPointer(start, a) + (y - a)
       /\ CompactionPointer(start, z) = CompactionPointer(start, a) + (z - a)
  BY <1>1, <1>8, <1>10, <1>13, <1>15, <1>16, <1>18, <1>20, PointerOverLive
<1>22. NewPlace(a) + mem[a].size <= CompactionPointer(start, top)
  <2>1. start <= z  BY <1>1, <1>15, <1>16, <1>18
  <2>2. CompactionPointer(start, z) <= CompactionPointer(start, top)
    BY <1>1, <1>18, <2>1, PointerAdvances
  <2> QED  BY <1>15, <1>17, <1>18, <1>19, <1>21, <2>2
<1>23. NewPlace(a) <= w /\ w < NewPlace(a) + mem[a].size
  <2>1. PICK p, n \in Nat : p = CompactionPointer(start, a) /\ n = mem[a].size  BY <1>15, <1>19
  <2>2. p + (x - a) <= w /\ p + (y - a) > w  BY <1>8, <1>11, <1>21, <2>1
  <2>3. p <= w /\ w < p + n  BY <1>3, <1>8, <1>10, <1>13, <1>15, <2>1, <2>2
  <2> QED  BY <1>17, <2>1, <2>3
<1> QED  BY <1>16, <1>17, <1>19, <1>22, <1>23

-----------------------------------------------------------------------------
(* Forwarding and rewriting. *)

\* What the invariant says before the references are rewritten.
LEMMA RewriteHas ==
    ASSUME HeapInv, gc.phase = "rewrite"
    PROVE  /\ TypeInv /\ LayoutInv /\ TableInv /\ OopsInv /\ to.top = to.start
           /\ PlanHeap /\ RewriteHeap
<1>1. Walkable  BY DEF Walkable
<1> QED  BY <1>1 DEF HeapInv, WalkInv, CleanInv, PlanInv, RewriteInv

\* And what has to be shown for it.
LEMMA RewriteAfter ==
    ASSUME TypeInv', gc'.phase = "rewrite", LayoutInv', TableInv', OopsInv', to'.top = to'.start,
           PlanHeap', RewriteHeap'
    PROVE  HeapInv'
<1>1. gc'.phase \notin {"roots", "card", "code", "cheney", "mark", "slide"} /\ gc'.phase \notin Returns
  BY DEF Returns
<1>2. ~Scanning' /\ ~Quiet'  BY <1>1 DEF Scanning, Quiet
<1>3. WalkInv' /\ RememberInv' /\ ScanInv'  BY <1>2 DEF WalkInv, RememberInv, ScanInv
<1>4. CleanInv'  BY <1>2 DEF CleanInv
<1>5. PlanInv' /\ RewriteInv'  BY DEF PlanInv, RewriteInv
<1>6. MarkInv' /\ SlideInv'  BY <1>1 DEF MarkInv, SlideInv
<1> QED  BY <1>3, <1>4, <1>5, <1>6 DEF HeapInv

\* The forwarding words take the place of the marks; nothing else changes.
ForwardedAs(m, m2, live) ==
    /\ DOMAIN m2 = DOMAIN m
    /\ \A a \in DOMAIN m :
          /\ m2[a].size = m[a].size /\ m2[a].slots = m[a].slots
          /\ m2[a].fwd = IF a \in live THEN NewPlace(a) ELSE m[a].fwd
          /\ m2[a].id = m[a].id /\ m2[a].age = IF a \in live THEN 0 ELSE m[a].age

\* forwarding_compute keeps a memory of objects one.
LEMMA ForwardWords ==
    ASSUME MemOK, NEW m2, \A a \in Live : NewPlace(a) \in Nat,
           m2 = [a \in DOMAIN mem |->
                   IF a \in Live THEN [mem[a] EXCEPT !.fwd = NewPlace(a), !.marked = FALSE, !.age = 0]
                   ELSE mem[a]]
    PROVE  MemIs(m2) /\ ForwardedAs(mem, m2, Live)
<1>1. ASSUME NEW a \in DOMAIN mem
      PROVE  /\ m2[a] \in Objects /\ m2[a].size = mem[a].size /\ m2[a].slots = mem[a].slots
             /\ m2[a].fwd = IF a \in Live THEN NewPlace(a) ELSE mem[a].fwd
             /\ m2[a].id = mem[a].id /\ m2[a].age = IF a \in Live THEN 0 ELSE mem[a].age
  <2>1. mem[a] \in Objects  BY ObjectIs
  <2>2. CASE a \in Live
    <3>1. PICK p \in Nat : p = NewPlace(a)  BY <2>2
    <3>2. m2[a] = [mem[a] EXCEPT !.fwd = p, !.marked = FALSE, !.age = 0]  BY <2>2, <3>1
    <3> QED  BY <2>1, <2>2, <3>1, <3>2 DEF Objects
  <2>3. CASE a \notin Live
    <3>1. m2[a] = mem[a]  BY <2>3
    <3> QED  BY <2>1, <2>3, <3>1
  <2> QED  BY <2>2, <2>3
<1>2. DOMAIN m2 = DOMAIN mem /\ m2 = [a \in DOMAIN m2 |-> m2[a]]  OBVIOUS
<1>3. m2 \in [DOMAIN m2 -> Objects]  BY <1>1, <1>2
<1>4. DOMAIN m2 \subseteq Nat \ {0} /\ \A a \in DOMAIN m2 : Len(m2[a].slots) < m2[a].size
  BY <1>1, <1>2 DEF MemOK, MemIs
<1> QED  BY <1>1, <1>2, <1>3, <1>4 DEF MemIs, ForwardedAs

\* The entry of a live object.
LEMMA EntryIs ==
    ASSUME MemOK, NEW a \in Live, NewPlace(a) \in Nat, NEW e,
           e = [old |-> a, new |-> NewPlace(a), size |-> mem[a].size, age |-> mem[a].age]
    PROVE  /\ e \in Moves /\ e.old = a /\ e.new = NewPlace(a) /\ e.size = mem[a].size
           /\ e.age = mem[a].age
<1>1. a \in DOMAIN mem  BY DEF Live
<1>2. a \in Nat /\ mem[a].size \in Nat \ {0} /\ mem[a].age \in Nat  BY <1>1, ObjectIs
<1> QED  BY <1>2 DEF Moves

\* The plan of forwarding_compute is one: it goes down, in order, without overlap or gap.
LEMMA ForwardingComputeKeeps ==
    ASSUME HeapInv, ForwardingCompute
    PROVE  HeapInv'
<1>1. gc.phase = "mark" /\ gc.gray = {}  BY DEF ForwardingCompute
<1>2. TypeInv /\ MarkHeap /\ MemOK /\ SpacesOK /\ LayoutInv /\ Housed /\ OopsInv /\ to.top = to.start
  BY <1>1, MarkHas DEF TypeInv, MarkHeap, LayoutInv
<1>3. PICK P : P = {[old |-> a, new |-> NewPlace(a), size |-> mem[a].size, age |-> mem[a].age] : a \in Live}
  OBVIOUS
<1>4. /\ gc' = [gc EXCEPT !.phase = "rewrite", !.tops = NewTops, !.plan = P]
      /\ UNCHANGED <<roots, eden_top, from, to, old_top, committed_end, dirty, offsets, request>>
  BY <1>3 DEF ForwardingCompute, spaceVars, tableVars
<1>5. \A a \in Live : a \in DOMAIN mem /\ NewPlace(a) \in Nat /\ NewPlace(a) <= a
  BY <1>2, PlaceIs
<1>6. \A e \in P : \E a \in Live : e \in Moves /\ e.old = a /\ e.new = NewPlace(a) /\ e.size = mem[a].size
  BY <1>2, <1>3, <1>5, EntryIs
<1>7. \A e, f \in P : e.old = f.old => e = f
  <2> SUFFICES ASSUME NEW e \in P, NEW f \in P, e.old = f.old PROVE e = f  OBVIOUS
  <2>1. PICK a \in Live : e = [old |-> a, new |-> NewPlace(a), size |-> mem[a].size, age |-> mem[a].age]
    BY <1>3
  <2>2. PICK b \in Live : f = [old |-> b, new |-> NewPlace(b), size |-> mem[b].size, age |-> mem[b].age]
    BY <1>3
  <2>3. e.old = a /\ f.old = b  BY <2>1, <2>2
  <2> QED  BY <2>1, <2>2, <2>3
<1>8. \A a \in Live : \E e \in P : e.old = a /\ e.new = NewPlace(a) /\ e.size = mem[a].size
  <2> TAKE a \in Live
  <2>1. PICK e : e = [old |-> a, new |-> NewPlace(a), size |-> mem[a].size, age |-> mem[a].age]
    OBVIOUS
  <2>2. e \in P  BY <1>3, <2>1
  <2>3. e.old = a /\ e.new = NewPlace(a) /\ e.size = mem[a].size  BY <2>1
  <2> QED  BY <2>2, <2>3
<1>9. PICK te, tf, tb : /\ te = CompactionPointer(EdenStart, eden_top)
                        /\ tf = CompactionPointer(from.start, from.top)
                        /\ tb = CompactionPointer(OldStart, old_top)
  OBVIOUS
<1>10. /\ te \in Nat /\ EdenStart <= te /\ te <= eden_top
       /\ tf \in Nat /\ from.start <= tf /\ tf <= from.top
       /\ tb \in Nat /\ OldStart <= tb /\ tb <= old_top
  <2>1. /\ EdenStart \in Nat /\ eden_top \in Nat /\ EdenStart <= eden_top
        /\ from.start \in Nat /\ from.top \in Nat /\ from.start <= from.top
        /\ OldStart \in Nat /\ old_top \in Nat /\ OldStart <= old_top
    BY <1>2, Geometry
  <2>2. \A s, t \in Nat : s <= t =>
           /\ CompactionPointer(s, t) \in Nat
           /\ s <= CompactionPointer(s, t) /\ CompactionPointer(s, t) <= t
    <3> SUFFICES ASSUME NEW s \in Nat, NEW t \in Nat, s <= t
                 PROVE  /\ CompactionPointer(s, t) \in Nat
                        /\ s <= CompactionPointer(s, t) /\ CompactionPointer(s, t) <= t
      OBVIOUS
    <3>1. t <= t  OBVIOUS
    <3> QED  BY <3>1, PointerAdvances
  <2> QED  BY <1>9, <2>1, <2>2
<1>11. NewTops = [eden |-> te, from |-> tf, old |-> tb]  BY <1>9 DEF NewTops
<1>12. NewTops \in [eden : Nat, from : Nat, old : Nat]  BY <1>10, <1>11
<1>13. gc \in Collector  BY <1>2 DEF TypeInv
<1>14. gc' \in Collector
  <2>1. P \in SUBSET Moves  BY <1>6
  <2>2. "rewrite" \in Phases  BY DEF Phases
  <2> QED  BY <1>4, <1>12, <1>13, <2>1, <2>2 DEF Collector
<1>15. /\ gc'.phase = "rewrite" /\ gc'.plan = P /\ gc'.placed = {} /\ gc'.then = gc.then
       /\ gc'.tops = NewTops
  <2>1. gc.placed = {}  BY <1>2 DEF MarkHeap
  <2> QED  BY <1>4, <1>13, <2>1 DEF Collector
<1>16. gc'.tops.eden = te /\ gc'.tops.from = tf /\ gc'.tops.old = tb  BY <1>11, <1>15
<1>17. Entries' = P  BY <1>15 DEF Entries
<1>18. MemIs(mem') /\ ForwardedAs(mem, mem', Live)
  <2>1. mem' = [a \in DOMAIN mem |->
                  IF a \in Live THEN [mem[a] EXCEPT !.fwd = NewPlace(a), !.marked = FALSE, !.age = 0]
                  ELSE mem[a]]
    BY DEF ForwardingCompute
  <2> QED  BY <1>2, <1>5, <2>1, ForwardWords
<1>19. /\ DOMAIN mem' = DOMAIN mem
       /\ \A a \in DOMAIN mem : mem'[a].size = mem[a].size /\ mem'[a].slots = mem[a].slots
  BY <1>18 DEF ForwardedAs
<1>20. TypeInv'
  <2>1. gc'.phase \notin Returns  BY <1>15 DEF Returns
  <2>2. SpacesOK'  BY <1>2, <1>4 DEF SpacesOK
  <2>3. roots' \in [Roots -> Nat] /\ dirty' \subseteq Cards /\ MemOK'
    BY <1>2, <1>4, <1>18 DEF TypeInv, MemOK
  <2>4. gc'.then # "run" => request' \in Requests  BY <1>2, <1>4, <1>15 DEF TypeInv
  <2> QED  BY <1>14, <2>1, <2>2, <2>3, <2>4 DEF TypeInv
<1>21. LayoutInv' /\ TableInv'
  BY <1>2, <1>4, <1>19 DEF MarkHeap, LayoutInv, Apart, Housed, Within, AllTiled, Tiled, TableInv
<1>22. OopsInv'  BY <1>2, <1>4, <1>19 DEF OopsInv, Valid
<1>23. PlanOrder'
  <2> SUFFICES ASSUME NEW e \in P, NEW f \in P, e.old < f.old
               PROVE  e.old + e.size <= f.old /\ e.new + e.size <= f.new
    BY <1>7, <1>17 DEF PlanOrder
  <2>1. PICK a \in Live : e.old = a /\ e.new = NewPlace(a) /\ e.size = mem[a].size  BY <1>6
  <2>2. PICK b \in Live : f.old = b /\ f.new = NewPlace(b) /\ f.size = mem[b].size  BY <1>6
  <2>3. a < b  BY <2>1, <2>2
  <2> QED  BY <1>2, <2>1, <2>2, <2>3, PlacesApart
<1>24. PlanPlaces'
  <2> SUFFICES ASSUME NEW e \in P
               PROVE  /\ e.new <= e.old
                      /\ \/ EdenStart <= e.new /\ e.old + e.size <= eden_top /\ e.new + e.size <= te
                         \/ from.start <= e.new /\ e.old + e.size <= from.top /\ e.new + e.size <= tf
                         \/ OldStart <= e.new /\ e.old + e.size <= old_top /\ e.new + e.size <= tb
    BY <1>4, <1>16, <1>17 DEF PlanPlaces, MovesIn
  <2>1. PICK a \in Live : e.old = a /\ e.new = NewPlace(a) /\ e.size = mem[a].size  BY <1>6
  <2>2. PICK s, t : /\ IsSpace(s, t) /\ a + mem[a].size <= t /\ s <= NewPlace(a)
                    /\ NewPlace(a) + mem[a].size <= CompactionPointer(s, t)
    BY <1>2, PlaceIs
  <2> QED  BY <1>5, <1>9, <2>1, <2>2 DEF IsSpace
<1>25. PlanTops'  BY <1>4, <1>10, <1>16 DEF PlanTops
<1>26. ASSUME NEW s, NEW t, IsSpace(s, t), NEW w \in s .. CompactionPointer(s, t) - 1
       PROVE  \E e \in P : /\ s <= e.new /\ e.new <= w /\ w < e.new + e.size
                           /\ e.new + e.size <= CompactionPointer(s, t)
  <2>1. PICK a \in Live : /\ s <= NewPlace(a) /\ NewPlace(a) <= w /\ w < NewPlace(a) + mem[a].size
                          /\ NewPlace(a) + mem[a].size <= CompactionPointer(s, t)
    BY <1>2, <1>26, PlacesFill
  <2>2. PICK e \in P : e.new = NewPlace(a) /\ e.size = mem[a].size  BY <1>8
  <2> QED  BY <2>1, <2>2
<1>27. PlanFilled'
  <2>1. IsSpace(EdenStart, eden_top) /\ IsSpace(from.start, from.top) /\ IsSpace(OldStart, old_top)
    BY DEF IsSpace
  <2>2. Filled(EdenStart, gc.tops.eden)'  BY <1>9, <1>16, <1>17, <1>26, <2>1 DEF Filled
  <2>3. Filled(from.start, gc.tops.from)'
    BY <1>4, <1>9, <1>16, <1>17, <1>26, <2>1 DEF Filled
  <2>4. Filled(OldStart, gc.tops.old)'  BY <1>9, <1>16, <1>17, <1>26, <2>1 DEF Filled
  <2> QED  BY <2>2, <2>3, <2>4 DEF PlanFilled
<1>29. RewriteHeap'
  <2> DEFINE InPlan(v) == \E f \in P : f.old = v
  <2>0. \A v \in Live : InPlan(v)  BY <1>8
  <2> HIDE DEF InPlan
  <2>1. \A a \in DOMAIN mem' : mem'[a].fwd # 0 => InPlan(a)
    <3>1. \A a \in DOMAIN mem : a \notin Live => mem'[a].fwd = 0
      BY <1>2, <1>18 DEF MarkHeap, ForwardedAs
    <3> QED  BY <1>19, <2>0, <3>1
  <2>2. ASSUME NEW e \in P
        PROVE  /\ e.old \in DOMAIN mem' /\ mem'[e.old].fwd = e.new /\ mem'[e.old].size = e.size
               /\ \A j \in DOMAIN mem'[e.old].slots :
                     mem'[e.old].slots[j] # 0 => InPlan(mem'[e.old].slots[j])
    <3>1. PICK a \in Live : e.old = a /\ e.new = NewPlace(a) /\ e.size = mem[a].size  BY <1>6
    <3>2. a \in DOMAIN mem  BY DEF Live
    <3>3. mem'[a].fwd = NewPlace(a)  BY <1>18, <3>2 DEF ForwardedAs
    <3>4. ASSUME NEW j \in DOMAIN mem'[a].slots, mem'[a].slots[j] # 0
          PROVE  InPlan(mem'[a].slots[j])
      <4>1. mem'[a].slots = mem[a].slots  BY <1>19, <3>2
      <4>2. mem[a].slots[j] \in Live  BY <1>1, <1>2, <3>4, <4>1 DEF MarkHeap
      <4> QED  BY <2>0, <4>1, <4>2
    <3> QED  BY <1>19, <3>1, <3>2, <3>3, <3>4
  <2>3. \A r \in Roots : roots'[r] # 0 => InPlan(roots'[r])
    <3>1. \A r \in Roots : roots[r] # 0 => roots[r] \in Live  BY <1>2 DEF MarkHeap
    <3> QED  BY <1>4, <2>0, <3>1
  <2> QED  BY <1>15, <2>1, <2>2, <2>3 DEF RewriteHeap, Planned, InPlan
<1>30. PlanHeap'  BY <1>23, <1>24, <1>25, <1>27 DEF PlanHeap
<1>31. to'.top = to'.start  BY <1>2, <1>4
<1> QED  BY <1>15, <1>20, <1>21, <1>22, <1>29, <1>30, <1>31, RewriteAfter

\* What the invariant says while objects slide.
LEMMA SlideHas ==
    ASSUME HeapInv, gc.phase = "slide"
    PROVE  TypeInv /\ to.top = to.start /\ PlanHeap /\ SlideHeap
BY DEF HeapInv, CleanInv, PlanInv, SlideInv

\* And what has to be shown for it.
LEMMA SlideAfter ==
    ASSUME TypeInv', gc'.phase = "slide", to'.top = to'.start, PlanHeap', SlideHeap'
    PROVE  HeapInv'
<1>1. gc'.phase \notin {"roots", "card", "code", "cheney", "mark", "rewrite"} /\ gc'.phase \notin Returns
  BY DEF Returns
<1>2. ~Scanning' /\ ~Quiet' /\ ~Walkable'  BY <1>1 DEF Scanning, Quiet, Walkable
<1>3. WalkInv' /\ RememberInv' /\ ScanInv'  BY <1>2 DEF WalkInv, RememberInv, ScanInv
<1>4. CleanInv'  BY <1>1, <1>2 DEF CleanInv
<1>5. PlanInv' /\ SlideInv'  BY DEF PlanInv, SlideInv
<1>6. MarkInv' /\ RewriteInv'  BY <1>1 DEF MarkInv, RewriteInv
<1> QED  BY <1>3, <1>4, <1>5, <1>6 DEF HeapInv

\* The fields of an entry, and that its place is an address.
LEMMA MoveIs ==
    ASSUME TypeInv, PlanPlaces, NEW e \in Entries
    PROVE  /\ e \in Moves /\ e.old \in Nat /\ e.new \in Nat /\ e.new > 0
           /\ e.size \in Nat /\ e.size > 0 /\ e.age \in Nat /\ e.new <= e.old /\ e.old + e.size <= OldEnd
<1>1. e \in Moves  BY DEF TypeInv, Collector, Entries
<1>2. e.old \in Nat /\ e.new \in Nat /\ e.size \in Nat \ {0} /\ e.age \in Nat  BY <1>1 DEF Moves
<1>3. /\ e.new <= e.old
      /\ \/ EdenStart <= e.new /\ e.old + e.size <= eden_top
         \/ from.start <= e.new /\ e.old + e.size <= from.top
         \/ OldStart <= e.new /\ e.old + e.size <= old_top
  BY DEF PlanPlaces, MovesIn
<1>4. e.new > 0 /\ e.old + e.size <= OldEnd
  <2>1. SpacesOK  BY DEF TypeInv
  <2> QED  BY <1>2, <1>3, <2>1, Geometry
<1> QED  BY <1>1, <1>2, <1>3, <1>4

\* forward_chase leads to the place of a planned object.
LEMMA ChaseLeads ==
    ASSUME TypeInv, PlanPlaces, RewriteHeap, NEW v \in Nat, v # 0 => Planned(v)
    PROVE  Chase(v) \in Nat /\ WillBe(Chase(v))
<1>1. CASE v = 0
  BY <1>1 DEF Chase, WillBe
<1>2. CASE v # 0
  <2>1. PICK e \in gc.plan : e.old = v  BY <1>2 DEF Planned
  <2>2. e \in Entries  BY DEF Entries
  <2>3. e.new \in Nat /\ e.new > 0  BY <2>2, MoveIs
  <2>4. mem[v].fwd = e.new  BY <2>1 DEF RewriteHeap
  <2>5. Chase(v) = e.new  BY <1>2, <2>3, <2>4 DEF Chase
  <2> QED  BY <2>2, <2>3, <2>5 DEF WillBe
<1> QED  BY <1>1, <1>2

\* The slots of an object rewritten.
LEMMA SlotsChased ==
    ASSUME TypeInv, PlanPlaces, RewriteHeap, NEW e \in gc.plan, NEW o,
           o = [mem[e.old] EXCEPT !.slots = [j \in DOMAIN @ |-> Chase(@[j])]]
    PROVE  /\ o \in Objects /\ o.size = mem[e.old].size
           /\ Len(o.slots) = Len(mem[e.old].slots)
           /\ \A j \in DOMAIN o.slots : WillBe(o.slots[j])
           /\ o.id = mem[e.old].id /\ o.age = mem[e.old].age
           /\ DOMAIN o.slots = DOMAIN mem[e.old].slots
           /\ \A j \in DOMAIN o.slots : o.slots[j] = Chase(mem[e.old].slots[j])
<1>1. e.old \in DOMAIN mem /\ MemOK  BY DEF RewriteHeap, TypeInv
<1>2. PICK obj, sl : obj = mem[e.old] /\ sl = obj.slots  OBVIOUS
<1>3. obj \in Objects /\ sl \in Seq(Nat)  BY <1>1, <1>2, ObjectIs
<1>4. Len(sl) \in Nat /\ DOMAIN sl = 1 .. Len(sl) /\ \A j \in DOMAIN sl : sl[j] \in Nat
  BY <1>3, SeqElements
<1>5. \A j \in DOMAIN sl : sl[j] # 0 => Planned(sl[j])  BY <1>2 DEF RewriteHeap
<1>6. \A j \in DOMAIN sl : Chase(sl[j]) \in Nat /\ WillBe(Chase(sl[j]))
  BY <1>4, <1>5, ChaseLeads
<1>7. PICK t : t = [j \in 1 .. Len(sl) |-> Chase(sl[j])]  OBVIOUS
<1>8. t \in Seq(Nat) /\ Len(t) = Len(sl) /\ DOMAIN t = 1 .. Len(sl)
  <2>1. t = [j \in 1 .. Len(sl) |-> t[j]] /\ \A j \in 1 .. Len(sl) : t[j] \in Nat
    BY <1>4, <1>6, <1>7
  <2> QED  BY <1>4, <2>1, SeqMade
<1>9. o = [obj EXCEPT !.slots = t]
  <2>1. [j \in DOMAIN obj.slots |-> Chase(obj.slots[j])] = t  BY <1>2, <1>4, <1>7
  <2>2. o = [obj EXCEPT !.slots = [j \in DOMAIN obj.slots |-> Chase(obj.slots[j])]]  BY <1>2
  <2> QED  BY <2>1, <2>2
<1>10. o \in Objects /\ o.size = obj.size /\ o.slots = t /\ o.id = obj.id /\ o.age = obj.age
  BY <1>3, <1>8, <1>9 DEF Objects
<1>11. \A j \in DOMAIN t : WillBe(t[j])  BY <1>4, <1>6, <1>7, <1>8
<1>12. DOMAIN t = DOMAIN sl /\ \A j \in DOMAIN t : t[j] = Chase(sl[j])  BY <1>4, <1>7, <1>8
<1> QED  BY <1>2, <1>8, <1>10, <1>11, <1>12

\* The references rewritten: every one names the place its object will have.
LEMMA RewriteKeeps ==
    ASSUME HeapInv, Rewrite
    PROVE  HeapInv'
<1>1. gc.phase = "rewrite"  BY DEF Rewrite
<1>2. TypeInv /\ to.top = to.start /\ PlanHeap /\ PlanPlaces /\ RewriteHeap /\ MemOK /\ SpacesOK
  BY <1>1, RewriteHas DEF PlanHeap, TypeInv
<1>3. /\ gc' = [gc EXCEPT !.phase = "slide"]
      /\ UNCHANGED <<eden_top, from, to, old_top, committed_end, dirty, request>>
      /\ roots' = [r \in Roots |-> Chase(roots[r])]
  BY DEF Rewrite, spaceVars
<1>4. gc \in Collector  BY <1>2 DEF TypeInv
<1>5. /\ gc'.phase = "slide" /\ gc'.plan = gc.plan /\ gc'.placed = {} /\ gc'.then = gc.then
      /\ gc'.tops = gc.tops
  <2>1. gc.placed = {}  BY <1>2 DEF RewriteHeap
  <2> QED  BY <1>3, <1>4, <2>1 DEF Collector
<1>6. gc' \in Collector
  <2>1. "slide" \in Phases  BY DEF Phases
  <2> QED  BY <1>3, <1>4, <2>1 DEF Collector
<1>7. \A r \in Roots : roots'[r] \in Nat /\ WillBe(roots'[r])
  <2> TAKE r \in Roots
  <2>1. roots[r] \in Nat /\ (roots[r] # 0 => Planned(roots[r]))  BY <1>2 DEF TypeInv, RewriteHeap
  <2>2. PICK v \in Nat : v = roots[r]  BY <2>1
  <2>3. Chase(v) \in Nat /\ WillBe(Chase(v))  BY <1>2, <2>1, <2>2, ChaseLeads
  <2> QED  BY <1>3, <2>2, <2>3
<1>8. roots' \in [Roots -> Nat]  BY <1>3, <1>7
<1>9. \A a \in DOMAIN mem : Planned(a) =>
          mem'[a] = [mem[a] EXCEPT !.slots = [j \in DOMAIN @ |-> Chase(@[j])]]
  BY DEF Rewrite, Planned
<1>10. DOMAIN mem' = DOMAIN mem /\ mem' = [a \in DOMAIN mem |-> mem'[a]]
  BY DEF Rewrite
<1>11. \A a \in DOMAIN mem : ~Planned(a) => mem'[a] = mem[a]  BY DEF Rewrite, Planned
<1>12. \A e \in gc.plan : /\ mem'[e.old] \in Objects /\ mem'[e.old].size = e.size
                          /\ Len(mem'[e.old].slots) < mem'[e.old].size
                          /\ \A j \in DOMAIN mem'[e.old].slots : WillBe(mem'[e.old].slots[j])
  <2> TAKE e \in gc.plan
  <2>1. e.old \in DOMAIN mem /\ mem[e.old].size = e.size  BY <1>2 DEF RewriteHeap
  <2>2. Planned(e.old)  BY DEF Planned
  <2>3. mem'[e.old] = [mem[e.old] EXCEPT !.slots = [j \in DOMAIN @ |-> Chase(@[j])]]
    BY <1>9, <2>1, <2>2
  <2>4. Len(mem[e.old].slots) < mem[e.old].size  BY <1>2, <2>1, ObjectIs
  <2>5. PICK o : o = mem'[e.old]  OBVIOUS
  <2>6. /\ o \in Objects /\ o.size = mem[e.old].size /\ Len(o.slots) = Len(mem[e.old].slots)
        /\ \A j \in DOMAIN o.slots : WillBe(o.slots[j])
    BY <1>2, <2>3, <2>5, SlotsChased
  <2> QED  BY <2>1, <2>4, <2>5, <2>6
<1>13. \A a \in DOMAIN mem : mem'[a] \in Objects /\ Len(mem'[a].slots) < mem'[a].size
  <2> TAKE a \in DOMAIN mem
  <2>1. CASE Planned(a)  BY <1>12, <2>1 DEF Planned
  <2>2. CASE ~Planned(a)  BY <1>2, <1>11, <2>2, ObjectIs
  <2> QED  BY <2>1, <2>2
<1>14. MemOK'
  <2>1. mem' \in [DOMAIN mem' -> Objects]  BY <1>10, <1>13
  <2> QED  BY <1>2, <1>10, <1>13, <2>1 DEF MemOK, MemIs
<1>15. TypeInv'
  <2>1. gc'.phase \notin Returns  BY <1>5 DEF Returns
  <2>2. SpacesOK'  BY <1>2, <1>3 DEF SpacesOK
  <2>3. dirty' \subseteq Cards  BY <1>2, <1>3 DEF TypeInv
  <2>4. gc'.then # "run" => request' \in Requests  BY <1>2, <1>3, <1>5 DEF TypeInv
  <2> QED  BY <1>6, <1>8, <1>14, <2>1, <2>2, <2>3, <2>4 DEF TypeInv
<1>16. Entries' = Entries
  <2>1. gc.placed = {}  BY <1>2 DEF RewriteHeap
  <2> QED  BY <1>5, <2>1 DEF Entries
<1>17. PlanHeap'
  BY <1>2, <1>3, <1>5, <1>16 DEF PlanHeap, PlanOrder, PlanPlaces, MovesIn, PlanTops, PlanFilled, Filled
<1>18. \A e \in gc'.plan : Carried(e, e.old)'
  <2>1. \A e \in gc.plan : e.old \in DOMAIN mem  BY <1>2 DEF RewriteHeap
  <2> QED  BY <1>5, <1>10, <1>12, <1>16, <2>1 DEF Carried, WillBe
<1>19. \A r \in Roots : WillBe(roots[r])'  BY <1>7, <1>16 DEF WillBe
<1>20. SlideHeap'  BY <1>5, <1>18, <1>19 DEF SlideHeap
<1>21. to'.top = to'.start  BY <1>2, <1>3
<1> QED  BY <1>5, <1>15, <1>17, <1>20, <1>21, SlideAfter

-----------------------------------------------------------------------------
(* The slide. *)

\* The memory when the object of an entry has been moved to p: what was in its way is gone.
MoveTo(m, gone, p, o) == Put([a \in DOMAIN m \ gone |-> m[a]], p, o)
MovedAs(m, m2, p, gone) ==
    /\ \A a \in DOMAIN m : a \notin gone /\ a # p => a \in DOMAIN m2 /\ m2[a] = m[a]
    /\ \A a \in DOMAIN m2 : a # p => a \in DOMAIN m /\ a \notin gone /\ m2[a] = m[a]

\* It is still one of objects.
LEMMA Moved ==
    ASSUME NEW m, MemIs(m), NEW p \in Nat \ {0}, NEW o \in Objects, Len(o.slots) < o.size,
           NEW gone, NEW m2, m2 = MoveTo(m, gone, p, o)
    PROVE  /\ MemIs(m2) /\ m2[p] = o /\ p \in DOMAIN m2
           /\ MovedAs(m, m2, p, gone)
<1>1. PICK k : k = [a \in DOMAIN m \ gone |-> m[a]]  OBVIOUS
<1>2. DOMAIN k = DOMAIN m \ gone /\ (\A a \in DOMAIN k : k[a] = m[a]) /\ k = [a \in DOMAIN k |-> k[a]]
  BY <1>1
<1>3. MemIs(k)
  <2>1. \A a \in DOMAIN k : k[a] \in Objects /\ Len(k[a].slots) < k[a].size  BY <1>2 DEF MemIs
  <2>2. k \in [DOMAIN k -> Objects]  BY <1>2, <2>1
  <2>3. DOMAIN k \subseteq Nat \ {0}  BY <1>2 DEF MemIs
  <2> QED  BY <2>1, <2>2, <2>3 DEF MemIs
<1>4. m2 = Put(k, p, o)  BY <1>1 DEF MoveTo
<1>5. MemIs(m2)  BY <1>3, <1>4, PutMem
<1>6. m2[p] = o /\ DOMAIN m2 = DOMAIN k \cup {p} /\ \A a \in DOMAIN k : a # p => m2[a] = k[a]
  BY <1>4 DEF Put
<1> QED  BY <1>2, <1>5, <1>6 DEF MovedAs

\* The lowest entry of the plan slides: nothing still to move, or moved already, is in
\* its way.
Slid(e) ==
    /\ e \in gc.plan /\ e.old \in DOMAIN mem
    /\ MemIs(mem') /\ e.new \in DOMAIN mem' /\ mem'[e.new] = mem[e.old]
    /\ \A a \in DOMAIN mem' : a # e.new => a \in DOMAIN mem /\ a # e.old /\ mem'[a] = mem[a]
    /\ \A f \in gc.plan \ {e} :
          f.old \in DOMAIN mem' /\ mem'[f.old] = mem[f.old] /\ e.old < f.old
    /\ \A g \in gc.placed : /\ g.new \in DOMAIN mem' /\ mem'[g.new] = mem[g.new]
                            /\ g.new + g.size <= e.new
    /\ offsets' = IF IsOld(e.new) THEN RecordObject(offsets, e.new, e.size) ELSE offsets
    /\ gc' = [gc EXCEPT !.plan = @ \ {e}, !.placed = @ \cup {e}]
    /\ gc'.phase = "slide" /\ gc'.plan = gc.plan \ {e} /\ gc'.placed = gc.placed \cup {e}
    /\ gc'.then = gc.then /\ gc'.tops = gc.tops
    /\ UNCHANGED <<roots, eden_top, from, to, old_top, committed_end, dirty, request>>

\* Which is what a step of the slide does.
LEMMA SlideDoes ==
    ASSUME HeapInv, Slide
    PROVE  \E e : Slid(e)
<1>1. gc.phase = "slide"  BY DEF Slide
<1>2. /\ TypeInv /\ to.top = to.start /\ PlanHeap /\ PlanPlaces /\ PlanOrder /\ SlideHeap
      /\ MemOK /\ SpacesOK /\ gc \in Collector
  BY <1>1, SlideHas DEF PlanHeap, TypeInv
<1>3. PICK e \in gc.plan : (\A f \in gc.plan : e.old <= f.old) /\ SlideEntry(e)
  BY DEF Slide
<1>4. PICK hit : hit = {b \in DOMAIN mem : b < e.new + e.size /\ e.new < b + mem[b].size}
  OBVIOUS
<1>5. PICK gone : gone = hit \cup {e.old}  OBVIOUS
<1>6. /\ mem' = Put([a \in DOMAIN mem \ gone |-> mem[a]], e.new, mem[e.old])
      /\ offsets' = IF IsOld(e.new) THEN RecordObject(offsets, e.new, e.size) ELSE offsets
      /\ gc' = [gc EXCEPT !.plan = @ \ {e}, !.placed = @ \cup {e}]
      /\ UNCHANGED <<roots, eden_top, from, to, old_top, committed_end, dirty, request>>
  BY <1>3, <1>4, <1>5 DEF SlideEntry, spaceVars
<1>7. /\ gc'.phase = "slide" /\ gc'.plan = gc.plan \ {e} /\ gc'.placed = gc.placed \cup {e}
      /\ gc'.then = gc.then /\ gc'.tops = gc.tops
  BY <1>1, <1>2, <1>6 DEF Collector
<1>8. Entries' = Entries /\ e \in Entries  BY <1>7 DEF Entries
<1>9. /\ e \in Moves /\ e.old \in Nat /\ e.new \in Nat /\ e.new > 0 /\ e.size \in Nat /\ e.size > 0
      /\ e.new <= e.old
  BY <1>2, <1>8, MoveIs
<1>11. e.old \in DOMAIN mem /\ mem[e.old].size = e.size
       /\ \A j \in DOMAIN mem[e.old].slots : WillBe(mem[e.old].slots[j])
  BY <1>2 DEF SlideHeap, Carried
<1>12. PICK o : o = mem[e.old]  OBVIOUS
<1>13. o \in Objects /\ Len(o.slots) < o.size  BY <1>2, <1>11, <1>12, ObjectIs
<1>14. /\ MemIs(mem') /\ mem'[e.new] = mem[e.old] /\ e.new \in DOMAIN mem'
       /\ \A a \in DOMAIN mem : a \notin gone /\ a # e.new => a \in DOMAIN mem' /\ mem'[a] = mem[a]
       /\ \A a \in DOMAIN mem' : a # e.new => a \in DOMAIN mem /\ a \notin gone /\ mem'[a] = mem[a]
  <2>1. PICK p \in Nat \ {0} : p = e.new  BY <1>9
  <2>2. MemIs(mem) /\ mem' = MoveTo(mem, gone, p, o)
    BY <1>2, <1>6, <1>12, <2>1 DEF MemOK, MoveTo
  <2>3. /\ MemIs(mem') /\ mem'[p] = o /\ p \in DOMAIN mem'
        /\ MovedAs(mem, mem', p, gone)
    BY <1>13, <2>2, Moved
  <2> QED  BY <1>12, <2>1, <2>3 DEF MovedAs
<1>16. ASSUME NEW f \in gc.plan \ {e}
       PROVE  f.old \in DOMAIN mem' /\ mem'[f.old] = mem[f.old] /\ e.old < f.old
  <2>1. f \in Entries /\ f.old \in DOMAIN mem  BY <1>2 DEF Entries, SlideHeap, Carried
  <2>2. f.old \in Nat  BY <1>2, <2>1, MoveIs
  <2>3. e.old # f.old  BY <1>2, <1>8, <1>16, <2>1 DEF PlanOrder
  <2>4. e.old < f.old  BY <1>3, <1>9, <1>16, <2>2, <2>3
  <2>5. e.old + e.size <= f.old  BY <1>2, <1>8, <2>1, <2>4 DEF PlanOrder
  <2>6. ~(f.old < e.new + e.size) /\ f.old # e.old /\ f.old # e.new  BY <1>9, <2>2, <2>4, <2>5
  <2>7. f.old \notin gone  BY <1>4, <1>5, <2>6
  <2> QED  BY <1>14, <2>1, <2>4, <2>6, <2>7
<1>17. ASSUME NEW g \in gc.placed
       PROVE  g.new \in DOMAIN mem' /\ mem'[g.new] = mem[g.new] /\ g.old < e.old
              /\ g.new + g.size <= e.new
  <2>1. g \in Entries /\ g.new \in DOMAIN mem /\ mem[g.new].size = g.size /\ g.old < e.old
    BY <1>2 DEF Entries, SlideHeap, Carried
  <2>2. g.old \in Nat /\ g.new \in Nat /\ g.size \in Nat /\ g.size > 0  BY <1>2, <2>1, MoveIs
  <2>3. g.new + g.size <= e.new  BY <1>2, <1>8, <2>1 DEF PlanOrder
  <2>4. ~(e.new < g.new + mem[g.new].size) /\ g.new # e.old /\ g.new # e.new
    BY <1>9, <2>1, <2>2, <2>3
  <2>5. g.new \notin gone  BY <1>4, <1>5, <2>4
  <2> QED  BY <1>14, <2>1, <2>3, <2>4, <2>5
<1>18. \A a \in DOMAIN mem' : a # e.new => a \in DOMAIN mem /\ a # e.old /\ mem'[a] = mem[a]
  BY <1>5, <1>14
<1>19. \A g \in gc.placed : /\ g.new \in DOMAIN mem' /\ mem'[g.new] = mem[g.new]
                            /\ g.new + g.size <= e.new
  BY <1>17
<1> QED  BY <1>3, <1>6, <1>7, <1>11, <1>14, <1>16, <1>18, <1>19, ZenonT(60) DEF Slid

\* It keeps the invariant.
LEMMA SlideKeeps ==
    ASSUME HeapInv, Slide
    PROVE  HeapInv'
<1>1. gc.phase = "slide"  BY DEF Slide
<1>2. /\ TypeInv /\ to.top = to.start /\ PlanHeap /\ PlanPlaces /\ PlanOrder /\ SlideHeap
      /\ MemOK /\ SpacesOK /\ gc \in Collector
  BY <1>1, SlideHas DEF PlanHeap, TypeInv
<1>3. PICK e : Slid(e)  BY SlideDoes
<1>6. /\ offsets' = IF IsOld(e.new) THEN RecordObject(offsets, e.new, e.size) ELSE offsets
      /\ gc' = [gc EXCEPT !.plan = @ \ {e}, !.placed = @ \cup {e}]
      /\ UNCHANGED <<roots, eden_top, from, to, old_top, committed_end, dirty, request>>
  BY <1>3 DEF Slid
<1>7. /\ gc'.phase = "slide" /\ gc'.plan = gc.plan \ {e} /\ gc'.placed = gc.placed \cup {e}
      /\ gc'.then = gc.then /\ gc'.tops = gc.tops /\ e \in gc.plan
  BY <1>3 DEF Slid
<1>8. Entries' = Entries /\ e \in Entries  BY <1>7 DEF Entries
<1>9. /\ e \in Moves /\ e.old \in Nat /\ e.new \in Nat /\ e.new > 0 /\ e.size \in Nat /\ e.size > 0
      /\ e.new <= e.old
  BY <1>2, <1>8, MoveIs
<1>10. gc' \in Collector
  <2>1. gc.plan \ {e} \in SUBSET Moves /\ gc.placed \cup {e} \in SUBSET Moves
    BY <1>2, <1>9 DEF Collector
  <2> QED  BY <1>2, <1>6, <2>1 DEF Collector
<1>11. e.old \in DOMAIN mem /\ mem[e.old].size = e.size
       /\ \A j \in DOMAIN mem[e.old].slots : WillBe(mem[e.old].slots[j])
  BY <1>2, <1>7 DEF SlideHeap, Carried
<1>14. MemIs(mem') /\ mem'[e.new] = mem[e.old] /\ e.new \in DOMAIN mem'  BY <1>3 DEF Slid
<1>15. TypeInv'
  <2>1. gc'.phase \notin Returns  BY <1>7 DEF Returns
  <2>2. SpacesOK'  BY <1>2, <1>6 DEF SpacesOK
  <2>3. dirty' \subseteq Cards /\ roots' \in [Roots -> Nat] /\ MemOK'  BY <1>2, <1>6, <1>14 DEF TypeInv, MemOK
  <2>4. gc'.then # "run" => request' \in Requests  BY <1>2, <1>6, <1>7 DEF TypeInv
  <2> QED  BY <1>10, <2>1, <2>2, <2>3, <2>4 DEF TypeInv
<1>16. \A f \in gc.plan \ {e} :
          f.old \in DOMAIN mem' /\ mem'[f.old] = mem[f.old] /\ e.old < f.old
  BY <1>3 DEF Slid
<1>17. \A g \in gc.placed : /\ g.new \in DOMAIN mem' /\ mem'[g.new] = mem[g.new]
                            /\ g.new + g.size <= e.new
  BY <1>3 DEF Slid
<1>18. \A v : WillBe(v)' <=> WillBe(v)  BY <1>8 DEF WillBe
<1>19. \A g \in gc'.placed, f \in gc'.plan : g.old < f.old
  <2> SUFFICES ASSUME NEW g \in gc.placed \cup {e}, NEW f \in gc.plan \ {e}
               PROVE  g.old < f.old
    BY <1>7
  <2>1. CASE g = e  BY <1>16, <2>1
  <2>2. CASE g \in gc.placed  BY <1>2, <2>2 DEF SlideHeap
  <2> QED  BY <2>1, <2>2
<1>20. \A f \in gc'.plan : Carried(f, f.old)'
  <2> SUFFICES ASSUME NEW f \in gc.plan \ {e}
               PROVE  /\ f.old \in DOMAIN mem' /\ mem'[f.old].size = f.size
                      /\ \A j \in DOMAIN mem'[f.old].slots : WillBe(mem'[f.old].slots[j])
    BY <1>7, <1>8 DEF Carried, WillBe
  <2>1. /\ mem[f.old].size = f.size
        /\ \A j \in DOMAIN mem[f.old].slots : WillBe(mem[f.old].slots[j])
    BY <1>2 DEF SlideHeap, Carried
  <2> QED  BY <1>16, <2>1
<1>21. \A g \in gc'.placed : Carried(g, g.new)'
  <2> SUFFICES ASSUME NEW g \in gc.placed \cup {e}
               PROVE  /\ g.new \in DOMAIN mem' /\ mem'[g.new].size = g.size
                      /\ \A j \in DOMAIN mem'[g.new].slots : WillBe(mem'[g.new].slots[j])
    BY <1>7, <1>8 DEF Carried, WillBe
  <2>1. CASE g = e  BY <1>11, <1>14, <2>1
  <2>2. CASE g \in gc.placed
    <3>1. /\ mem[g.new].size = g.size
          /\ \A j \in DOMAIN mem[g.new].slots : WillBe(mem[g.new].slots[j])
      BY <1>2, <2>2 DEF SlideHeap, Carried
    <3> QED  BY <1>17, <2>2, <3>1
  <2> QED  BY <2>1, <2>2
<1>22. \A r \in Roots : WillBe(roots'[r])  BY <1>2, <1>6 DEF SlideHeap
<1>23. ASSUME NEW i \in Cards, NEW g \in gc.placed \cup {e}, IsOld(g.new),
              g.new <= CardBase(i), CardBase(i) < g.new + g.size
       PROVE  offsets'[i] = Entry(i, g.new)
  <2>1. CardBase(i) \in Int
    <3>1. i \in Nat  BY CardsAre
    <3> QED  BY <3>1 DEF CardBase
  <2>2. PICK p \in Nat, n \in Nat \ {0} : p = e.new /\ n = e.size  BY <1>9
  <2>3. CASE g = e
    <3>1. p >= OldStart /\ p <= CardBase(i) /\ CardBase(i) < p + n  BY <1>23, <2>2, <2>3 DEF IsOld
    <3>2. RecordObject(offsets, p, n)[i] = Entry(i, p)  BY <3>1, RecordIs
    <3> QED  BY <1>6, <1>23, <2>2, <2>3, <3>2
  <2>4. CASE g \in gc.placed
    <3>1. offsets[i] = Entry(i, g.new)  BY <1>2, <1>23, <2>4 DEF SlideHeap
    <3>2. g.new \in Nat /\ g.size \in Nat  BY <1>2, <2>4, MoveIs DEF Entries
    <3>6. g.new + g.size <= p  BY <1>17, <2>2, <2>4
    <3>3. ~(p <= CardBase(i))  BY <1>23, <2>1, <2>2, <3>2, <3>6
    <3>4. CASE p >= OldStart
      <4>1. RecordObject(offsets, p, n)[i] =
               IF p <= CardBase(i) /\ CardBase(i) < p + n THEN Entry(i, p) ELSE offsets[i]
        <5>1. p \in Nat /\ n \in Nat \ {0} /\ i \in Cards  OBVIOUS
        <5> QED  BY ONLY <3>4, <5>1, RecordIs, ZenonT(30)
      <4>2. RecordObject(offsets, p, n)[i] = offsets[i]  BY ONLY <3>3, <4>1
      <4> QED  BY <1>6, <2>2, <3>1, <4>2
    <3>5. CASE ~(p >= OldStart)  BY <1>6, <2>2, <3>1, <3>5 DEF IsOld
    <3> QED  BY <3>4, <3>5
  <2> QED  BY <2>3, <2>4
<1>24. SlideHeap'
  <2>1. \A r \in Roots : WillBe(roots[r])'  BY <1>8, <1>22 DEF WillBe
  <2>2. \A i \in Cards, g \in gc'.placed :
           IsOld(g.new) /\ g.new <= CardBase(i) /\ CardBase(i) < g.new + g.size =>
               offsets'[i] = Entry(i, g.new)
    BY <1>7, <1>23
  <2> QED  BY <1>19, <1>20, <1>21, <2>1, <2>2 DEF SlideHeap
<1>25. PlanHeap'
  BY <1>2, <1>6, <1>7, <1>8 DEF PlanHeap, PlanOrder, PlanPlaces, MovesIn, PlanTops, PlanFilled, Filled
<1>26. to'.top = to'.start  BY <1>2, <1>6
<1> QED  BY <1>7, <1>15, <1>24, <1>25, <1>26, SlideAfter

\* The end of a full collection: what has been placed tiles the spaces up to their new
\* tops, and every card below the new top of old gen is dirty.
LEMMA FinishFullGCKeeps ==
    ASSUME HeapInv, FinishFullGC
    PROVE  HeapInv'
<1>1. gc.phase = "slide" /\ gc.plan = {}  BY DEF FinishFullGC
<1>2. /\ TypeInv /\ to.top = to.start /\ PlanPlaces /\ PlanOrder /\ PlanTops /\ PlanFilled
      /\ SlideHeap /\ MemOK /\ SpacesOK /\ gc \in Collector
  BY <1>1, SlideHas DEF PlanHeap, TypeInv
<1>3. PICK P, te, tf, tb : P = gc.placed /\ te = gc.tops.eden /\ tf = gc.tops.from /\ tb = gc.tops.old
  OBVIOUS
<1>4. Entries = P  BY <1>1, <1>3 DEF Entries
<1>5. /\ eden_top' = te /\ from' = [from EXCEPT !.top = tf] /\ old_top' = tb
      /\ dirty' = dirty \cup CardsOf(OldStart, tb)
      /\ gc' = [NoGC EXCEPT !.phase = gc.then]
      /\ UNCHANGED <<roots, to, committed_end, offsets, request>>
  BY <1>3 DEF FinishFullGC, PostCards
<1>6. /\ te \in Nat /\ EdenStart <= te /\ te <= eden_top
      /\ tf \in Nat /\ from.start <= tf /\ tf <= from.top
      /\ tb \in Nat /\ OldStart <= tb /\ tb <= old_top
  BY <1>2, <1>3 DEF PlanTops, Collector
<1>7. from'.start = from.start /\ from'.top = tf /\ from' \in Spans
  <2>1. from \in Spans  BY <1>2 DEF SpacesOK
  <2> QED  BY <1>5, <1>6, <2>1 DEF Spans
<1>8. \A e \in P : /\ e.old \in Nat /\ e.new \in Nat /\ e.new > 0 /\ e.size \in Nat /\ e.size > 0
                   /\ e.age \in Nat
  BY <1>2, <1>4, MoveIs
<1>9. /\ DOMAIN mem' = {e.new : e \in P} /\ mem' = [a \in DOMAIN mem' |-> mem'[a]]
      /\ \A a \in DOMAIN mem' : mem'[a] = [mem[a] EXCEPT !.fwd = 0, !.marked = FALSE,
                                                         !.age = (CHOOSE e \in P : e.new = a).age]
  BY <1>3 DEF FinishFullGC
<1>9a. \A e \in P : e.new \in DOMAIN mem'
  <2>1. DOMAIN mem' = {e.new : e \in P}  BY <1>3 DEF FinishFullGC
  <2> QED  BY <2>1
<1>10. ASSUME NEW e \in P
       PROVE  /\ e.new \in DOMAIN mem' /\ mem'[e.new] \in Objects /\ mem'[e.new].size = e.size
              /\ mem'[e.new].slots = mem[e.new].slots
              /\ mem'[e.new].fwd = 0 /\ ~mem'[e.new].marked
              /\ Len(mem'[e.new].slots) < mem'[e.new].size
              /\ \A j \in DOMAIN mem'[e.new].slots : WillBe(mem'[e.new].slots[j])
  <2>1. /\ e.new \in DOMAIN mem /\ mem[e.new].size = e.size
        /\ \A j \in DOMAIN mem[e.new].slots : WillBe(mem[e.new].slots[j])
    BY <1>2, <1>3 DEF SlideHeap, Carried
  <2>2. PICK o : o = mem[e.new]  OBVIOUS
  <2>3. o \in Objects /\ Len(o.slots) < o.size  BY <1>2, <2>1, <2>2, ObjectIs
  <2>4. PICK g : g = (CHOOSE f \in P : f.new = e.new).age  OBVIOUS
  <2>5. g \in Nat
    <3>1. (CHOOSE f \in P : f.new = e.new) \in P  OBVIOUS
    <3> QED  BY <1>8, <2>4, <3>1
  <2>6. e.new \in DOMAIN mem'  BY <1>9a
  <2>7. PICK p : p = mem'[e.new]  OBVIOUS
  <2>8. p = [o EXCEPT !.fwd = 0, !.marked = FALSE, !.age = g]  BY <1>9, <2>2, <2>4, <2>6, <2>7
  <2>9. p \in Objects /\ p.size = o.size /\ p.slots = o.slots /\ p.fwd = 0 /\ ~p.marked
    BY ONLY <2>3, <2>5, <2>8 DEF Objects
  <2> QED  BY <2>1, <2>2, <2>3, <2>6, <2>7, <2>9
<1>11. \A a \in DOMAIN mem' : \E e \in P : a = e.new  BY <1>9
<1>12. MemOK'
  <2>1. \A a \in DOMAIN mem' : mem'[a] \in Objects /\ Len(mem'[a].slots) < mem'[a].size
    BY <1>10, <1>11
  <2>2. mem' \in [DOMAIN mem' -> Objects]  BY <1>9, <2>1
  <2>3. DOMAIN mem' \subseteq Nat \ {0}  BY <1>8, <1>11
  <2> QED  BY <2>1, <2>2, <2>3 DEF MemOK, MemIs
<1>13. gc'.phase = gc.then /\ gc'.then = "run" /\ gc'.phase \in Returns
  <2>1. gc.then \in Returns  BY <1>2 DEF Collector
  <2> QED  BY <1>5, <2>1, NoGCIs DEF NoGC
<1>14. gc' \in Collector
  <2>1. gc.then \in Phases  BY <1>2 DEF Collector, Phases
  <2> QED  BY <1>5, <2>1, NoGCIs DEF Collector
<1>15. SpacesOK'
  <2>1. /\ to \in Spans /\ from.start # to.start /\ to.start <= to.top /\ to.top <= to.start + SurvivorWords
        /\ eden_top <= EdenStart + EdenWords /\ from.top <= from.start + SurvivorWords
        /\ old_top <= committed_end /\ committed_end <= OldEnd /\ committed_end \in Nat
    BY <1>2 DEF SpacesOK
  <2>2. te <= EdenStart + EdenWords /\ tf <= from.start + SurvivorWords /\ tb <= committed_end
    BY <1>2, <1>6, <2>1, Geometry
  <2> QED  BY <1>5, <1>6, <1>7, <2>1, <2>2 DEF SpacesOK
<1>16. TypeInv'
  <2>1. dirty' \subseteq Cards /\ roots' \in [Roots -> Nat]  BY <1>2, <1>5 DEF TypeInv, CardsOf
  <2>2. gc.then # "run" => request \in Requests  BY <1>2 DEF TypeInv
  <2>3. gc'.then # "run" \/ gc'.phase \in Returns \ {"run"} => request' \in Requests
    BY <1>5, <1>13, <2>2
  <2> QED  BY <1>12, <1>14, <1>15, <2>1, <2>3 DEF TypeInv
<1>17. \A a, b \in DOMAIN mem' : a < b => a + mem'[a].size <= b
  <2> SUFFICES ASSUME NEW a \in DOMAIN mem', NEW b \in DOMAIN mem', a < b
               PROVE  a + mem'[a].size <= b
    OBVIOUS
  <2>1. PICK e \in P : a = e.new  BY <1>11
  <2>2. PICK f \in P : b = f.new  BY <1>11
  <2>3. e.old \in Nat /\ f.old \in Nat /\ e.new \in Nat /\ f.new \in Nat /\ e.size \in Nat /\ f.size \in Nat
    BY <1>8
  <2>4. e.old # f.old
    <3>1. e # f  BY <2>1, <2>2, <2>3
    <3> QED  BY <1>2, <1>4, <3>1 DEF PlanOrder
  <2>5. ~(f.old < e.old)
    <3>1. f.old < e.old => f.new + f.size <= e.new  BY <1>2, <1>4 DEF PlanOrder
    <3> QED  BY <2>1, <2>2, <2>3, <3>1
  <2>6. e.old < f.old  BY <2>3, <2>4, <2>5
  <2>7. e.new + e.size <= f.new  BY <1>2, <1>4, <2>6 DEF PlanOrder
  <2> QED  BY <1>10, <2>1, <2>2, <2>7
<1>18. \A a \in DOMAIN mem' : \/ EdenStart <= a /\ a + mem'[a].size <= te
                              \/ from.start <= a /\ a + mem'[a].size <= tf
                              \/ OldStart <= a /\ a + mem'[a].size <= tb
  <2> TAKE a \in DOMAIN mem'
  <2>1. PICK e \in P : a = e.new  BY <1>11
  <2>2. \/ EdenStart <= e.new /\ e.new + e.size <= te
        \/ from.start <= e.new /\ e.new + e.size <= tf
        \/ OldStart <= e.new /\ e.new + e.size <= tb
    BY <1>2, <1>3, <1>4 DEF PlanPlaces, MovesIn
  <2> QED  BY <1>10, <2>1, <2>2
<1>19. Apart' /\ Housed'
  BY <1>5, <1>7, <1>17, <1>18 DEF Apart, Housed, Within
<1>20. ASSUME NEW s, NEW t, Filled(s, t), NEW w \in s .. t - 1
       PROVE  \E a \in DOMAIN mem' : s <= a /\ a <= w /\ w < a + mem'[a].size /\ a + mem'[a].size <= t
  <2>1. PICK e \in P : s <= e.new /\ e.new <= w /\ w < e.new + e.size /\ e.new + e.size <= t
    BY <1>4, <1>20 DEF Filled
  <2> QED  BY <1>10, <2>1
<1>21. AllTiled'
  <2>1. Filled(EdenStart, te) /\ Filled(from.start, tf) /\ Filled(OldStart, tb)
    BY <1>2, <1>3 DEF PlanFilled
  <2>2. Tiled(EdenStart, eden_top)'  BY <1>5, <1>20, <2>1 DEF Tiled
  <2>3. Tiled(from.start, from.top)'  BY <1>7, <1>20, <2>1 DEF Tiled
  <2>4. Tiled(OldStart, old_top)'  BY <1>5, <1>20, <2>1 DEF Tiled
  <2>5. Tiled(to.start, to.top)'
    <3>1. to'.start = to'.top /\ to'.top \in Nat  BY <1>2, <1>5, Geometry
    <3>2. to'.start .. to'.top - 1 = {}  BY <3>1
    <3> QED  BY <3>2 DEF Tiled
  <2> QED  BY <2>2, <2>3, <2>4, <2>5 DEF AllTiled
<1>22. TableInv'
  <2> SUFFICES ASSUME NEW i \in Cards, NEW a \in DOMAIN mem', IsOld(a), a <= CardBase(i),
                      CardBase(i) < a + mem'[a].size
               PROVE  offsets'[i] = Entry(i, a)
    BY DEF TableInv, IsOld
  <2>1. PICK e \in P : a = e.new  BY <1>11
  <2>2. mem'[a].size = e.size  BY <1>10, <2>1
  <2> QED  BY <1>2, <1>3, <1>5, <2>1, <2>2 DEF SlideHeap
<1>23. \A v : WillBe(v) => v = 0 \/ v \in DOMAIN mem'
  BY <1>4, <1>9a DEF WillBe
<1>24. OopsInv'
  <2>1. \A r \in Roots : roots'[r] = 0 \/ roots'[r] \in DOMAIN mem'
    BY <1>2, <1>5, <1>23 DEF SlideHeap
  <2>2. ASSUME NEW a \in DOMAIN mem', NEW j \in DOMAIN mem'[a].slots
        PROVE  mem'[a].slots[j] = 0 \/ mem'[a].slots[j] \in DOMAIN mem'
    <3>1. PICK e \in P : a = e.new  BY <1>11
    <3>2. WillBe(mem'[a].slots[j])  BY <1>10, <3>1
    <3> QED  BY <1>23, <3>2
  <2> QED  BY <2>1, <2>2 DEF OopsInv, Valid
<1>25. Remembered'
  <2> SUFFICES ASSUME NEW a \in DOMAIN mem', IsOld(a), NEW j \in DOMAIN mem'[a].slots
               PROVE  CardIndex(a + mem'[a].size - Len(mem'[a].slots) + j - 1) \in dirty'
    BY DEF Remembered, IsOld, SlotCard, SlotAddr
  <2>1. PICK o : o = mem'[a]  OBVIOUS
  <2>2. o \in Objects /\ Len(o.slots) < o.size /\ a \in Nat  BY <1>12, <2>1 DEF MemOK, MemIs
  <2>3. o.slots \in Seq(Nat) /\ o.size \in Nat  BY <2>2 DEF Objects
  <2>4. PICK n, l \in Nat : n = o.size /\ l = Len(o.slots) /\ l < n /\ j \in 1 .. l
    BY <2>1, <2>2, <2>3, SeqElements
  <2>5. PICK w \in Nat : w = a + n - l + j - 1 /\ a <= w /\ w < a + n  BY <2>2, <2>4
  <2>6. OldStart <= a /\ a + n <= tb
    <3>1. a >= OldStart /\ OldStart \in Nat  BY OldAssumption DEF IsOld
    <3>2. \/ EdenStart <= a /\ a + n <= te
          \/ from.start <= a /\ a + n <= tf
          \/ OldStart <= a /\ a + n <= tb
      BY <1>18, <2>1, <2>4
    <3>3. te <= OldStart /\ tf <= OldStart  BY <1>2, <1>6, Geometry
    <3> QED  BY <1>6, <2>2, <2>4, <3>1, <3>2, <3>3
  <2>7. PICK s, k \in Nat : s = OldStart /\ s + k = tb
    <3>1. OldStart \in Nat /\ tb - OldStart \in Nat  BY <1>6, OldAssumption
    <3> QED  BY <1>6, <3>1
  <2>8. s + k <= OldEnd  BY <1>2, <1>6, <2>7, Geometry
  <2>9. s <= w /\ w < s + k  BY <2>2, <2>4, <2>5, <2>6, <2>7
  <2>10. CardIndex(w) \in CardsOf(s, s + k)  BY <2>7, <2>8, <2>9, CardOfWord
  <2>11. CardIndex(w) \in dirty'  BY <1>5, <2>7, <2>10
  <2> QED  BY <2>1, <2>4, <2>5, <2>11
<1>26. \A a \in DOMAIN mem' : mem'[a].fwd = 0 /\ ~mem'[a].marked  BY <1>10, <1>11
<1>27. QuietHeap'
  BY <1>2, <1>5, <1>19, <1>21, <1>22, <1>24, <1>25, <1>26 DEF QuietHeap, LayoutInv
<1>28. Quiet'  BY <1>13 DEF Quiet
<1> QED  BY <1>16, <1>27, <1>28, QuietAfter

\* A step of the full collector keeps the heap.
LEMMA FullGCStepKeeps ==
    ASSUME HeapInv, FullGCStep
    PROVE  HeapInv'
BY MarkObjectKeeps, ForwardingComputeKeeps, RewriteKeeps, SlideKeeps, FinishFullGCKeeps
   DEF FullGCStep

-----------------------------------------------------------------------------
(* The theorems. *)

\* The empty heap satisfies the invariant.
LEMMA HeapInit == Init => HeapInv
<1> SUFFICES ASSUME Init PROVE HeapInv  OBVIOUS
<1>1. /\ mem = << >> /\ roots = [r \in Roots |-> 0] /\ eden_top = EdenStart
      /\ from = [start |-> SurvivorA, top |-> SurvivorA]
      /\ to = [start |-> SurvivorB, top |-> SurvivorB]
      /\ old_top = OldStart /\ committed_end = LesserOf(OldStart + Segment, OldEnd)
      /\ dirty = {} /\ gc = NoGC
  BY DEF Init
<1>2. DOMAIN mem = {} /\ mem = [a \in DOMAIN mem |-> mem[a]]  BY <1>1
<1>3. gc \in Collector /\ gc.phase = "run" /\ gc.then = "run"  BY <1>1, NoGCIs
<1>4. /\ EdenStart \in Nat /\ EdenWords \in Nat /\ SurvivorWords \in Nat \ {0} /\ Segment \in Nat
      /\ SurvivorA \in Nat /\ SurvivorB \in Nat /\ SurvivorA # SurvivorB
      /\ OldStart \in Nat /\ OldEnd \in Nat /\ OldStart <= OldEnd
  BY LayoutAssumption, OldAssumption DEF SurvivorA, SurvivorB
<1>5. /\ from \in Spans /\ to \in Spans /\ from.start = SurvivorA /\ from.top = SurvivorA
      /\ to.start = SurvivorB /\ to.top = SurvivorB
  BY <1>1, <1>4 DEF Spans
<1>6. committed_end \in Nat /\ OldStart <= committed_end /\ committed_end <= OldEnd
  BY <1>1, <1>4 DEF LesserOf
<1>7. SpacesOK
  <2>1. /\ SurvivorA <= SurvivorA + SurvivorWords /\ SurvivorB <= SurvivorB + SurvivorWords
        /\ EdenStart <= EdenStart + EdenWords
    BY <1>4
  <2> QED  BY <1>1, <1>4, <1>5, <1>6, <2>1 DEF SpacesOK
<1>8. MemOK
  <2>1. mem \in [DOMAIN mem -> Objects]  BY <1>2
  <2> QED  BY <1>2, <2>1 DEF MemOK, MemIs
<1>9. TypeInv
  <2>1. roots \in [Roots -> Nat] /\ dirty \subseteq Cards  BY <1>1
  <2> QED  BY <1>3, <1>7, <1>8, <2>1 DEF TypeInv
<1>10. LayoutInv
  <2>1. /\ EdenStart .. eden_top - 1 = {} /\ from.start .. from.top - 1 = {}
        /\ to.start .. to.top - 1 = {} /\ OldStart .. old_top - 1 = {}
    BY <1>1, <1>4, <1>5
  <2>2. AllTiled  BY <2>1 DEF AllTiled, Tiled
  <2> QED  BY <1>2, <2>2 DEF LayoutInv, Apart, Housed
<1>11. OopsInv  BY <1>1, <1>2 DEF OopsInv, Valid
<1>12. TableInv /\ Remembered /\ to.top = to.start  BY <1>2, <1>5 DEF TableInv, Remembered
<1>13. ~Scanning /\ gc.phase \notin {"mark", "rewrite", "slide"}  BY <1>3 DEF Scanning
<1>14. WalkInv /\ CleanInv /\ RememberInv
  BY <1>2, <1>10, <1>11, <1>12 DEF WalkInv, CleanInv, RememberInv
<1>15. ScanInv /\ MarkInv /\ PlanInv /\ RewriteInv /\ SlideInv
  BY <1>13 DEF ScanInv, MarkInv, PlanInv, RewriteInv, SlideInv
<1> QED  BY <1>9, <1>14, <1>15 DEF HeapInv

\* A step that changes nothing.
LEMMA HeapStutter ==
    ASSUME HeapInv, UNCHANGED vars
    PROVE  HeapInv'
<1>1. UNCHANGED <<mem, roots, eden_top, from, to, old_top, committed_end, dirty, offsets, request, gc>>
  BY DEF vars, spaceVars, tableVars
<1>2. TypeInv'  BY <1>1 DEF HeapInv, TypeInv, MemOK, SpacesOK
<1>3. Walkable' = Walkable /\ Scanning' = Scanning /\ Quiet' = Quiet
  BY <1>1 DEF Walkable, Scanning, Quiet
<1>4. LayoutInv => LayoutInv'  BY <1>1 DEF LayoutInv, Apart, Housed, Within, AllTiled, Tiled
<1>5. TableInv => TableInv'  BY <1>1 DEF TableInv
<1>6. OopsInv => OopsInv'  BY <1>1 DEF OopsInv, Valid
<1>7. WalkInv'  BY <1>3, <1>4, <1>5, <1>6 DEF HeapInv, WalkInv
<1>8. CleanInv'  BY <1>1, <1>3 DEF HeapInv, CleanInv
<1>9. RememberInv'  BY <1>1, <1>3 DEF HeapInv, RememberInv, Remembered, SlotCard, SlotAddr
<1>10. ScanInv'
  <2>1. ScanBounds => ScanBounds'  BY <1>1 DEF ScanBounds, InTo
  <2>2. ForwardInv /\ FromSlots => ForwardInv' /\ FromSlots'  BY <1>1 DEF ForwardInv, FromSlots, InFrom, InTo
  <2>3. RootSlots => RootSlots'  BY <1>1 DEF RootSlots, InFrom, InTo
  <2>4. OldSlots => OldSlots'  BY <1>1 DEF OldSlots, InFrom, InTo, SlotCard, SlotAddr
  <2>5. ToSlots /\ PromotedSlots => ToSlots' /\ PromotedSlots'
    BY <1>1 DEF ToSlots, PromotedSlots, CopiedSlots, InFrom, InTo
  <2>6. WorkInv => WorkInv'  BY <1>1 DEF WorkInv, InFrom, InTo, ValueOf, HeapSlot, SlotCard, SlotAddr
  <2> QED  BY <1>3, <2>1, <2>2, <2>3, <2>4, <2>5, <2>6 DEF HeapInv, ScanInv
<1>11. MarkInv'  BY <1>1 DEF HeapInv, MarkInv, Live
<1>12. PlanInv'
  BY <1>1 DEF HeapInv, PlanInv, PlanHeap, PlanOrder, PlanPlaces, PlanTops, PlanFilled, Entries,
              MovesIn, Filled
<1>13. RewriteInv'  BY <1>1 DEF HeapInv, RewriteInv, RewriteHeap, Planned
<1>14. SlideInv'  BY <1>1 DEF HeapInv, SlideInv, SlideHeap, Carried, WillBe, Entries
<1> QED  BY <1>2, <1>7, <1>8, <1>9, <1>10, <1>11, <1>12, <1>13, <1>14 DEF HeapInv

\* Every step keeps the invariant.
LEMMA HeapStep == HeapInv /\ [Next]_vars => HeapInv'
<1> SUFFICES ASSUME HeapInv, [Next]_vars PROVE HeapInv'  OBVIOUS
<1>1. CASE \E r \in Roots, q \in Roots : Load(r, q) \/ Store(r, q) \/ RuntimeStore(r, q)
  BY <1>1, LoadKeeps, StoreKeeps, RuntimeStoreKeeps
<1>2. CASE \E r \in Roots : Drop(r)
  BY <1>2, DropKeeps
<1>3. CASE \E r \in Roots, s \in Shapes :
              Allocate(r, s) \/ AllocateScavenges(r, s) \/ AllocateCompacts(r, s)
  BY <1>3, AllocateKeeps, AllocateScavengesKeeps, AllocateCompactsKeeps
<1>4. CASE EnsureGuarantee \/ Satisfy \/ LastResort \/ AllocateStall
  BY <1>4, EnsureGuaranteeKeeps, SatisfyKeeps, LastResortKeeps, AllocateStallKeeps
<1>5. CASE PrimScavenge \/ PrimFull
  BY <1>5, PrimScavengeKeeps, PrimFullKeeps
<1>6. CASE ScavengeStep
  BY <1>6, ScavengeStepKeeps
<1>7. CASE FullGCStep
  BY <1>7, FullGCStepKeeps
<1>8. CASE UNCHANGED vars
  BY <1>8, HeapStutter
<1> QED  BY <1>1, <1>2, <1>3, <1>4, <1>5, <1>6, <1>7, <1>8 DEF Next

\* The inductive invariant, over every phase of both collectors and of the allocation
\* cascade.
THEOREM HeapInvariant == Spec => []HeapInv
BY HeapInit, HeapStep, PTL DEF Spec

\* The spaces can be walked whenever the mutator or the allocator looks: objects tile
\* them up to their tops, no header carries a mark or a forwarding word, and the offset
\* table leads every card to the object its first word belongs to.
THEOREM HeapWellFormed == Spec => []WellFormed
<1>1. HeapInv => WellFormed
  <2> SUFFICES ASSUME HeapInv, gc.phase \in {"run", "retry", "last", "guarantee"}
               PROVE  /\ Tiled(EdenStart, eden_top) /\ Tiled(from.start, from.top)
                      /\ Tiled(OldStart, old_top)
                      /\ \A a \in DOMAIN mem : mem[a].fwd = 0 /\ ~mem[a].marked
                      /\ to.top = to.start
                      /\ \A i \in Cards : CardBase(i) < old_top =>
                            LET h == Resolve(offsets, i)
                            IN  h \in DOMAIN mem /\ h <= CardBase(i) /\ CardBase(i) < h + mem[h].size
    BY DEF WellFormed
  <2>1. TypeInv /\ QuietHeap  BY QuietHas DEF Quiet, Returns
  <2>2. MemOK /\ SpacesOK /\ LayoutInv /\ TableInv  BY <2>1 DEF TypeInv, QuietHeap
  <2>3. \A i \in Cards : CardBase(i) < old_top =>
           LET h == Resolve(offsets, i)
           IN  h \in DOMAIN mem /\ h <= CardBase(i) /\ CardBase(i) < h + mem[h].size
    BY <2>2, ResolvesTo
  <2> QED  BY <2>1, <2>3 DEF QuietHeap, LayoutInv, AllTiled
<1> QED  BY <1>1, HeapInvariant, PTL

\* The remembered set is complete whenever a scavenge may start: no young object is
\* reached from old gen only through a clean card.
THEOREM RememberedSetComplete == Spec => []RememberedSet
<1>1. HeapInv => RememberedSet
  <2> SUFFICES ASSUME HeapInv, gc.phase \in {"run", "retry", "last", "guarantee"}
               PROVE  RememberedSet
    BY DEF RememberedSet
  <2>1. Remembered  BY QuietHas DEF Quiet, Returns, QuietHeap
  <2> QED  BY <2>1 DEF Remembered, RememberedSet, SlotCard
<1> QED  BY <1>1, HeapInvariant, PTL

\* scavenge_oop is never handed a to-space address: its panic "double-copy imminent" is
\* unreachable.
THEOREM NothingCopiedTwice == Spec => []NoDoubleCopy
<1>1. HeapInv => NoDoubleCopy
  <2> SUFFICES ASSUME HeapInv, Scanning, NEW s \in gc.work
               PROVE  ~(to.start <= ValueOf(s) /\ ValueOf(s) < to.top)
    BY DEF NoDoubleCopy
  <2>1. TypeInv /\ ScanHeap  BY ScanHas
  <2>2. MemOK /\ SpacesOK /\ Housed  BY <2>1 DEF TypeInv, ScanHeap, LayoutInv
  <2>3. PICK v : v = ValueOf(s)  OBVIOUS
  <2>4. v \in DOMAIN mem /\ InFrom(v)  BY <2>1, <2>3, BatchSlot
  <2>5. ~InTo(v)  BY <2>2, <2>4, Kinds
  <2> QED  BY <2>3, <2>5 DEF InTo
<1> QED  BY <1>1, HeapInvariant, PTL

-----------------------------------------------------------------------------
(* The promotion guarantee.  A scavenge promotes each object left behind at  *)
(* most once, so what is left to promote never outgrows the room in old gen  *)
(* that was there for it when the scavenge began.                            *)

\* Everything that may have to be promoted lies in eden or in the survivor space.
LEMMA PromotionFits ==
    ASSUME SpacesOK, MemOK, Housed
    PROVE  IsFiniteSet(ToPromote) /\ Cardinality(ToPromote) \in Nat /\ Cardinality(ToPromote) <= Worst
<1>0. /\ EdenStart \in Nat /\ eden_top \in Nat /\ EdenStart <= eden_top
      /\ from.start \in Nat /\ from.top \in Nat /\ from.start <= from.top
  BY Geometry
<1>1. PICK et \in Int, fs \in Int, ft \in Int : et = eden_top - 1 /\ fs = from.start /\ ft = from.top - 1
  BY <1>0
<1>1a. PICK E, F : E = EdenStart .. et /\ F = fs .. ft  OBVIOUS
<1>2. ASSUME NEW w \in ToPromote PROVE w \in E \cup F
  <2>1. PICK a \in DOMAIN mem : InFrom(a) /\ a <= w /\ w < a + mem[a].size  BY DEF ToPromote
  <2>2. w \in Int
    <3>1. w \in EdenStart .. OldStart - 1  BY DEF ToPromote
    <3> QED  BY <3>1
  <2>3. PICK n \in Nat : n = mem[a].size /\ a \in Nat  BY <2>1, ObjectIs
  <2>4. Within(a, EdenStart, eden_top) \/ Within(a, from.start, from.top)  BY <2>1, Kinds
  <2>5. (EdenStart <= w /\ w <= et) \/ (fs <= w /\ w <= ft)
    BY <1>0, <1>1, <2>1, <2>2, <2>3, <2>4 DEF Within
  <2> QED  BY <1>0, <1>1a, <2>2, <2>5
<1>3. /\ IsFiniteSet(E) /\ Cardinality(E) = eden_top - EdenStart
      /\ IsFiniteSet(F) /\ Cardinality(F) = from.top - from.start
  <2>2. IsFiniteSet(E) /\ Cardinality(E) = IF EdenStart > et THEN 0 ELSE et - EdenStart + 1
    BY <1>0, <1>1a, FS_Interval
  <2>4. IsFiniteSet(F) /\ Cardinality(F) = IF fs > ft THEN 0 ELSE ft - fs + 1
    BY <1>1a, FS_Interval
  <2> QED  BY <1>0, <1>1, <2>2, <2>4
<1>4. /\ IsFiniteSet(E \cup F)
      /\ Cardinality(E \cup F) = Cardinality(E) + Cardinality(F) - Cardinality(E \cap F)
  BY <1>3, FS_Union
<1>5. Cardinality(E \cap F) \in Nat
  <2>1. E \cap F \in SUBSET E  OBVIOUS
  <2>2. IsFiniteSet(E \cap F)  BY <1>3, <2>1, FS_Subset
  <2> QED  BY <2>2, FS_CardinalityType
<1>6. ToPromote \in SUBSET (E \cup F)  BY <1>2
<1>7. IsFiniteSet(ToPromote) /\ Cardinality(ToPromote) <= Cardinality(E \cup F)
  BY <1>4, <1>6, FS_Subset
<1>8. Cardinality(ToPromote) \in Nat  BY <1>7, FS_CardinalityType
<1>9. Cardinality(E \cup F) <= Worst
  BY <1>3, <1>4, <1>5, Geometry DEF Worst
<1>10. Cardinality(E \cup F) \in Int /\ Worst \in Int
  BY <1>3, <1>4, <1>5, Geometry DEF Worst
<1> QED  BY <1>7, <1>8, <1>9, <1>10

\* The words of an object that is still to be dealt with are among them.
LEMMA PromotesWords ==
    ASSUME SpacesOK, MemOK, Housed, NEW v \in DOMAIN mem, InFrom(v), mem[v].fwd = 0,
           NEW W, W = v .. v + mem[v].size - 1
    PROVE  W \subseteq ToPromote /\ IsFiniteSet(W) /\ Cardinality(W) = mem[v].size
<1>1. PICK n \in Nat : n = mem[v].size /\ n > 0 /\ v \in Nat  BY ObjectIs
<1>2. EdenStart <= v /\ v + n <= OldStart
  <2>1. v + mem[v].size <= OldStart /\ EdenStart <= v  BY Kinds
  <2> QED  BY <1>1, <2>1
<1>3. ASSUME NEW w \in W PROVE w \in ToPromote
  <2>1. w \in Int /\ v <= w /\ w < v + n  BY <1>1
  <2>2. w \in EdenStart .. OldStart - 1
    <3>1. EdenStart \in Nat /\ OldStart \in Nat  BY Geometry
    <3>2. EdenStart <= w /\ w <= OldStart - 1  BY <1>1, <1>2, <2>1, <3>1
    <3> QED  BY <2>1, <3>1, <3>2
  <2> QED  BY <1>1, <2>1, <2>2 DEF ToPromote
<1>4. PICK z \in Int : z = v + n - 1  BY <1>1
<1>5. IsFiniteSet(W) /\ Cardinality(W) = IF v > z THEN 0 ELSE z - v + 1
  <2>1. W = v .. z /\ v \in Int  BY <1>1, <1>4
  <2>2. IsFiniteSet(v .. z) /\ Cardinality(v .. z) = IF v > z THEN 0 ELSE z - v + 1
    BY ONLY <1>4, <2>1, FS_Interval, ZenonT(30)
  <2> QED  BY ONLY <2>1, <2>2
<1> QED  BY <1>1, <1>3, <1>4, <1>5

\* A copy takes the words of the object off them, and at most as many words of old gen.
LEMMA SlotKeepsRoom ==
    ASSUME HeapInv, ScavengeSlot, RoomInv
    PROVE  RoomInv'
<1>1. Scanning  BY DEF ScavengeSlot
<1>2. TypeInv /\ ScanHeap  BY <1>1, ScanHas
<1>3. PICK s, v, nv : Scavenged(s, v, nv)  BY <1>2, ScavengeSlotDoes
<1>4. MemOK /\ SpacesOK /\ LayoutInv /\ Housed  BY <1>2 DEF TypeInv, ScanHeap, LayoutInv
<1>5. guarantee_met' = guarantee_met /\ committed_end' = committed_end /\ gc'.then = gc.then
  <2>1. gc'.then = gc.then  BY <1>3 DEF Scavenged
  <2> QED  BY <2>1 DEF ScavengeSlot
<1>6. /\ v \in DOMAIN mem /\ InFrom(v) /\ nv \in Nat \ {0} /\ DOMAIN mem' = DOMAIN mem \cup {nv}
      /\ \A b \in DOMAIN mem : mem'[b].size = mem[b].size
                               /\ mem'[b].fwd = IF b = v THEN nv ELSE mem[b].fwd
  BY <1>3 DEF Scavenged
<1>7. ~InFrom(nv) /\ \A x \in Nat : InFrom(x)' <=> InFrom(x)  BY <1>1, <1>2, <1>3, ScavengedPlaces
<1>8. ASSUME NEW w \in ToPromote'
      PROVE  w \in ToPromote /\ ~(v <= w /\ w < v + mem[v].size)
  <2>1. w \in EdenStart .. OldStart - 1  BY DEF ToPromote
  <2>2. PICK a \in DOMAIN mem' : InFrom(a)' /\ mem'[a].fwd = 0 /\ a <= w /\ w < a + mem'[a].size
    BY DEF ToPromote
  <2>3. a \in Nat
    <3>1. \A b \in DOMAIN mem : b \in Nat  BY <1>4, ObjectIs
    <3> QED  BY <1>6, <3>1
  <2>4. InFrom(a)  BY <1>7, <2>2, <2>3
  <2>5. a \in DOMAIN mem  BY <1>6, <1>7, <2>4
  <2>6. mem'[a].size = mem[a].size /\ a # v /\ mem[a].fwd = 0  BY <1>6, <2>2, <2>5
  <2>7. w \in ToPromote  BY <2>1, <2>2, <2>4, <2>5, <2>6 DEF ToPromote
  <2>8. /\ a < v => a + mem[a].size <= v
        /\ v < a => v + mem[v].size <= a
    BY <1>4, <1>6, <2>5 DEF LayoutInv, Apart
  <2>9. mem[a].size \in Nat /\ mem[v].size \in Nat /\ v \in Nat  BY <1>4, <1>6, <2>5, ObjectIs
  <2>10. w \in Int  BY <2>1
  <2> QED  BY <2>2, <2>3, <2>6, <2>7, <2>8, <2>9, <2>10
<1>9. PICK T, T2 : T = ToPromote /\ T2 = ToPromote'  OBVIOUS
<1>10. IsFiniteSet(T) /\ Cardinality(T) \in Nat  BY <1>4, <1>9, PromotionFits
<1>11. /\ old_top' = old_top
       \/ /\ nv \notin DOMAIN mem /\ old_top' = old_top + mem[v].size
  BY <1>3 DEF Scavenged, Lands
<1>12. old_top \in Nat /\ committed_end \in Nat  BY <1>4, Geometry
<1>13. CASE old_top' = old_top
  <2>1. T2 \in SUBSET T  BY <1>8, <1>9
  <2>2. IsFiniteSet(T2) /\ Cardinality(T2) <= Cardinality(T)  BY <1>10, <2>1, FS_Subset
  <2>3. Cardinality(T2) \in Nat  BY <2>2, FS_CardinalityType
  <2>4. guarantee_met' /\ gc'.then # "run" => Cardinality(T) <= committed_end - old_top
    BY <1>1, <1>5, <1>9 DEF RoomInv
  <2>5. guarantee_met' /\ gc'.then # "run" => Cardinality(T2) <= committed_end' - old_top'
    BY <1>5, <1>10, <1>12, <1>13, <2>2, <2>3, <2>4
  <2> QED  BY <1>9, <2>5 DEF RoomInv
<1>14. CASE nv \notin DOMAIN mem /\ old_top' = old_top + mem[v].size
  <2>1. mem[v].fwd = 0  BY <1>3, <1>14 DEF Scavenged
  <2>2. PICK W : W = v .. v + mem[v].size - 1  OBVIOUS
  <2>3. W \subseteq T /\ IsFiniteSet(W) /\ Cardinality(W) = mem[v].size
    BY <1>4, <1>6, <1>9, <2>1, <2>2, PromotesWords
  <2>4. mem[v].size \in Nat /\ v \in Nat  BY <1>4, <1>6, ObjectIs
  <2>5. T2 \in SUBSET (T \ W)  BY <1>8, <1>9, <2>2, <2>4
  <2>6. IsFiniteSet(T \ W) /\ Cardinality(T \ W) = Cardinality(T) - Cardinality(T \cap W)
    BY <1>10, FS_Difference
  <2>7. T \cap W = W  BY <2>3
  <2>8. IsFiniteSet(T2) /\ Cardinality(T2) <= Cardinality(T \ W)  BY <2>5, <2>6, FS_Subset
  <2>9. Cardinality(T2) \in Nat  BY <2>8, FS_CardinalityType
  <2>10. guarantee_met' /\ gc'.then # "run" => Cardinality(T) <= committed_end - old_top
    BY <1>1, <1>5, <1>9 DEF RoomInv
  <2>11. PICK n \in Nat : n = mem[v].size  BY <2>4
  <2>12. Cardinality(T2) <= Cardinality(T) - n  BY <2>3, <2>6, <2>7, <2>8, <2>11
  <2>13. guarantee_met' /\ gc'.then # "run" => Cardinality(T2) <= committed_end' - old_top'
    BY <1>5, <1>10, <1>12, <1>14, <2>9, <2>10, <2>11, <2>12
  <2> QED  BY <1>9, <2>13 DEF RoomInv
<1> QED  BY <1>11, <1>13, <1>14

\* The promotion guarantee with what it rests on.
GuaranteeInv == WorstInv /\ RoomInv /\ ReturnInv /\ GuaranteeHolds

\* Steps that leave the objects, the spaces and the phase's kind alone.
LEMMA SameRoom ==
    ASSUME RoomInv, Scanning, gc'.then = gc.then,
           UNCHANGED <<mem, eden_top, from, old_top, committed_end, guarantee_met>>
    PROVE  RoomInv'
<1>1. ToPromote' = ToPromote  BY DEF ToPromote, InFrom
<1> QED  BY <1>1 DEF RoomInv

\* A step that leads neither into a scavenge nor towards one.
LEMMA GuaranteeAway ==
    ASSUME gc'.phase \notin {"roots", "card", "code", "cheney", "guarantee", "promote_stall"},
           gc'.phase \in {"mark", "rewrite", "slide"} => gc'.then # "guarantee"
    PROVE  GuaranteeInv'
<1>1. ~Scanning'  BY DEF Scanning
<1> QED  BY <1>1 DEF GuaranteeInv, WorstInv, RoomInv, ReturnInv, GuaranteeHolds

\* A step within a scavenge that keeps the room.
LEMMA GuaranteeScans ==
    ASSUME RoomInv', gc'.phase \in {"roots", "card", "code", "cheney"}, gc'.then # "guarantee"
    PROVE  GuaranteeInv'
BY DEF GuaranteeInv, WorstInv, ReturnInv, GuaranteeHolds

\* A scavenge begins with room for all of eden and of the survivor space, if the
\* guarantee says so.
LEMMA GuaranteeStarts ==
    ASSUME HeapInv, Quiet, NEW then, then # "guarantee", StartScavenge(then),
           UNCHANGED <<mem, eden_top, from, old_top>>,
           committed_end' \in Nat,
           guarantee_met' /\ then # "run" => committed_end' - old_top >= Worst
    PROVE  GuaranteeInv'
<1>1. TypeInv /\ QuietHeap  BY QuietHas
<1>2. MemOK /\ SpacesOK /\ Housed  BY <1>1 DEF TypeInv, QuietHeap, LayoutInv
<1>3. gc'.phase = "roots" /\ gc'.then = then  BY DEF StartScavenge, NoGC
<1>4. ToPromote' = ToPromote  BY DEF ToPromote, InFrom
<1>5. Cardinality(ToPromote) \in Nat /\ Cardinality(ToPromote) <= Worst  BY <1>2, PromotionFits
<1>6. Worst \in Int /\ old_top \in Nat
  <2>1. eden_top \in Nat /\ EdenStart \in Nat /\ from.top \in Nat /\ from.start \in Nat /\ old_top \in Nat
    BY <1>2, Geometry
  <2> QED  BY <2>1 DEF Worst
<1>7. committed_end' - old_top >= Worst => Cardinality(ToPromote) <= committed_end' - old_top
  <2>1. PICK c \in Nat : c = committed_end'  OBVIOUS
  <2>2. PICK o \in Nat : o = old_top  BY <1>6
  <2>3. PICK w \in Int : w = Worst  BY <1>6
  <2>4. PICK t \in Nat : t = Cardinality(ToPromote)  BY <1>5
  <2>5. t <= w  BY <1>5, <2>3, <2>4
  <2>6. c - o >= w => t <= c - o  BY <2>5
  <2> QED  BY <2>1, <2>2, <2>3, <2>4, <2>6
<1>8. RoomInv'  BY <1>3, <1>4, <1>7 DEF RoomInv
<1> QED  BY <1>3, <1>8, GuaranteeScans

\* A full collection on the way to the guarantee leaves eden and the survivor space no
\* fuller than they were when the worst case was computed.
LEMMA WorstShrinks ==
    ASSUME HeapInv, FinishFullGC, WorstInv
    PROVE  WorstInv'
<1>1. gc.phase = "slide"  BY DEF FinishFullGC
<1>2. TypeInv /\ PlanTops /\ SpacesOK /\ gc \in Collector  BY <1>1, SlideHas DEF PlanHeap, TypeInv
<1>3. /\ eden_top' = gc.tops.eden /\ from' = [from EXCEPT !.top = gc.tops.from]
      /\ gc' = [NoGC EXCEPT !.phase = gc.then] /\ request' = request
  BY DEF FinishFullGC
<1>4. from'.start = from.start /\ from'.top = gc.tops.from
  BY <1>2, <1>3 DEF SpacesOK, Spans
<1>5. gc'.phase = gc.then /\ gc'.then = "run"  BY <1>3, NoGCIs DEF NoGC
<1>6. SUFFICES ASSUME gc.then = "guarantee" PROVE Worst' <= request'.worst
  BY <1>5 DEF WorstInv
<1>7. Worst <= request.worst  BY <1>1, <1>6 DEF WorstInv
<1>8. gc.tops.eden \in Nat /\ gc.tops.from \in Nat  BY <1>2 DEF Collector
<1>9. gc.tops.eden <= eden_top /\ gc.tops.from <= from.top  BY <1>2 DEF PlanTops
<1>10. Worst' = (gc.tops.eden - EdenStart) + (gc.tops.from - from.start)  BY <1>3, <1>4 DEF Worst
<1>11. request.worst \in Int
  <2>1. request \in Requests  BY <1>2, <1>6 DEF TypeInv
  <2> QED  BY <2>1 DEF Requests
<1>12. eden_top \in Nat /\ EdenStart \in Nat /\ from.top \in Nat /\ from.start \in Nat
  BY <1>2, Geometry
<1>13. Worst = (eden_top - EdenStart) + (from.top - from.start)  BY DEF Worst
<1>14. Worst' <= Worst /\ Worst \in Int /\ Worst' \in Int  BY <1>8, <1>9, <1>10, <1>12, <1>13
<1> QED  BY <1>3, <1>7, <1>11, <1>14

\* A step of the full collector but the last leaves the spaces as they are.
LEMMA WorstStays ==
    ASSUME WorstInv, UNCHANGED <<eden_top, from, request>>, gc'.then = gc.then,
           gc.phase \in {"mark", "rewrite", "slide"}, gc'.phase \in {"mark", "rewrite", "slide"}
    PROVE  GuaranteeInv'
<1>1. Worst' = Worst  BY DEF Worst
<1>2. ~Scanning'  BY DEF Scanning
<1> QED  BY <1>1, <1>2 DEF GuaranteeInv, WorstInv, RoomInv, ReturnInv, GuaranteeHolds

\* The scavenge does not run out of room when the guarantee said it would not.
LEMMA StallWithoutGuarantee ==
    ASSUME HeapInv, RoomInv, ScavengeStall
    PROVE  GuaranteeInv'
<1>1. Scanning  BY DEF ScavengeStall
<1>2. TypeInv /\ ScanHeap  BY <1>1, ScanHas
<1>3. MemOK /\ SpacesOK /\ Housed  BY <1>2 DEF TypeInv, ScanHeap, LayoutInv
<1>4. PICK s \in gc.work : ToCopy(ValueOf(s)) /\ NoRoom(ValueOf(s))  BY DEF ScavengeStall
<1>5. PICK v : v = ValueOf(s)  OBVIOUS
<1>6. v \in DOMAIN mem /\ InFrom(v)  BY <1>1, <1>2, <1>5, BatchSlot
<1>7. mem[v].fwd = 0 /\ old_top + mem[v].size > committed_end
  BY <1>4, <1>5 DEF ToCopy, Forwarded, NoRoom
<1>8. PICK W : W = v .. v + mem[v].size - 1  OBVIOUS
<1>9. W \subseteq ToPromote /\ Cardinality(W) = mem[v].size  BY <1>3, <1>6, <1>7, <1>8, PromotesWords
<1>10. IsFiniteSet(ToPromote) /\ Cardinality(ToPromote) \in Nat  BY <1>3, PromotionFits
<1>11. Cardinality(W) <= Cardinality(ToPromote)
  <2>1. W \in SUBSET ToPromote  BY <1>9
  <2> QED  BY <1>10, <2>1, FS_Subset
<1>12. mem[v].size \in Nat /\ old_top \in Nat /\ committed_end \in Nat  BY <1>3, <1>6, ObjectIs, Geometry
<1>13. gc.then # "run" => ~guarantee_met
  <2>1. guarantee_met /\ gc.then # "run" => Cardinality(ToPromote) <= committed_end - old_top  BY <1>1 DEF RoomInv
  <2> QED  BY <1>7, <1>9, <1>10, <1>11, <1>12, <2>1
<1>14. gc'.phase = "promote_stall" /\ guarantee_met' = guarantee_met /\ gc'.then = gc.then
  BY <1>2 DEF ScavengeStall, TypeInv, Collector
<1>15. ~Scanning'  BY <1>14 DEF Scanning
<1> QED  BY <1>13, <1>14, <1>15 DEF GuaranteeInv, WorstInv, RoomInv, ReturnInv, GuaranteeHolds

\* Every step keeps the guarantee; gcScavenge's, which starts a scavenge without asking for
\* it, claims nothing.
LEMMA GuaranteeStep ==
    ASSUME HeapInv, GuaranteeInv, [Next]_vars
    PROVE  GuaranteeInv'
<1>0. WorstInv /\ RoomInv /\ ReturnInv /\ GuaranteeHolds  BY DEF GuaranteeInv
<1>1. TypeInv /\ gc \in Collector /\ SpacesOK  BY DEF HeapInv, TypeInv
<1>2. ASSUME gc.phase = "run", gc' = gc PROVE GuaranteeInv'
  BY <1>2, GuaranteeAway
<1>3. CASE \E r \in Roots, q \in Roots : Load(r, q) \/ Store(r, q) \/ RuntimeStore(r, q)
  <2>1. gc.phase = "run" /\ gc' = gc
    BY <1>3 DEF Load, Store, RuntimeStore, WriteField, Mutator
  <2> QED  BY <1>2, <2>1
<1>4. CASE \E r \in Roots : Drop(r)
  <2>1. gc.phase = "run" /\ gc' = gc  BY <1>4 DEF Drop, Mutator
  <2> QED  BY <1>2, <2>1
<1>5. ASSUME NEW r \in Roots, NEW s \in Shapes, Allocate(r, s) PROVE GuaranteeInv'
  <2>1. gc.phase = "run" /\ gc' = gc  BY <1>5 DEF Allocate, Mutator
  <2> QED  BY <1>2, <2>1
<1>6. ASSUME NEW r \in Roots, NEW s \in Shapes, AllocateScavenges(r, s) PROVE GuaranteeInv'
  <2>1. /\ Quiet /\ StartScavenge("retry") /\ committed_end - old_top >= Worst
        /\ UNCHANGED <<mem, eden_top, from, old_top, committed_end>>
    BY <1>6 DEF AllocateScavenges, Mutator, Quiet, Returns, FreeOld
  <2>2. committed_end' \in Nat  BY <1>1, <2>1, Geometry
  <2> QED  BY <2>1, <2>2, GuaranteeStarts
<1>7. ASSUME NEW r \in Roots, NEW s \in Shapes, AllocateCompacts(r, s) PROVE GuaranteeInv'
  <2>1. /\ StartFullGC("guarantee") /\ request' = [root |-> r, shape |-> s, worst |-> Worst]
        /\ UNCHANGED <<eden_top, from>>
    BY <1>7 DEF AllocateCompacts, spaceVars
  <2>2. gc'.phase = "mark"  BY <2>1 DEF StartFullGC, NoGC
  <2>3. Worst' = Worst /\ request'.worst = Worst  BY <2>1 DEF Worst
  <2>4. Worst \in Int
    <3>1. eden_top \in Nat /\ EdenStart \in Nat /\ from.top \in Nat /\ from.start \in Nat
      BY <1>1, Geometry
    <3> QED  BY <3>1 DEF Worst
  <2>5. Worst' <= request'.worst  BY <2>3, <2>4
  <2>6. ~Scanning'  BY <2>2 DEF Scanning
  <2> QED  BY <2>2, <2>5, <2>6 DEF GuaranteeInv, WorstInv, RoomInv, ReturnInv, GuaranteeHolds
<1>8. CASE EnsureGuarantee
  <2>1. /\ gc.phase = "guarantee" /\ StartScavenge("retry")
        /\ UNCHANGED <<mem, eden_top, from, old_top, request>>
        /\ committed_end' = GrowUntil(request.worst)
        /\ guarantee_met' = (GrowUntil(request.worst) - old_top >= request.worst)
    BY <1>8 DEF EnsureGuarantee, FreeOld
  <2>2. Quiet /\ Worst <= request.worst  BY <1>0, <2>1 DEF Quiet, Returns, WorstInv
  <2>3. request.worst \in Int
    <3>1. "guarantee" \in Returns \ {"run"}  BY DEF Returns
    <3>2. request \in Requests  BY <1>1, <2>1, <3>1 DEF TypeInv
    <3> QED  BY <3>2 DEF Requests
  <2>4. committed_end' \in Nat
    <3>1. TypeInv'  BY <1>8, EnsureGuaranteeKeeps DEF HeapInv
    <3> QED  BY <3>1 DEF TypeInv, SpacesOK
  <2>5. Worst \in Int /\ old_top \in Nat
    <3>1. /\ eden_top \in Nat /\ EdenStart \in Nat /\ from.top \in Nat /\ from.start \in Nat
          /\ old_top \in Nat
      BY <1>1, Geometry
    <3> QED  BY <3>1 DEF Worst
  <2>6. guarantee_met' = (committed_end' - old_top >= request.worst)  BY <2>1
  <2>7. committed_end' - old_top >= request.worst => committed_end' - old_top >= Worst
    <3>1. PICK c \in Nat : c = committed_end'  BY <2>4
    <3>2. PICK o \in Nat : o = old_top  BY <2>5
    <3>3. PICK x \in Int : x = request.worst  BY <2>3
    <3>4. PICK w \in Int : w = Worst  BY <2>5
    <3>5. w <= x  BY <2>2, <3>3, <3>4
    <3>6. c - o >= x => c - o >= w  BY <3>5
    <3> QED  BY <3>1, <3>2, <3>3, <3>4, <3>6
  <2>8. guarantee_met' => committed_end' - old_top >= Worst  BY <2>6, <2>7
  <2> QED  BY <2>1, <2>2, <2>4, <2>8, GuaranteeStarts
<1>9. CASE Satisfy
  <2>1. gc' = NoGC  BY <1>9 DEF Satisfy
  <2>2. gc'.phase = "run"  BY <2>1, NoGCIs
  <2> QED  BY <2>2, GuaranteeAway
<1>10. CASE LastResort
  <2>1. gc'.phase = "mark" /\ gc'.then = "last"  BY <1>10 DEF LastResort, StartFullGC, NoGC
  <2> QED  BY <2>1, GuaranteeAway
<1>11. CASE AllocateStall
  <2>1. gc'.phase = "mutator_stall"  BY <1>11 DEF AllocateStall, NoGC
  <2> QED  BY <2>1, GuaranteeAway
<1>12. CASE PrimScavenge
  <2>1. /\ Quiet /\ StartScavenge("run")
        /\ UNCHANGED <<mem, eden_top, from, old_top, committed_end>>
    BY <1>12 DEF PrimScavenge, Mutator, Quiet, Returns, spaceVars
  <2>2. committed_end' \in Nat  BY <1>1, <2>1, Geometry
  <2> QED  BY <2>1, <2>2, GuaranteeStarts
<1>13. CASE PrimFull
  <2>1. gc'.phase = "mark" /\ gc'.then = "run"  BY <1>13 DEF PrimFull, StartFullGC, NoGC
  <2> QED  BY <2>1, GuaranteeAway
<1>14. CASE ScavengeSlot
  <2>1. Scanning  BY <1>14 DEF ScavengeSlot
  <2>2. TypeInv /\ ScanHeap  BY <2>1, ScanHas
  <2>3. PICK s, v, nv : Scavenged(s, v, nv)  BY <1>14, <2>2, ScavengeSlotDoes
  <2>4. gc'.phase \in {"roots", "card", "code", "cheney"}  BY <2>1, <2>3 DEF Scavenged, Scanning
  <2>5. RoomInv'  BY <1>0, <1>14, SlotKeepsRoom
  <2>6. gc'.then # "guarantee"  BY <1>0, <2>1, <2>3 DEF ReturnInv, Scavenged
  <2> QED  BY <2>4, <2>5, <2>6, GuaranteeScans
<1>15. CASE ScavengeStall
  BY <1>0, <1>15, StallWithoutGuarantee
<1>16. CASE NextCard \/ CardsDone \/ ScanObject
  <2>1. /\ UNCHANGED <<mem, eden_top, from, old_top, committed_end, guarantee_met>>
        /\ Scanning
    BY <1>16 DEF NextCard, CardsDone, ScanObject, ScanningCards, InCheneyLoop, Scanning, spaceVars
  <2>2. gc'.phase \in {"roots", "card", "code", "cheney"}
    BY <1>1, <1>16 DEF NextCard, CardsDone, ScanObject, Collector
  <2>3. gc'.then = gc.then  BY <1>1, <1>16 DEF NextCard, CardsDone, ScanObject, Collector
  <2>4. RoomInv'  BY <1>0, <2>1, <2>3, SameRoom
  <2>5. gc'.then # "guarantee"  BY <1>0, <2>1, <2>3 DEF ReturnInv
  <2> QED  BY <2>2, <2>4, <2>5, GuaranteeScans
<1>17. CASE FinishScavenge
  <2>1. gc'.phase = gc.then  BY <1>17 DEF FinishScavenge, NoGC
  <2>2. gc.phase \in {"code", "cheney"}  BY <1>17 DEF FinishScavenge, InCheneyLoop
  <2>3. gc.then # "guarantee"  BY <1>0, <2>2 DEF ReturnInv, Scanning
  <2>4. gc.then \in Returns  BY <1>1 DEF Collector
  <2>5. gc'.phase \in {"run", "retry", "last"}  BY <2>1, <2>3, <2>4 DEF Returns
  <2> QED  BY <2>5, GuaranteeAway
<1>18. CASE MarkObject \/ ForwardingCompute \/ Rewrite \/ Slide
  <2>1. /\ UNCHANGED <<eden_top, from, request>> /\ gc.phase \in {"mark", "rewrite", "slide"}
    BY <1>18 DEF MarkObject, ForwardingCompute, Rewrite, Slide, SlideEntry, spaceVars
  <2>2. gc'.then = gc.then /\ gc'.phase \in {"mark", "rewrite", "slide"}
    BY <1>1, <1>18 DEF MarkObject, ForwardingCompute, Rewrite, Slide, SlideEntry, Collector
  <2> QED  BY <1>0, <2>1, <2>2, WorstStays
<1>19. CASE FinishFullGC
  <2>1. gc'.phase = gc.then  BY <1>19 DEF FinishFullGC, NoGC
  <2>2. gc'.phase \in Returns  BY <1>1, <2>1 DEF Collector
  <2>3. WorstInv'  BY <1>0, <1>19, WorstShrinks
  <2>4. ~Scanning' /\ gc'.phase # "promote_stall"  BY <2>2 DEF Scanning, Returns
  <2> QED  BY <2>3, <2>4 DEF GuaranteeInv, RoomInv, ReturnInv, GuaranteeHolds
<1>20. CASE UNCHANGED vars
  <2>1. UNCHANGED <<mem, eden_top, from, old_top, committed_end, guarantee_met, request, gc>>
    BY <1>20 DEF vars, spaceVars
  <2>2. ToPromote' = ToPromote /\ Worst' = Worst  BY <2>1 DEF ToPromote, InFrom, Worst
  <2> QED
    BY <1>0, <2>1, <2>2 DEF GuaranteeInv, WorstInv, RoomInv, ReturnInv, GuaranteeHolds, Scanning
<1>21. CASE ScavengeStep
  BY <1>14, <1>15, <1>16, <1>17, <1>21 DEF ScavengeStep
<1>22. CASE FullGCStep
  BY <1>18, <1>19, <1>22 DEF FullGCStep
<1>23. CASE \E r \in Roots, s \in Shapes :
               Allocate(r, s) \/ AllocateScavenges(r, s) \/ AllocateCompacts(r, s)
  BY <1>5, <1>6, <1>7, <1>23
<1> QED
  BY <1>3, <1>4, <1>8, <1>9, <1>10, <1>11, <1>12, <1>13, <1>20, <1>21, <1>22, <1>23 DEF Next

\* No scavenge of the allocation cascade runs out of promotion room that the guarantee had
\* reported, whatever gcScavenge did between two of them: record_stall's assertion holds
\* for every scavenge that asked for the guarantee.
THEOREM GuaranteeKept == Spec => []GuaranteeHolds
<1>1. Init => GuaranteeInv
  <2> SUFFICES ASSUME Init PROVE GuaranteeInv  OBVIOUS
  <2>1. gc.phase = "run"  BY NoGCIs DEF Init
  <2> QED  BY <2>1 DEF GuaranteeInv, WorstInv, RoomInv, ReturnInv, GuaranteeHolds, Scanning
<1>2. HeapInv /\ GuaranteeInv /\ [Next]_vars => GuaranteeInv'
  BY GuaranteeStep
<1>3. GuaranteeInv => GuaranteeHolds
  BY DEF GuaranteeInv
<1> QED  BY <1>1, <1>2, <1>3, HeapInvariant, PTL DEF Spec

-----------------------------------------------------------------------------
(* Reachability: the rounds of a search that adds successors. *)

Spread(h, X) == UNION {{i} \cup h[i] : i \in X}
Iterates(f, h, E, S, n) ==
    f[0] = S /\ \A k \in 1 .. n : f[k - 1] \subseteq E => f[k] = Spread(h, f[k - 1])
Searches(f, h, E, S, n) ==
    /\ f \in [0 .. n -> SUBSET E] /\ f[0] = S
    /\ \A k \in 1 .. n : f[k] = Spread(h, f[k - 1])
Closes(U, h, E, S) == S \subseteq U /\ \A i \in U : i \in E => h[i] \subseteq U
Ends(X, h, E, S) == S \subseteq X /\ X \in SUBSET E /\ \A i \in X : h[i] \subseteq X

\* What a round adds.
LEMMA SpreadIs ==
    ASSUME NEW E, NEW h \in [E -> SUBSET E], NEW X \in SUBSET E, NEW Y, Y = Spread(h, X)
    PROVE  /\ Y \in SUBSET E /\ X \subseteq Y
           /\ \A i \in X : h[i] \subseteq Y
           /\ \A x \in Y : x \in X \/ \E i \in X : x \in h[i]
BY DEF Spread

\* The rounds of a search exist, for every number of them.
LEMMA IteratesExist ==
    ASSUME NEW E, NEW h \in [E -> SUBSET E], NEW S \in SUBSET E, NEW n \in Nat
    PROVE  \E f : Searches(f, h, E, S, n)
<1> DEFINE Has(m) == \E f : Searches(f, h, E, S, m)
           T == {m \in Nat : ~Has(m)}
<1> SUFFICES ASSUME T # {} PROVE FALSE  OBVIOUS
<1>1. PICK m \in T : \A j \in T : m <= j  BY LeastNat
<1>2. CASE m = 0
  <2>1. PICK f : f = [k \in 0 .. 0 |-> S]  OBVIOUS
  <2>2. f \in [0 .. 0 -> SUBSET E] /\ f[0] = S  BY <2>1
  <2>3. \A k \in 1 .. 0 : FALSE  OBVIOUS
  <2> QED  BY <1>2, <2>2, <2>3 DEF Searches
<1>3. CASE m # 0
  <2>1. PICK p \in Nat : p + 1 = m /\ ~(m <= p)  BY <1>3
  <2>2. Has(p)  BY <1>1, <2>1
  <2>3. PICK f \in [0 .. p -> SUBSET E] :
           f[0] = S /\ \A k \in 1 .. p : f[k] = Spread(h, f[k - 1])
    BY <2>2 DEF Searches
  <2>4. PICK g : g = [k \in 0 .. m |-> IF k = m THEN Spread(h, f[p]) ELSE f[k]]  OBVIOUS
  <2>5. Spread(h, f[p]) \in SUBSET E  BY SpreadIs
  <2>6. \A k \in 0 .. m : k # m => k \in 0 .. p  BY <2>1
  <2>7. g \in [0 .. m -> SUBSET E] /\ g[0] = S  BY <2>1, <2>3, <2>4, <2>5, <2>6
  <2>8. ASSUME NEW k \in 1 .. m PROVE g[k] = Spread(h, g[k - 1])
    <3>1. CASE k = m  BY <2>1, <2>4, <3>1
    <3>2. CASE k # m  BY <2>1, <2>3, <2>4, <3>2
    <3> QED  BY <3>1, <3>2
  <2> QED  BY <2>7, <2>8 DEF Searches
<1> QED  BY <1>2, <1>3

\* A search never leaves a set that holds its start and the successors of its elements.
LEMMA IteratesInside ==
    ASSUME NEW E, NEW h \in [E -> SUBSET E], NEW S \in SUBSET E, NEW n \in Nat, NEW f,
           Iterates(f, h, E, S, n),
           NEW U, Closes(U, h, E, S)
    PROVE  \A k \in 0 .. n : f[k] \in SUBSET E /\ f[k] \subseteq U
<1> DEFINE T == {k \in 0 .. n : ~(f[k] \in SUBSET E /\ f[k] \subseteq U)}
<1> SUFFICES ASSUME T # {} PROVE FALSE  OBVIOUS
<1>0. T \in SUBSET Nat /\ T # {}  OBVIOUS
<1>1. PICK k \in T : \A j \in T : k <= j  BY ONLY <1>0, LeastNat
<1>2. k # 0  BY <1>1 DEF Iterates, Closes
<1>3. k - 1 \in 0 .. n /\ k \in 1 .. n /\ ~(k <= k - 1)  BY <1>2
<1>4. f[k - 1] \in SUBSET E /\ f[k - 1] \subseteq U  BY <1>1, <1>3
<1>5. f[k] = Spread(h, f[k - 1])  BY <1>3, <1>4 DEF Iterates
<1>6. f[k] \in SUBSET E /\ \A x \in f[k] : x \in f[k - 1] \/ \E i \in f[k - 1] : x \in h[i]
  BY <1>4, <1>5, SpreadIs
<1>7. f[k] \subseteq U  BY <1>4, <1>6 DEF Closes
<1> QED  BY <1>6, <1>7

\* Each round keeps what the ones before it found.
LEMMA IteratesGrow ==
    ASSUME NEW E, NEW h \in [E -> SUBSET E], NEW S \in SUBSET E, NEW n \in Nat, NEW f,
           Iterates(f, h, E, S, n), NEW j \in 0 .. n
    PROVE  \A k \in j .. n : f[j] \subseteq f[k]
<1>0. Closes(E, h, E, S)  BY DEF Closes
<1>1. \A k \in 0 .. n : f[k] \in SUBSET E  BY <1>0, IteratesInside
<1> DEFINE T == {k \in j .. n : ~(f[j] \subseteq f[k])}
<1> SUFFICES ASSUME T # {} PROVE FALSE  OBVIOUS
<1>a. T \in SUBSET Nat /\ T # {}  OBVIOUS
<1>2. PICK k \in T : \A i \in T : k <= i  BY ONLY <1>a, LeastNat
<1>3. k # j  OBVIOUS
<1>4. k - 1 \in j .. n /\ k \in 1 .. n /\ ~(k <= k - 1) /\ k - 1 \in 0 .. n  BY <1>3
<1>5. f[j] \subseteq f[k - 1]  BY <1>2, <1>4
<1>6. f[k - 1] \in SUBSET E  BY <1>1, <1>4
<1>7. f[k] = Spread(h, f[k - 1])  BY <1>4, <1>6 DEF Iterates
<1>8. f[k - 1] \subseteq f[k]  BY <1>6, <1>7, SpreadIs
<1> QED  BY <1>5, <1>8

\* One round fewer than there are elements is enough: each round that is not the end of
\* the search finds one more.
LEMMA IteratesClose ==
    ASSUME NEW A, IsFiniteSet(A), NEW E \in SUBSET A, NEW h \in [E -> SUBSET E],
           NEW S \in SUBSET E, NEW n \in Nat, Cardinality(A) <= n + 1, NEW f,
           Iterates(f, h, E, S, n)
    PROVE  Ends(f[n], h, E, S)
<1>0. Closes(E, h, E, S)  BY DEF Closes
<1>1. \A k \in 0 .. n : f[k] \in SUBSET E  BY <1>0, IteratesInside
<1>2. f[0] = S /\ 0 \in 0 .. n /\ n \in 0 .. n  BY DEF Iterates
<1>3. S \subseteq f[n]  BY <1>2, IteratesGrow
<1>4. SUFFICES ASSUME NEW i \in f[n], NEW x \in h[i], x \notin f[n] PROVE FALSE
  BY <1>1, <1>2, <1>3 DEF Ends
<1> DEFINE Stuck(k) == \A z \in f[k] : h[z] \subseteq f[k]
           T == {k \in 0 .. n : ~(Cardinality(f[k]) >= k + 1)}
<1>5. ASSUME NEW k \in 0 .. n PROVE ~Stuck(k)
  <2> SUFFICES ASSUME Stuck(k) PROVE FALSE  OBVIOUS
  <2>0. 0 \in 0 .. n /\ k \in 0 .. n /\ n \in 0 .. n /\ k \in 0 .. k /\ n \in k .. n
    OBVIOUS
  <2>1. S \subseteq f[k]  BY <1>2, <2>0, IteratesGrow
  <2>2. f[n] \subseteq f[k]
    <3>1. PICK U : U = f[k]  OBVIOUS
    <3>2. Closes(U, h, E, S)  BY <2>1, <3>1 DEF Closes
    <3>3. \A z \in 0 .. n : f[z] \subseteq U
      <4>1. h \in [E -> SUBSET E] /\ S \in SUBSET E /\ n \in Nat /\ Iterates(f, h, E, S, n)
        OBVIOUS
      <4> HIDE DEF Stuck, T
      <4> QED  BY ONLY <3>2, <4>1, IteratesInside, ZenonT(30)
    <3> QED  BY <2>0, <3>1, <3>3
  <2>3. f[k] \subseteq f[n]  BY <2>0, IteratesGrow
  <2>4. i \in f[k] /\ x \in f[k]  BY <1>4, <2>2
  <2> QED  BY <1>4, <2>3, <2>4
<1>6. \A k \in 0 .. n : IsFiniteSet(f[k]) /\ Cardinality(f[k]) \in Nat
  BY <1>1, FS_Subset, FS_CardinalityType
<1>7. T = {}
  <2> SUFFICES ASSUME T # {} PROVE FALSE  OBVIOUS
  <2>0. T \in SUBSET Nat /\ T # {}  OBVIOUS
  <2>1. PICK k \in T : \A j \in T : k <= j  BY ONLY <2>0, LeastNat
  <2>2. PICK c \in Nat : c = Cardinality(f[k]) /\ ~(c >= k + 1)  BY <1>6, <2>1
  <2>3. CASE k = 0
    <3>1. c = 0  BY <2>2, <2>3
    <3>2. f[0] = {}  BY <1>2, <1>6, <2>2, <2>3, <3>1, FS_EmptySet
    <3>3. Stuck(0)  BY <3>2
    <3> QED  BY <1>2, <1>5, <3>3
  <2>4. CASE k # 0
    <3>1. PICK p \in 0 .. n : p + 1 = k /\ ~(k <= p) /\ k \in 1 .. n /\ k - 1 = p  BY <2>4
    <3>2. PICK d \in Nat : d = Cardinality(f[p]) /\ d >= p + 1  BY <1>6, <2>1, <3>1
    <3>3. PICK z \in f[p] : \E y \in h[z] : y \notin f[p]  BY <1>5, <3>1
    <3>. PICK y \in h[z] : y \notin f[p]  BY <3>3
    <3>4. f[k] = Spread(h, f[p])  BY <1>1, <3>1 DEF Iterates
    <3>5. f[p] \subseteq f[k] /\ y \in f[k]  BY <1>1, <3>1, <3>3, <3>4, SpreadIs
    <3>6. Cardinality(f[p]) <= Cardinality(f[k]) /\ (Cardinality(f[p]) = Cardinality(f[k]) => f[p] = f[k])
      BY <1>6, <3>1, <3>5, FS_Subset
    <3>7. d # c  BY <2>2, <3>2, <3>3, <3>5, <3>6
    <3> QED  BY <2>2, <3>1, <3>2, <3>6, <3>7
  <2> QED  BY <2>3, <2>4
<1>8. PICK c \in Nat : c = Cardinality(f[n]) /\ c >= n + 1  BY <1>2, <1>6, <1>7
<1>9. f[n] \subseteq A /\ x \in A  BY <1>1, <1>2
<1>10. PICK b \in Nat : b = Cardinality(A)  BY FS_CardinalityType
<1>11. c <= b /\ (c = b => f[n] = A)  BY <1>6, <1>8, <1>9, <1>10, FS_Subset
<1> QED  BY <1>4, <1>8, <1>9, <1>10, <1>11

-----------------------------------------------------------------------------
(* The graph of the mutator, by identities. *)

\* T is the least set that holds what g holds and what its elements hold in s.
Least(T, g, s) ==
    /\ Graph!Held(g) \subseteq T /\ T \subseteq DOMAIN s
    /\ \A i \in T : Graph!Held(s[i]) \subseteq T
    /\ \A U : Graph!Held(g) \subseteq U /\ (\A i \in U : i \in T => Graph!Held(s[i]) \subseteq U)
                => T \subseteq U

\* There is one such set for what two maps agree on.
LEMMA LeastSame ==
    ASSUME NEW T, NEW V, NEW g, NEW s, NEW t, Least(T, g, s),
           \A i \in T : i \in DOMAIN t /\ t[i] = s[i]
    PROVE  Least(T, g, t) /\ (Least(V, g, t) => V = T)
<1>1. Least(T, g, t)  BY DEF Least
<1>2. ASSUME Least(V, g, t) PROVE V = T
  <2>1. T \subseteq V  BY <1>1, <1>2 DEF Least
  <2>2. V \subseteq T  BY <1>1, <1>2 DEF Least
  <2> QED  BY <2>1, <2>2
<1> QED  BY <1>1, <1>2

\* An instance of a module has its own Cardinality.
LEMMA SameCardinality == Graph!Cardinality(Ids) = Cardinality(Ids)
BY DEF Graph!Cardinality, Cardinality

\* The search of the object graph finds it.
LEMMA ReachableIsLeast ==
    ASSUME IsFiniteSet(Ids), NEW T \in SUBSET Ids, NEW g, NEW s, Least(T, g, s)
    PROVE  Graph!ReachableFrom(g, s) = T
<1>1. PICK n \in Nat : n = Cardinality(Ids)  BY FS_CardinalityType
<1>2. PICK h : h = [i \in T |-> Graph!Held(s[i])]  OBVIOUS
<1>3. h \in [T -> SUBSET T]  BY <1>2 DEF Least
<1>4. PICK S : S = Graph!Held(g)  OBVIOUS
<1>5. S \in SUBSET T  BY <1>4 DEF Least
<1>6. PICK f : Searches(f, h, T, S, n)  BY <1>3, <1>5, IteratesExist
<1>7. \A X \in SUBSET T : Spread(h, X) = UNION {{i} \cup Graph!Held(s[i]) : i \in X}
  BY <1>2 DEF Spread
<1>8. f = [k \in 0 .. n |-> IF k = 0 THEN Graph!Held(g)
                            ELSE UNION {{i} \cup Graph!Held(s[i]) : i \in f[k - 1]}]
  <2>1. ASSUME NEW k \in 0 .. n, k # 0
        PROVE  f[k] = UNION {{i} \cup Graph!Held(s[i]) : i \in f[k - 1]}
    <3>1. k \in 1 .. n /\ k - 1 \in 0 .. n  BY <2>1
    <3>2. f[k - 1] \in SUBSET T /\ f[k] = Spread(h, f[k - 1])  BY <1>6, <3>1 DEF Searches
    <3> QED  BY <1>7, <3>2
  <2> QED  BY <1>4, <1>6, <2>1 DEF Searches
<1> DEFINE Rounds0(e) ==
              e = [k \in 0 .. Cardinality(Ids) |->
                     IF k = 0 THEN Graph!Held(g)
                     ELSE UNION {{i} \cup Graph!Held(s[i]) : i \in e[k - 1]}]
<1>9. Rounds0(f)  BY <1>1, <1>8
<1>10. PICK e : Rounds0(e) /\ Graph!ReachableFrom(g, s) = e[Cardinality(Ids)]
  <2>1. Graph!ReachableFrom(g, s) = (CHOOSE e : Rounds0(e))[Cardinality(Ids)]
    BY ONLY SameCardinality DEF Graph!ReachableFrom
  <2> HIDE DEF Rounds0
  <2>2. Rounds0(CHOOSE e : Rounds0(e))  BY <1>9
  <2> QED  BY <2>1, <2>2
<1>11. Iterates(e, h, T, S, n)
  <2>1. e[0] = S  BY <1>1, <1>4, <1>10
  <2>2. ASSUME NEW k \in 1 .. n, e[k - 1] \subseteq T PROVE e[k] = Spread(h, e[k - 1])
    <3>0. k \in 0 .. Cardinality(Ids) /\ k # 0  BY <1>1
    <3>1. e[k] = UNION {{i} \cup Graph!Held(s[i]) : i \in e[k - 1]}  BY ONLY <1>10, <3>0
    <3> QED  BY <1>7, <2>2, <3>1
  <2> QED  BY <2>1, <2>2 DEF Iterates
<1>12. Ends(e[n], h, T, S)
  <2>1. n \in Nat /\ Cardinality(Ids) <= n + 1  BY <1>1
  <2>2. IsFiniteSet(Ids) /\ T \in SUBSET Ids  OBVIOUS
  <2> HIDE DEF Rounds0
  <2> QED  BY ONLY <2>1, <2>2, <1>3, <1>5, <1>11, IteratesClose
<1>13. T \subseteq e[n]
  <2>1. PICK U : U = e[n]  OBVIOUS
  <2>2. Graph!Held(g) \subseteq U /\ \A i \in U : i \in T => Graph!Held(s[i]) \subseteq U
    BY <1>2, <1>4, <1>12, <2>1 DEF Ends
  <2> QED  BY <2>1, <2>2 DEF Least
<1>14. e[n] \subseteq T  BY <1>12 DEF Ends
<1>15. e[n] = T  BY ONLY <1>13, <1>14
<1>16. Graph!ReachableFrom(g, s) = e[n]
  <2> HIDE DEF Rounds0
  <2> QED  BY ONLY <1>1, <1>10
<1> QED  BY ONLY <1>15, <1>16

-----------------------------------------------------------------------------
(* The objects the roots reach. *)

Shown(a) == [j \in DOMAIN mem[a].slots |-> Identity(mem[a].slots[j])]
At(i) == CHOOSE x \in DOMAIN mem : mem[x].id = i
View == [i \in HeapIds |-> Shown(At(i))]
ReachedIds == {mem[a].id : a \in Reached}

\* Two copies of one object show the same slots.
Agree == \A a, b \in DOMAIN mem : mem[a].id = mem[b].id => Shown(a) = Shown(b)

\* A set of objects that holds what the roots and its own objects refer to.
Leads(v, C) == v = 0 \/ Home(v) \in C
Holds(C) ==
    /\ C \subseteq DOMAIN mem
    /\ \A r \in Roots : Leads(roots[r], C)
    /\ \A a \in C : \A j \in DOMAIN mem[a].slots : Leads(mem[a].slots[j], C)

Sound == MemOK /\ Agree /\ Home(0) = 0 /\ \E C : Holds(C)

\* An object's view is what any of its copies shows.
LEMMA ViewIs ==
    ASSUME Agree, NEW a \in DOMAIN mem
    PROVE  mem[a].id \in HeapIds /\ DOMAIN View = HeapIds /\ View[mem[a].id] = Shown(a)
<1>1. mem[a].id \in HeapIds  BY DEF HeapIds
<1>2. At(mem[a].id) \in DOMAIN mem /\ mem[At(mem[a].id)].id = mem[a].id  BY DEF At
<1>3. Shown(At(mem[a].id)) = Shown(a)  BY <1>2 DEF Agree
<1> QED  BY <1>1, <1>3 DEF View

\* What an oop means.
LEMMA IdentityIs ==
    ASSUME MemOK, Home(0) = 0, NEW C, C \subseteq DOMAIN mem, NEW v, Leads(v, C)
    PROVE  /\ v = 0 => Identity(v) = 0 /\ Home(v) \notin DOMAIN mem
           /\ v # 0 => /\ Home(v) \in C /\ Identity(v) = mem[Home(v)].id
                       /\ Identity(v) \in Ids /\ Identity(v) # 0
<1>1. 0 \notin DOMAIN mem  BY DEF MemOK, MemIs
<1>2. ASSUME NEW a \in C PROVE mem[a].id \in Ids /\ mem[a].id # 0
  BY IdAssumption DEF MemOK, MemIs, Objects
<1> QED  BY <1>1, <1>2 DEF Leads, Identity

\* The identities an object holds are those of the objects its oops lead to.
LEMMA HeldIs ==
    ASSUME MemOK, Agree, Home(0) = 0, NEW C, Holds(C), NEW a \in C
    PROVE  /\ Oops(a) \in SUBSET C
           /\ Graph!Held(View[mem[a].id]) = {mem[b].id : b \in Oops(a)}
<1>1. a \in DOMAIN mem /\ C \subseteq DOMAIN mem  BY DEF Holds
<1>2. View[mem[a].id] = Shown(a)  BY <1>1, ViewIs
<1>3. \A j \in DOMAIN mem[a].slots : Leads(mem[a].slots[j], C)  BY DEF Holds
<1>4. \A j \in DOMAIN mem[a].slots :
         LET v == mem[a].slots[j]
         IN  /\ v = 0 => Identity(v) = 0 /\ Home(v) \notin DOMAIN mem
             /\ v # 0 => Home(v) \in C /\ Identity(v) = mem[Home(v)].id /\ Identity(v) # 0
  BY <1>1, <1>3, IdentityIs
<1>5. Oops(a) \in SUBSET C  BY <1>1, <1>4 DEF Oops
<1>6. Graph!Held(Shown(a)) = {Identity(mem[a].slots[j]) : j \in DOMAIN mem[a].slots} \ {0}
  BY DEF Graph!Held, Shown
<1>7. ASSUME NEW x PROVE x \in Graph!Held(Shown(a)) <=> x \in {mem[b].id : b \in Oops(a)}
  <2>1. ASSUME x \in Graph!Held(Shown(a)) PROVE x \in {mem[b].id : b \in Oops(a)}
    <3>1. PICK j \in DOMAIN mem[a].slots : x = Identity(mem[a].slots[j]) /\ x # 0  BY <1>6, <2>1
    <3>2. Home(mem[a].slots[j]) \in Oops(a) /\ x = mem[Home(mem[a].slots[j])].id
      BY <1>1, <1>4, <3>1 DEF Oops
    <3> QED  BY <3>2
  <2>2. ASSUME NEW b \in Oops(a), x = mem[b].id PROVE x \in Graph!Held(Shown(a))
    <3>1. PICK j \in DOMAIN mem[a].slots : b = Home(mem[a].slots[j]) /\ b \in DOMAIN mem
      BY DEF Oops
    <3>2. x = Identity(mem[a].slots[j]) /\ x # 0  BY <1>4, <2>2, <3>1
    <3> QED  BY <1>6, <3>2
  <2> QED  BY <2>1, <2>2
<1>8. Graph!Held(Shown(a)) = {mem[b].id : b \in Oops(a)}  BY <1>7
<1> QED  BY <1>2, <1>5, <1>8

\* The search over addresses, two copies of an object and all, finds the least set of
\* identities: the graph is what the heap shows of it.
GraphIs(T) ==
    /\ T \in SUBSET HeapIds /\ T \in SUBSET Ids /\ Least(T, GraphRegs, View)
    /\ GraphSlots = [i \in T |-> View[i]]

\* The rounds of the search over addresses are those of a search over identities, and there
\* are enough of them.
LEMMA ReachedIsLeast ==
    ASSUME IsFiniteSet(Ids), Ids # {}, Sound
    PROVE  GraphIs(ReachedIds)
<1>1. PICK n \in Nat : n = Rounds /\ Cardinality(Ids) <= n + 1
  <2>1. Cardinality(Ids) \in Nat /\ Cardinality(Ids) # 0  BY FS_CardinalityType, FS_EmptySet
  <2> QED  BY <2>1 DEF Rounds
<1>2. MemOK /\ Agree /\ Home(0) = 0  BY DEF Sound
<1>3. PICK C : Holds(C)  BY DEF Sound
<1>4. C \subseteq DOMAIN mem  BY <1>3 DEF Holds
<1>5. \A a \in C : /\ Oops(a) \in SUBSET C
                   /\ Graph!Held(View[mem[a].id]) = {mem[b].id : b \in Oops(a)}
  BY <1>2, <1>3, HeldIs
<1>6. PICK o : o = [a \in C |-> Oops(a)]  OBVIOUS
<1>7. o \in [C -> SUBSET C]  BY <1>5, <1>6
<1>8. PICK A : A = {Home(roots[r]) : r \in Roots} \cap DOMAIN mem  OBVIOUS
<1>9. \A r \in Roots :
         /\ roots[r] = 0 => GraphRegs[r] = 0 /\ Home(roots[r]) \notin DOMAIN mem
         /\ roots[r] # 0 => /\ Home(roots[r]) \in C /\ GraphRegs[r] = mem[Home(roots[r])].id
                            /\ GraphRegs[r] # 0
  <2> TAKE r \in Roots
  <2>1. Leads(roots[r], C)  BY <1>3 DEF Holds
  <2> QED  BY <1>2, <1>4, <2>1, IdentityIs DEF GraphRegs
<1>10. A \in SUBSET C  BY <1>8, <1>9
<1>11. PICK f : Searches(f, o, C, A, n)  BY <1>7, <1>10, IteratesExist
<1>12. \A X \in SUBSET C : Spread(o, X) = UNION {{a} \cup Oops(a) : a \in X}
  BY <1>6 DEF Spread
<1> DEFINE After(e) ==
              e = [k \in 0 .. Rounds |->
                     IF k = 0 THEN {Home(roots[r]) : r \in Roots} \cap DOMAIN mem
                     ELSE UNION {{a} \cup Oops(a) : a \in e[k - 1]}]
<1>13. After(f)
  <2>1. ASSUME NEW k \in 0 .. n, k # 0
        PROVE  f[k] = UNION {{a} \cup Oops(a) : a \in f[k - 1]}
    <3>1. k \in 1 .. n /\ k - 1 \in 0 .. n  BY <2>1
    <3>2. f[k - 1] \in SUBSET C /\ f[k] = Spread(o, f[k - 1])  BY <1>11, <3>1 DEF Searches
    <3> QED  BY <1>12, <3>2
  <2> QED  BY <1>1, <1>8, <1>11, <2>1 DEF Searches
<1>14. PICK e : After(e) /\ Reached = e[Rounds]
  <2>1. Reached = (CHOOSE e : After(e))[Rounds]
    BY ONLY DEF Reached
  <2> HIDE DEF After
  <2>2. After(CHOOSE e : After(e))  BY <1>13
  <2> QED  BY <2>1, <2>2
<1>15. Iterates(e, o, C, A, n)
  <2>1. e[0] = A  BY <1>1, <1>8, <1>14
  <2>2. ASSUME NEW k \in 1 .. n, e[k - 1] \subseteq C PROVE e[k] = Spread(o, e[k - 1])
    <3>0. k \in 0 .. Rounds /\ k # 0  BY <1>1
    <3>1. e[k] = UNION {{a} \cup Oops(a) : a \in e[k - 1]}  BY ONLY <1>14, <3>0
    <3> QED  BY <1>12, <2>2, <3>1
  <2> QED  BY <2>1, <2>2 DEF Iterates
<1> HIDE DEF After
<1>16. \A k \in 0 .. n : e[k] \in SUBSET C
  <2>1. Closes(C, o, C, A)  BY <1>7, <1>10 DEF Closes
  <2> QED  BY <1>7, <1>10, <1>15, <2>1, IteratesInside
\* The same search by identities.
<1>17. PICK E : E = {mem[a].id : a \in C}  OBVIOUS
<1>18. E \in SUBSET Ids /\ E \in SUBSET HeapIds
  BY <1>2, <1>4, <1>17 DEF HeapIds, MemOK, MemIs, Objects
<1>19. PICK h : h = [i \in E |-> Graph!Held(View[i])]  OBVIOUS
<1>20. \A a \in C : mem[a].id \in E /\ h[mem[a].id] = {mem[b].id : b \in o[a]} /\ o[a] \in SUBSET C
  BY <1>5, <1>6, <1>17, <1>19
<1>21. h \in [E -> SUBSET E]
  <2>1. ASSUME NEW i \in E PROVE h[i] \in SUBSET E
    <3>1. PICK a \in C : i = mem[a].id  BY <1>17
    <3>2. h[i] = {mem[b].id : b \in o[a]} /\ o[a] \subseteq C  BY <1>20, <3>1
    <3> QED  BY <1>20, <3>2
  <2> QED  BY <1>19, <2>1
<1>22. PICK S : S = Graph!Held(GraphRegs)  OBVIOUS
<1>23. S = {mem[a].id : a \in A}
  <2>1. DOMAIN GraphRegs = Roots  BY DEF GraphRegs
  <2>2. S = {GraphRegs[r] : r \in Roots} \ {0}  BY <1>22, <2>1 DEF Graph!Held
  <2>3. ASSUME NEW x \in S PROVE x \in {mem[a].id : a \in A}
    <3>1. PICK r \in Roots : x = GraphRegs[r] /\ x # 0  BY <2>2
    <3>2. Home(roots[r]) \in A /\ x = mem[Home(roots[r])].id  BY <1>4, <1>8, <1>9, <3>1
    <3> QED  BY <3>2
  <2>4. ASSUME NEW a \in A PROVE mem[a].id \in S
    <3>1. PICK r \in Roots : a = Home(roots[r]) /\ a \in DOMAIN mem  BY <1>8
    <3> QED  BY <1>9, <2>2, <3>1
  <2> QED  BY <2>3, <2>4
<1>24. S \in SUBSET E  BY <1>10, <1>17, <1>23
<1>25. PICK g : g = [k \in 0 .. n |-> {mem[a].id : a \in e[k]}]  OBVIOUS
<1>26. Iterates(g, h, E, S, n)
  <2>1. g[0] = S  BY <1>15, <1>23, <1>25 DEF Iterates
  <2>2. ASSUME NEW k \in 1 .. n PROVE g[k] = Spread(h, g[k - 1])
    <3>1. k \in 0 .. n /\ k - 1 \in 0 .. n  OBVIOUS
    <3>2. PICK X \in SUBSET C : X = e[k - 1]  BY <1>16, <3>1
    <3>3. e[k] = Spread(o, X)  BY <1>15, <3>2 DEF Iterates
    <3>4. g[k] = {mem[a].id : a \in Spread(o, X)} /\ g[k - 1] = {mem[a].id : a \in X}
      BY <1>25, <3>1, <3>2, <3>3
    <3>5. ASSUME NEW a \in Spread(o, X) PROVE mem[a].id \in Spread(h, g[k - 1])
      <4>1. PICK b \in X : a = b \/ a \in o[b]  BY <3>5 DEF Spread
      <4>2. mem[b].id \in g[k - 1]  BY <3>4
      <4>3. mem[a].id = mem[b].id \/ mem[a].id \in h[mem[b].id]  BY <1>20, <4>1
      <4> QED  BY <4>2, <4>3 DEF Spread
    <3>6. ASSUME NEW x \in Spread(h, g[k - 1]) PROVE x \in {mem[a].id : a \in Spread(o, X)}
      <4>1. PICK i \in g[k - 1] : x = i \/ x \in h[i]  BY <3>6 DEF Spread
      <4>2. PICK b \in X : i = mem[b].id  BY <3>4
      <4>3. b \in Spread(o, X) /\ \A c \in o[b] : c \in Spread(o, X)  BY DEF Spread
      <4>4. x = mem[b].id \/ \E c \in o[b] : x = mem[c].id  BY <1>20, <4>1, <4>2
      <4> QED  BY <4>3, <4>4
    <3> QED  BY <3>4, <3>5, <3>6
  <2> QED  BY <2>1, <2>2 DEF Iterates
<1>27. Ends(g[n], h, E, S)
  <2>1. IsFiniteSet(Ids) /\ n \in Nat  OBVIOUS
  <2> QED  BY ONLY <1>1, <1>18, <1>21, <1>24, <1>26, <2>1, IteratesClose
<1>28. g[n] = ReachedIds  BY <1>1, <1>14, <1>25 DEF ReachedIds
<1>29. DOMAIN View = HeapIds  BY DEF View
<1>30. Least(ReachedIds, GraphRegs, View)
  <2>1. ASSUME NEW U, Graph!Held(GraphRegs) \subseteq U,
               \A i \in U : i \in ReachedIds => Graph!Held(View[i]) \subseteq U
        PROVE  ReachedIds \subseteq U
    <3>1. PICK V : V = U \cap ReachedIds  OBVIOUS
    <3>2. Closes(V, h, E, S)  BY <1>19, <1>22, <1>27, <1>28, <2>1, <3>1 DEF Closes, Ends
    <3>3. n \in 0 .. n  OBVIOUS
    <3>4. \A k \in 0 .. n : g[k] \subseteq V
      BY ONLY <1>21, <1>24, <1>26, <3>2, n \in Nat, IteratesInside
    <3> QED  BY <1>28, <3>1, <3>3, <3>4
  <2>2. /\ Graph!Held(GraphRegs) \subseteq ReachedIds /\ ReachedIds \subseteq DOMAIN View
        /\ \A i \in ReachedIds : Graph!Held(View[i]) \subseteq ReachedIds
    BY <1>18, <1>19, <1>22, <1>27, <1>28, <1>29 DEF Ends
  <2> QED  BY <2>1, <2>2 DEF Least
<1>31. ReachedIds \in SUBSET HeapIds /\ ReachedIds \in SUBSET Ids  BY <1>18, <1>27, <1>28 DEF Ends
<1>32. GraphSlots = [i \in ReachedIds |-> View[i]]
  <2>1. \A i \in HeapIds : View[i] = Shown(At(i))  BY DEF View
  <2>2. GraphSlots = [i \in ReachedIds |-> Shown(At(i))]  BY DEF GraphSlots, ReachedIds, Shown, At
  <2> QED  BY <1>31, <2>1, <2>2
<1> QED  BY <1>30, <1>31, <1>32 DEF GraphIs

-----------------------------------------------------------------------------
(* Identities: one object, and in a scavenge its copy, has each. *)

Sliding == gc.phase = "slide"
Collecting == gc.phase \in {"mark", "rewrite", "slide"}

Distinct == \A a, b \in DOMAIN mem : mem[a].id = mem[b].id => a = b

\* The copy of an object has its identity and shows its slots.
CopyInv ==
    \A a, b \in DOMAIN mem : mem[a].fwd = b => mem[b].id = mem[a].id /\ Shown(b) = Shown(a)
Twins ==
    \A a, b \in DOMAIN mem : mem[a].id = mem[b].id =>
        a = b \/ mem[a].fwd = b \/ mem[b].fwd = a

IdInv ==
    /\ Quiet \/ Collecting => Distinct
    /\ Scanning => CopyInv /\ Twins

Active == Walkable \/ Sliding

\* Outside a slide an oop is the address of its object.
LEMMA HomeStill ==
    ASSUME gc.phase # "slide"
    PROVE  \A v : Home(v) = v
BY DEF Home

\* In a slide the oops are the addresses that objects will have.
HomeOK ==
    /\ \A e \in gc.plan : Home(e.new) = e.old
    /\ \A e \in gc.placed : Home(e.new) = e.new
    /\ Home(0) = 0

\* The plan decides which: an address above what has been placed is the new place of one
\* planned object only.
LEMMA HomeSlides == HeapInv /\ Sliding => HomeOK
<1> SUFFICES ASSUME HeapInv, Sliding PROVE HomeOK  OBVIOUS
<1>1. TypeInv /\ PlanPlaces /\ PlanOrder /\ SlideHeap /\ gc.phase = "slide"
  BY SlideHas DEF Sliding, PlanHeap
<1>2. \A e \in Entries : e.old \in Nat /\ e.new \in Nat /\ e.new > 0 /\ e.size \in Nat /\ e.size > 0
  BY <1>1, MoveIs
<1>3. ASSUME NEW e \in Entries, NEW f \in Entries, e.new = f.new PROVE e = f
  <2>1. ~(e.old < f.old)  BY <1>1, <1>2, <1>3 DEF PlanOrder
  <2>2. ~(f.old < e.old)  BY <1>1, <1>2, <1>3 DEF PlanOrder
  <2>3. e.old = f.old  BY <1>2, <2>1, <2>2
  <2> QED  BY <1>1, <2>3 DEF PlanOrder
<1>4. ASSUME NEW e \in gc.plan PROVE Home(e.new) = e.old
  <2>1. \A f \in gc.plan : f.new = e.new => f = e  BY <1>3 DEF Entries
  <2>2. (CHOOSE f \in gc.plan : f.new = e.new) = e  BY <2>1
  <2> QED  BY <1>1, <2>2 DEF Home
<1>5. ASSUME NEW e \in gc.placed PROVE Home(e.new) = e.new
  <2>1. \A f \in gc.plan : f.new # e.new
    <3> SUFFICES ASSUME NEW f \in gc.plan, f.new = e.new PROVE FALSE  OBVIOUS
    <3>1. f = e /\ e \in Entries  BY <1>3 DEF Entries
    <3>2. e.old < e.old  BY <1>1, <3>1 DEF SlideHeap
    <3> QED  BY <1>2, <3>1, <3>2
  <2> QED  BY <1>1, <2>1 DEF Home
<1>6. Home(0) = 0
  <2>1. \A f \in gc.plan : f.new # 0  BY <1>2 DEF Entries
  <2> QED  BY <1>1, <2>1 DEF Home
<1> QED  BY <1>4, <1>5, <1>6 DEF HomeOK

\* The objects of the entries.
EntryPlaces == {e.old : e \in gc.plan} \cup {e.new : e \in gc.placed}

\* They hold whatever they refer to.
LEMMA EntriesHold ==
    ASSUME HeapInv, Sliding
    PROVE  Holds(EntryPlaces)
<1>1. SlideHeap /\ HomeOK  BY SlideHas, HomeSlides DEF Sliding
<1>2. EntryPlaces \subseteq DOMAIN mem  BY <1>1 DEF SlideHeap, Carried, EntryPlaces
<1>3. ASSUME NEW v, WillBe(v) PROVE Leads(v, EntryPlaces)
  BY <1>1, <1>3 DEF WillBe, Entries, Leads, HomeOK, EntryPlaces
<1>4. \A r \in Roots : Leads(roots[r], EntryPlaces)  BY <1>1, <1>3 DEF SlideHeap
<1>5. \A a \in EntryPlaces : \A j \in DOMAIN mem[a].slots : WillBe(mem[a].slots[j])
  BY <1>1 DEF SlideHeap, Carried, EntryPlaces
<1> QED  BY <1>2, <1>3, <1>4, <1>5 DEF Holds

\* The graph makes sense in every state but the two in which the VM stops.
LEMMA SoundIs == HeapInv /\ IdInv /\ Active => Sound
<1> SUFFICES ASSUME HeapInv, IdInv, Active PROVE Sound  OBVIOUS
<1>1. MemOK  BY DEF HeapInv, TypeInv
<1>2. Agree
  <2>1. CASE Quiet \/ Collecting  BY <2>1 DEF IdInv, Distinct, Agree
  <2>2. CASE Scanning
    <3>1. CopyInv /\ Twins  BY <2>2 DEF IdInv
    <3>4. ASSUME NEW a \in DOMAIN mem, NEW b \in DOMAIN mem, mem[a].id = mem[b].id
          PROVE  Shown(a) = Shown(b)
      <4>1. a = b \/ mem[a].fwd = b \/ mem[b].fwd = a  BY <3>1, <3>4 DEF Twins
      <4> QED  BY <3>1, <4>1 DEF CopyInv
    <3> QED  BY <3>4 DEF Agree
  <2> QED  BY <2>1, <2>2 DEF Active, Walkable, Collecting, Sliding
<1>3. CASE Sliding
  <2>1. Home(0) = 0 /\ Holds(EntryPlaces)  BY <1>3, HomeSlides, EntriesHold DEF HomeOK
  <2> QED  BY <1>1, <1>2, <2>1 DEF Sound
<1>4. CASE ~Sliding
  <2>1. \A v : Home(v) = v  BY <1>4, HomeStill DEF Sliding
  <2>2. OopsInv  BY <1>4 DEF Active, HeapInv, WalkInv
  <2>3. Holds(DOMAIN mem)  BY <2>1, <2>2 DEF Holds, Leads, OopsInv, Valid
  <2> QED  BY <1>1, <1>2, <2>1, <2>3 DEF Sound
<1> QED  BY <1>3, <1>4

\* The same of the next state.
LEMMA SoundNext == HeapInv' /\ IdInv' /\ Active' => Sound'
BY SoundIs, PTL

\* The same of the next state.
LEMMA HomeNext == HeapInv' /\ Sliding' => HomeOK'
BY HomeSlides, PTL

\* The same, as an implication between states.
LEMMA SoundGraph ==
    ASSUME IsFiniteSet(Ids), Ids # {}
    PROVE  Sound => GraphIs(ReachedIds)
BY ReachedIsLeast

\* The same of the next state.
LEMMA SoundGraphNext ==
    ASSUME IsFiniteSet(Ids), Ids # {}
    PROVE  Sound' => GraphIs(ReachedIds)'
BY SoundGraph, PTL

ViewOK == DOMAIN View = HeapIds /\ \A a \in DOMAIN mem : View[mem[a].id] = Shown(a) /\ mem[a].id \in HeapIds

\* Objects of one identity show the same, so the heap shows one object for each.
LEMMA AgreeView == Sound => ViewOK
BY ViewIs DEF Sound, ViewOK, View

\* The same of the next state.
LEMMA AgreeViewNext == Sound' => ViewOK'
BY AgreeView, PTL

\* A step that keeps what the roots and the objects they may reach show keeps the graph.
LEMMA GraphKept ==
    ASSUME IsFiniteSet(Ids), Ids # {}, Sound, Sound', NEW C, Holds(C),
           \A r \in Roots : Identity(roots[r])' = Identity(roots[r]),
           \A a \in C : \E b \in DOMAIN mem' : mem'[b].id = mem[a].id /\ Shown(b)' = Shown(a)
    PROVE  GraphRegs' = GraphRegs /\ GraphSlots' = GraphSlots
<1>1. GraphRegs' = GraphRegs  BY DEF GraphRegs
<1>2. PICK g : g = GraphRegs  OBVIOUS
<1>3. PICK T : T = ReachedIds  OBVIOUS
<1>4. T \in SUBSET HeapIds /\ Least(T, g, View) /\ GraphSlots = [i \in T |-> View[i]]
  BY <1>2, <1>3, SoundGraph DEF GraphIs
<1>5. PICK V, W : V = ReachedIds' /\ W = View'  OBVIOUS
<1>6. Least(V, g, W) /\ GraphSlots' = [i \in V |-> W[i]]
  BY <1>1, <1>2, <1>5, SoundGraphNext DEF GraphIs
<1>7. /\ MemOK /\ Agree /\ Home(0) = 0 /\ C \subseteq DOMAIN mem
  BY DEF Sound, Holds
<1>8. \A i \in T : \E a \in C : i = mem[a].id
  <2>1. PICK U : U = {mem[a].id : a \in C}  OBVIOUS
  <2>2. Graph!Held(g) \subseteq U
    <3>1. DOMAIN GraphRegs = Roots  BY DEF GraphRegs
    <3>2. ASSUME NEW r \in Roots, GraphRegs[r] # 0 PROVE GraphRegs[r] \in U
      <4>1. Leads(roots[r], C) /\ GraphRegs[r] = Identity(roots[r])  BY DEF Holds, GraphRegs
      <4>2. GraphRegs[r] = mem[Home(roots[r])].id /\ Home(roots[r]) \in C
        BY <1>7, <3>2, <4>1, IdentityIs
      <4> QED  BY <2>1, <4>2
    <3> QED  BY <1>2, <3>1, <3>2 DEF Graph!Held
  <2>3. ASSUME NEW i \in U PROVE Graph!Held(View[i]) \subseteq U
    <3>1. PICK a \in C : i = mem[a].id  BY <2>1
    <3>2. /\ Oops(a) \in SUBSET C
          /\ Graph!Held(View[mem[a].id]) = {mem[b].id : b \in Oops(a)}
      BY <1>7, HeldIs
    <3> QED  BY <2>1, <3>1, <3>2
  <2>4. T \subseteq U  BY <1>4, <2>2, <2>3 DEF Least
  <2> QED  BY <2>1, <2>4
<1>9. ASSUME NEW i \in T PROVE i \in DOMAIN W /\ W[i] = View[i]
  <2>1. PICK a \in C : i = mem[a].id  BY <1>8
  <2>2. PICK b \in DOMAIN mem' : mem'[b].id = mem[a].id /\ Shown(b)' = Shown(a)  OBVIOUS
  <2>3. View[i] = Shown(a)  BY <1>7, <2>1, AgreeView DEF ViewOK
  <2>4. i \in HeapIds' /\ DOMAIN W = HeapIds' /\ W[i] = Shown(b)'
    BY <1>5, <2>1, <2>2, AgreeViewNext DEF ViewOK
  <2> QED  BY <2>2, <2>3, <2>4
<1>10. V = T  BY <1>4, <1>6, <1>9, LeastSame
<1> QED  BY <1>1, <1>4, <1>6, <1>9, <1>10

\* Outside a slide an oop means the object at its address.
StillMeans ==
    \A v : Identity(v) = IF v = 0 THEN 0 ELSE IF v \in DOMAIN mem THEN mem[v].id ELSE Dangling

\* Home moves an oop in a slide only.
LEMMA StillIs == ~Sliding => StillMeans
BY HomeStill DEF StillMeans, Identity, Sliding

\* The same of the next state.
LEMMA StillNext == ~Sliding' => StillMeans'
BY StillIs, PTL

\* What an object shows depends on its slots only through what they mean.
LEMMA ShownSame ==
    ASSUME NEW a, NEW b, DOMAIN mem'[b].slots = DOMAIN mem[a].slots,
           \A j \in DOMAIN mem[a].slots : Identity(mem[b].slots[j])' = Identity(mem[a].slots[j])
    PROVE  Shown(b)' = Shown(a)
BY DEF Shown

\* A step that leaves the identities and the slots of the objects alone.
SameObjects ==
    /\ DOMAIN mem' = DOMAIN mem
    /\ \A a \in DOMAIN mem : mem'[a].id = mem[a].id /\ mem'[a].slots = mem[a].slots

\* Such a step changes nothing that an oop or an object means.
LEMMA SameShows ==
    ASSUME gc.phase # "slide", gc'.phase # "slide", SameObjects
    PROVE  /\ \A v : Identity(v)' = Identity(v)
           /\ \A a \in DOMAIN mem : Shown(a)' = Shown(a)
<1>1. StillMeans /\ StillMeans'  BY StillIs, StillNext DEF Sliding
<1>2. \A v : Identity(v)' = Identity(v)  BY <1>1 DEF StillMeans, SameObjects
<1>3. ASSUME NEW a \in DOMAIN mem PROVE Shown(a)' = Shown(a)
  <2>1. mem'[a].slots = mem[a].slots  BY DEF SameObjects
  <2>2. \A j \in DOMAIN mem[a].slots : Identity(mem[a].slots[j])' = Identity(mem[a].slots[j])
    BY <1>2, <2>1
  <2> QED  BY <2>1, <2>2, ShownSame
<1> QED  BY <1>2, <1>3

\* A step that keeps every object where it is, with its identity, keeps them distinct.
IdsKept == DOMAIN mem' = DOMAIN mem /\ \A a \in DOMAIN mem : mem'[a].id = mem[a].id

\* So the invariant of the identities holds after it.
LEMMA DistinctStays ==
    ASSUME IdsKept, Distinct, ~Scanning'
    PROVE  IdInv'
BY DEF IdsKept, Distinct, IdInv

\* In every state but the two in which the VM stops the phase is one of these.
LEMMA PhaseCases ==
    /\ Quiet => ~Scanning /\ gc.phase # "slide" /\ ~Collecting
    /\ Scanning => ~Quiet /\ gc.phase # "slide" /\ ~Collecting
    /\ Collecting => ~Quiet /\ ~Scanning
BY DEF Quiet, Returns, Scanning, Collecting

\* A scavenge starts with no copies.
LEMMA StartIds ==
    ASSUME HeapInv, IdInv, Quiet, mem' = mem, Scanning'
    PROVE  IdInv'
<1>1. QuietHeap /\ Distinct  BY QuietHas DEF IdInv
<1>2. Twins'  BY <1>1 DEF Distinct, Twins
<1>3. CopyInv'
  <2>1. 0 \notin DOMAIN mem  BY DEF HeapInv, TypeInv, MemOK, MemIs
  <2> QED  BY <1>1, <2>1 DEF QuietHeap, CopyInv
<1>4. gc'.phase \notin Returns /\ gc'.phase \notin {"mark", "rewrite", "slide"}
  BY DEF Scanning, Returns
<1> QED  BY <1>2, <1>3, <1>4 DEF IdInv, Quiet, Collecting

\* The steps between batches.
LEMMA BatchIds ==
    ASSUME IdInv, Scanning, mem' = mem, Scanning'
    PROVE  IdInv'
<1>1. CopyInv /\ Twins  BY DEF IdInv
<1>2. gc.phase # "slide" /\ gc'.phase # "slide"  BY DEF Scanning
<1>3. \A a \in DOMAIN mem : Shown(a)' = Shown(a)  BY <1>2, SameShows DEF SameObjects
<1>4. Twins'  BY <1>1 DEF Twins
<1>5. CopyInv'  BY <1>1, <1>3 DEF CopyInv
<1>6. gc'.phase \notin Returns /\ gc'.phase \notin {"mark", "rewrite", "slide"}
  BY DEF Scanning, Returns
<1> QED  BY <1>4, <1>5, <1>6 DEF IdInv, Quiet, Collecting

\* What one scavenged slot changes of what objects show: nothing.
ScavengedShows(v, nv) ==
    /\ \A b \in DOMAIN mem : Shown(b)' = Shown(b)
    /\ nv \notin DOMAIN mem => Shown(nv)' = Shown(v)
    /\ \A r \in Roots : Identity(roots[r])' = Identity(roots[r])

\* The original, its copy and every other object show what they did: a slot led to an
\* object of this identity before the step and leads to one after it.
LEMMA ScavengedMeans ==
    ASSUME TypeInv, ScanHeap, IdInv, Scanning, NEW s, NEW v, NEW nv, Scavenged(s, v, nv)
    PROVE  /\ Scanning' /\ mem[v].id = mem'[nv].id
           /\ ScavengedShows(v, nv)
<1>1. Scanning'  BY DEF Scavenged, Scanning
<1>2. StillMeans /\ StillMeans'
  <2>1. ~Sliding /\ ~Sliding'  BY <1>1 DEF Scanning, Sliding
  <2> QED  BY <2>1, StillIs, StillNext
<1>3. CopyInv /\ Twins /\ OopsInv  BY DEF IdInv, ScanHeap
<1>4. /\ v \in DOMAIN mem /\ nv \in Nat \ {0} /\ DOMAIN mem' = DOMAIN mem \cup {nv}
      /\ nv \in DOMAIN mem => mem[v].fwd = nv
      /\ nv \notin DOMAIN mem => mem'[nv].id = mem[v].id /\ mem'[nv].slots = mem[v].slots
  BY DEF Scavenged
<1>5. \A b \in DOMAIN mem : mem'[b].id = mem[b].id  BY DEF Scavenged
<1>6. mem'[nv].id = mem[v].id
  <2>1. CASE nv \in DOMAIN mem  BY <1>3, <1>4, <1>5, <2>1 DEF CopyInv
  <2> QED  BY <1>4, <2>1
<1>7. 0 \notin DOMAIN mem /\ v # 0  BY <1>4 DEF TypeInv, MemOK, MemIs
<1>8. \A x : Valid(x) => Identity(x)' = Identity(x)
  BY <1>2, <1>4, <1>5 DEF StillMeans, Valid
<1>9. Identity(nv)' = Identity(v)
  BY <1>2, <1>4, <1>6, <1>7 DEF StillMeans
<1>10. s \in gc.work /\ v = ValueOf(s)  BY DEF Scavenged
<1>11. \/ s[1] = 0 /\ s[2] \in Roots /\ v = roots[s[2]]
       \/ s[1] # 0 /\ v = mem[s[1]].slots[s[2]]
  BY <1>10, BatchSlot
<1>12. ASSUME NEW r \in Roots PROVE Identity(roots[r])' = Identity(roots[r])
  <2>1. roots'[r] = IF s[1] = 0 /\ s[2] = r THEN nv ELSE roots[r]  BY DEF Scavenged
  <2>2. Valid(roots[r])  BY <1>3 DEF OopsInv
  <2>3. PICK x, y : x = roots'[r] /\ y = roots[r]  OBVIOUS
  <2>4. Identity(x)' = Identity(y)  BY <1>8, <1>9, <1>11, <2>1, <2>2, <2>3
  <2> QED  BY <2>3, <2>4
<1>13. ASSUME NEW b \in DOMAIN mem PROVE Shown(b)' = Shown(b)
  <2>1. /\ DOMAIN mem'[b].slots = DOMAIN mem[b].slots
        /\ \A k \in DOMAIN mem[b].slots :
              mem'[b].slots[k] = IF b = s[1] /\ k = s[2] THEN nv ELSE mem[b].slots[k]
    BY DEF Scavenged
  <2>2. ASSUME NEW k \in DOMAIN mem[b].slots
        PROVE  Identity(mem[b].slots[k])' = Identity(mem[b].slots[k])
    <3>1. Valid(mem[b].slots[k])  BY <1>3 DEF OopsInv
    <3>2. PICK x, y : x = mem'[b].slots[k] /\ y = mem[b].slots[k]  OBVIOUS
    <3>3. x = IF b = s[1] /\ k = s[2] THEN nv ELSE y  BY <2>1, <3>2
    <3>4. Identity(x)' = Identity(y)  BY <1>7, <1>8, <1>9, <1>11, <3>1, <3>2, <3>3
    <3> QED  BY <3>2, <3>4
  <2> QED  BY <2>1, <2>2, ShownSame
<1>14. ASSUME nv \notin DOMAIN mem PROVE Shown(nv)' = Shown(v)
  <2>1. mem'[nv].slots = mem[v].slots  BY <1>4, <1>14
  <2>2. ASSUME NEW k \in DOMAIN mem[v].slots
        PROVE  Identity(mem[nv].slots[k])' = Identity(mem[v].slots[k])
    <3>1. Valid(mem[v].slots[k])  BY <1>3, <1>4 DEF OopsInv
    <3>2. PICK y : y = mem[v].slots[k] /\ y = mem'[nv].slots[k]  BY <2>1
    <3>3. Identity(y)' = Identity(y)  BY <1>8, <3>1, <3>2
    <3> QED  BY <3>2, <3>3
  <2> QED  BY <2>1, <2>2, ShownSame
<1> QED  BY <1>1, <1>6, <1>12, <1>13, <1>14 DEF ScavengedShows

\* The copy and its original are the only two objects with their identity.
LEMMA ScavengedIds ==
    ASSUME TypeInv, ScanHeap, IdInv, Scanning, NEW s, NEW v, NEW nv, Scavenged(s, v, nv)
    PROVE  IdInv'
<1>1. Scanning' /\ mem[v].id = mem'[nv].id /\ ScavengedShows(v, nv)  BY ScavengedMeans
<1>2. CopyInv /\ Twins /\ ForwardInv  BY DEF IdInv, ScanHeap
<1>3. /\ v \in DOMAIN mem /\ InFrom(v) /\ DOMAIN mem' = DOMAIN mem \cup {nv}
      /\ nv \in DOMAIN mem => mem[v].fwd = nv
      /\ nv \notin DOMAIN mem => mem[v].fwd = 0 /\ mem'[nv].fwd = 0
      /\ \A b \in DOMAIN mem : /\ mem'[b].id = mem[b].id
                               /\ mem'[b].fwd = IF b = v THEN nv ELSE mem[b].fwd
  BY DEF Scavenged
<1>4. 0 \notin DOMAIN mem /\ 0 \notin DOMAIN mem'
  BY <1>3 DEF TypeInv, MemOK, MemIs, Scavenged
<1>5. ASSUME NEW a \in DOMAIN mem, NEW b \in DOMAIN mem, mem[a].fwd = b
      PROVE  mem'[a].fwd = b
  BY <1>3, <1>4, <1>5
<1>6. ASSUME NEW a \in DOMAIN mem, NEW b \in DOMAIN mem, mem[a].id = mem[b].id
      PROVE  a = b \/ mem'[a].fwd = b \/ mem'[b].fwd = a
  BY <1>2, <1>5, <1>6 DEF Twins
<1>7. ASSUME nv \notin DOMAIN mem, NEW b \in DOMAIN mem, mem[b].id = mem[v].id
      PROVE  mem'[b].fwd = nv
  <2>1. b = v \/ mem[b].fwd = v \/ mem[v].fwd = b  BY <1>2, <1>3, <1>7 DEF Twins
  <2>2. mem[v].fwd # b  BY <1>3, <1>4, <1>7
  <2>3. mem[b].fwd # v  BY <1>2, <1>3, <1>4 DEF ForwardInv
  <2> QED  BY <1>3, <2>1, <2>2, <2>3
<1>8. Twins'
  <2> SUFFICES ASSUME NEW a \in DOMAIN mem', NEW b \in DOMAIN mem', mem'[a].id = mem'[b].id
               PROVE  a = b \/ mem'[a].fwd = b \/ mem'[b].fwd = a
    BY DEF Twins
  <2>1. CASE a \in DOMAIN mem /\ b \in DOMAIN mem  BY <1>3, <1>6, <2>1
  <2>2. CASE a \notin DOMAIN mem /\ b \in DOMAIN mem  BY <1>1, <1>3, <1>7, <2>2
  <2>3. CASE a \in DOMAIN mem /\ b \notin DOMAIN mem  BY <1>1, <1>3, <1>7, <2>3
  <2>4. CASE a \notin DOMAIN mem /\ b \notin DOMAIN mem  BY <1>3, <2>4
  <2> QED  BY <2>1, <2>2, <2>3, <2>4
<1>9. CopyInv'
  <2> SUFFICES ASSUME NEW a \in DOMAIN mem', NEW b \in DOMAIN mem', mem'[a].fwd = b
               PROVE  mem'[b].id = mem'[a].id /\ Shown(b)' = Shown(a)'
    BY DEF CopyInv
  <2>1. a \in DOMAIN mem  BY <1>3, <1>4
  <2>2. CASE a = v
    <3>1. b = nv  BY <1>3, <2>1, <2>2
    <3>2. mem'[b].id = mem'[a].id  BY <1>1, <1>3, <2>1, <2>2, <3>1
    <3>3. Shown(a)' = Shown(v)  BY <1>1, <2>1, <2>2 DEF ScavengedShows
    <3>4. CASE nv \notin DOMAIN mem
      <4>1. Shown(nv)' = Shown(v)  BY <1>1, <3>4 DEF ScavengedShows
      <4> QED  BY <3>1, <3>2, <3>3, <4>1
    <3>5. CASE nv \in DOMAIN mem
      <4>1. Shown(nv) = Shown(v)  BY <1>2, <1>3, <3>5 DEF CopyInv
      <4>2. Shown(nv)' = Shown(nv)  BY <1>1, <3>5 DEF ScavengedShows
      <4> QED  BY <3>1, <3>2, <3>3, <4>1, <4>2
    <3> QED  BY <3>4, <3>5
  <2>3. CASE a # v
    <3>1. mem[a].fwd = b  BY <1>3, <2>1, <2>3
    <3>2. b \in DOMAIN mem  BY <1>2, <1>4, <2>1, <3>1 DEF ForwardInv
    <3>3. mem[b].id = mem[a].id /\ Shown(b) = Shown(a)  BY <1>2, <2>1, <3>1, <3>2 DEF CopyInv
    <3>4. Shown(b)' = Shown(b) /\ Shown(a)' = Shown(a)  BY <1>1, <2>1, <3>2 DEF ScavengedShows
    <3> QED  BY <1>3, <2>1, <3>2, <3>3, <3>4
  <2> QED  BY <2>2, <2>3
<1>10. gc'.phase \notin Returns /\ gc'.phase \notin {"mark", "rewrite", "slide"}
  BY <1>1 DEF Scanning, Returns
<1> QED  BY <1>8, <1>9, <1>10 DEF IdInv, Quiet, Collecting

\* A finished scavenge leaves one object of each pair.
LEMMA FinishScavengeIds ==
    ASSUME HeapInv, IdInv, FinishScavenge
    PROVE  IdInv'
<1>1. Scanning  BY DEF FinishScavenge, InCheneyLoop, Scanning
<1>2. TypeInv /\ ScanHeap /\ Twins  BY <1>1, ScanHas DEF IdInv
<1>3. PICK keep : keep = {x \in DOMAIN mem : IsOld(x) \/ (to.start <= x /\ x < to.top)}  OBVIOUS
<1>4. mem' = [a \in keep |-> mem[a]]  BY <1>3 DEF FinishScavenge
<1>5. \A a \in keep : a \in DOMAIN mem /\ ~InFrom(a)
  <2> TAKE a \in keep
  <2>1. a \in DOMAIN mem /\ (IsOld(a) \/ InTo(a))  BY <1>3 DEF InTo
  <2> QED  BY <1>2, <2>1, Kinds DEF TypeInv, ScanHeap, LayoutInv
<1>6. \A a \in keep : mem[a].fwd = 0  BY <1>2, <1>5 DEF ScanHeap, ForwardInv
<1>7. 0 \notin DOMAIN mem  BY <1>2 DEF TypeInv, MemOK, MemIs
<1>8. Distinct'  BY <1>2, <1>4, <1>5, <1>6, <1>7 DEF Distinct, Twins
<1>9. ~Scanning'
  <2>1. gc'.phase = gc.then  BY DEF FinishScavenge, NoGC
  <2>2. gc.then \in Returns  BY <1>2 DEF TypeInv, Collector
  <2> QED  BY <2>1, <2>2 DEF Scanning, Returns
<1> QED  BY <1>8, <1>9 DEF IdInv

\* A new object's identity is none that is in the heap.
LEMMA PlacedIds ==
    ASSUME HeapInv, IdInv, Quiet, NEW s \in Shapes, NEW p, p \notin DOMAIN mem,
           NEW i \in FreeIds, mem' = Put(mem, p, Fresh(s, i)), ~Scanning'
    PROVE  IdInv'
<1>1. Distinct  BY DEF IdInv
<1>2. Fresh(s, i).id \notin HeapIds
  <2>1. Fresh(s, i).id = i /\ i \in Ids \ HeapIds  BY FreshIs, Zenon
  <2> QED  BY <2>1
<1>3. DOMAIN mem' = DOMAIN mem \cup {p} /\ mem'[p] = Fresh(s, i)
      /\ \A a \in DOMAIN mem : mem'[a] = mem[a] /\ mem[a].id \in HeapIds
  BY DEF Put, HeapIds
<1>4. Distinct'  BY <1>1, <1>2, <1>3 DEF Distinct
<1> QED  BY <1>4 DEF IdInv

\* An object is placed at p, where there was none, and root r holds it.
Placing(r, s, p, i) ==
    /\ Quiet /\ r \in Roots /\ s \in Shapes /\ i \in FreeIds
    /\ p \in Nat \ {0} /\ p \notin DOMAIN mem
    /\ mem' = Put(mem, p, Fresh(s, i)) /\ roots' = [roots EXCEPT ![r] = p]
    /\ gc'.phase = "run"

\* Which is what every allocation does in the end.
LEMMA PlacingIs ==
    ASSUME HeapInv, Quiet, NEW r \in Roots, NEW s \in Shapes,
           PlaceInEden(r, s) \/ PlaceInOld(r, s), gc'.phase = "run"
    PROVE  \E p, i : Placing(r, s, p, i)
<1>1. TypeInv /\ QuietHeap /\ MemOK /\ SpacesOK /\ Housed
  BY QuietHas DEF TypeInv, QuietHeap, LayoutInv
<1>2. s.size \in Nat \ {0}  BY ShapeIs
<1>3. CASE PlaceInEden(r, s)
  <2>0. PICK i \in FreeIds : mem' = Put(mem, eden_top, Fresh(s, i))  BY <1>3 DEF PlaceInEden
  <2>1. /\ roots' = [roots EXCEPT ![r] = eden_top]
        /\ eden_top + s.size <= EdenStart + EdenWords
    BY <1>3 DEF PlaceInEden, EdenFits
  <2>2. eden_top \in Nat \ {0}  BY <1>1, Geometry
  <2>3. eden_top \notin DOMAIN mem
    <3> SUFFICES ASSUME NEW a \in DOMAIN mem, a = eden_top PROVE FALSE  OBVIOUS
    <3>1. a \in Nat /\ mem[a].size \in Nat /\ mem[a].size > 0  BY <1>1, ObjectIs
    <3>2. Within(a, EdenStart, eden_top) \/ a >= EdenStart + EdenWords
      BY <1>1, <3>1, Geometry DEF Housed, Within
    <3> QED  BY <1>1, <1>2, <2>1, <3>1, <3>2, Geometry DEF Within
  <2> QED  BY <2>0, <2>1, <2>2, <2>3 DEF Placing
<1>4. CASE PlaceInOld(r, s)
  <2>0. PICK i \in FreeIds : mem' = Put(mem, old_top, Fresh(s, i))  BY <1>4 DEF PlaceInOld
  <2>1. roots' = [roots EXCEPT ![r] = old_top]  BY <1>4 DEF PlaceInOld
  <2>2. old_top \in Nat \ {0}  BY <1>1, Geometry
  <2>3. old_top \notin DOMAIN mem  BY <1>1, TopIsFree
  <2> QED  BY <2>0, <2>1, <2>2, <2>3 DEF Placing
<1> QED  BY <1>3, <1>4

\* The fast path of an allocation places the object in eden.
LEMMA AllocatePlaces ==
    ASSUME HeapInv, NEW r \in Roots, NEW s \in Shapes, Allocate(r, s)
    PROVE  \E p, i : Placing(r, s, p, i)
<1>1. gc.phase = "run" /\ HaveId /\ PlaceInEden(r, s) /\ gc' = gc  BY DEF Allocate, Mutator
<1>2. Quiet  BY <1>1 DEF Quiet, Returns
<1> QED  BY <1>1, <1>2, PlacingIs

\* The cascade places the object it was asked for in eden or in old gen.
LEMMA SatisfyPlaces ==
    ASSUME HeapInv, Satisfy
    PROVE  \E r, s, p, i : Placing(r, s, p, i)
<1>1. gc.phase \in {"retry", "last"} /\ HaveId /\ gc' = NoGC  BY DEF Satisfy
<1>2. Quiet /\ TypeInv  BY <1>1, QuietHas DEF Quiet, Returns
<1>3. request \in Requests  BY <1>1, <1>2 DEF TypeInv, Returns
<1>4. PICK r, s : r = request.root /\ s = request.shape  OBVIOUS
<1>5. r \in Roots /\ s \in Shapes  BY <1>3, <1>4 DEF Requests
<1>6. gc'.phase = "run"  BY <1>1, NoGCIs
<1>7. PlaceInEden(r, s) \/ PlaceInOld(r, s)  BY <1>4 DEF Satisfy
<1> QED  BY <1>1, <1>2, <1>5, <1>6, <1>7, PlacingIs

\* Rewriting: every oop of the roots and of the planned objects is chased.
Rewritten ==
    /\ gc'.phase = "slide" /\ gc'.plan = gc.plan /\ gc'.placed = {}
    /\ IdsKept
    /\ \A r \in Roots : roots'[r] = Chase(roots[r])
    /\ \A e \in gc.plan :
          /\ e.old \in DOMAIN mem /\ DOMAIN mem'[e.old].slots = DOMAIN mem[e.old].slots
          /\ \A j \in DOMAIN mem[e.old].slots : mem'[e.old].slots[j] = Chase(mem[e.old].slots[j])

\* Rewriting changes no identity and no object outside the plan.
LEMMA RewriteDoes ==
    ASSUME HeapInv, Rewrite
    PROVE  Rewritten
<1>1. gc.phase = "rewrite"  BY DEF Rewrite
<1>2. TypeInv /\ PlanPlaces /\ RewriteHeap /\ MemOK /\ gc \in Collector
  BY <1>1, RewriteHas DEF PlanHeap, TypeInv
<1>3. gc' = [gc EXCEPT !.phase = "slide"] /\ roots' = [r \in Roots |-> Chase(roots[r])]
  BY DEF Rewrite
<1>4. gc'.phase = "slide" /\ gc'.plan = gc.plan /\ gc'.placed = {}
  <2>1. gc.placed = {}  BY <1>2 DEF RewriteHeap
  <2> QED  BY <1>2, <1>3, <2>1 DEF Collector
<1>5. DOMAIN mem' = DOMAIN mem
      /\ \A a \in DOMAIN mem : ~Planned(a) => mem'[a] = mem[a]
  BY DEF Rewrite, Planned
<1>6. \A a \in DOMAIN mem : Planned(a) =>
          mem'[a] = [mem[a] EXCEPT !.slots = [j \in DOMAIN @ |-> Chase(@[j])]]
  BY DEF Rewrite, Planned
<1>7. ASSUME NEW e \in gc.plan
      PROVE  /\ e.old \in DOMAIN mem /\ mem'[e.old].id = mem[e.old].id
             /\ DOMAIN mem'[e.old].slots = DOMAIN mem[e.old].slots
             /\ \A j \in DOMAIN mem[e.old].slots : mem'[e.old].slots[j] = Chase(mem[e.old].slots[j])
  <2>1. e.old \in DOMAIN mem /\ Planned(e.old)  BY <1>2 DEF RewriteHeap, Planned
  <2>2. PICK o : o = mem'[e.old]  OBVIOUS
  <2>3. o = [mem[e.old] EXCEPT !.slots = [j \in DOMAIN @ |-> Chase(@[j])]]  BY <1>6, <2>1, <2>2
  <2>4. /\ o.id = mem[e.old].id /\ DOMAIN o.slots = DOMAIN mem[e.old].slots
        /\ \A j \in DOMAIN o.slots : o.slots[j] = Chase(mem[e.old].slots[j])
    BY <1>2, <2>3, SlotsChased
  <2> QED  BY <2>1, <2>2, <2>4
<1>8. IdsKept
  <2>1. ASSUME NEW a \in DOMAIN mem PROVE mem'[a].id = mem[a].id
    <3>1. CASE Planned(a)  BY <1>7, <3>1 DEF Planned
    <3>2. CASE ~Planned(a)  BY <1>5, <3>2
    <3> QED  BY <3>1, <3>2
  <2> QED  BY <1>5, <2>1 DEF IdsKept
<1> QED  BY <1>3, <1>4, <1>7, <1>8 DEF Rewritten

\* The end of a full collection: the objects of the entries, as they were.
Finished ==
    /\ gc.phase = "slide" /\ gc.plan = {} /\ gc'.phase \in Returns /\ roots' = roots
    /\ DOMAIN mem' = {e.new : e \in gc.placed} /\ DOMAIN mem' \subseteq DOMAIN mem
    /\ \A a \in DOMAIN mem' : mem'[a].id = mem[a].id /\ mem'[a].slots = mem[a].slots

\* Restoring the headers drops what is not an entry and keeps identities and slots.
LEMMA FinishFullGCDoes ==
    ASSUME HeapInv, FinishFullGC
    PROVE  Finished
<1>1. gc.phase = "slide" /\ gc.plan = {} /\ roots' = roots  BY DEF FinishFullGC
<1>2. TypeInv /\ PlanPlaces /\ SlideHeap /\ MemOK /\ gc \in Collector
  BY <1>1, SlideHas DEF PlanHeap, TypeInv
<1>3. gc'.phase \in Returns
  <2>1. gc' = [NoGC EXCEPT !.phase = gc.then]  BY DEF FinishFullGC
  <2>2. gc.then \in Returns  BY <1>2 DEF Collector
  <2> QED  BY <2>1, <2>2 DEF NoGC
<1>4. DOMAIN mem' = {e.new : e \in gc.placed}
  BY DEF FinishFullGC
<1>0. \A a \in DOMAIN mem' : mem'[a] = [mem[a] EXCEPT !.fwd = 0, !.marked = FALSE,
                                   !.age = (CHOOSE e \in gc.placed : e.new = a).age]
  BY DEF FinishFullGC
<1>5. ASSUME NEW a \in DOMAIN mem'
      PROVE  a \in DOMAIN mem /\ mem'[a].id = mem[a].id /\ mem'[a].slots = mem[a].slots
  <2>1. \E e \in gc.placed : e.new = a  BY ONLY <1>4, a \in DOMAIN mem'
  <2>2. a \in DOMAIN mem  BY <1>2, <2>1 DEF SlideHeap, Carried
  <2>6. PICK o, p, g : o = mem[a] /\ p = mem'[a] /\ g = (CHOOSE e \in gc.placed : e.new = a).age  OBVIOUS
  <2>7. o \in Objects  BY <1>2, <2>2, <2>6, ObjectIs
  <2>8. p = [o EXCEPT !.fwd = 0, !.marked = FALSE, !.age = g]  BY <1>0, <2>6
  <2>9. p.slots = o.slots /\ p.id = o.id  BY ONLY <2>7, <2>8 DEF Objects
  <2> QED  BY <2>2, <2>6, <2>9
<1>6. DOMAIN mem' \subseteq DOMAIN mem
      /\ \A a \in DOMAIN mem' : mem'[a].id = mem[a].id /\ mem'[a].slots = mem[a].slots
  BY <1>5
<1> QED  BY <1>1, <1>3, <1>4, <1>6 DEF Finished

-----------------------------------------------------------------------------
(* What a step can be, as far as objects and what they hold are concerned. *)

\* Nothing moves while a scavenge starts, goes on to its next batch, or the VM stops.
Rests == mem' = mem /\ roots' = roots
Starts == Quiet /\ Scanning' /\ Rests
GoesOn == Scanning /\ Scanning' /\ Rests
Stops == Walkable /\ gc'.phase \in {"promote_stall", "mutator_stall"} /\ Rests

\* Marking and forwarding write headers only.
Heads ==
    /\ Quiet \/ gc.phase = "mark"
    /\ gc'.phase \in {"mark", "rewrite"} /\ SameObjects /\ roots' = roots

Mutates ==
    \/ \E r, q \in Roots : Load(r, q) \/ \E j : WriteField(r, j, q)
    \/ \E r \in Roots : Drop(r)

Copies == Scanning /\ \E s, v, nv : Scavenged(s, v, nv)

StepKind ==
    \/ Mutates \/ \E r, s, p, i : Placing(r, s, p, i)
    \/ Starts \/ GoesOn \/ Stops \/ Copies \/ FinishScavenge
    \/ Heads \/ Rewrite \/ Slide \/ FinishFullGC
    \/ UNCHANGED vars

\* Each start of a scavenge, whoever asks for it.
LEMMA StartKinds ==
    ASSUME NEW then, StartScavenge(then), Quiet, UNCHANGED <<mem, roots>>
    PROVE  Starts
<1>1. gc'.phase = "roots"  BY DEF StartScavenge, NoGC
<1> QED  BY <1>1 DEF Starts, Scanning, Rests

\* Each start of a full collection: the roots are marked.
LEMMA FullKinds ==
    ASSUME HeapInv, NEW then, StartFullGC(then), Quiet, UNCHANGED roots
    PROVE  Heads
<1>1. gc'.phase = "mark"  BY DEF StartFullGC, NoGC
<1>2. MemIs(mem)  BY DEF HeapInv, TypeInv, MemOK
<1>3. PICK rs : mem' = PushAll(mem, rs)  BY DEF StartFullGC
<1>4. MarkedAs(mem, mem', rs)  BY <1>2, <1>3, Pushed
<1> QED  BY <1>1, <1>4 DEF Heads, SameObjects, MarkedAs

\* Every step of the heap is one of these kinds.
LEMMA StepKinds ==
    ASSUME HeapInv, [Next]_vars
    PROVE  StepKind
<1>0. TypeInv /\ MemIs(mem) /\ gc \in Collector  BY DEF HeapInv, TypeInv, MemOK
<1>1. ASSUME NEW r \in Roots, NEW q \in Roots, Load(r, q) \/ Store(r, q) \/ RuntimeStore(r, q)
      PROVE  Mutates
  BY <1>1 DEF Mutates, Store, RuntimeStore
<1>2. ASSUME NEW r \in Roots, Drop(r) PROVE Mutates
  BY <1>2 DEF Mutates
<1>3. ASSUME NEW r \in Roots, NEW s \in Shapes, Allocate(r, s) PROVE \E p, i : Placing(r, s, p, i)
  BY <1>3, AllocatePlaces
<1>4. ASSUME NEW r \in Roots, NEW s \in Shapes, AllocateScavenges(r, s) PROVE Starts
  BY <1>4, StartKinds DEF AllocateScavenges, Mutator, Quiet, Returns
<1>5. ASSUME NEW r \in Roots, NEW s \in Shapes, AllocateCompacts(r, s) PROVE Heads
  BY <1>5, FullKinds DEF AllocateCompacts, Mutator, Quiet, Returns
<1>6. CASE EnsureGuarantee
  BY <1>6, StartKinds DEF EnsureGuarantee, Quiet, Returns, StepKind
<1>7. CASE Satisfy
  BY <1>7, SatisfyPlaces DEF StepKind
<1>8. CASE LastResort
  BY <1>8, FullKinds DEF LastResort, Quiet, Returns, StepKind
<1>9. CASE AllocateStall
  <2>1. gc.phase = "last" /\ gc'.phase = "mutator_stall" /\ Rests
    BY <1>9 DEF AllocateStall, NoGC, Rests
  <2> QED  BY <2>1 DEF Stops, Walkable, Quiet, Returns, StepKind
<1>10. CASE PrimScavenge
  BY <1>10, StartKinds DEF PrimScavenge, Mutator, Quiet, Returns, StepKind
<1>11. CASE PrimFull
  BY <1>11, FullKinds DEF PrimFull, Mutator, Quiet, Returns, StepKind
<1>12. CASE ScavengeSlot
  <2>1. Scanning  BY <1>12 DEF ScavengeSlot
  <2>2. TypeInv /\ ScanHeap  BY <2>1, ScanHas
  <2>3. \E s, v, nv : Scavenged(s, v, nv)  BY <1>12, <2>2, ScavengeSlotDoes
  <2> QED  BY <2>1, <2>3 DEF Copies, StepKind
<1>13. CASE ScavengeStall
  <2>1. Scanning /\ gc' = [gc EXCEPT !.phase = "promote_stall"] /\ Rests
    BY <1>13 DEF ScavengeStall, Rests
  <2>2. gc'.phase = "promote_stall"  BY <1>0, <2>1 DEF Collector
  <2> QED  BY <2>1, <2>2 DEF Walkable, Stops, StepKind
<1>14. CASE NextCard \/ CardsDone \/ ScanObject
  <2>1. Scanning /\ Rests
    BY <1>14 DEF NextCard, CardsDone, ScanObject, ScanningCards, InCheneyLoop, Scanning, Rests
  <2>2. gc'.phase \in {"card", "code", "cheney"}
    BY <1>0, <1>14 DEF NextCard, CardsDone, ScanObject, Collector
  <2> QED  BY <2>1, <2>2 DEF Scanning, GoesOn, StepKind
<1>15. CASE FinishScavenge  BY <1>15 DEF StepKind
<1>16. CASE MarkObject
  <2>1. gc.phase = "mark" /\ roots' = roots  BY <1>16 DEF MarkObject
  <2>2. gc'.phase = "mark"  BY <1>0, <1>16 DEF MarkObject, Collector
  <2>3. PICK vs : mem' = PushAll(mem, vs)  BY <1>16 DEF MarkObject
  <2>4. MarkedAs(mem, mem', vs)  BY <1>0, <2>3, Pushed
  <2>5. SameObjects  BY <2>4 DEF SameObjects, MarkedAs
  <2> QED  BY <2>1, <2>2, <2>5 DEF Heads, StepKind
<1>17. CASE ForwardingCompute
  <2>1. gc.phase = "mark" /\ roots' = roots  BY <1>17 DEF ForwardingCompute
  <2>2. gc'.phase = "rewrite"  BY <1>0, <1>17 DEF ForwardingCompute, Collector
  <2>3. TypeInv /\ MarkHeap /\ MemOK /\ SpacesOK  BY <2>1, MarkHas DEF TypeInv
  <2>4. \A a \in Live : NewPlace(a) \in Nat  BY <2>3, PlaceIs DEF MarkHeap, LayoutInv
  <2>5. ForwardedAs(mem, mem', Live)  BY <1>17, <2>3, <2>4, ForwardWords DEF ForwardingCompute
  <2>6. SameObjects  BY <2>5 DEF SameObjects, ForwardedAs
  <2> QED  BY <2>1, <2>2, <2>6 DEF Heads, StepKind
<1>18. CASE Rewrite \/ Slide \/ FinishFullGC  BY <1>18 DEF StepKind
<1>19. CASE UNCHANGED vars  BY <1>19 DEF StepKind
<1>20. CASE ScavengeStep
  BY <1>12, <1>13, <1>14, <1>15, <1>20 DEF ScavengeStep
<1>21. CASE FullGCStep
  BY <1>16, <1>17, <1>18, <1>21 DEF FullGCStep
<1>22. CASE \E r \in Roots, q \in Roots : Load(r, q) \/ Store(r, q) \/ RuntimeStore(r, q)
  BY <1>1, <1>22 DEF StepKind
<1>23. CASE \E r \in Roots : Drop(r)
  BY <1>2, <1>23 DEF StepKind
<1>24. CASE \E r \in Roots, s \in Shapes :
               Allocate(r, s) \/ AllocateScavenges(r, s) \/ AllocateCompacts(r, s)
  BY <1>3, <1>4, <1>5, <1>24 DEF StepKind
<1> QED
  BY <1>6, <1>7, <1>8, <1>9, <1>10, <1>11, <1>19, <1>20, <1>21, <1>22, <1>23, <1>24 DEF Next

\* A store writes a slot of one object.
LEMMA WriteDoes ==
    ASSUME HeapInv, NEW r \in Roots, NEW j, NEW q \in Roots, WriteField(r, j, q)
    PROVE  /\ Quiet /\ gc' = gc /\ roots' = roots /\ roots[r] \in DOMAIN mem
           /\ j \in DOMAIN mem[roots[r]].slots
           /\ SlotsAs(mem, mem', roots[r], j, roots[q])
<1>1. gc.phase = "run" /\ gc' = gc /\ roots' = roots /\ roots[r] # 0
      /\ j \in DOMAIN mem[roots[r]].slots /\ mem' = [mem EXCEPT ![roots[r]].slots[j] = roots[q]]
  BY DEF WriteField, Mutator
<1>2. Quiet  BY <1>1 DEF Quiet, Returns
<1>3. TypeInv /\ QuietHeap  BY <1>2, QuietHas
<1>4. MemIs(mem) /\ roots[q] \in Nat /\ roots[r] \in DOMAIN mem
  BY <1>1, <1>3 DEF TypeInv, MemOK, QuietHeap, OopsInv, Valid
<1>5. PICK a, v : a = roots[r] /\ v = roots[q]  OBVIOUS
<1>6. SlotsAs(mem, mem', a, j, v)  BY <1>1, <1>4, <1>5, SlotWritten
<1> QED  BY <1>1, <1>2, <1>4, <1>5, <1>6

\* The entry that slides takes its object's identity along.
LEMMA SlideIds ==
    ASSUME HeapInv, IdInv, Slide
    PROVE  IdInv'
<1>1. PICK e : Slid(e)  BY SlideDoes
<1>2. Distinct  BY DEF Slide, IdInv, Collecting
<1>3. /\ e.old \in DOMAIN mem /\ mem'[e.new] = mem[e.old]
      /\ \A a \in DOMAIN mem' : a # e.new => a \in DOMAIN mem /\ a # e.old /\ mem'[a] = mem[a]
  BY <1>1 DEF Slid
<1>4. Distinct'  BY <1>2, <1>3 DEF Distinct
<1>5. ~Scanning'  BY <1>1 DEF Slid, Scanning
<1> QED  BY <1>4, <1>5 DEF IdInv

\* Every step keeps identities apart.
LEMMA IdStep == HeapInv /\ IdInv /\ [Next]_vars => IdInv'
<1> SUFFICES ASSUME HeapInv, IdInv, [Next]_vars PROVE IdInv'  OBVIOUS
<1>1. StepKind  BY StepKinds
<1>2. CASE Mutates
  <2>1. ASSUME Quiet, gc' = gc, IdsKept PROVE IdInv'
    <3>1. Distinct /\ ~Scanning'  BY <2>1, PhaseCases DEF IdInv, Scanning
    <3> QED  BY <2>1, <3>1, DistinctStays
  <2>2. ASSUME NEW r, NEW q, Load(r, q) PROVE IdInv'
    BY <2>1, <2>2 DEF Load, Mutator, Quiet, Returns, IdsKept
  <2>3. ASSUME NEW r, Drop(r) PROVE IdInv'
    BY <2>1, <2>3 DEF Drop, Mutator, Quiet, Returns, IdsKept
  <2>4. ASSUME NEW r \in Roots, NEW q \in Roots, NEW j, WriteField(r, j, q) PROVE IdInv'
    <3>1. Quiet /\ gc' = gc /\ SlotsAs(mem, mem', roots[r], j, roots[q])  BY <2>4, WriteDoes
    <3>2. IdsKept  BY <3>1 DEF SlotsAs, IdsKept
    <3> QED  BY <2>1, <3>1, <3>2
  <2> QED  BY <1>2, <2>2, <2>3, <2>4 DEF Mutates
<1>3. ASSUME NEW r, NEW s, NEW p, NEW i, Placing(r, s, p, i) PROVE IdInv'
  <2>1. ~Scanning'  BY <1>3 DEF Placing, Scanning
  <2> QED  BY <1>3, <2>1, PlacedIds DEF Placing
<1>4. CASE Starts  BY <1>4, StartIds DEF Starts, Rests
<1>5. CASE GoesOn  BY <1>5, BatchIds DEF GoesOn, Rests
<1>6. CASE Stops  BY <1>6 DEF Stops, IdInv, Quiet, Returns, Collecting, Scanning
<1>7. CASE Copies
  <2>1. PICK s, v, nv : Scavenged(s, v, nv)  BY <1>7 DEF Copies
  <2> QED  BY <1>7, <2>1, ScanHas, ScavengedIds DEF Copies
<1>8. CASE FinishScavenge  BY <1>8, FinishScavengeIds
<1>9. CASE Heads
  <2>1. Distinct /\ ~Scanning'  BY <1>9 DEF Heads, IdInv, Collecting, Scanning
  <2> QED  BY <1>9, <2>1, DistinctStays DEF Heads, SameObjects, IdsKept
<1>10. CASE Rewrite
  <2>1. Distinct  BY <1>10 DEF Rewrite, IdInv, Collecting
  <2>2. Rewritten  BY <1>10, RewriteDoes
  <2> QED  BY <2>1, <2>2, DistinctStays DEF Rewritten, Scanning
<1>11. CASE Slide  BY <1>11, SlideIds
<1>12. CASE FinishFullGC
  <2>1. Finished  BY <1>12, FinishFullGCDoes
  <2>2. Distinct  BY <2>1 DEF Finished, IdInv, Collecting
  <2>3. Distinct'  BY <2>1, <2>2 DEF Finished, Distinct
  <2>4. ~Scanning'  BY <2>1 DEF Finished, Scanning, Returns
  <2> QED  BY <2>3, <2>4 DEF IdInv
<1>13. CASE UNCHANGED vars
  <2>1. UNCHANGED <<mem, roots, gc>>  BY <1>13 DEF vars
  <2>2. CASE Scanning
    <3>1. Scanning'  BY <2>1, <2>2 DEF Scanning
    <3> QED  BY <2>1, <2>2, <3>1, BatchIds
  <2>3. CASE ~Scanning
    <3>1. ~Scanning' /\ (Quiet' \/ Collecting' => Distinct)
      BY <2>1, <2>3 DEF Scanning, IdInv, Quiet, Collecting
    <3>2. Distinct => Distinct'  BY <2>1 DEF Distinct
    <3> QED  BY <3>1, <3>2 DEF IdInv
  <2> QED  BY <2>2, <2>3
<1> QED
  BY <1>1, <1>2, <1>3, <1>4, <1>5, <1>6, <1>7, <1>8, <1>9, <1>10, <1>11, <1>12, <1>13 DEF StepKind

\* Nothing is in the heap at first.
LEMMA IdInit == Init => IdInv
<1> SUFFICES ASSUME Init PROVE IdInv  OBVIOUS
<1>1. gc.phase = "run"  BY NoGCIs DEF Init
<1>2. DOMAIN mem = {}  BY DEF Init
<1> QED  BY <1>1, <1>2 DEF IdInv, Distinct, Scanning

-----------------------------------------------------------------------------
(* No step of a collection changes the graph. *)

SameGraph == GraphRegs' = GraphRegs /\ GraphSlots' = GraphSlots

\* A step that leaves the heap and the collector alone.
LEMMA StutterKeeps ==
    ASSUME UNCHANGED <<mem, roots, gc>>
    PROVE  SameGraph
<1>1. GraphRegs' = GraphRegs  BY DEF GraphRegs, Identity, Home
<1>2. Reached' = Reached  BY DEF Reached, Oops, Home, Rounds
<1>3. GraphSlots' = GraphSlots  BY <1>2 DEF GraphSlots, Identity, Home
<1> QED  BY <1>1, <1>3 DEF SameGraph

\* A step that moves nothing.
LEMMA RestsKeeps ==
    ASSUME IsFiniteSet(Ids), Ids # {}, Sound, Rests, \A v : Home(v)' = Home(v)
    PROVE  SameGraph
<1>1. mem' = mem /\ roots' = roots  BY DEF Rests
<1>2. \A v : Identity(v)' = Identity(v)  BY <1>1 DEF Identity
<1>3. \A a : Shown(a)' = Shown(a)  BY <1>1, <1>2 DEF Shown
<1>4. PICK C : Holds(C)  BY DEF Sound
<1>5. Holds(C)'  BY <1>1, <1>4 DEF Holds, Leads
<1>6. Agree'  BY <1>1, <1>3 DEF Sound, Agree
<1>7. Sound'  BY <1>1, <1>5, <1>6 DEF Sound, MemOK
<1>8. C \subseteq DOMAIN mem  BY <1>4 DEF Holds
<1>9. \A r \in Roots : Identity(roots[r])' = Identity(roots[r])  BY <1>1, <1>2
<1>10. \A a \in C : \E b \in DOMAIN mem' : mem'[b].id = mem[a].id /\ Shown(b)' = Shown(a)
  BY <1>1, <1>3, <1>8
<1> QED  BY <1>4, <1>7, <1>9, <1>10, GraphKept DEF SameGraph

\* Outside a slide every oop leads to an object.
LEMMA WalkHolds ==
    ASSUME HeapInv, Walkable
    PROVE  Holds(DOMAIN mem)
<1>1. \A v : Home(v) = v
  BY HomeStill DEF Walkable, Quiet, Returns, Scanning
<1>2. OopsInv  BY DEF HeapInv, WalkInv
<1> QED  BY <1>1, <1>2 DEF Holds, Leads, OopsInv, Valid

\* A step that changes headers only.
LEMMA HeadsKeeps ==
    ASSUME IsFiniteSet(Ids), Ids # {}, HeapInv, IdInv, HeapInv', IdInv', Heads
    PROVE  SameGraph
<1>1. Walkable /\ Active /\ Active'  BY DEF Heads, Walkable, Active
<1>2. Sound /\ Sound' /\ Holds(DOMAIN mem)  BY <1>1, SoundIs, SoundNext, WalkHolds
<1>3. gc.phase # "slide" /\ gc'.phase # "slide" /\ SameObjects /\ roots' = roots
  BY DEF Heads, Quiet, Returns
<1>4. /\ \A v : Identity(v)' = Identity(v)
      /\ \A a \in DOMAIN mem : Shown(a)' = Shown(a)
  BY <1>3, SameShows
<1>5. \A r \in Roots : Identity(roots[r])' = Identity(roots[r])  BY <1>3, <1>4
<1>6. \A a \in DOMAIN mem : \E b \in DOMAIN mem' : mem'[b].id = mem[a].id /\ Shown(b)' = Shown(a)
  BY <1>3, <1>4 DEF SameObjects
<1> QED  BY <1>2, <1>5, <1>6, GraphKept DEF SameGraph

\* A slot is scavenged.
LEMMA CopiesKeeps ==
    ASSUME IsFiniteSet(Ids), Ids # {}, HeapInv, IdInv, HeapInv', IdInv', Copies
    PROVE  SameGraph
<1>1. Scanning /\ TypeInv /\ ScanHeap  BY ScanHas DEF Copies
<1>2. PICK s, v, nv : Scavenged(s, v, nv)  BY DEF Copies
<1>3. Scanning' /\ ScavengedShows(v, nv)  BY <1>1, <1>2, ScavengedMeans
<1>4. Walkable /\ Active /\ Active'  BY <1>1, <1>3 DEF Walkable, Active
<1>5. Sound /\ Sound' /\ Holds(DOMAIN mem)  BY <1>4, SoundIs, SoundNext, WalkHolds
<1>6. \A r \in Roots : Identity(roots[r])' = Identity(roots[r])  BY <1>3 DEF ScavengedShows
<1>7. \A a \in DOMAIN mem : a \in DOMAIN mem' /\ mem'[a].id = mem[a].id  BY <1>2 DEF Scavenged
<1>8. \A a \in DOMAIN mem : \E b \in DOMAIN mem' : mem'[b].id = mem[a].id /\ Shown(b)' = Shown(a)
  BY <1>3, <1>7 DEF ScavengedShows
<1> QED  BY <1>5, <1>6, <1>8, GraphKept DEF SameGraph

\* A scavenge is over: what it leaves behind is not reached.
LEMMA FinishScavengeShows ==
    ASSUME IsFiniteSet(Ids), Ids # {}, HeapInv, IdInv, HeapInv', IdInv', FinishScavenge
    PROVE  SameGraph
<1>1. InCheneyLoop /\ Scanning /\ gc.to_scan = to.top /\ gc.old_scan = old_top
  BY DEF FinishScavenge, InCheneyLoop, Scanning
<1>2. TypeInv /\ ScanHeap /\ MemOK /\ SpacesOK /\ Housed /\ OopsInv
  BY <1>1, ScanHas DEF TypeInv, ScanHeap, LayoutInv
<1>3. gc'.phase \in Returns
  <2>1. gc'.phase = gc.then  BY DEF FinishScavenge, NoGC
  <2> QED  BY <1>2, <2>1 DEF TypeInv, Collector
<1>4. Walkable /\ Active /\ Active'  BY <1>1, <1>3 DEF Walkable, Active, Quiet
<1>5. Sound /\ Sound'  BY <1>4, SoundIs, SoundNext
<1>6. PICK keep : keep = {x \in DOMAIN mem : IsOld(x) \/ (to.start <= x /\ x < to.top)}  OBVIOUS
<1>7. mem' = [a \in keep |-> mem[a]] /\ roots' = roots  BY <1>6 DEF FinishScavenge
<1>8. keep \subseteq DOMAIN mem /\ \A a \in DOMAIN mem : a \in keep \/ InFrom(a)
  <2>1. \A a \in DOMAIN mem : IsOld(a) \/ InFrom(a) \/ InTo(a)  BY <1>2, Kinds
  <2> QED  BY <1>6, <2>1 DEF InTo
<1>9. ASSUME NEW v, Valid(v), ~InFrom(v) PROVE v = 0 \/ v \in keep
  BY <1>8, <1>9 DEF Valid
<1>10. ASSUME NEW a \in keep, NEW j \in DOMAIN mem[a].slots PROVE ~InFrom(mem[a].slots[j])
  <2>1. a \in DOMAIN mem /\ (IsOld(a) \/ InTo(a))  BY <1>6 DEF InTo
  <2>2. CASE IsOld(a)
    <3>1. a \in Nat /\ mem[a].size \in Nat /\ mem[a].size > 0 /\ old_top \in Nat
      BY <1>2, <2>1, ObjectIs, Geometry
    <3>2. Within(a, OldStart, old_top)  BY <1>2, <2>1, <2>2, Kinds
    <3>3. a < gc.old_scan  BY <1>1, <3>1, <3>2 DEF Within
    <3> QED  BY <1>1, <1>2, <2>1, <2>2, <3>3, CheneyHas
  <2>3. CASE InTo(a)
    <3>1. a < gc.to_scan  BY <1>1, <2>3 DEF InTo
    <3> QED  BY <1>1, <1>2, <2>1, <2>3, <3>1, CheneyHas
  <2> QED  BY <2>1, <2>2, <2>3
<1>11. \A v : Home(v) = v  BY <1>1, HomeStill DEF Scanning
<1>12. \A r \in Roots : roots[r] = 0 \/ roots[r] \in keep
  <2> TAKE r \in Roots
  <2>1. Valid(roots[r]) /\ ~InFrom(roots[r])  BY <1>1, <1>2, CheneyHas DEF OopsInv
  <2> QED  BY <1>9, <2>1
<1>13. \A a \in keep : \A j \in DOMAIN mem[a].slots : mem[a].slots[j] = 0 \/ mem[a].slots[j] \in keep
  <2> TAKE a \in keep
  <2> TAKE j \in DOMAIN mem[a].slots
  <2>1. Valid(mem[a].slots[j]) /\ ~InFrom(mem[a].slots[j])  BY <1>2, <1>8, <1>10 DEF OopsInv
  <2> QED  BY <1>9, <2>1
<1>14. Holds(keep)  BY <1>8, <1>11, <1>12, <1>13 DEF Holds, Leads
<1>15. StillMeans /\ StillMeans'
  <2>1. ~Sliding /\ ~Sliding'  BY <1>1, <1>3 DEF Scanning, Sliding, Returns
  <2> QED  BY <2>1, StillIs, StillNext
<1>16. \A v : v = 0 \/ v \in keep => Identity(v)' = Identity(v)
  BY <1>7, <1>8, <1>15 DEF StillMeans
<1>17. \A r \in Roots : Identity(roots[r])' = Identity(roots[r])  BY <1>7, <1>12, <1>16
<1>18. ASSUME NEW a \in keep PROVE a \in DOMAIN mem' /\ mem'[a].id = mem[a].id /\ Shown(a)' = Shown(a)
  <2>1. a \in DOMAIN mem' /\ mem'[a] = mem[a]  BY <1>7
  <2>2. \A j \in DOMAIN mem[a].slots : Identity(mem[a].slots[j])' = Identity(mem[a].slots[j])
    BY <1>13, <1>16, <2>1
  <2> QED  BY <2>1, <2>2, ShownSame
<1>19. \A a \in keep : \E b \in DOMAIN mem' : mem'[b].id = mem[a].id /\ Shown(b)' = Shown(a)
  BY <1>18
<1> QED  BY <1>5, <1>14, <1>17, <1>19, GraphKept DEF SameGraph

\* The oops are rewritten: they name the places of the plan, and still mean its objects.
LEMMA RewriteShows ==
    ASSUME IsFiniteSet(Ids), Ids # {}, HeapInv, IdInv, HeapInv', IdInv', Rewrite
    PROVE  SameGraph
<1>1. gc.phase = "rewrite" /\ Rewritten  BY RewriteDoes DEF Rewrite
<1>2. TypeInv /\ PlanPlaces /\ RewriteHeap  BY <1>1, RewriteHas DEF PlanHeap
<1>3. gc'.phase = "slide" /\ gc'.plan = gc.plan  BY <1>1 DEF Rewritten
<1>4. Active /\ Active' /\ ~Sliding /\ Sliding'  BY <1>1, <1>3 DEF Walkable, Active, Sliding
<1>5. Sound /\ Sound' /\ HomeOK'  BY <1>4, SoundIs, SoundNext, HomeNext
<1>6. PICK C : C = {e.old : e \in gc.plan}  OBVIOUS
<1>7. \A v : Planned(v) <=> v \in C  BY <1>6 DEF Planned
<1>8. C \subseteq DOMAIN mem  BY <1>2, <1>6 DEF RewriteHeap
<1>9. \A r \in Roots : roots[r] = 0 \/ roots[r] \in C  BY <1>2, <1>7 DEF RewriteHeap
<1>10. \A a \in C : \A j \in DOMAIN mem[a].slots : mem[a].slots[j] = 0 \/ mem[a].slots[j] \in C
  BY <1>2, <1>6, <1>7 DEF RewriteHeap
<1>11. Holds(C)
  <2>1. \A v : Home(v) = v  BY <1>1, HomeStill
  <2> QED  BY <1>8, <1>9, <1>10, <2>1 DEF Holds, Leads
<1>12. ASSUME NEW v, v = 0 \/ v \in C, NEW w, w = Chase(v) PROVE Identity(w)' = Identity(v)
  <2>1. CASE v = 0
    <3>1. w = 0  BY <1>12, <2>1 DEF Chase
    <3> QED  BY <2>1, <3>1 DEF Identity
  <2>2. CASE v \in C
    <3>1. PICK e \in gc.plan : e.old = v  BY <1>6, <2>2
    <3>2. e.new > 0 /\ e.new \in Nat  BY <1>2, MoveIs DEF Entries
    <3>3. v \in DOMAIN mem /\ mem[v].fwd = e.new /\ v # 0
      BY <1>2, <3>1 DEF RewriteHeap, TypeInv, MemOK, MemIs
    <3>4. w = e.new /\ w # 0  BY <1>12, <3>2, <3>3 DEF Chase
    <3>5. Home(w)' = v
      <4>1. \A f \in gc'.plan : Home(f.new)' = f.old  BY <1>5 DEF HomeOK
      <4> QED  BY <1>3, <3>1, <3>4, <4>1
    <3>6. v \in DOMAIN mem' /\ mem'[v].id = mem[v].id  BY <1>1, <3>3 DEF Rewritten, IdsKept
    <3>7. Identity(v) = mem[v].id
      <4>1. StillMeans  BY <1>4, StillIs
      <4> QED  BY <3>3, <4>1 DEF StillMeans
    <3>8. Identity(w)' = mem'[v].id  BY <3>4, <3>5, <3>6 DEF Identity
    <3> QED  BY <3>6, <3>7, <3>8
  <2> QED  BY <1>12, <2>1, <2>2
<1>13. ASSUME NEW r \in Roots PROVE Identity(roots[r])' = Identity(roots[r])
  <2>1. PICK v, w : v = roots[r] /\ w = roots'[r]  OBVIOUS
  <2>2. w = Chase(v)  BY <1>1, <2>1 DEF Rewritten
  <2>3. Identity(w)' = Identity(v)  BY <1>9, <1>12, <2>1, <2>2
  <2> QED  BY <2>1, <2>3
<1>14. ASSUME NEW a \in C PROVE a \in DOMAIN mem' /\ mem'[a].id = mem[a].id /\ Shown(a)' = Shown(a)
  <2>1. a \in DOMAIN mem' /\ mem'[a].id = mem[a].id  BY <1>1, <1>8 DEF Rewritten, IdsKept
  <2>2. /\ DOMAIN mem'[a].slots = DOMAIN mem[a].slots
        /\ \A j \in DOMAIN mem[a].slots : mem'[a].slots[j] = Chase(mem[a].slots[j])
    BY <1>1, <1>6 DEF Rewritten
  <2>3. ASSUME NEW j \in DOMAIN mem[a].slots
        PROVE  Identity(mem[a].slots[j])' = Identity(mem[a].slots[j])
    <3>1. PICK v, w : v = mem[a].slots[j] /\ w = mem'[a].slots[j]  OBVIOUS
    <3>2. w = Chase(v) /\ (v = 0 \/ v \in C)  BY <1>10, <2>2, <3>1
    <3>3. Identity(w)' = Identity(v)  BY <1>12, <3>2
    <3> QED  BY <3>1, <3>3
  <2> QED  BY <2>1, <2>2, <2>3, ShownSame
<1>15. \A a \in C : \E b \in DOMAIN mem' : mem'[b].id = mem[a].id /\ Shown(b)' = Shown(a)
  BY <1>14
<1> QED  BY <1>5, <1>11, <1>13, <1>15, GraphKept DEF SameGraph

\* One object slides: the oops that named its new place already lead to it now.
LEMMA SlideShows ==
    ASSUME IsFiniteSet(Ids), Ids # {}, HeapInv, IdInv, HeapInv', IdInv', Slide
    PROVE  SameGraph
<1>1. PICK e : Slid(e)  BY SlideDoes
<1>2. Sliding /\ gc.phase = "slide"  BY DEF Slide, Sliding
<1>3. TypeInv /\ SlideHeap /\ HomeOK /\ Holds(EntryPlaces)
  BY <1>2, SlideHas, HomeSlides, EntriesHold
<1>4. /\ e \in gc.plan /\ gc'.phase = "slide" /\ gc'.plan = gc.plan \ {e}
      /\ gc'.placed = gc.placed \cup {e} /\ roots' = roots
      /\ e.new \in DOMAIN mem' /\ mem'[e.new] = mem[e.old]
      /\ \A f \in gc.plan \ {e} : f.old \in DOMAIN mem' /\ mem'[f.old] = mem[f.old]
      /\ \A g \in gc.placed : g.new \in DOMAIN mem' /\ mem'[g.new] = mem[g.new]
  BY <1>1 DEF Slid
<1>5. Active /\ Sliding' /\ Active'  BY <1>2, <1>4 DEF Active, Sliding
<1>6. Sound /\ Sound' /\ HomeOK'  BY <1>5, SoundIs, SoundNext, HomeNext
<1>7. /\ \A f \in gc.plan \ {e} : Home(f.new)' = f.old
      /\ \A g \in gc.placed \cup {e} : Home(g.new)' = g.new
  BY <1>4, <1>6 DEF HomeOK
<1>8. /\ \A f \in gc.plan : Home(f.new) = f.old /\ f.old \in DOMAIN mem
      /\ \A g \in gc.placed : Home(g.new) = g.new /\ g.new \in DOMAIN mem
  BY <1>3 DEF HomeOK, SlideHeap, Carried
<1>9. ASSUME NEW v, WillBe(v) PROVE Identity(v)' = Identity(v)
  <2>1. CASE v = 0  BY <2>1 DEF Identity
  <2>2. ASSUME NEW f \in gc.plan, f.new = v, v # 0 PROVE Identity(v)' = Identity(v)
    <3>1. Identity(v) = mem[f.old].id  BY <1>8, <2>2 DEF Identity
    <3>2. CASE f = e
      <4>1. Home(v)' = e.new  BY <1>7, <2>2, <3>2
      <4>2. Identity(v)' = mem'[e.new].id  BY <1>4, <2>2, <4>1 DEF Identity
      <4> QED  BY <1>4, <3>1, <3>2, <4>2
    <3>3. CASE f # e
      <4>1. Home(v)' = f.old /\ f.old \in DOMAIN mem' /\ mem'[f.old] = mem[f.old]
        BY <1>4, <1>7, <2>2, <3>3
      <4>2. Identity(v)' = mem'[f.old].id  BY <2>2, <4>1 DEF Identity
      <4> QED  BY <3>1, <4>1, <4>2
    <3> QED  BY <3>2, <3>3
  <2>3. ASSUME NEW g \in gc.placed, g.new = v, v # 0 PROVE Identity(v)' = Identity(v)
    <3>1. Identity(v) = mem[g.new].id  BY <1>8, <2>3 DEF Identity
    <3>2. Home(v)' = g.new /\ g.new \in DOMAIN mem' /\ mem'[g.new] = mem[g.new]
      BY <1>4, <1>7, <2>3
    <3>3. Identity(v)' = mem'[g.new].id  BY <2>3, <3>2 DEF Identity
    <3> QED  BY <3>1, <3>2, <3>3
  <2> QED  BY <1>9, <2>1, <2>2, <2>3 DEF WillBe, Entries
<1>10. \A r \in Roots : Identity(roots[r])' = Identity(roots[r])
  BY <1>3, <1>4, <1>9 DEF SlideHeap
<1>11. ASSUME NEW a \in EntryPlaces
       PROVE  \E b \in DOMAIN mem' : mem'[b].id = mem[a].id /\ Shown(b)' = Shown(a)
  <2>1. \A j \in DOMAIN mem[a].slots : WillBe(mem[a].slots[j])
    BY <1>3 DEF SlideHeap, Carried, EntryPlaces
  <2>2. PICK b \in DOMAIN mem' : mem'[b] = mem[a]  BY <1>4 DEF EntryPlaces
  <2>3. \A j \in DOMAIN mem[a].slots : Identity(mem[b].slots[j])' = Identity(mem[a].slots[j])
    <3> TAKE j \in DOMAIN mem[a].slots
    <3>1. PICK v : v = mem[a].slots[j] /\ v = mem'[b].slots[j]  BY <2>2
    <3>2. Identity(v)' = Identity(v)  BY <1>9, <2>1, <3>1
    <3> QED  BY <3>1, <3>2
  <2>4. Shown(b)' = Shown(a)  BY <2>2, <2>3, ShownSame
  <2> QED  BY <2>2, <2>4
<1> QED  BY <1>3, <1>6, <1>10, <1>11, GraphKept DEF SameGraph

\* The slide is over: every oop is the address of its object again.
LEMMA FinishFullGCShows ==
    ASSUME IsFiniteSet(Ids), Ids # {}, HeapInv, IdInv, HeapInv', IdInv', FinishFullGC
    PROVE  SameGraph
<1>1. Finished  BY FinishFullGCDoes
<1>2. Sliding /\ gc.phase = "slide" /\ gc.plan = {}  BY <1>1 DEF Finished, Sliding
<1>3. TypeInv /\ SlideHeap /\ HomeOK /\ Holds(EntryPlaces)
  BY <1>2, SlideHas, HomeSlides, EntriesHold
<1>4. /\ gc'.phase \in Returns /\ roots' = roots /\ DOMAIN mem' = EntryPlaces
      /\ \A a \in DOMAIN mem' : mem'[a].id = mem[a].id /\ mem'[a].slots = mem[a].slots
  BY <1>1, <1>2 DEF Finished, EntryPlaces
<1>5. Active /\ ~Sliding' /\ Active'  BY <1>2, <1>4 DEF Active, Sliding, Walkable, Quiet, Returns
<1>6. Sound /\ Sound' /\ StillMeans'  BY <1>5, SoundIs, SoundNext, StillNext
<1>7. \A a \in EntryPlaces : Home(a) = a /\ a \in DOMAIN mem
  BY <1>2, <1>3 DEF HomeOK, EntryPlaces, SlideHeap, Carried
<1>8. \A v : WillBe(v) => v = 0 \/ v \in EntryPlaces  BY <1>2 DEF WillBe, Entries, EntryPlaces
<1>9. ASSUME NEW v, WillBe(v) PROVE Identity(v)' = Identity(v)
  <2>1. Identity(v)' = IF v = 0 THEN 0 ELSE IF v \in DOMAIN mem' THEN mem'[v].id ELSE Dangling
    BY <1>6 DEF StillMeans
  <2> QED  BY <1>4, <1>7, <1>8, <1>9, <2>1 DEF Identity
<1>10. \A r \in Roots : Identity(roots[r])' = Identity(roots[r])
  BY <1>3, <1>4, <1>9 DEF SlideHeap
<1>11. ASSUME NEW a \in EntryPlaces
       PROVE  \E b \in DOMAIN mem' : mem'[b].id = mem[a].id /\ Shown(b)' = Shown(a)
  <2>1. \A j \in DOMAIN mem[a].slots : WillBe(mem[a].slots[j])
    BY <1>3 DEF SlideHeap, Carried, EntryPlaces
  <2>2. a \in DOMAIN mem' /\ mem'[a].id = mem[a].id /\ mem'[a].slots = mem[a].slots  BY <1>4
  <2>3. \A j \in DOMAIN mem[a].slots : Identity(mem[a].slots[j])' = Identity(mem[a].slots[j])
    <3> TAKE j \in DOMAIN mem[a].slots
    <3>1. PICK v : v = mem[a].slots[j] /\ v = mem'[a].slots[j]  BY <2>2
    <3>2. Identity(v)' = Identity(v)  BY <1>9, <2>1, <3>1
    <3> QED  BY <3>1, <3>2
  <2>4. Shown(a)' = Shown(a)  BY <2>2, <2>3, ShownSame
  <2> QED  BY <2>2, <2>4
<1> QED  BY <1>3, <1>6, <1>10, <1>11, GraphKept DEF SameGraph

\* So no step of a collector changes the graph.
LEMMA CollectorKeeps ==
    ASSUME IsFiniteSet(Ids), Ids # {}, HeapInv, IdInv, HeapInv', IdInv',
           \/ Starts \/ GoesOn \/ Stops \/ Copies \/ FinishScavenge
           \/ Heads \/ Rewrite \/ Slide \/ FinishFullGC
    PROVE  SameGraph
<1>1. CASE Starts \/ GoesOn \/ Stops
  <2>1. Rests /\ Active /\ gc.phase # "slide" /\ gc'.phase # "slide"
    BY <1>1 DEF Starts, GoesOn, Stops, Active, Walkable, Quiet, Returns, Scanning
  <2>2. \A v : Home(v)' = Home(v)  BY <2>1 DEF Home
  <2> QED  BY <2>1, <2>2, SoundIs, RestsKeeps
<1> QED
  BY <1>1, HeadsKeeps, CopiesKeeps, FinishScavengeShows, RewriteShows, SlideShows,
     FinishFullGCShows

-----------------------------------------------------------------------------
(* What the mutator does to the heap it does to the graph. *)

\* A set of identities that holds what the next roots hold and what its elements hold in
\* s, where the next heap shows them.
Covers(U, s) ==
    /\ U \subseteq DOMAIN s /\ Graph!Held(GraphRegs') \subseteq U
    /\ \A i \in U : View'[i] = s[i] /\ Graph!Held(s[i]) \subseteq U

\* Then the next graph is what the next roots reach through s.
LEMMA GraphBecomes ==
    ASSUME IsFiniteSet(Ids), Ids # {}, Sound', NEW U, NEW s, Covers(U, s)
    PROVE  Graph!Becomes(GraphRegs', s)
<1>1. PICK g, T, W : g = GraphRegs' /\ T = ReachedIds' /\ W = View'  OBVIOUS
<1>2. T \in SUBSET Ids /\ Least(T, g, W) /\ GraphSlots' = [i \in T |-> W[i]]
  BY <1>1, SoundGraphNext DEF GraphIs
<1>3. T \subseteq U  BY <1>1, <1>2 DEF Least, Covers
<1>4. \A i \in T : i \in DOMAIN s /\ s[i] = W[i]  BY <1>1, <1>3 DEF Covers
<1>5. Least(T, g, s)  BY <1>2, <1>4, LeastSame
<1>6. Graph!ReachableFrom(g, s) = T  BY <1>2, <1>5, ReachableIsLeast
<1>7. GraphSlots' = [i \in T |-> s[i]]  BY <1>2, <1>4
<1> QED  BY <1>1, <1>6, <1>7 DEF Graph!Becomes

\* The heap when the mutator runs.
RunsIn(T) ==
    /\ T \in SUBSET HeapIds /\ Graph!Held(GraphRegs) \subseteq T
    /\ GraphSlots = [i \in T |-> View[i]] /\ \A i \in T : Graph!Held(View[i]) \subseteq T

\* What the mutator may rely on between collections.
LEMMA RunsHas ==
    ASSUME IsFiniteSet(Ids), Ids # {}, HeapInv, IdInv, Quiet
    PROVE  /\ RunsIn(ReachedIds) /\ ViewOK /\ Distinct /\ StillMeans
           /\ TypeInv /\ QuietHeap /\ Sound
<1>1. Active /\ ~Sliding  BY DEF Active, Walkable, Quiet, Returns, Sliding
<1>2. Sound  BY <1>1, SoundIs
<1>3. GraphIs(ReachedIds) /\ ViewOK  BY <1>2, SoundGraph, AgreeView
<1>4. RunsIn(ReachedIds)  BY <1>3 DEF GraphIs, Least, RunsIn
<1> QED  BY <1>1, <1>2, <1>3, <1>4, QuietHas, StillIs DEF IdInv

\* What the graph shows of a root.
LEMMA RootShows ==
    ASSUME TypeInv, QuietHeap, StillMeans, ViewOK, NEW T, RunsIn(T),
           NEW r \in Roots, roots[r] # 0
    PROVE  /\ roots[r] \in DOMAIN mem /\ GraphRegs[r] = mem[roots[r]].id
           /\ GraphRegs[r] # 0 /\ GraphRegs[r] \in T
           /\ GraphSlots[GraphRegs[r]] = Shown(roots[r])
           /\ DOMAIN Shown(roots[r]) = DOMAIN mem[roots[r]].slots
<1>1. roots[r] \in DOMAIN mem  BY DEF QuietHeap, OopsInv, Valid
<1>2. GraphRegs[r] = mem[roots[r]].id  BY <1>1 DEF GraphRegs, StillMeans
<1>3. GraphRegs[r] # 0
  <2>1. mem[roots[r]].id \in Ids  BY <1>1 DEF TypeInv, MemOK, MemIs, Objects
  <2> QED  BY <1>2, <2>1, IdAssumption
<1>4. GraphRegs[r] \in T
  <2>1. r \in DOMAIN GraphRegs  BY DEF GraphRegs
  <2> QED  BY <1>3, <2>1 DEF RunsIn, Graph!Held
<1>5. GraphSlots[GraphRegs[r]] = Shown(roots[r])  BY <1>1, <1>2, <1>4 DEF RunsIn, ViewOK
<1> QED  BY <1>1, <1>2, <1>3, <1>4, <1>5 DEF Shown

\* A step of the mutator that leaves the objects alone: a root gets a value that is nothing
\* or in the graph.
LEMMA RootShown ==
    ASSUME IsFiniteSet(Ids), Ids # {}, HeapInv, IdInv, HeapInv', IdInv', Quiet, gc' = gc,
           mem' = mem, NEW q \in Roots, NEW v, roots' = [roots EXCEPT ![q] = v],
           NEW i, i = Identity(v), i = 0 \/ i \in ReachedIds
    PROVE  Graph!Becomes([GraphRegs EXCEPT ![q] = i], GraphSlots)
<1>1. /\ RunsIn(ReachedIds) /\ ViewOK /\ TypeInv  BY RunsHas
<1>2. Quiet' /\ Active' /\ gc.phase # "slide" /\ gc'.phase # "slide"
  BY DEF Quiet, Active, Walkable, Returns
<1>3. Sound' /\ ViewOK'  BY <1>2, SoundNext, AgreeViewNext
<1>4. /\ \A x : Identity(x)' = Identity(x)
      /\ \A a \in DOMAIN mem : Shown(a)' = Shown(a)
  BY <1>2, SameShows DEF SameObjects
<1>5. GraphRegs' = [GraphRegs EXCEPT ![q] = i]
  <2>1. roots \in [Roots -> Nat]  BY <1>1 DEF TypeInv
  <2>2. \A r \in Roots : roots'[r] = IF r = q THEN v ELSE roots[r]  BY <2>1
  <2>3. \A r \in Roots : Identity(roots[r])' = IF r = q THEN i ELSE Identity(roots[r])
    <3> TAKE r \in Roots
    <3>1. PICK x : x = roots'[r]  OBVIOUS
    <3>2. Identity(x)' = Identity(x)  BY <1>4
    <3> QED  BY <2>2, <3>1, <3>2
  <2> QED  BY <2>3 DEF GraphRegs
<1>6. PICK T : T = ReachedIds  OBVIOUS
<1>7. ASSUME NEW k \in T PROVE View'[k] = View[k]
  <2>1. PICK a \in DOMAIN mem : k = mem[a].id  BY <1>1, <1>6 DEF RunsIn, HeapIds
  <2>2. View[k] = Shown(a) /\ View'[k] = Shown(a)'  BY <1>1, <1>3, <2>1 DEF ViewOK
  <2> QED  BY <1>4, <2>2
<1>8. Graph!Held(GraphRegs') \subseteq T
  <2>1. DOMAIN GraphRegs = Roots /\ DOMAIN GraphRegs' = Roots  BY DEF GraphRegs
  <2>2. \A r \in Roots : GraphRegs'[r] = i \/ GraphRegs'[r] = GraphRegs[r]  BY <1>5, <2>1
  <2> QED  BY <1>1, <1>6, <2>1, <2>2 DEF RunsIn, Graph!Held
<1>9. Covers(T, GraphSlots)  BY <1>1, <1>6, <1>7, <1>8 DEF RunsIn, Covers
<1>10. Graph!Becomes(GraphRegs', GraphSlots)  BY <1>3, <1>9, GraphBecomes
<1> QED  BY <1>5, <1>10

\* A load.
LEMMA LoadShows ==
    ASSUME IsFiniteSet(Ids), Ids # {}, HeapInv, IdInv, HeapInv', IdInv',
           NEW r \in Roots, NEW q \in Roots, Load(r, q)
    PROVE  Graph!GraphNext
<1>1. gc.phase = "run" /\ roots[r] # 0 /\ mem' = mem /\ gc' = gc  BY DEF Load, Mutator
<1>2. PICK j \in DOMAIN mem[roots[r]].slots : roots' = [roots EXCEPT ![q] = mem[roots[r]].slots[j]]
  BY DEF Load
<1>3. Quiet  BY <1>1 DEF Quiet, Returns
<1>4. RunsIn(ReachedIds) /\ ViewOK /\ StillMeans /\ TypeInv /\ QuietHeap  BY <1>3, RunsHas
<1>5. /\ GraphRegs[r] # 0 /\ GraphRegs[r] \in ReachedIds
      /\ GraphSlots[GraphRegs[r]] = Shown(roots[r])
      /\ DOMAIN Shown(roots[r]) = DOMAIN mem[roots[r]].slots
  BY <1>1, <1>4, RootShows
<1>6. PICK v, i : v = mem[roots[r]].slots[j] /\ i = Identity(v)  OBVIOUS
<1>7. GraphSlots[GraphRegs[r]][j] = i  BY <1>5, <1>6 DEF Shown
<1>8. i = 0 \/ i \in ReachedIds
  <2>1. View[GraphRegs[r]] = Shown(roots[r])  BY <1>4, <1>5 DEF RunsIn
  <2>2. Graph!Held(Shown(roots[r])) \subseteq ReachedIds  BY <1>4, <1>5, <2>1 DEF RunsIn
  <2>3. Shown(roots[r])[j] = i  BY <1>5, <1>7
  <2> QED  BY <1>5, <2>2, <2>3 DEF Graph!Held
<1>9. Graph!Becomes([GraphRegs EXCEPT ![q] = i], GraphSlots)
  BY <1>1, <1>2, <1>3, <1>6, <1>8, RootShown
<1>10. j \in DOMAIN GraphSlots[GraphRegs[r]]  BY <1>5
<1>11. Graph!Load(r, j, q)  BY <1>5, <1>7, <1>9, <1>10 DEF Graph!Load
<1> QED  BY <1>5, <1>10, <1>11 DEF Graph!GraphNext

\* A root leaves scope.
LEMMA DropShows ==
    ASSUME IsFiniteSet(Ids), Ids # {}, HeapInv, IdInv, HeapInv', IdInv', NEW r \in Roots, Drop(r)
    PROVE  Graph!GraphNext
<1>1. gc.phase = "run" /\ mem' = mem /\ gc' = gc /\ roots' = [roots EXCEPT ![r] = 0]
  BY DEF Drop, Mutator
<1>2. Quiet  BY <1>1 DEF Quiet, Returns
<1>3. Identity(0) = 0  BY DEF Identity
<1>4. Graph!Becomes([GraphRegs EXCEPT ![r] = 0], GraphSlots)  BY <1>1, <1>2, <1>3, RootShown
<1> QED  BY <1>4 DEF Graph!Drop, Graph!GraphNext

\* A store.
LEMMA StoreShows ==
    ASSUME IsFiniteSet(Ids), Ids # {}, HeapInv, IdInv, HeapInv', IdInv',
           NEW r \in Roots, NEW j, NEW q \in Roots, WriteField(r, j, q)
    PROVE  Graph!GraphNext
<1>1. /\ Quiet /\ gc' = gc /\ roots' = roots /\ roots[r] \in DOMAIN mem
      /\ j \in DOMAIN mem[roots[r]].slots /\ SlotsAs(mem, mem', roots[r], j, roots[q])
  BY WriteDoes
<1>2. /\ RunsIn(ReachedIds) /\ ViewOK /\ Distinct /\ StillMeans /\ TypeInv /\ QuietHeap
  BY <1>1, RunsHas
<1>3. Quiet' /\ Active' /\ ~Sliding'
  BY <1>1 DEF Quiet, Active, Walkable, Returns, Sliding
<1>4. Sound' /\ ViewOK' /\ StillMeans'  BY <1>3, SoundNext, AgreeViewNext, StillNext
<1>5. DOMAIN mem' = DOMAIN mem /\ \A b \in DOMAIN mem : mem'[b].id = mem[b].id
  BY <1>1 DEF SlotsAs
<1>6. \A x : Identity(x)' = Identity(x)  BY <1>2, <1>4, <1>5 DEF StillMeans
<1>7. GraphRegs' = GraphRegs  BY <1>1, <1>6 DEF GraphRegs
<1>8. PICK a, v, T : a = roots[r] /\ v = Identity(roots[q]) /\ T = ReachedIds  OBVIOUS
<1>9. 0 \notin DOMAIN mem  BY <1>2 DEF TypeInv, MemOK, MemIs
<1>10. PICK k : k = GraphRegs[r]  OBVIOUS
<1>11. /\ k = mem[a].id /\ k # 0 /\ k \in T /\ GraphSlots[k] = Shown(a)
       /\ DOMAIN Shown(a) = DOMAIN mem[a].slots /\ a \in DOMAIN mem /\ j \in DOMAIN Shown(a)
  BY <1>1, <1>2, <1>8, <1>9, <1>10, RootShows
<1>12. GraphRegs[q] = v  BY <1>8 DEF GraphRegs
<1>13. v = 0 \/ v \in T
  <2>1. DOMAIN GraphRegs = Roots  BY DEF GraphRegs
  <2> QED  BY <1>2, <1>8, <1>12, <2>1 DEF RunsIn, Graph!Held
<1>14. PICK s : s = [GraphSlots EXCEPT ![k][j] = v]  OBVIOUS
<1>15. DOMAIN GraphSlots = T /\ \A i \in T : GraphSlots[i] = View[i]  BY <1>2, <1>8 DEF RunsIn
<1>16. /\ DOMAIN s = T /\ s[k] = [Shown(a) EXCEPT ![j] = v]
       /\ \A i \in T : i # k => s[i] = View[i]
  BY <1>11, <1>14, <1>15
<1>17. Shown(a)' = s[k]
  <2>1. /\ DOMAIN mem'[a].slots = DOMAIN mem[a].slots
        /\ \A n \in DOMAIN mem[a].slots :
              mem'[a].slots[n] = IF n = j THEN roots[q] ELSE mem[a].slots[n]
    BY <1>1, <1>8 DEF SlotsAs
  <2>2. \A n \in DOMAIN mem[a].slots :
           Identity(mem[a].slots[n])' = IF n = j THEN v ELSE Identity(mem[a].slots[n])
    <3> TAKE n \in DOMAIN mem[a].slots
    <3>1. PICK x : x = mem'[a].slots[n]  OBVIOUS
    <3>2. Identity(x)' = Identity(x)  BY <1>6
    <3> QED  BY <1>8, <2>1, <3>1, <3>2
  <2>3. Shown(a)' = [n \in DOMAIN mem[a].slots |-> IF n = j THEN v ELSE Identity(mem[a].slots[n])]
    BY <2>1, <2>2 DEF Shown
  <2>4. s[k] = [n \in DOMAIN mem[a].slots |-> IF n = j THEN v ELSE Identity(mem[a].slots[n])]
    BY <1>16 DEF Shown
  <2> QED  BY <2>3, <2>4
<1>18. ASSUME NEW b \in DOMAIN mem, b # a PROVE Shown(b)' = Shown(b)
  <2>1. /\ DOMAIN mem'[b].slots = DOMAIN mem[b].slots
        /\ \A n \in DOMAIN mem[b].slots : mem'[b].slots[n] = mem[b].slots[n]
    BY <1>1, <1>8, <1>18 DEF SlotsAs
  <2>2. \A n \in DOMAIN mem[b].slots : Identity(mem[b].slots[n])' = Identity(mem[b].slots[n])
    BY <1>6, <2>1
  <2> QED  BY <2>1, <2>2, ShownSame
<1>19. ASSUME NEW i \in T PROVE View'[i] = s[i] /\ Graph!Held(s[i]) \subseteq T
  <2>1. PICK b \in DOMAIN mem : i = mem[b].id  BY <1>2, <1>8 DEF RunsIn, HeapIds
  <2>2. View[i] = Shown(b) /\ View'[i] = Shown(b)'  BY <1>2, <1>4, <1>5, <2>1 DEF ViewOK
  <2>3. Graph!Held(View[i]) \subseteq T  BY <1>2, <1>8 DEF RunsIn
  <2>4. CASE b = a
    <3>1. i = k /\ View'[i] = s[i]  BY <1>11, <1>17, <2>1, <2>2, <2>4
    <3>2. /\ DOMAIN s[i] = DOMAIN Shown(a)
          /\ \A n \in DOMAIN s[i] : s[i][n] = v \/ s[i][n] = Shown(a)[n]
      BY <1>16, <3>1
    <3>3. Graph!Held(s[i]) \subseteq T  BY <1>13, <2>2, <2>3, <2>4, <3>2 DEF Graph!Held
    <3> QED  BY <3>1, <3>3
  <2>5. CASE b # a
    <3>1. i # k  BY <1>2, <1>11, <2>1, <2>5 DEF Distinct
    <3>2. s[i] = View[i] /\ View'[i] = View[i]  BY <1>16, <1>18, <2>2, <2>5, <3>1
    <3> QED  BY <2>3, <3>2
  <2> QED  BY <2>4, <2>5
<1>20. Covers(T, s)  BY <1>2, <1>7, <1>8, <1>16, <1>19 DEF RunsIn, Covers
<1>21. Graph!Becomes(GraphRegs', s)  BY <1>4, <1>20, GraphBecomes
<1>22. Graph!Becomes(GraphRegs, [GraphSlots EXCEPT ![GraphRegs[r]][j] = GraphRegs[q]])
  BY <1>7, <1>10, <1>12, <1>14, <1>21
<1>23. GraphRegs[r] # 0 /\ j \in DOMAIN GraphSlots[GraphRegs[r]]  BY <1>10, <1>11
<1>24. Graph!Store(r, j, q)  BY <1>22, <1>23 DEF Graph!Store
<1> QED  BY <1>23, <1>24 DEF Graph!GraphNext

\* An allocation.
LEMMA NewShows ==
    ASSUME IsFiniteSet(Ids), Ids # {}, HeapInv, IdInv, HeapInv', IdInv',
           NEW r, NEW sh, NEW p, NEW i, Placing(r, sh, p, i)
    PROVE  Graph!GraphNext
<1>1. /\ Quiet /\ i \in FreeIds /\ r \in Roots /\ sh \in Shapes /\ p \in Nat \ {0} /\ p \notin DOMAIN mem
      /\ mem' = Put(mem, p, Fresh(sh, i)) /\ roots' = [roots EXCEPT ![r] = p] /\ gc'.phase = "run"
  BY DEF Placing
<1>2. /\ RunsIn(ReachedIds) /\ ViewOK /\ StillMeans /\ TypeInv /\ QuietHeap
  BY <1>1, RunsHas
<1>3. Active' /\ ~Sliding'  BY <1>1 DEF Quiet, Active, Walkable, Returns, Sliding
<1>4. Sound' /\ ViewOK' /\ StillMeans'  BY <1>3, SoundNext, AgreeViewNext, StillNext
<1>5. PICK n, T : n = sh.slots /\ T = ReachedIds  OBVIOUS
<1>6. /\ i \in Ids /\ i \notin HeapIds /\ Fresh(sh, i).slots = [j \in 1 .. n |-> 0]
      /\ Fresh(sh, i).id = i
  BY <1>1, <1>5, FreshIs
<1>7. /\ DOMAIN mem' = DOMAIN mem \cup {p} /\ mem'[p] = Fresh(sh, i)
      /\ \A a \in DOMAIN mem : mem'[a] = mem[a]
  BY <1>1 DEF Put
<1>8. \A x : Valid(x) => Identity(x)' = Identity(x)  BY <1>2, <1>4, <1>7 DEF StillMeans, Valid
<1>9. Identity(p)' = i  BY <1>1, <1>4, <1>6, <1>7 DEF StillMeans
<1>10. GraphRegs' = [GraphRegs EXCEPT ![r] = i]
  <2>1. roots \in [Roots -> Nat] /\ \A x \in Roots : Valid(roots[x])
    BY <1>2 DEF TypeInv, QuietHeap, OopsInv
  <2>2. \A x \in Roots : roots'[x] = IF x = r THEN p ELSE roots[x]  BY <1>1, <2>1
  <2>3. \A x \in Roots : Identity(roots[x])' = IF x = r THEN i ELSE Identity(roots[x])
    <3> TAKE x \in Roots
    <3>1. PICK v : v = roots'[x]  OBVIOUS
    <3>2. Identity(v)' = IF x = r THEN i ELSE Identity(roots[x])  BY <1>8, <1>9, <2>1, <2>2, <3>1
    <3> QED  BY <3>1, <3>2
  <2> QED  BY <1>1, <2>3 DEF GraphRegs
<1>11. PICK s : s = [x \in T \cup {i} |-> IF x = i THEN [j \in 1 .. n |-> 0] ELSE GraphSlots[x]]
  OBVIOUS
<1>12. DOMAIN GraphSlots = T /\ (\A x \in T : GraphSlots[x] = View[x]) /\ i \notin T
  BY <1>2, <1>5, <1>6 DEF RunsIn
<1>13. /\ DOMAIN s = T \cup {i} /\ s[i] = [j \in 1 .. n |-> 0] /\ \A x \in T : s[x] = View[x]
  BY <1>11, <1>12
<1>14. View'[i] = s[i] /\ Graph!Held(s[i]) = {}
  <2>1. View'[i] = Shown(p)'  BY <1>4, <1>6, <1>7 DEF ViewOK
  <2>2. mem'[p].slots = [j \in 1 .. n |-> 0]  BY <1>6, <1>7
  <2>3. Identity(0)' = 0  BY DEF Identity
  <2>4. DOMAIN mem'[p].slots = 1 .. n /\ \A j \in 1 .. n : mem'[p].slots[j] = 0  BY <2>2
  <2>5. \A j \in 1 .. n : Identity(mem[p].slots[j])' = 0  BY <2>3, <2>4
  <2>6. Shown(p)' = [j \in 1 .. n |-> 0]  BY <2>4, <2>5 DEF Shown
  <2>7. Graph!Held(s[i]) = {}  BY <1>13 DEF Graph!Held
  <2> QED  BY <1>13, <2>1, <2>6, <2>7
<1>15. ASSUME NEW x \in T PROVE View'[x] = s[x] /\ Graph!Held(s[x]) \subseteq T
  <2>1. PICK a \in DOMAIN mem : x = mem[a].id  BY <1>2, <1>5 DEF RunsIn, HeapIds
  <2>2. View[x] = Shown(a) /\ View'[x] = Shown(a)'  BY <1>2, <1>4, <1>7, <2>1 DEF ViewOK
  <2>3. \A j \in DOMAIN mem[a].slots : Identity(mem[a].slots[j])' = Identity(mem[a].slots[j])
    <3> TAKE j \in DOMAIN mem[a].slots
    <3>1. Valid(mem[a].slots[j])  BY <1>2 DEF QuietHeap, OopsInv
    <3> QED  BY <1>7, <1>8, <3>1
  <2>4. Shown(a)' = Shown(a)  BY <1>7, <2>3, ShownSame
  <2>5. Graph!Held(View[x]) \subseteq T  BY <1>2, <1>5 DEF RunsIn
  <2> QED  BY <1>13, <2>2, <2>4, <2>5
<1>16. Graph!Held(GraphRegs') \subseteq T \cup {i}
  <2>1. DOMAIN GraphRegs = Roots /\ DOMAIN GraphRegs' = Roots  BY DEF GraphRegs
  <2>2. \A x \in Roots : GraphRegs'[x] = i \/ GraphRegs'[x] = GraphRegs[x]  BY <1>10, <2>1
  <2> QED  BY <1>2, <1>5, <2>1, <2>2 DEF RunsIn, Graph!Held
<1>17. PICK U : U = T \cup {i}  OBVIOUS
<1>18. Covers(U, s)  BY <1>13, <1>14, <1>15, <1>16, <1>17 DEF Covers
<1>19. Graph!Becomes(GraphRegs', s)  BY <1>4, <1>18, GraphBecomes
<1>20. Graph!New(r, i, n)
  BY <1>10, <1>11, <1>12, <1>19 DEF Graph!New
<1>21. n \in {x.slots : x \in Shapes}  BY <1>1, <1>5
<1> QED  BY <1>1, <1>6, <1>20, <1>21 DEF Graph!GraphNext

\* Every step of the heap is a step of the graph, or leaves it alone.
LEMMA GraphStep ==
    ASSUME IsFiniteSet(Ids), Ids # {}
    PROVE  HeapInv /\ IdInv /\ HeapInv' /\ IdInv' /\ [Next]_vars => [Graph!GraphNext]_(Graph!graphVars)
<1> SUFFICES ASSUME HeapInv, IdInv, HeapInv', IdInv', [Next]_vars
             PROVE  [Graph!GraphNext]_(Graph!graphVars)
  OBVIOUS
<1>1. StepKind  BY StepKinds
<1>2. CASE Mutates
  <2>1. Graph!GraphNext  BY <1>2, LoadShows, StoreShows, DropShows DEF Mutates
  <2> QED  BY <2>1
<1>3. ASSUME NEW r, NEW s, NEW p, NEW i, Placing(r, s, p, i) PROVE Graph!GraphNext
  BY <1>3, NewShows
<1>4. ASSUME SameGraph PROVE [Graph!GraphNext]_(Graph!graphVars)
  BY <1>4 DEF SameGraph, Graph!graphVars
<1>5. CASE \/ Starts \/ GoesOn \/ Stops \/ Copies \/ FinishScavenge
           \/ Heads \/ Rewrite \/ Slide \/ FinishFullGC
  BY <1>4, <1>5, CollectorKeeps
<1>6. CASE UNCHANGED vars
  <2>1. UNCHANGED <<mem, roots, gc>>  BY <1>6 DEF vars
  <2> QED  BY <1>4, <2>1, StutterKeeps
<1> QED  BY <1>1, <1>2, <1>3, <1>5, <1>6 DEF StepKind

\* The graph is empty at first.
LEMMA GraphStarts ==
    ASSUME IsFiniteSet(Ids), Ids # {}
    PROVE  Init => Graph!GraphInit
<1> SUFFICES ASSUME Init PROVE Graph!GraphInit  OBVIOUS
<1>1. HeapInv /\ IdInv  BY HeapInit, IdInit
<1>2. gc.phase = "run" /\ DOMAIN mem = {} /\ roots = [r \in Roots |-> 0]  BY NoGCIs DEF Init
<1>3. Active  BY <1>2 DEF Active, Walkable, Quiet, Returns
<1>4. GraphIs(ReachedIds)  BY <1>1, <1>3, SoundIs, SoundGraph
<1>5. ReachedIds = {}  BY <1>2, <1>4 DEF GraphIs, HeapIds
<1>6. GraphSlots = << >>  BY <1>4, <1>5 DEF GraphIs
<1>7. GraphRegs = [r \in Roots |-> 0]  BY <1>2 DEF GraphRegs, Identity
<1> QED  BY <1>6, <1>7 DEF Graph!GraphInit

\* The collectors, the allocation cascade and the store barriers implement the object
\* graph.
THEOREM HeapImplementsGraph ==
    ASSUME IsFiniteSet(Ids), Ids # {}
    PROVE  Spec => GraphSpec
<1>1. Init => Graph!GraphInit /\ IdInv  BY GraphStarts, IdInit
<1>2. HeapInv /\ IdInv /\ [Next]_vars => IdInv'  BY IdStep
<1>3. HeapInv /\ IdInv /\ HeapInv' /\ IdInv' /\ [Next]_vars => [Graph!GraphNext]_(Graph!graphVars)
  BY GraphStep
<1> QED  BY <1>1, <1>2, <1>3, HeapInvariant, PTL DEF Spec, GraphSpec, Graph!GraphSpec
=============================================================================
