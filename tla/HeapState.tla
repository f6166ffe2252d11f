----------------------------- MODULE HeapState -----------------------------
(***************************************************************************)
(* The heap of one VM (src/src/memory): eden, two survivor spaces and the  *)
(* old generation side by side in one reservation, with the card table and *)
(* the offset table over the old generation.  Addresses count words; oop 0 *)
(* stands for every word the collectors pass over (smis, and nil).         *)
(*                                                                         *)
(* `mem` maps the header address of each object to the object.  Its klass  *)
(* field is one of its slots; its size, which the code derives from the    *)
(* klass, is part of it.  `id` is a ghost: the identity that survives      *)
(* moves.  A reclaimed object leaves `mem` when its space is vacated, as   *)
(* in a build that poisons vacated memory.                                 *)
(***************************************************************************)
EXTENDS Offsets, FiniteSetsExt, Sequences

CONSTANTS
    EdenStart,      \* eden.start; eden, the survivors and old gen follow in order
    EdenWords,
    SurvivorWords,
    Segment,        \* OLD_INITIAL_SEGMENT = OLD_GROWTH_SEGMENT
    MaxAge,         \* MARK_AGE_MAX (127)
    VmRoots,        \* the roots for_each_root visits
    CodeRoots,      \* the roots each_code_root visits
    Ids,            \* bound: identities of the objects in the heap at one time
    Shapes,         \* [size, slots]: the objects considered; the slots come last
    None            \* no allocation request

Roots == VmRoots \cup CodeRoots
SurvivorA == EdenStart + EdenWords
SurvivorB == SurvivorA + SurvivorWords

ASSUME LayoutAssumption ==
    /\ {EdenStart, EdenWords, SurvivorWords, Segment} \subseteq Nat \ {0}
    /\ OldStart = SurvivorB + SurvivorWords
ASSUME ShapeAssumption ==
    /\ Shapes \subseteq [size : Nat, slots : Nat]
    /\ \A s \in Shapes : s.slots < s.size
ASSUME IdAssumption == 0 \notin Ids /\ -1 \notin Ids    \* nil, and no object at all
ASSUME AgeAssumption == MaxAge \in Nat \ {0}
ASSUME RootAssumption == VmRoots \cup CodeRoots \subseteq Nat /\ VmRoots \cap CodeRoots = {}

VARIABLES
    mem,            \* header address -> [id, size, slots, age, fwd, marked]
    roots,          \* the value of each root
    eden_top,       \* eden.top
    from,           \* survivor space in use: [start, top]
    to,             \* the other one
    old_top,        \* old.top
    committed_end,  \* old.committed_end
    dirty,          \* the dirty cards
    offsets,        \* the offset table
    threshold,      \* tenuring_threshold
    guarantee_met,  \* promotion_guarantee_met
    request,        \* the allocation in progress: [root, shape, worst], or None
    gc              \* where the collector is: see NoGC

spaceVars == <<eden_top, from, to, old_top, committed_end>>
tableVars == <<dirty, offsets>>
vars == <<mem, roots, spaceVars, tableVars, threshold, guarantee_met, request, gc>>

(* phase "run" is the mutator; `then` is the phase a collection returns to. *)
(* work: slots still to scavenge;  age_table, card, still_new, to_scan,     *)
(* old_top_before, old_scan: the scavenger's;  gray, plan, placed, tops:    *)
(* the full collector's, with its new tops of eden, from and old.  The age  *)
(* table, cleared on entry, counts only in a scavenge.                      *)
NoGC == [phase |-> "run", then |-> "run", work |-> {},
         age_table |-> [g \in 0 .. MaxAge |-> 0], card |-> -1, still_new |-> FALSE,
         old_top_before |-> 0, to_scan |-> 0, old_scan |-> 0,
         gray |-> {}, plan |-> {}, placed |-> {},
         tops |-> [eden |-> 0, from |-> 0, old |-> 0]]

Init ==
    /\ mem = << >>
    /\ roots = [r \in Roots |-> 0]
    /\ eden_top = EdenStart
    /\ from = [start |-> SurvivorA, top |-> SurvivorA]
    /\ to = [start |-> SurvivorB, top |-> SurvivorB]
    /\ old_top = OldStart
    /\ committed_end = LesserOf(OldStart + Segment, OldEnd)
    /\ dirty = {}
    /\ offsets = [i \in Cards |-> 0]
    /\ threshold = MaxAge
    /\ guarantee_met = TRUE
    /\ request = None
    /\ gc = NoGC

IsOld(a) == a >= OldStart
IsNew(a) == a # 0 /\ ~IsOld(a)

Put(f, a, obj) == [x \in DOMAIN f \cup {a} |-> IF x = a THEN obj ELSE f[x]]

(* Slots: <<0, r>> is root r, <<a, j>> is slot j of the object at a. *)
SlotAddr(a, j) == a + mem[a].size - Len(mem[a].slots) + j - 1
SlotsOf(a) == {<<a, j>> : j \in DOMAIN mem[a].slots}
Before(s, t) == s[1] < t[1] \/ (s[1] = t[1] /\ s[2] <= t[2])
ValueOf(s) == IF s[1] = 0 THEN roots[s[2]] ELSE mem[s[1]].slots[s[2]]

\* One more segment, clamped to the reservation (OldGen::grow).
Grown(end) == LesserOf(end + Segment, OldEnd)

=============================================================================
