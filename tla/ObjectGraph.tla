---------------------------- MODULE ObjectGraph ----------------------------
(***************************************************************************)
(* What a heap promises its mutator: objects with an identity and slots,   *)
(* held by roots and by each other.  Nothing moves, and there is no        *)
(* collector: what no root reaches is simply not there.                    *)
(***************************************************************************)
EXTENDS Naturals, Sequences, FiniteSets

CONSTANTS
    Roots,      \* the mutator's roots
    Ids,        \* object identities; 0 is no object
    Lengths     \* the numbers of slots an object may have

VARIABLES
    regs,       \* the object each root holds
    slots       \* the slots of each object some root reaches

graphVars == <<regs, slots>>

GraphInit ==
    /\ regs = [r \in Roots |-> 0]
    /\ slots = << >>

Held(f) == {f[x] : x \in DOMAIN f} \ {0}

\* The objects reachable from g through s: one round per object is enough.
ReachableFrom(g, s) ==
    LET after[n \in 0 .. Cardinality(Ids)] ==
            IF n = 0 THEN Held(g)
            ELSE UNION {{i} \cup Held(s[i]) : i \in after[n - 1]}
    IN  after[Cardinality(Ids)]

\* The next graph: g and what it reaches through s.
Becomes(g, s) ==
    /\ regs' = g
    /\ slots' = [i \in ReachableFrom(g, s) |-> s[i]]

\* A new object is none of those in the graph, and its slots hold nothing.
New(r, i, n) ==
    /\ i \notin DOMAIN slots
    /\ Becomes([regs EXCEPT ![r] = i],
               [x \in DOMAIN slots \cup {i} |-> IF x = i THEN [j \in 1 .. n |-> 0] ELSE slots[x]])

Load(r, j, q) ==
    /\ regs[r] # 0 /\ j \in DOMAIN slots[regs[r]]
    /\ Becomes([regs EXCEPT ![q] = slots[regs[r]][j]], slots)

Store(r, j, q) ==
    /\ regs[r] # 0 /\ j \in DOMAIN slots[regs[r]]
    /\ Becomes(regs, [slots EXCEPT ![regs[r]][j] = regs[q]])

Drop(r) == Becomes([regs EXCEPT ![r] = 0], slots)

\* A step that leaves the graph alone comes first: nearly every step of a heap that
\* implements this is one.
GraphNext ==
    \/ UNCHANGED graphVars
    \/ \E r \in Roots :
          \/ Drop(r)
          \/ \E n \in Lengths, i \in Ids : New(r, i, n)
          \/ \E q \in Roots : regs[r] # 0 /\ \E j \in DOMAIN slots[regs[r]] :
                Load(r, j, q) \/ Store(r, j, q)

GraphSpec == GraphInit /\ [][GraphNext]_graphVars

=============================================================================
