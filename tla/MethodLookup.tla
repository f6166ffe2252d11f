---------------------------- MODULE MethodLookup ----------------------------
(***************************************************************************)
(* Method dictionaries, the superclass walk and the lookup cache:          *)
(* src/src/runtime/lookup.rs, and the walk of src/src/runtime/deps.rs.     *)
(*                                                                         *)
(* A method is the class that defines it, its selector and how often that  *)
(* class has (re)defined it; dict[k][s] is that number, 0 for no           *)
(* definition.  The root class understands every selector, so a lookup     *)
(* always finds a method: doesNotUnderstand: is not modelled.              *)
(*                                                                         *)
(* The cache is a memo of the walk.  An entry that agrees with the walk    *)
(* answers what a miss would, so only the entries that DISAGREE with it    *)
(* are kept, in a set (`stale` in Tiers).                                  *)
(***************************************************************************)
EXTENDS Naturals, Sequences, FiniteSets, FiniteSetsExt

CONSTANTS
    Classes,   \* the classes
    Root,      \* the one with no superclass
    Chain,     \* class -> itself and its superclasses, up to the root
    Selectors, \* the selectors
    SuperHolders  \* the classes whose "c" sends "f" to super

ASSUME ChainAssumption ==
    /\ IsFiniteSet(Classes) /\ Root \in Classes
    /\ Chain \in [Classes -> UNION {[1 .. n -> Classes] : n \in 1 .. Cardinality(Classes)}]
    /\ SuperHolders \subseteq Classes \ {Root}
    /\ \A k \in Classes :
          IF k = Root THEN Chain[k] = <<Root>>
          ELSE Len(Chain[k]) >= 2 /\ Chain[k] = <<k>> \o Chain[Chain[k][2]]

\* The superclass of a class other than the root.
Super(k) == Chain[k][2]

\* lookup_uncached: the nearest class on k's chain whose dictionary has s.
Walk(dict, k, s) ==
    LET h == Chain[k][Min({i \in DOMAIN Chain[k] : dict[Chain[k][i]][s] > 0})]
    IN  [h |-> h, s |-> s, v |-> dict[h][s]]

\* Where the lookup of the send in m starts, for a receiver of class k: above
\* the class that defines m if it is a super send.
IsSuper(m) == m.s = "c" /\ m.h \in SuperHolders
SiteStart(m, k) == IF IsSuper(m) THEN Super(m.h) ELSE k

\* superchain_contains(k, holder), the same walk.
OnChain(k, h) == \E i \in DOMAIN Chain[k] : Chain[k][i] = h

-----------------------------------------------------------------------------
(* The cache.                                                              *)

Hits(stale, k, s) == {e \in stale : e.k = k /\ e.s = s}

\* lookup: an entry that hits answers for the walk.
Lookup(dict, stale, k, s) ==
    IF Hits(stale, k, s) = {} THEN Walk(dict, k, s)
                              ELSE (CHOOSE e \in Hits(stale, k, s) : TRUE).m

\* What a cache filled under `old` would hold that `new` contradicts.
Outdated(old, new) ==
    {[k |-> q[1], s |-> q[2], m |-> Walk(old, q[1], q[2])] :
        q \in {p \in Classes \X Selectors : Walk(old, p[1], p[2]) # Walk(new, p[1], p[2])}}

\* The entries are keyed by addresses: when a collection puts class k where
\* class move[k] was, the entries of move[k] hit for k.
Recycled(dict, move) ==
    {[k |-> q[1], s |-> q[2], m |-> Walk(dict, move[q[1]], q[2])] :
        q \in {p \in Classes \X Selectors :
                 Walk(dict, move[p[1]], p[2]) # Walk(dict, p[1], p[2])}}

\* LookupCache::flush
Flush(entries) == {e \in entries : FALSE}
=============================================================================
