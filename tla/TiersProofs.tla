---------------------------- MODULE TiersProofs ----------------------------
(***************************************************************************)
(* The two tiers run the program that the dictionaries define, for every   *)
(* class hierarchy, program, set of redefinitions, code-cache size, limit  *)
(* and stack depth, where none of the disagreements of README section 3 is *)
(* admitted (Admit = {}).                                                  *)
(*                                                                         *)
(* One invariant has four parts that need each other: the table of         *)
(* compiled methods (alive code is current, keys lead to alive code, sites *)
(* of alive code are linked), the inline caches (a cache of the current    *)
(* epoch holds what lookup finds), the frames (each runs code of its own,  *)
(* and goes on in it only while it is right), and the classes (what any of *)
(* them names is not dead).  The last section shows that the tiers         *)
(* implement the program of module Program, run without caches or          *)
(* compiled code.                                                          *)
(***************************************************************************)
EXTENDS Tiers, DataLemmas, FiniteSetTheorems

USE SlotsAssumption

-----------------------------------------------------------------------------
(* Types.                                                                  *)

Tags == {"empty", "mono", "poly", "mega"}
Nmethods ==
    [st : {"free", "alive", "notentrant"}, k : Classes, m : Methods \cup {NoMethod},
     version : 0 .. MaxVersions, traps : 0 .. TrapLimit, prof : Tags,
     inl : [k : Classes, m : Methods \cup {NoMethod}], cold : BOOLEAN,
     osr : {"no", "half", "warm"}, site : Site]
Tables ==
    [nm : [Slots -> Nmethods], byKey : [Classes -> [Selectors -> 0 .. NumSlots]],
     osr : [Classes -> 0 .. NumSlots], armed : BOOLEAN, jit : BOOLEAN]
Arms == UNION {[D -> [id : 0 .. NumSlots, m : Methods \cup {NoMethod}]] : D \in SUBSET Classes}
Caches == [tag : Tags, arms : Arms, fresh : BOOLEAN]
Frames ==
    [k : Classes, m : Methods, tier : {"I", "C", "D", "N"}, id : 0 .. NumSlots,
     redir : BOOLEAN, after : {C2IDone} \cup 0 .. NumSlots, pc : {"eval", "send", "loop", "body"}]

-----------------------------------------------------------------------------
(* The dictionaries and the classes.                                       *)

DictOK(d) ==
    /\ d \in [Classes -> [Selectors -> 0 .. 2]]
    /\ \A s \in Selectors : d[Root][s] > 0
    /\ \A h \in Classes, s \in Selectors : d[h][s] > 0 => [h |-> h, s |-> s, v |-> d[h][s]] \in Methods

\* A class keeps its superclasses.
LiveOK(l) == l \subseteq Classes /\ \A k \in l, h \in Classes : OnChain(k, h) => h \in l

-----------------------------------------------------------------------------
(* The table of compiled methods.                                          *)

\* An nmethod that is not free is code for a method; a loop entry and an inlined body are
\* those of a "c"; a super site has one arm at most.
Formed(n) ==
    /\ n.m \in Methods /\ (n.osr # "no" => n.m.s = "c")
    /\ n.inl # NoInline => n.m.s = "c" /\ n.inl.m \in Methods
    /\ n.site.t = "mono" => DOMAIN n.site.arms # {}
    /\ IsSuper(n.m) =>
          /\ n.site.t \in {"unresolved", "mono"} /\ DOMAIN n.site.arms \subseteq {Super(n.m.h)}
          /\ n.inl # NoInline => n.inl.k = Super(n.m.h)

InlineCurrent(n, d) == n.inl # NoInline => n.inl.m = Walk(d, n.inl.k, "f")
Current(n, d, l) == n.k \in l /\ n.m = Walk(d, n.k, n.m.s) /\ InlineCurrent(n, d)

SiteRight(t, i) ==
    \A k \in DOMAIN t.nm[i].site.arms :
        LET x == t.nm[i].site.arms[k]
        IN  x # C2I => t.nm[x].st # "free" /\ t.nm[x].m.s = "f" /\ t.nm[x].k = k

KeyRight(t, k, s) ==
    LET i == t.byKey[k][s] IN i # 0 => i \in Alive(t) /\ t.nm[i].k = k /\ t.nm[i].m.s = s
OsrRight(t, k) ==
    LET i == t.osr[k] IN i # 0 => i \in Alive(t) /\ t.nm[i].k = k /\ t.nm[i].osr # "no"

\* What does not depend on the dictionaries.
TableShape(t) ==
    /\ t \in Tables
    /\ \A i \in Slots : t.nm[i].st # "free" => Formed(t.nm[i])
    /\ \A i \in Alive(t) : SiteRight(t, i)
    /\ \A k \in Classes : OsrRight(t, k) /\ \A s \in Selectors : KeyRight(t, k, s)

\* What does.
TableCurrent(t, d, l) ==
    /\ \A i \in Slots : t.nm[i].st # "free" => (t.nm[i].inl # NoInline => t.nm[i].inl.k \in l)
    /\ \A i \in Alive(t) : Current(t.nm[i], d, l)

TableOK(t, d, l) == TableShape(t) /\ TableCurrent(t, d, l)

-----------------------------------------------------------------------------
(* The inline caches.                                                      *)

CacheOK(c, m, d, l) ==
    /\ c \in Caches
    /\ \A k \in DOMAIN c.arms :
          /\ k \in l /\ (IsSuper(m) => OnChain(k, m.h))
          /\ c.arms[k].id = 0 => c.arms[k].m \in Methods
          /\ c.tag = "poly" => c.arms[k].id = 0
          /\ c.fresh /\ c.arms[k].id = 0 => c.arms[k].m = Walk(d, SiteStart(m, k), "f")

CachesOK(d, l) == ic \in [CMethods -> Caches] /\ \A m \in CMethods : CacheOK(ic[m], m, d, l)

-----------------------------------------------------------------------------
(* The frames.                                                             *)

\* A frame by itself.
FrameOK(f, l) ==
    /\ f \in Frames /\ f.k \in l
    /\ f.m.s = "f" => f.pc \in {"eval", "body"}
    /\ f.m.s = "c" => f.pc # "body" /\ f.tier # "N" /\ OnChain(f.k, f.m.h)
    /\ f.tier # "C" => ~f.redir
    /\ f.after = C2IDone => f.m.s = "f"

\* A frame of compiled code and its nmethod: the region is its own, and it goes on in
\* it only while what is inlined is what lookup finds and the site is linked.
RunsOK(f, t, d) ==
    f.tier = "C" =>
        /\ f.id \in Slots /\ t.nm[f.id].st # "free" /\ t.nm[f.id].m = f.m
        /\ OnChain(f.k, t.nm[f.id].k)
        /\ ~f.redir => InlineCurrent(t.nm[f.id], d) /\ SiteRight(t, f.id)

\* The place of a frame in the stack.
PlaceOK(fs, j) ==
    /\ fs[j].m.s = "c" => j < MaxDepth
    /\ j < Len(fs) => fs[j].m.s = "c" /\ fs[j].pc \in {"eval", "send"}
    /\ j = Len(fs) /\ fs[j].redir => fs[j].pc = "eval"
    /\ fs[j].after = C2IDone => j > 1 /\ fs[j - 1].tier = "C" /\ fs[j - 1].pc = "send"

StackOK(fs, t, d, l) ==
    /\ fs \in Seq(Frames) /\ Len(fs) <= MaxDepth
    /\ \A j \in DOMAIN fs : FrameOK(fs[j], l) /\ RunsOK(fs[j], t, d) /\ PlaceOK(fs, j)

TiersInv ==
    /\ DictOK(dict) /\ LiveOK(live) /\ stale = {}
    /\ TableOK(code, dict, live)
    /\ CachesOK(dict, live)
    /\ StackOK(frames, code, dict, live)

-----------------------------------------------------------------------------
(* Chains and lookup.                                                      *)

\* A chain is a sequence of classes.
LEMMA ChainTyped ==
    ASSUME NEW k \in Classes
    PROVE  /\ Chain[k] \in Seq(Classes) /\ Len(Chain[k]) \in Nat \ {0}
           /\ DOMAIN Chain[k] = 1 .. Len(Chain[k])
<1>1. PICK n \in 1 .. Cardinality(Classes) : Chain[k] \in [1 .. n -> Classes]
  BY ChainAssumption
<1>2. Cardinality(Classes) \in Nat  BY ChainAssumption, FS_CardinalityType
<1>3. n \in Nat \ {0}  BY <1>2
<1> QED  BY <1>1, <1>3

\* The equations of ChainAssumption.
LEMMA ChainEquations ==
    /\ Root \in Classes /\ Chain[Root] = <<Root>>
    /\ \A k \in Classes \ {Root} :
          Len(Chain[k]) >= 2 /\ Chain[k] = <<k>> \o Chain[Chain[k][2]]
<1>1. /\ Root \in Classes
      /\ \A k \in Classes : IF k = Root THEN Chain[k] = <<Root>>
            ELSE Len(Chain[k]) >= 2 /\ Chain[k] = <<k>> \o Chain[Chain[k][2]]
  BY ChainAssumption
<1>2. Chain[Root] = <<Root>>  BY <1>1
<1>3. ASSUME NEW k \in Classes \ {Root}
      PROVE  Len(Chain[k]) >= 2 /\ Chain[k] = <<k>> \o Chain[Chain[k][2]]
  BY <1>1
<1> QED  BY <1>1, <1>2, <1>3

\* A chain starts with its class.
LEMMA ChainIs ==
    ASSUME NEW k \in Classes
    PROVE  /\ Chain[k] \in Seq(Classes) /\ Len(Chain[k]) \in Nat \ {0}
           /\ DOMAIN Chain[k] = 1 .. Len(Chain[k]) /\ Chain[k][1] = k
           /\ \A i \in DOMAIN Chain[k] : Chain[k][i] \in Classes
<1>1. Chain[k][1] = k
  <2>1. CASE k = Root
    <3>1. Chain[k] = <<k>>  BY <2>1, ChainEquations
    <3> QED  BY <3>1
  <2>2. CASE k # Root
    <3>1. Chain[k] = <<k>> \o Chain[Chain[k][2]] /\ Len(Chain[k]) >= 2  BY <2>2, ChainEquations
    <3>2. Chain[k][2] \in Classes  BY <3>1, ChainTyped
    <3>3. Chain[Chain[k][2]] \in Seq(Classes)  BY <3>2, ChainTyped
    <3> QED  BY <3>1, <3>3
  <2> QED  BY <2>1, <2>2
<1> QED  BY <1>1, ChainTyped

\* The chain of a class other than the root is the class and its superclass's chain.
LEMMA SuperIs ==
    ASSUME NEW k \in Classes, k # Root
    PROVE  /\ Super(k) \in Classes /\ Len(Chain[Super(k)]) = Len(Chain[k]) - 1
           /\ \A h : OnChain(k, h) <=> h = k \/ OnChain(Super(k), h)
<1>1. Chain[k] = <<k>> \o Chain[Super(k)] /\ Len(Chain[k]) >= 2  BY ChainEquations DEF Super
<1>2. Super(k) \in Classes  BY <1>1, ChainIs DEF Super
<1>3. PICK s, t : s = Chain[k] /\ t = Chain[Super(k)]  OBVIOUS
<1>4. /\ s \in Seq(Classes) /\ t \in Seq(Classes) /\ Len(s) = Len(t) + 1 /\ s[1] = k
      /\ \A i \in 1 .. Len(t) : s[i + 1] = t[i]
      /\ Len(t) \in Nat /\ DOMAIN s = 1 .. Len(s) /\ DOMAIN t = 1 .. Len(t)
  BY <1>1, <1>2, <1>3, ChainIs
<1>5. ASSUME NEW h PROVE OnChain(k, h) <=> h = k \/ OnChain(Super(k), h)
  <2>1. ASSUME NEW i \in DOMAIN s, s[i] = h PROVE h = k \/ \E j \in DOMAIN t : t[j] = h
    <3>1. CASE i = 1  BY <1>4, <2>1, <3>1
    <3>2. CASE i # 1
      <4>1. i - 1 \in 1 .. Len(t) /\ (i - 1) + 1 = i  BY <1>4, <3>2
      <4> QED  BY <1>4, <2>1, <4>1
    <3> QED  BY <3>1, <3>2
  <2>2. 1 \in DOMAIN s /\ \A j \in DOMAIN t : j + 1 \in DOMAIN s  BY <1>4
  <2> QED  BY <1>3, <1>4, <2>1, <2>2 DEF OnChain
<1>6. Len(Chain[Super(k)]) = Len(Chain[k]) - 1  BY <1>3, <1>4
<1> QED  BY <1>2, <1>5, <1>6

\* Every chain ends at the root: of the classes whose chain does not, take one with
\* the shortest chain; its superclass has a shorter one.
LEMMA RootOnChain ==
    ASSUME NEW k \in Classes
    PROVE  OnChain(k, Root)
<1> SUFFICES ASSUME ~OnChain(k, Root) PROVE FALSE  OBVIOUS
<1>1. PICK T : T = {n \in Nat : \E j \in Classes : ~OnChain(j, Root) /\ n = Len(Chain[j])}  OBVIOUS
<1>2. Len(Chain[k]) \in T  BY <1>1, ChainIs
<1>3. T \in SUBSET Nat  BY <1>1
<1>4. PICK n \in T : \A x \in T : n <= x  BY <1>2, <1>3, LeastNat
<1>5. PICK j \in Classes : ~OnChain(j, Root) /\ n = Len(Chain[j])  BY <1>1
<1>6. j # Root  BY <1>5, ChainIs DEF OnChain
<1>7. Super(j) \in Classes /\ Len(Chain[Super(j)]) = n - 1 /\ ~OnChain(Super(j), Root)
  BY <1>5, <1>6, SuperIs
<1>8. n - 1 \in T  BY <1>1, <1>7, ChainIs
<1>9. n <= n - 1 /\ n \in Nat  BY <1>3, <1>4, <1>8
<1> QED  BY <1>9

\* A superclass of a superclass is one.
LEMMA OnChainTransitive ==
    ASSUME NEW k \in Classes, NEW h \in Classes, NEW g, OnChain(k, h), OnChain(h, g)
    PROVE  OnChain(k, g)
<1> SUFFICES ASSUME ~OnChain(k, g) PROVE FALSE  OBVIOUS
<1>1. PICK T : T = {n \in Nat : \E j \in Classes : OnChain(j, h) /\ ~OnChain(j, g) /\ n = Len(Chain[j])}
  OBVIOUS
<1>2. Len(Chain[k]) \in T  BY <1>1, ChainIs
<1>3. T \in SUBSET Nat  BY <1>1
<1>4. PICK n \in T : \A x \in T : n <= x  BY <1>2, <1>3, LeastNat
<1>5. PICK j \in Classes : OnChain(j, h) /\ ~OnChain(j, g) /\ n = Len(Chain[j])  BY <1>1
<1>6. j # h  BY <1>5
<1>7. j # Root
  <2> SUFFICES ASSUME j = Root PROVE FALSE  OBVIOUS
  <2>1. Chain[j] = <<Root>>  BY ChainEquations
  <2>2. h = Root  BY <1>5, <2>1 DEF OnChain
  <2> QED  BY <1>6, <2>2
<1>8. /\ Super(j) \in Classes /\ Len(Chain[Super(j)]) = n - 1
      /\ OnChain(Super(j), h) /\ ~OnChain(Super(j), g)
  BY <1>5, <1>6, <1>7, SuperIs
<1>9. n - 1 \in T  BY <1>1, <1>8, ChainIs
<1>10. n <= n - 1 /\ n \in Nat  BY <1>3, <1>4, <1>9
<1> QED  BY <1>10

\* A class is on its own chain.
LEMMA OnOwnChain ==
    ASSUME NEW k \in Classes
    PROVE  OnChain(k, k)
BY ChainIs DEF OnChain

\* Lookup finds a method, on the receiver's chain (lookup_uncached).
LEMMA WalkFinds ==
    ASSUME NEW d, DictOK(d), NEW k \in Classes, NEW s \in Selectors
    PROVE  /\ Walk(d, k, s) \in Methods /\ Walk(d, k, s).s = s
           /\ Walk(d, k, s).h \in Classes /\ OnChain(k, Walk(d, k, s).h)
<1>1. PICK I : I = {i \in DOMAIN Chain[k] : d[Chain[k][i]][s] > 0}  OBVIOUS
<1>2. PICK r \in DOMAIN Chain[k] : Chain[k][r] = Root  BY RootOnChain DEF OnChain
<1>3. r \in I  BY <1>1, <1>2 DEF DictOK
<1>4. I \in SUBSET Nat  BY <1>1, ChainIs
<1>5. \E n \in I : \A i \in I : n <= i  BY <1>3, <1>4, LeastNat
<1>6. Min(I) \in I  BY <1>5 DEF Min
<1>7. PICK n, h : n = Min(I) /\ h = Chain[k][n]  OBVIOUS
<1>8. n \in DOMAIN Chain[k] /\ d[h][s] > 0 /\ h \in Classes  BY <1>1, <1>6, <1>7, ChainIs
<1>9. Walk(d, k, s) = [h |-> h, s |-> s, v |-> d[h][s]]  BY <1>1, <1>7 DEF Walk
<1>10. OnChain(k, h)  BY <1>7, <1>8 DEF OnChain
<1>11. Walk(d, k, s) \in Methods  BY <1>8, <1>9 DEF DictOK
<1> QED  BY <1>8, <1>9, <1>10, <1>11

\* Lookup depends on the dictionaries of the chain only.
LEMMA WalkSame ==
    ASSUME NEW d, NEW e, NEW k \in Classes, NEW s,
           \A h \in Classes : OnChain(k, h) => e[h][s] = d[h][s],
           DictOK(d), s \in Selectors
    PROVE  Walk(e, k, s) = Walk(d, k, s)
<1>1. \A i \in DOMAIN Chain[k] : e[Chain[k][i]][s] = d[Chain[k][i]][s]
  BY ChainIs DEF OnChain
<1>2. {i \in DOMAIN Chain[k] : e[Chain[k][i]][s] > 0} = {i \in DOMAIN Chain[k] : d[Chain[k][i]][s] > 0}
  BY <1>1
<1>3. PICK h : h = Chain[k][Min({i \in DOMAIN Chain[k] : d[Chain[k][i]][s] > 0})]  OBVIOUS
<1>4. Walk(d, k, s) = [h |-> h, s |-> s, v |-> d[h][s]]  BY <1>3 DEF Walk
<1>5. Walk(e, k, s) = [h |-> h, s |-> s, v |-> e[h][s]]  BY <1>2, <1>3 DEF Walk
<1>6. h \in Classes /\ OnChain(k, h)  BY <1>4, WalkFinds
<1> QED  BY <1>4, <1>5, <1>6

\* A class without a definition inherits its superclass's.
LEMMA WalkUp ==
    ASSUME NEW d, DictOK(d), NEW k \in Classes, k # Root, NEW s \in Selectors, ~(d[k][s] > 0)
    PROVE  Walk(d, k, s) = Walk(d, Super(k), s)
<1>1. Chain[k] = <<k>> \o Chain[Super(k)] /\ Super(k) \in Classes
  BY ChainEquations, SuperIs DEF Super
<1>2. PICK a, b : a = Chain[k] /\ b = Chain[Super(k)]  OBVIOUS
<1>3. /\ b \in Seq(Classes) /\ Len(a) = Len(b) + 1 /\ a[1] = k /\ Len(b) \in Nat
      /\ \A i \in 1 .. Len(b) : a[i + 1] = b[i]
      /\ DOMAIN a = 1 .. Len(a) /\ DOMAIN b = 1 .. Len(b)
  BY <1>1, <1>2, ChainIs
<1>4. PICK I, J : I = {i \in DOMAIN a : d[a[i]][s] > 0} /\ J = {i \in DOMAIN b : d[b[i]][s] > 0}
  OBVIOUS
<1>5. PICK r \in DOMAIN b : b[r] = Root  BY <1>1, <1>2, RootOnChain DEF OnChain
<1>6. J \in SUBSET Nat /\ J # {}
  <2>1. r \in J  BY <1>4, <1>5 DEF DictOK
  <2> QED  BY <1>3, <1>4, <2>1
<1>7. PICK n \in J : \A j \in J : n <= j  BY ONLY <1>6, LeastNat
<1>8. n \in Nat /\ \A i \in I : i - 1 \in J /\ i \in Nat
  <2>1. ASSUME NEW i \in I PROVE i - 1 \in J /\ i \in Nat
    <3>1. i \in DOMAIN a /\ d[a[i]][s] > 0  BY <1>4, <2>1
    <3>2. i # 1  BY <1>3, <3>1
    <3>3. i - 1 \in 1 .. Len(b) /\ (i - 1) + 1 = i /\ i \in Nat  BY <1>3, <3>1, <3>2
    <3>4. a[i] = b[i - 1]  BY <1>3, <3>3
    <3> QED  BY <1>3, <1>4, <3>1, <3>3, <3>4
  <2> QED  BY <1>6, <1>7, <2>1
<1>9. n + 1 \in I /\ a[n + 1] = b[n]
  <2>1. n \in 1 .. Len(b) /\ d[b[n]][s] > 0  BY <1>3, <1>4, <1>7
  <2> QED  BY <1>3, <1>4, <2>1
<1>10. \A i \in I : n + 1 <= i
  <2> TAKE i \in I
  <2>1. n <= i - 1 /\ i \in Nat  BY <1>7, <1>8
  <2> QED  BY <1>8, <2>1
<1>11. Min(J) = n
  <2>1. \A x \in J : (\A j \in J : x <= j) => x = n  BY <1>6, <1>7
  <2> QED  BY <1>7, <2>1 DEF Min
<1>12. Min(I) = n + 1
  <2>1. \A x \in I : (\A j \in I : x <= j) => x = n + 1  BY <1>8, <1>9, <1>10
  <2> QED  BY <1>9, <1>10, <2>1 DEF Min
<1> QED  BY <1>2, <1>4, <1>9, <1>11, <1>12 DEF Walk

\* Below a class that sends "f" to super, "f" is what the super send finds: of the
\* classes for which it is not, take one with the shortest chain (OverrideAssumption).
LEMMA SuperSendIsLookup ==
    ASSUME NEW d, DictOK(d), NEW k \in Classes, NEW h \in SuperHolders, OnChain(k, h),
           "f" \in Selectors
    PROVE  Walk(d, k, "f") = Walk(d, Super(h), "f")
<1> SUFFICES ASSUME Walk(d, k, "f") # Walk(d, Super(h), "f") PROVE FALSE  OBVIOUS
<1>0. h \in Classes /\ h # Root  BY ChainAssumption
<1>1. PICK T : T = {n \in Nat : \E j \in Classes : /\ OnChain(j, h) /\ n = Len(Chain[j])
                                                 /\ Walk(d, j, "f") # Walk(d, Super(h), "f")}
  OBVIOUS
<1>2. Len(Chain[k]) \in T  BY <1>1, ChainIs
<1>3. T \in SUBSET Nat /\ T # {}  BY <1>1, <1>2
<1>4. PICK n \in T : \A x \in T : n <= x  BY ONLY <1>3, LeastNat
<1>5. PICK j \in Classes : /\ OnChain(j, h) /\ n = Len(Chain[j])
                          /\ Walk(d, j, "f") # Walk(d, Super(h), "f")
  BY <1>1, <1>4
<1>6. j # Root
  <2> SUFFICES ASSUME j = Root PROVE FALSE  OBVIOUS
  <2>1. Chain[j] = <<Root>>  BY ChainEquations
  <2>2. h = Root  BY <1>5, <2>1 DEF OnChain
  <2> QED  BY <1>0, <2>2
<1>7. ~(d[j]["f"] > 0)
  <2> SUFFICES ASSUME d[j]["f"] > 0 PROVE FALSE  OBVIOUS
  <2>1. PICK m \in Methods : m = [h |-> j, s |-> "f", v |-> d[j]["f"]]  BY DEF DictOK
  <2>2. m.h = j /\ m.s = "f"  BY <2>1
  <2> QED  BY <1>5, <2>1, <2>2, OverrideAssumption
<1>8. Walk(d, j, "f") = Walk(d, Super(j), "f")  BY <1>6, <1>7, WalkUp
<1>9. j # h  BY <1>5, <1>8
<1>10. /\ Super(j) \in Classes /\ Len(Chain[Super(j)]) = n - 1 /\ OnChain(Super(j), h)
       /\ Walk(d, Super(j), "f") # Walk(d, Super(h), "f")
  BY <1>5, <1>6, <1>8, <1>9, SuperIs
<1>11. n - 1 \in T  BY <1>1, <1>10, ChainIs
<1>12. n <= n - 1 /\ n \in Nat  BY <1>3, <1>4, <1>11
<1> QED  BY <1>12

-----------------------------------------------------------------------------
(* Constants.                                                              *)

\* What TiersAssumption says of the limits and the selectors.
LEMMA Limits ==
    /\ Selectors = {"c", "f"} /\ Slots \subseteq Nat /\ NumSlots \in Nat /\ 0 \notin Slots
    /\ MaxDepth \in Nat \ {0} /\ MaxVersions \in Nat \ {0} /\ TrapLimit \in Nat \ {0}
    /\ Mortal \subseteq Classes \ {Root}
    /\ \A i \in 0 .. NumSlots : i # 0 => i \in Slots
    /\ \A i \in Slots : i \in 0 .. NumSlots
<1>1. /\ MaxDepth \in Nat \ {0} /\ MaxVersions \in Nat \ {0} /\ TrapLimit \in Nat \ {0}
      /\ Selectors = {"c", "f"} /\ Mortal \subseteq Classes \ {Root}
  BY TiersAssumption
<1> QED  BY <1>1 DEF Slots

\* A method and its parts.
LEMMA MethodIs ==
    ASSUME NEW m \in Methods
    PROVE  /\ m.h \in Classes /\ m.s \in {"c", "f"} /\ m # NoMethod
           /\ m.s = "c" => m \in CMethods
           /\ m.s = "c" /\ m.h \in SuperHolders => IsSuper(m)
<1>1. m \in [h : Classes, s : Selectors, v : 1 .. 2] \/ m \in [h : Classes, s : Selectors, v : {1}]
  BY TiersAssumption DEF Methods
<1>2. m.h \in Classes /\ m.s \in Selectors  BY <1>1
<1>3. m.s \in {"c", "f"}  BY <1>2, Limits
<1>4. NoMethod.s = "none"  BY DEF NoMethod
<1>5. m # NoMethod  BY <1>3, <1>4
<1> QED  BY <1>2, <1>3, <1>5 DEF CMethods, IsSuper

\* The superclass that a super send starts at.
LEMMA SuperHolderIs ==
    ASSUME NEW m \in Methods, IsSuper(m)
    PROVE  /\ m.s = "c" /\ m.h \in Classes /\ Super(m.h) \in Classes /\ OnChain(m.h, Super(m.h))
<1>1. m.s = "c" /\ m.h \in Classes /\ m.h # Root  BY MethodIs, ChainAssumption DEF IsSuper
<1>2. Super(m.h) \in Classes /\ (OnChain(Super(m.h), Super(m.h)) => OnChain(m.h, Super(m.h)))
  BY <1>1, SuperIs
<1>3. OnChain(Super(m.h), Super(m.h))  BY <1>2, OnOwnChain
<1> QED  BY <1>1, <1>2, <1>3

-----------------------------------------------------------------------------
(* The operations of the table.                                            *)

\* The parts of a table.
LEMMA TableIs ==
    ASSUME NEW t \in Tables
    PROVE  /\ t.nm \in [Slots -> Nmethods] /\ t.byKey \in [Classes -> [Selectors -> 0 .. NumSlots]]
           /\ t.osr \in [Classes -> 0 .. NumSlots] /\ t.armed \in BOOLEAN /\ t.jit \in BOOLEAN
           /\ \A i \in Slots : t.nm[i] \in Nmethods
           /\ \A k \in Classes : t.osr[k] \in 0 .. NumSlots
           /\ \A k \in Classes, s \in Selectors : t.byKey[k][s] \in 0 .. NumSlots
BY DEF Tables

\* The parts of an nmethod.
LEMMA NmethodIs ==
    ASSUME NEW n \in Nmethods
    PROVE  /\ n.st \in {"free", "alive", "notentrant"} /\ n.k \in Classes
           /\ n.m \in Methods \cup {NoMethod} /\ n.version \in 0 .. MaxVersions
           /\ n.traps \in 0 .. TrapLimit /\ n.prof \in Tags
           /\ n.inl \in [k : Classes, m : Methods \cup {NoMethod}] /\ n.inl.k \in Classes
           /\ n.cold \in BOOLEAN /\ n.osr \in {"no", "half", "warm"} /\ n.site \in Site
BY DEF Nmethods

\* The arms of a site.
LEMMA SiteIs ==
    ASSUME NEW x \in Site
    PROVE  /\ x.t \in {"unresolved", "mono", "pic", "mega"} /\ DOMAIN x.arms \subseteq Classes
           /\ x.arms \in [DOMAIN x.arms -> Slots \cup {C2I}]
           /\ \A k \in DOMAIN x.arms : x.arms[k] \in Slots \cup {C2I}
<1>1. x.arms \in UNION {[D -> Slots \cup {C2I}] : D \in SUBSET Classes}
      /\ x.t \in {"unresolved", "mono", "pic", "mega"}
  BY DEF Site
<1>2. PICK D \in SUBSET Classes : x.arms \in [D -> Slots \cup {C2I}]  BY <1>1
<1> QED  BY <1>1, <1>2

\* A site made of a tag and arms.
LEMMA SiteMade ==
    ASSUME NEW t \in {"unresolved", "mono", "pic", "mega"}, NEW D \in SUBSET Classes,
           NEW a \in [D -> Slots \cup {C2I}]
    PROVE  [t |-> t, arms |-> a] \in Site
BY DEF Site

\* The two sites a compile or a reset starts with.
LEMMA SitesMade ==
    /\ Unresolved \in Site /\ DOMAIN Unresolved.arms = {} /\ Unresolved.t = "unresolved"
    /\ \A k \in Classes, x \in Slots \cup {C2I} :
          /\ Mono(k, x) \in Site /\ Mono(k, x).t = "mono" /\ DOMAIN Mono(k, x).arms = {k}
          /\ Mono(k, x).arms[k] = x
<1>1. Unresolved \in Site
  <2>1. NoArms \in [{} -> Slots \cup {C2I}]  BY DEF NoArms
  <2> QED  BY <2>1, SiteMade DEF Unresolved
<1>2. ASSUME NEW k \in Classes, NEW x \in Slots \cup {C2I}
      PROVE  /\ Mono(k, x) \in Site /\ Mono(k, x).t = "mono" /\ DOMAIN Mono(k, x).arms = {k}
             /\ Mono(k, x).arms[k] = x
  <2>1. [j \in {k} |-> x] \in [{k} -> Slots \cup {C2I}]  OBVIOUS
  <2>2. {k} \in SUBSET Classes  OBVIOUS
  <2>3. Mono(k, x) \in Site  BY <2>1, <2>2, SiteMade DEF Mono
  <2> QED  BY <2>3 DEF Mono
<1> QED  BY <1>1, <1>2 DEF Unresolved, NoArms


\* No region in use is freed or becomes other code, and its site stays.
Keeps(t, u) ==
    \A i \in Slots : t.nm[i].st # "free" =>
        /\ u.nm[i].st # "free" /\ u.nm[i].k = t.nm[i].k /\ u.nm[i].m = t.nm[i].m
        /\ u.nm[i].inl = t.nm[i].inl /\ u.nm[i].site = t.nm[i].site

\* A step that changes nothing keeps the nmethods.
LEMMA KeepsItself == ASSUME NEW t PROVE Keeps(t, t)
BY DEF Keeps

\* So do two steps that do.
LEMMA KeepsTransitive ==
    ASSUME NEW t, NEW u, NEW w, Keeps(t, u), Keeps(u, w)
    PROVE  Keeps(t, w)
BY DEF Keeps

\* A linked site stays linked while regions are kept.
LEMMA SiteStaysRight ==
    ASSUME NEW t \in Tables, NEW u, Keeps(t, u), NEW i \in Slots, t.nm[i].st # "free", SiteRight(t, i)
    PROVE  SiteRight(u, i)
<1>1. PICK a : a = t.nm[i].site.arms  OBVIOUS
<1>2. u.nm[i].site.arms = a  BY <1>1 DEF Keeps
<1>3. \A k \in DOMAIN a : a[k] # C2I => a[k] \in Slots
  BY <1>1, TableIs, NmethodIs, SiteIs
<1>4. \A k \in DOMAIN a : a[k] # C2I =>
        t.nm[a[k]].st # "free" /\ t.nm[a[k]].m.s = "f" /\ t.nm[a[k]].k = k
  BY <1>1 DEF SiteRight
<1>5. \A k \in DOMAIN a : a[k] # C2I =>
        u.nm[a[k]].st # "free" /\ u.nm[a[k]].m.s = "f" /\ u.nm[a[k]].k = k
  BY <1>3, <1>4 DEF Keeps
<1> QED  BY <1>2, <1>5 DEF SiteRight

\* A frame goes on running what it runs.
LEMMA RunsStay ==
    ASSUME NEW t \in Tables, NEW u, Keeps(t, u), NEW f, NEW d, RunsOK(f, t, d)
    PROVE  RunsOK(f, u, d)
<1> SUFFICES ASSUME f.tier = "C" PROVE RunsOK(f, u, d)  BY DEF RunsOK
<1>1. /\ f.id \in Slots /\ t.nm[f.id].st # "free" /\ t.nm[f.id].m = f.m
      /\ OnChain(f.k, t.nm[f.id].k)
      /\ ~f.redir => InlineCurrent(t.nm[f.id], d) /\ SiteRight(t, f.id)
  BY DEF RunsOK
<1>2. ~f.redir => SiteRight(u, f.id)  BY <1>1, SiteStaysRight
<1>3. /\ u.nm[f.id].st # "free" /\ u.nm[f.id].m = t.nm[f.id].m /\ u.nm[f.id].k = t.nm[f.id].k
      /\ u.nm[f.id].inl = t.nm[f.id].inl
  BY <1>1 DEF Keeps
<1> QED  BY <1>1, <1>2, <1>3 DEF RunsOK, InlineCurrent

\* CodeTable::install, part by part.
LEMMA InstallIs ==
    ASSUME NEW t \in Tables, NEW i \in Slots, NEW n \in Nmethods, n.m.s \in Selectors,
           NEW u, u = Install(t, i, n)
    PROVE  /\ u \in Tables
           /\ u.nm = [t.nm EXCEPT ![i] = n]
           /\ \A k \in Classes, s \in Selectors :
                 u.byKey[k][s] = IF k = n.k /\ s = n.m.s THEN i ELSE t.byKey[k][s]
           /\ \A k \in Classes :
                 u.osr[k] = IF k = n.k /\ n.osr # "no" THEN i ELSE t.osr[k]
           /\ u.armed = t.armed /\ u.jit = t.jit
<1>1. PICK nm, b, o : /\ nm = [t.nm EXCEPT ![i] = n]
                      /\ b = [t.byKey EXCEPT ![n.k][n.m.s] = i]
                      /\ o = [t.osr EXCEPT ![n.k] = IF n.osr = "no" THEN @ ELSE i]
  OBVIOUS
<1>2. u = [t EXCEPT !.nm = nm, !.byKey = b, !.osr = o]  BY <1>1 DEF Install, Tables
<1>3. n.k \in Classes /\ i \in 0 .. NumSlots  BY NmethodIs, Limits
<1>4. nm \in [Slots -> Nmethods]  BY <1>1, TableIs
<1>5. /\ b \in [Classes -> [Selectors -> 0 .. NumSlots]]
      /\ \A k \in Classes, s \in Selectors :
            b[k][s] = IF k = n.k /\ s = n.m.s THEN i ELSE t.byKey[k][s]
  BY <1>1, <1>3, TableIs
<1>6. /\ o \in [Classes -> 0 .. NumSlots]
      /\ \A k \in Classes : o[k] = IF k = n.k /\ n.osr # "no" THEN i ELSE t.osr[k]
  BY <1>1, <1>3, TableIs
<1>7. u.nm = nm /\ u.byKey = b /\ u.osr = o /\ u.armed = t.armed /\ u.jit = t.jit
  BY <1>2 DEF Tables
<1>8. u \in Tables  BY <1>2, <1>4, <1>5, <1>6 DEF Tables
<1> QED  BY <1>1, <1>5, <1>6, <1>7, <1>8

\* Installing code that is current and linked, in a free region.
LEMMA InstallKeeps ==
    ASSUME NEW t, NEW d, NEW l, TableOK(t, d, l), NEW i \in FreeSlots(t), NEW n \in Nmethods,
           n.st = "alive", Formed(n), n.inl # NoInline => n.inl.k \in l, Current(n, d, l),
           \A k \in DOMAIN n.site.arms : n.site.arms[k] # C2I =>
               /\ t.nm[n.site.arms[k]].st # "free" /\ t.nm[n.site.arms[k]].m.s = "f"
               /\ t.nm[n.site.arms[k]].k = k,
           NEW u, u = Install(t, i, n)
    PROVE  TableOK(u, d, l) /\ Keeps(t, u) /\ Alive(u) = Alive(t) \cup {i} /\ u.nm[i] = n
<1>1. t \in Tables /\ i \in Slots /\ t.nm[i].st = "free"  BY DEF TableOK, TableShape, FreeSlots
<1>2. n.m \in Methods /\ n.m.s \in Selectors  BY Limits, MethodIs DEF Formed
<1>3. /\ u \in Tables /\ u.nm = [t.nm EXCEPT ![i] = n]
      /\ \A k \in Classes, s \in Selectors :
            u.byKey[k][s] = IF k = n.k /\ s = n.m.s THEN i ELSE t.byKey[k][s]
      /\ \A k \in Classes : u.osr[k] = IF k = n.k /\ n.osr # "no" THEN i ELSE t.osr[k]
  BY <1>1, <1>2, InstallIs
<1>4. t.nm \in [Slots -> Nmethods]  BY <1>1, TableIs
<1>5. u.nm[i] = n /\ \A j \in Slots : j # i => u.nm[j] = t.nm[j]  BY <1>1, <1>3, <1>4
<1>6. Keeps(t, u)  BY <1>1, <1>5 DEF Keeps
<1>7. Alive(u) = Alive(t) \cup {i}  BY <1>1, <1>5 DEF Alive
<1>8. \A j \in Slots : u.nm[j].st # "free" =>
         Formed(u.nm[j]) /\ (u.nm[j].inl # NoInline => u.nm[j].inl.k \in l)
  BY <1>5 DEF TableOK, TableShape, TableCurrent
<1>9. \A j \in Alive(u) : Current(u.nm[j], d, l)
  BY <1>5, <1>7 DEF TableOK, TableCurrent, Alive
<1>10. ASSUME NEW j \in Alive(u) PROVE SiteRight(u, j)
  <2>1. CASE j = i
    <3>1. \A k \in DOMAIN n.site.arms : n.site.arms[k] # C2I => n.site.arms[k] \in Slots
      BY NmethodIs, SiteIs
    <3>2. \A k \in DOMAIN n.site.arms : n.site.arms[k] # C2I =>
             u.nm[n.site.arms[k]] = t.nm[n.site.arms[k]]
      BY <1>1, <1>5, <3>1
    <3> QED  BY <1>5, <2>1, <3>2, SMTT(30) DEF SiteRight
  <2>2. CASE j # i
    <3>1. j \in Alive(t) /\ j \in Slots  BY <1>7, <2>2 DEF Alive
    <3>2. t.nm[j].st # "free" /\ SiteRight(t, j)  BY <3>1 DEF Alive, TableOK, TableShape
    <3> QED  BY <1>1, <1>6, <3>1, <3>2, SiteStaysRight
  <2> QED  BY <2>1, <2>2
<1>11. ASSUME NEW k \in Classes PROVE OsrRight(u, k)
  <2>1. CASE k = n.k /\ n.osr # "no"
    <3>1. u.osr[k] = i  BY <1>3, <2>1
    <3> QED  BY <1>5, <1>7, <2>1, <3>1 DEF OsrRight
  <2>2. CASE ~(k = n.k /\ n.osr # "no")
    <3>1. u.osr[k] = t.osr[k]  BY <1>3, <2>2
    <3>2. OsrRight(t, k)  BY DEF TableOK, TableShape
    <3>3. t.osr[k] # 0 => t.osr[k] \in Alive(t) /\ t.nm[t.osr[k]].k = k /\ t.nm[t.osr[k]].osr # "no"
      BY <3>2 DEF OsrRight
    <3>4. t.osr[k] \in Alive(t) => t.osr[k] \in Slots /\ t.osr[k] # i  BY <1>1 DEF Alive
    <3> QED  BY <1>5, <1>7, <3>1, <3>3, <3>4 DEF OsrRight
  <2> QED  BY <2>1, <2>2
<1>12. ASSUME NEW k \in Classes, NEW s \in Selectors PROVE KeyRight(u, k, s)
  <2>1. CASE k = n.k /\ s = n.m.s
    <3>1. u.byKey[k][s] = i  BY <1>3, <2>1
    <3> QED  BY <1>5, <1>7, <2>1, <3>1 DEF KeyRight
  <2>2. CASE ~(k = n.k /\ s = n.m.s)
    <3>1. u.byKey[k][s] = t.byKey[k][s]  BY <1>3, <2>2
    <3>2. KeyRight(t, k, s)  BY DEF TableOK, TableShape
    <3>3. PICK x : x = t.byKey[k][s]  OBVIOUS
    <3>4. x # 0 => x \in Alive(t) /\ t.nm[x].k = k /\ t.nm[x].m.s = s
      BY <3>2, <3>3 DEF KeyRight
    <3>5. x \in Alive(t) => x \in Slots /\ x # i  BY <1>1 DEF Alive
    <3> QED  BY <1>5, <1>7, <3>1, <3>3, <3>4, <3>5 DEF KeyRight
  <2> QED  BY <2>1, <2>2
<1> QED  BY <1>3, <1>5, <1>6, <1>7, <1>8, <1>9, <1>10, <1>11, <1>12 DEF TableOK, TableShape, TableCurrent


-----------------------------------------------------------------------------
(* Compiling.                                                              *)

\* The lookup cache is flushed whenever it could disagree, so it never does.
LEMMA LookIs ==
    ASSUME stale = {}, NEW k, NEW s
    PROVE  Look(k, s) = Walk(dict, k, s)
<1>1. Hits(stale, k, s) = {}  BY DEF Hits
<1> QED  BY <1>1 DEF Look, Lookup

\* Nor at a site.
LEMMA SiteLookIs ==
    ASSUME stale = {}, NEW m, NEW k
    PROVE  SiteLook(m, k) = Walk(dict, SiteStart(m, k), "f")
BY LookIs DEF SiteLook

\* The parts of a cache.
LEMMA CacheIs ==
    ASSUME NEW c \in Caches
    PROVE  /\ c.tag \in Tags /\ c.fresh \in BOOLEAN /\ DOMAIN c.arms \subseteq Classes
           /\ c.arms \in [DOMAIN c.arms -> [id : 0 .. NumSlots, m : Methods \cup {NoMethod}]]
           /\ \A k \in DOMAIN c.arms : c.arms[k].id \in 0 .. NumSlots
           /\ \A k \in DOMAIN c.arms : c.arms[k].m \in Methods \cup {NoMethod}
<1>1. c.tag \in Tags /\ c.fresh \in BOOLEAN /\ c.arms \in Arms  BY DEF Caches
<1>2. PICK D \in SUBSET Classes : c.arms \in [D -> [id : 0 .. NumSlots, m : Methods \cup {NoMethod}]]
  BY <1>1 DEF Arms
<1> QED  BY <1>1, <1>2

\* What a body inlines.
BodyOK(b, m) ==
    /\ b.inl \in [k : Classes, m : Methods \cup {NoMethod}] /\ b.cold \in BOOLEAN
    /\ b.inl # NoInline =>
          /\ m.s = "c" /\ b.inl.m \in Methods /\ b.inl.k \in live
          /\ b.inl.m = Walk(dict, b.inl.k, "f")
          /\ IsSuper(m) => b.inl.k = Super(m.h)

\* An inlined method makes a body that is right.
LEMMA InlineMade ==
    ASSUME DictOK(dict), NEW m, m.s = "c", NEW k \in Classes, k \in live, IsSuper(m) => k = Super(m.h),
           NEW b, b.inl = [k |-> k, m |-> Walk(dict, k, "f")], b.cold \in BOOLEAN
    PROVE  BodyOK(b, m)
<1>1. Walk(dict, k, "f") \in Methods  BY WalkFinds, Limits
<1> QED  BY <1>1 DEF BodyOK

\* Compiled bodies inline only what lookup finds now, at a class that exists: a cache
\* that no send has healed since a redefinition is not read (Admit).
LEMMA BodiesAreRight ==
    ASSUME Admit = {}, DictOK(dict), LiveOK(live), CachesOK(dict, live), NEW m \in Methods,
           NEW osr \in BOOLEAN, NEW k \in live, OnChain(k, m.h), NEW b \in Bodies(m, osr)
    PROVE  BodyOK(b, m)
<1>0. Call = [inl |-> NoInline, cold |-> FALSE]  BY DEF Call
<1>1. NoInline \in [k : Classes, m : Methods \cup {NoMethod}]  BY ChainEquations DEF NoInline
<1>2. BodyOK(Call, m)  BY <1>0, <1>1 DEF BodyOK
<1>3. CASE m.s = "f"  BY <1>2, <1>3 DEF Bodies
<1>4. CASE m.s # "f" /\ IsSuper(m)
  <2>1. Super(m.h) \in Classes /\ m.s = "c" /\ m.h \in Classes /\ OnChain(m.h, Super(m.h))
    BY <1>4, SuperHolderIs
  <2>2. Super(m.h) \in live  BY <2>1 DEF LiveOK
  <2>3. b = Call \/ b = [Call EXCEPT !.inl = [k |-> Super(m.h), m |-> Walk(dict, Super(m.h), "f")]]
    BY <1>4 DEF Bodies
  <2>4. CASE b = Call  BY <1>2, <2>4
  <2>5. CASE b # Call
    <3>1. b.inl = [k |-> Super(m.h), m |-> Walk(dict, Super(m.h), "f")] /\ b.cold = FALSE
      BY <1>0, <2>3, <2>5
    <3> QED  BY <2>1, <2>2, <3>1, InlineMade
  <2> QED  BY <2>4, <2>5
<1>5. CASE m.s # "f" /\ ~IsSuper(m)
  <2>1. m.s = "c" /\ m \in CMethods  BY <1>5, MethodIs
  <2>2. ic[m] \in Caches /\ CacheOK(ic[m], m, dict, live)  BY <2>1 DEF CachesOK
  <2>3. ic[m].tag \in Tags  BY <2>2, CacheIs
  <2>4. ASSUME NEW x \in Inlines(m)
        PROVE  \E j \in Classes : j \in live /\ x = [k |-> j, m |-> Walk(dict, j, "f")]
    <3>1. PICK j \in DOMAIN ic[m].arms :
             /\ x = [k |-> j, m |-> FeedbackTarget(j, ic[m].arms[j])]
             /\ FeedbackTarget(j, ic[m].arms[j]) = Walk(dict, j, "f") \/ "feedback" \in Admit
      BY DEF Inlines
    <3>2. j \in live /\ j \in Classes  BY <2>2 DEF CacheOK, LiveOK
    <3> QED  BY <3>1, <3>2
  <2>5. b.cold \in BOOLEAN /\ (b.inl = NoInline \/ b.inl \in Inlines(m))
    <3>1. CASE ic[m].tag = "empty"
      <4>1. b = [Call EXCEPT !.cold = ~osr]  BY <1>5, <3>1 DEF Bodies
      <4> QED  BY <1>0, <4>1
    <3>2. CASE ic[m].tag = "mono"
      <4>1. b \in {Call} \cup {[Call EXCEPT !.inl = x, !.cold = TRUE] : x \in Inlines(m)}
        BY <1>5, <3>2 DEF Bodies
      <4>2. CASE b = Call  BY <1>0, <4>2
      <4>3. CASE b # Call
        <5>1. PICK x \in Inlines(m) : b = [Call EXCEPT !.inl = x, !.cold = TRUE]  BY <4>1, <4>3
        <5>2. b.inl = x /\ b.cold = TRUE  BY <1>0, <5>1
        <5> QED  BY <5>2
      <4> QED  BY <4>2, <4>3
    <3>3. CASE ic[m].tag \in {"poly", "mega"}
      <4>1. b \in {Call} \cup {[Call EXCEPT !.inl = x] : x \in Inlines(m)}
        BY <1>5, <3>3 DEF Bodies
      <4>2. CASE b = Call  BY <1>0, <4>2
      <4>3. CASE b # Call
        <5>1. PICK x \in Inlines(m) : b = [Call EXCEPT !.inl = x]  BY <4>1, <4>3
        <5>2. b.inl = x /\ b.cold = FALSE  BY <1>0, <5>1
        <5> QED  BY <5>2
      <4> QED  BY <4>2, <4>3
    <3> QED  BY <2>3, <3>1, <3>2, <3>3 DEF Tags
  <2>6. CASE b.inl # NoInline
    <3>1. PICK j \in Classes : j \in live /\ b.inl = [k |-> j, m |-> Walk(dict, j, "f")]
      BY <2>4, <2>5, <2>6
    <3> QED  BY <1>5, <2>1, <2>5, <3>1, InlineMade
  <2>7. CASE b.inl = NoInline  BY <1>1, <2>5, <2>7 DEF BodyOK
  <2> QED  BY <2>6, <2>7
<1> QED  BY <1>3, <1>4, <1>5


\* What compiling reads besides the table.
Around == Admit = {} /\ DictOK(dict) /\ LiveOK(live) /\ stale = {} /\ CachesOK(dict, live)

\* resolve_target_entry: code for the key, or the adapter.
LEMMA ResolveIs ==
    ASSUME NEW t, TableShape(t), NEW k \in Classes, NEW x, x = ResolveTarget(t, k)
    PROVE  /\ x \in Slots \cup {C2I}
           /\ x # C2I => /\ x \in Alive(t) /\ t.nm[x].st = "alive" /\ t.nm[x].k = k
                         /\ t.nm[x].m.s = "f" /\ x = t.byKey[k]["f"]
<1>1. "f" \in Selectors  BY Limits
<1>2. KeyRight(t, k, "f")  BY <1>1 DEF TableShape
<1>3. x = C2I \/ (x = t.byKey[k]["f"] /\ x # 0)  BY DEF ResolveTarget
<1>4. CASE x = C2I  BY <1>4
<1>5. CASE x # C2I
  <2>1. x \in Alive(t) /\ t.nm[x].k = k /\ t.nm[x].m.s = "f" /\ x = t.byKey[k]["f"]
    BY <1>2, <1>3, <1>5 DEF KeyRight
  <2> QED  BY <2>1 DEF Alive
<1> QED  BY <1>4, <1>5

\* A slot for new code.
LEMMA LeastFree ==
    ASSUME NEW t, FreeSlots(t) # {}
    PROVE  Min(FreeSlots(t)) \in FreeSlots(t)
<1>1. FreeSlots(t) \in SUBSET Nat  BY Limits DEF FreeSlots
<1>2. \E n \in FreeSlots(t) : \A i \in FreeSlots(t) : n <= i  BY <1>1, LeastNat
<1> QED  BY <1>2 DEF Min

\* A result of the compiler or of activate_method: a table that is right, in which no
\* code in use is gone, and the code for method m of class k, if there is any.
ResultOK(t, r, k, m) ==
    /\ TableOK(r.t, dict, live) /\ Keeps(t, r.t)
    /\ r.id # 0 => r.id \in Alive(r.t) /\ r.t.nm[r.id].k = k /\ r.t.nm[r.id].m = m

\* compile_method_full installs code for what lookup finds, or switches the JIT off.
LEMMA CompileKeeps ==
    ASSUME Around, NEW t, TableOK(t, dict, live), NEW k \in live, NEW s \in Selectors,
           NEW m, m = Walk(dict, k, s), NEW version \in 0 .. MaxVersions, NEW osr \in BOOLEAN,
           osr => s = "c", NEW r \in Compile(t, k, m, version, osr)
    PROVE  /\ ResultOK(t, r, k, m)
           /\ r.id = 0 => r.t = [t EXCEPT !.jit = FALSE]
           /\ r.id # 0 => r.id \in FreeSlots(t) /\ Alive(r.t) = Alive(t) \cup {r.id}
           /\ r = [t |-> r.t, id |-> r.id]
<1>0. t \in Tables /\ TableShape(t)  BY DEF TableOK, TableShape
<1>1. CASE FreeSlots(t) = {}
  <2>1. r = [t |-> [t EXCEPT !.jit = FALSE], id |-> 0]  BY <1>1 DEF Compile
  <2>2. PICK u : u = [t EXCEPT !.jit = FALSE]  OBVIOUS
  <2>3. /\ u \in Tables /\ u.nm = t.nm /\ u.byKey = t.byKey /\ u.osr = t.osr
    BY <1>0, <2>2 DEF Tables
  <2>4. Alive(u) = Alive(t)  BY <2>3 DEF Alive
  <2>5. TableOK(u, dict, live)
    BY <2>3, <2>4, SMTT(30) DEF TableOK, TableShape, TableCurrent, SiteRight, OsrRight, KeyRight
  <2>6. Keeps(t, u)  BY <2>3 DEF Keeps
  <2> QED  BY <2>1, <2>2, <2>5, <2>6 DEF ResultOK
<1>2. CASE FreeSlots(t) # {}
  <2>1. PICK i : i = Min(FreeSlots(t))  OBVIOUS
  <2>2. i \in FreeSlots(t) /\ i \in Slots  BY <1>2, <2>1, LeastFree DEF FreeSlots
  <2> DEFINE Code(b, x) ==
          [st |-> "alive", k |-> k, m |-> m, version |-> version, traps |-> 0,
           prof |-> Profile(m), inl |-> b.inl, cold |-> b.cold,
           osr |-> OsrKind(m, osr), site |-> x]
  <2>20. r \in {[t |-> Install(t, i, Code(b, x)), id |-> i] : b \in Bodies(m, osr), x \in FirstSites(t, m)}
    BY ONLY r \in Compile(t, k, m, version, osr), <1>2, <2>1 DEF Compile
  <2> HIDE DEF Code
  <2>21. PICK b \in Bodies(m, osr), x \in FirstSites(t, m) : r = [t |-> Install(t, i, Code(b, x)), id |-> i]
    BY <2>20
  <2>22. PICK n : n = Code(b, x)  OBVIOUS
  <2>3. /\ n = [st |-> "alive", k |-> k, m |-> m, version |-> version, traps |-> 0,
                prof |-> Profile(m), inl |-> b.inl, cold |-> b.cold,
                osr |-> OsrKind(m, osr), site |-> x]
        /\ r = [t |-> Install(t, i, n), id |-> i]
    BY <2>21, <2>22 DEF Code
  <2>4. /\ DictOK(dict) /\ LiveOK(live) /\ CachesOK(dict, live) /\ Admit = {} /\ k \in Classes
    BY DEF Around, LiveOK
  <2>5. m \in Methods /\ m.s = s /\ OnChain(k, m.h) /\ m.h \in Classes  BY <2>4, WalkFinds
  <2>6. BodyOK(b, m)  BY <2>4, <2>5, BodiesAreRight
  <2>7. Profile(m) \in Tags
    <3>1. CASE m.s = "f"  BY <3>1 DEF Profile, Tags
    <3>2. CASE m.s # "f"
      <4>1. m \in CMethods  BY <2>5, <3>2, MethodIs
      <4>2. ic[m].tag \in Tags  BY <2>4, <4>1, CacheIs DEF CachesOK
      <4> QED  BY <3>2, <4>2 DEF Profile
    <3> QED  BY <3>1, <3>2
  <2>8. OsrKind(m, osr) \in {"no", "half", "warm"} /\ (OsrKind(m, osr) # "no" => osr)  BY DEF OsrKind
  <2>9. /\ x \in Site
        /\ x.t = "mono" => DOMAIN x.arms # {}
        /\ IsSuper(m) => x.t \in {"unresolved", "mono"} /\ DOMAIN x.arms \subseteq {Super(m.h)}
        /\ \A j \in DOMAIN x.arms : x.arms[j] # C2I =>
              t.nm[x.arms[j]].st # "free" /\ t.nm[x.arms[j]].m.s = "f" /\ t.nm[x.arms[j]].k = j
    <3>1. CASE ~IsSuper(m)
      <4>1. x = Unresolved  BY <3>1 DEF FirstSites
      <4> QED  BY <3>1, <4>1, SitesMade
    <3>2. CASE IsSuper(m)
      <4>1. PICK y \in SuperTargets(t, m) : x = Mono(Super(m.h), y)  BY <3>2 DEF FirstSites
      <4>2. Super(m.h) \in Classes  BY <2>5, <3>2, SuperHolderIs
      <4>3. /\ y \in Slots \cup {C2I}
            /\ y # C2I => t.nm[y].st = "alive" /\ t.nm[y].m.s = "f" /\ t.nm[y].k = Super(m.h)
        BY <1>0, <4>2, ResolveIs DEF SuperTargets
      <4>4. x \in Site /\ x.t = "mono" /\ DOMAIN x.arms = {Super(m.h)} /\ x.arms[Super(m.h)] = y
        BY <4>1, <4>2, <4>3, SitesMade
      <4> QED  BY <4>3, <4>4
    <3> QED  BY <3>1, <3>2
  <2>10. n \in Nmethods
    BY <2>3, <2>4, <2>5, <2>6, <2>7, <2>8, <2>9, Limits DEF Nmethods, BodyOK
  <2>11. Formed(n)  BY <2>3, <2>5, <2>6, <2>8, <2>9 DEF Formed, BodyOK
  <2>12. Current(n, dict, live) /\ (n.inl # NoInline => n.inl.k \in live)
    BY <2>3, <2>5, <2>6 DEF Current, InlineCurrent, BodyOK
  <2>13. n.st = "alive" /\ n.site = x /\ n.k = k /\ n.m = m  BY <2>3
  <2>14. PICK u : u = Install(t, i, n)  OBVIOUS
  <2>15. TableOK(u, dict, live) /\ Keeps(t, u) /\ Alive(u) = Alive(t) \cup {i} /\ u.nm[i] = n
    BY <2>2, <2>9, <2>10, <2>11, <2>12, <2>13, <2>14, InstallKeeps
  <2>16. r.t = u /\ r.id = i /\ i # 0  BY <2>2, <2>3, <2>14, Limits
  <2>17. r = [t |-> r.t, id |-> r.id]  BY <2>3
  <2>18. ResultOK(t, r, k, m)  BY <2>13, <2>15, <2>16 DEF ResultOK
  <2> QED  BY <2>2, <2>15, <2>16, <2>17, <2>18
<1> QED  BY <1>1, <1>2


-----------------------------------------------------------------------------
(* Retiring.                                                               *)

\* Unhooking, part by part.
LEMMA UnhookIs ==
    ASSUME NEW t \in Tables, NEW ids, NEW u, u = Unhook(t, ids)
    PROVE  /\ u \in Tables /\ u.nm = t.nm /\ u.armed = t.armed /\ u.jit = t.jit
           /\ \A k \in Classes, s \in Selectors : LET x == t.byKey[k][s]
                 IN  u.byKey[k][s] = IF x \in ids /\ t.nm[x].k = k /\ t.nm[x].m.s = s THEN 0 ELSE x
           /\ \A k \in Classes : LET x == t.osr[k]
                 IN  u.osr[k] = IF x \in ids /\ t.nm[x].k = k THEN 0 ELSE x
<1>1. PICK b, o :
        /\ b = [k \in Classes |-> [s \in Selectors |->
                    IF t.byKey[k][s] \in {i \in ids : t.nm[i].k = k /\ t.nm[i].m.s = s}
                      THEN 0 ELSE t.byKey[k][s]]]
        /\ o = [k \in Classes |->
                    IF t.osr[k] \in {i \in ids : t.nm[i].k = k} THEN 0 ELSE t.osr[k]]
  OBVIOUS
<1>2. u = [t EXCEPT !.byKey = b, !.osr = o]  BY <1>1 DEF Unhook
<1>3. 0 \in 0 .. NumSlots  BY Limits
<1>4. b \in [Classes -> [Selectors -> 0 .. NumSlots]]  BY <1>1, <1>3, TableIs
<1>5. o \in [Classes -> 0 .. NumSlots]  BY <1>1, <1>3, TableIs
<1>6. u.byKey = b /\ u.osr = o /\ u.nm = t.nm /\ u.armed = t.armed /\ u.jit = t.jit  BY <1>2 DEF Tables
<1>7. u \in Tables  BY <1>2, <1>4, <1>5 DEF Tables
<1>8. \A k \in Classes, s \in Selectors : b[k][s] =
         IF t.byKey[k][s] \in ids /\ t.nm[t.byKey[k][s]].k = k /\ t.nm[t.byKey[k][s]].m.s = s
           THEN 0 ELSE t.byKey[k][s]
  BY <1>1
<1>9. \A k \in Classes : o[k] = IF t.osr[k] \in ids /\ t.nm[t.osr[k]].k = k THEN 0 ELSE t.osr[k]
  BY <1>1
<1> QED  BY <1>6, <1>7, <1>8, <1>9

\* Keys that lead to alive code still do, once what no longer is alive is unhooked.
LEMMA UnhookKeeps ==
    ASSUME NEW t, TableShape(t), NEW ids, NEW u,
           NEW v, v = Unhook(t, ids), u.byKey = v.byKey, u.osr = v.osr,
           \A i \in Alive(t) \ ids : /\ i \in Alive(u) /\ u.nm[i].k = t.nm[i].k
                                     /\ u.nm[i].m = t.nm[i].m /\ u.nm[i].osr = t.nm[i].osr
    PROVE  \A k \in Classes : OsrRight(u, k) /\ \A s \in Selectors : KeyRight(u, k, s)
<1>0. t \in Tables  BY DEF TableShape
<1>1. ASSUME NEW k \in Classes PROVE OsrRight(u, k)
  <2>1. PICK x : x = t.osr[k]  OBVIOUS
  <2>2. x # 0 => x \in Alive(t) /\ t.nm[x].k = k /\ t.nm[x].osr # "no"
    BY <2>1 DEF TableShape, OsrRight
  <2>3. u.osr[k] = IF x \in ids /\ t.nm[x].k = k THEN 0 ELSE x  BY <1>0, <2>1, UnhookIs
  <2>4. u.osr[k] # 0 => u.osr[k] = x /\ x \in Alive(t) \ ids  BY <2>2, <2>3
  <2> QED  BY <2>2, <2>4 DEF OsrRight
<1>2. ASSUME NEW k \in Classes, NEW s \in Selectors PROVE KeyRight(u, k, s)
  <2>1. PICK x : x = t.byKey[k][s]  OBVIOUS
  <2>2. x # 0 => x \in Alive(t) /\ t.nm[x].k = k /\ t.nm[x].m.s = s
    BY <2>1 DEF TableShape, KeyRight
  <2>3. u.byKey[k][s] = IF x \in ids /\ t.nm[x].k = k /\ t.nm[x].m.s = s THEN 0 ELSE x
    BY <1>0, <2>1, UnhookIs
  <2>4. u.byKey[k][s] # 0 => u.byKey[k][s] = x /\ x \in Alive(t) \ ids  BY <2>2, <2>3
  <2> QED  BY <2>2, <2>4 DEF KeyRight
<1> QED  BY <1>1, <1>2

\* make_not_entrant_lazy, part by part.
LEMMA RetireIs ==
    ASSUME NEW t \in Tables, NEW ids, NEW u, u = MakeNotEntrantLazy(t, ids)
    PROVE  /\ u \in Tables /\ u.jit = t.jit
           /\ u.byKey = Unhook(t, ids).byKey /\ u.osr = Unhook(t, ids).osr
           /\ \A i \in Slots : u.nm[i] =
                 IF i \in ids THEN [t.nm[i] EXCEPT !.st = "notentrant"] ELSE t.nm[i]
<1>1. PICK v : v = Unhook(t, ids)  OBVIOUS
<1>2. v \in Tables /\ v.jit = t.jit  BY <1>1, UnhookIs
<1>3. PICK nm, a : /\ nm = [i \in Slots |-> IF i \in ids THEN [t.nm[i] EXCEPT !.st = "notentrant"] ELSE t.nm[i]]
                   /\ a = (t.armed \/ ids # {})
  OBVIOUS
<1>4. u = [v EXCEPT !.nm = nm, !.armed = a]  BY <1>1, <1>3 DEF MakeNotEntrantLazy
<1>5. a \in BOOLEAN  BY <1>3
<1>6. ASSUME NEW n \in Nmethods PROVE [n EXCEPT !.st = "notentrant"] \in Nmethods  BY DEF Nmethods
<1>7. nm \in [Slots -> Nmethods]  BY <1>3, <1>6, TableIs
<1>8. u \in Tables /\ u.nm = nm /\ u.byKey = v.byKey /\ u.osr = v.osr /\ u.jit = v.jit
  BY <1>2, <1>4, <1>5, <1>7 DEF Tables
<1> QED  BY <1>1, <1>2, <1>3, <1>8

\* Retiring code frees nothing and leaves the rest of the table right.
LEMMA RetireKeeps ==
    ASSUME NEW t, TableShape(t), NEW ids \in SUBSET Alive(t), NEW u, u = MakeNotEntrantLazy(t, ids)
    PROVE  /\ TableShape(u) /\ Keeps(t, u) /\ Alive(u) = Alive(t) \ ids
           /\ u.jit = t.jit
           /\ \A i \in Slots : i \notin ids => u.nm[i] = t.nm[i]
           /\ \A i \in Slots : t.nm[i].st = "free" => u.nm[i].st = "free"
<1>1. t \in Tables /\ t.nm \in [Slots -> Nmethods]  BY TableIs DEF TableShape
<1>2. /\ u \in Tables /\ u.jit = t.jit
      /\ u.byKey = Unhook(t, ids).byKey /\ u.osr = Unhook(t, ids).osr
      /\ \A i \in Slots : u.nm[i] =
            IF i \in ids THEN [t.nm[i] EXCEPT !.st = "notentrant"] ELSE t.nm[i]
  BY <1>1, RetireIs
<1>3. \A i \in Slots : /\ i \in ids => u.nm[i].st = "notentrant"
                       /\ i \notin ids => u.nm[i] = t.nm[i]
                       /\ u.nm[i].k = t.nm[i].k /\ u.nm[i].m = t.nm[i].m /\ u.nm[i].osr = t.nm[i].osr
                       /\ u.nm[i].inl = t.nm[i].inl /\ u.nm[i].site = t.nm[i].site
  <2> TAKE i \in Slots
  <2>1. t.nm[i] \in Nmethods  BY <1>1
  <2> QED  BY <1>2, <2>1 DEF Nmethods
<1>4. \A i \in Slots : i \in ids => t.nm[i].st = "alive"  BY DEF Alive
<1>5. Alive(u) = Alive(t) \ ids  BY <1>3, <1>4 DEF Alive
<1>6. Keeps(t, u)  BY <1>3 DEF Keeps
<1>7. \A i \in Slots : u.nm[i].st # "free" => t.nm[i].st # "free"  BY <1>3, <1>4
<1>8. \A i \in Slots : u.nm[i].st # "free" => Formed(u.nm[i])
  BY <1>3, <1>7 DEF TableShape, Formed
<1>9. ASSUME NEW i \in Alive(u) PROVE SiteRight(u, i)
  <2>1. i \in Alive(t) /\ i \in Slots /\ t.nm[i].st # "free" /\ SiteRight(t, i)
    BY <1>5 DEF Alive, TableShape
  <2> QED  BY <1>1, <1>6, <2>1, SiteStaysRight
<1>10. \A i \in Alive(t) \ ids : /\ i \in Alive(u) /\ u.nm[i].k = t.nm[i].k
                                 /\ u.nm[i].m = t.nm[i].m /\ u.nm[i].osr = t.nm[i].osr
  BY <1>3, <1>5 DEF Alive
<1>11. \A k \in Classes : OsrRight(u, k) /\ \A s \in Selectors : KeyRight(u, k, s)
  BY <1>2, <1>10, UnhookKeeps
<1>12. \A i \in Slots : t.nm[i].st = "free" => u.nm[i].st = "free"  BY <1>3, <1>4
<1> QED  BY <1>2, <1>3, <1>5, <1>6, <1>8, <1>9, <1>11, <1>12 DEF TableShape

\* Code that stays alive stays current.
LEMMA RetireStaysCurrent ==
    ASSUME NEW t, NEW d, NEW l, TableOK(t, d, l), NEW ids \in SUBSET Alive(t), NEW u,
           u = MakeNotEntrantLazy(t, ids)
    PROVE  TableOK(u, d, l)
<1>1. /\ TableShape(u) /\ Keeps(t, u) /\ Alive(u) = Alive(t) \ ids
      /\ \A i \in Slots : i \notin ids => u.nm[i] = t.nm[i]
      /\ \A i \in Slots : t.nm[i].st = "free" => u.nm[i].st = "free"
  BY RetireKeeps DEF TableOK
<1>2. \A i \in Slots : u.nm[i].st # "free" => (u.nm[i].inl # NoInline => u.nm[i].inl.k \in l)
  BY <1>1 DEF TableOK, TableCurrent, Keeps
<1>3. \A i \in Alive(u) : Current(u.nm[i], d, l)
  BY <1>1 DEF TableOK, TableCurrent, Alive
<1> QED  BY <1>1, <1>2, <1>3 DEF TableOK, TableCurrent


\* A table that differs in the flags only.
LEMMA FlagsOnly ==
    ASSUME NEW t, NEW u \in Tables, u.nm = t.nm, u.byKey = t.byKey, u.osr = t.osr
    PROVE  /\ Keeps(t, u) /\ Alive(u) = Alive(t)
           /\ TableShape(t) => TableShape(u)
           /\ \A d, l : TableOK(t, d, l) => TableOK(u, d, l)
           /\ \A i : SiteRight(t, i) => SiteRight(u, i)
<1>1. Keeps(t, u)  BY DEF Keeps
<1>2. Alive(u) = Alive(t)  BY DEF Alive
<1>3. \A i : SiteRight(t, i) <=> SiteRight(u, i)  BY DEF SiteRight
<1>4. TableShape(t) => TableShape(u)
  <2>1. \A k \in Classes : OsrRight(t, k) => OsrRight(u, k)  BY <1>2 DEF OsrRight
  <2>2. \A k \in Classes, s \in Selectors : KeyRight(t, k, s) => KeyRight(u, k, s)  BY <1>2 DEF KeyRight
  <2> QED  BY <1>2, <1>3, <2>1, <2>2 DEF TableShape
<1>5. \A d, l : TableCurrent(t, d, l) => TableCurrent(u, d, l)
  BY <1>2 DEF TableCurrent
<1> QED  BY <1>1, <1>2, <1>3, <1>4, <1>5 DEF TableOK

\* The versioned replacement: the successor is installed before the old code is retired.
LEMMA ReplaceKeeps ==
    ASSUME Around, NEW t, TableOK(t, dict, live), NEW i \in Alive(t), NEW k, k = t.nm[i].k,
           NEW s \in Selectors, NEW m, m = Walk(dict, k, s), NEW version \in 0 .. MaxVersions,
           NEW r \in Replace(t, i, m, version)
    PROVE  /\ ResultOK(t, r, k, m)
           /\ r.id = 0 => r.t = [t EXCEPT !.jit = FALSE]
           /\ r = [t |-> r.t, id |-> r.id]
<1>1. PICK q \in Compile(t, k, m, version, FALSE) :
         r = IF q.id = 0 THEN q ELSE [q EXCEPT !.t = MakeNotEntrantLazy(q.t, {i})]
  BY DEF Replace
<1>2. k \in live  BY DEF TableOK, TableCurrent, Current
<1>10. PICK o \in BOOLEAN : ~o /\ q \in Compile(t, k, m, version, o)  BY <1>1
<1>3. /\ ResultOK(t, q, k, m)
      /\ q.id = 0 => q.t = [t EXCEPT !.jit = FALSE]
      /\ q.id # 0 => q.id \in FreeSlots(t) /\ Alive(q.t) = Alive(t) \cup {q.id}
      /\ q = [t |-> q.t, id |-> q.id]
  BY <1>2, <1>10, CompileKeeps
<1>4. CASE q.id = 0  BY <1>1, <1>3, <1>4
<1>5. CASE q.id # 0
  <2>1. PICK u : u = MakeNotEntrantLazy(q.t, {i})  OBVIOUS
  <2>2. r = [t |-> u, id |-> q.id]  BY <1>1, <1>3, <1>5, <2>1
  <2>3. {i} \in SUBSET Alive(q.t) /\ q.id # i  BY <1>3, <1>5 DEF Alive, FreeSlots
  <2>4. TableOK(q.t, dict, live) /\ TableShape(q.t)  BY <1>3 DEF ResultOK, TableOK
  <2>5. TableOK(u, dict, live)  BY <2>1, <2>3, <2>4, RetireStaysCurrent
  <2>6. /\ Keeps(q.t, u) /\ Alive(u) = Alive(q.t) \ {i}
        /\ \A j \in Slots : j \notin {i} => u.nm[j] = q.t.nm[j]
    BY <2>1, <2>3, <2>4, RetireKeeps
  <2>7. Keeps(t, u)  BY <1>3, <2>6, KeepsTransitive DEF ResultOK
  <2>8. q.id \in Slots /\ q.id \in Alive(u) /\ u.nm[q.id] = q.t.nm[q.id]
    BY <1>3, <1>5, <2>3, <2>6 DEF FreeSlots
  <2> QED  BY <1>3, <1>5, <2>2, <2>5, <2>7, <2>8 DEF ResultOK
<1> QED  BY <1>4, <1>5

\* The version of the healed code is in its range.
LEMMA HealedVersionIs ==
    ASSUME NEW n \in Nmethods
    PROVE  HealedVersion(n) \in 0 .. MaxVersions
<1>1. PICK v : v = n.version  OBVIOUS
<1>2. v \in 0 .. MaxVersions /\ MaxVersions \in Nat  BY <1>1, NmethodIs, Limits
<1>3. HealedVersion(n) = IF v < MaxVersions THEN v + 1 ELSE v  BY <1>1 DEF HealedVersion
<1> QED  BY <1>2, <1>3

\* Past the threshold: code that exists is code for the same method.
LEMMA CompiledForKeeps ==
    ASSUME Around, NEW t, TableOK(t, dict, live), NEW k \in live, NEW s \in Selectors, NEW m,
           m = Walk(dict, k, s), NEW r \in CompiledFor(t, k, m)
    PROVE  ResultOK(t, r, k, m)
<1>1. /\ DictOK(dict) /\ k \in Classes /\ t \in Tables /\ TableShape(t)
  BY DEF Around, LiveOK, TableOK, TableShape
<1>2. m.s = s  BY <1>1, WalkFinds
<1>3. PICK i : i = Existing(t, k, s)  OBVIOUS
<1>4. 0 \notin Alive(t)  BY Limits DEF Alive
<1>5. i # 0 => /\ i \in Alive(t) /\ t.nm[i].k = k /\ t.nm[i].m = m
  <2> SUFFICES ASSUME i # 0 PROVE i \in Alive(t) /\ t.nm[i].k = k /\ t.nm[i].m = m  OBVIOUS
  <2>1. i = t.byKey[k][s] /\ i \in Alive(t)  BY <1>3 DEF Existing
  <2>2. t.nm[i].k = k /\ t.nm[i].m.s = s  BY <1>1, <2>1 DEF TableShape, KeyRight
  <2>3. t.nm[i].m = Walk(dict, t.nm[i].k, t.nm[i].m.s)  BY <2>1 DEF TableOK, TableCurrent, Current
  <2> QED  BY <2>1, <2>2, <2>3
<1>6. CASE i # 0 /\ ~HalfWarm(t, i)
  <2>1. r = [t |-> t, id |-> i]  BY <1>2, <1>3, <1>6 DEF CompiledFor
  <2> QED  BY <1>5, <1>6, <2>1, KeepsItself DEF ResultOK
<1>7. CASE i # 0 /\ HalfWarm(t, i)
  <2>1. PICK q \in Replace(t, i, m, HealedVersion(t.nm[i])) : r = IF q.id = 0 THEN [q EXCEPT !.id = i] ELSE q
    BY <1>2, <1>3, <1>7 DEF CompiledFor
  <2>2. i \in Slots /\ t.nm[i] \in Nmethods  BY <1>1, <1>5, <1>7, TableIs DEF Alive
  <2>3. HealedVersion(t.nm[i]) \in 0 .. MaxVersions  BY <2>2, HealedVersionIs
  <2>4. /\ ResultOK(t, q, k, m) /\ (q.id = 0 => q.t = [t EXCEPT !.jit = FALSE])
        /\ q = [t |-> q.t, id |-> q.id]
    BY <1>5, <1>7, <2>1, <2>3, ReplaceKeeps
  <2>5. CASE q.id # 0  BY <2>1, <2>4, <2>5
  <2>6. CASE q.id = 0
    <3>1. r = [t |-> q.t, id |-> i]  BY <2>1, <2>4, <2>6
    <3>2. q.t.nm = t.nm  BY <1>1, <2>4, <2>6 DEF Tables
    <3>3. Alive(q.t) = Alive(t)  BY <3>2 DEF Alive
    <3> QED  BY <1>5, <1>7, <2>4, <3>1, <3>2, <3>3 DEF ResultOK
  <2> QED  BY <2>5, <2>6
<1>8. CASE i = 0
  <2>1. r \in Compile(t, k, m, 0, FALSE)  BY <1>2, <1>3, <1>8 DEF CompiledFor
  <2>2. 0 \in 0 .. MaxVersions  BY Limits
  <2>3. PICK o \in BOOLEAN : ~o /\ r \in Compile(t, k, m, 0, o)  BY <2>1
  <2> QED  BY <2>2, <2>3, CompileKeeps
<1> QED  BY <1>6, <1>7, <1>8

\* activate_method.
LEMMA ActivationsKeep ==
    ASSUME Around, NEW t, TableOK(t, dict, live), NEW k \in live, NEW s \in Selectors, NEW m,
           m = Walk(dict, k, s), NEW r \in Activations(t, k, m)
    PROVE  ResultOK(t, r, k, m)
<1>1. r = [t |-> t, id |-> 0] \/ r \in CompiledFor(t, k, m)  BY DEF Activations
<1>2. CASE r = [t |-> t, id |-> 0]  BY <1>2, KeepsItself DEF ResultOK
<1>3. CASE r \in CompiledFor(t, k, m)  BY <1>3, CompiledForKeeps
<1> QED  BY <1>1, <1>2, <1>3


-----------------------------------------------------------------------------
(* Reclaiming.                                                             *)

\* An nmethod except for its site and its counters.
SameCode(n, o) == n.st = o.st /\ n.k = o.k /\ n.m = o.m /\ n.inl = o.inl /\ n.osr = o.osr

\* No arm of the site leads to code in ids.
SpareSite(t, i, ids) == \A k \in DOMAIN t.nm[i].site.arms : t.nm[i].site.arms[k] \notin ids

\* flush_nmethod on the nmethods: what is flushed is free, alive callers of it start over,
\* the rest stays.
LEMMA FlushIs ==
    ASSUME NEW t \in Tables, NEW ids, NEW u, u = FlushNmethod(t, ids)
    PROVE  /\ u \in Tables /\ u.jit = t.jit
           /\ u.byKey = Unhook(t, ids).byKey /\ u.osr = Unhook(t, ids).osr
           /\ \A i \in Slots : i \in ids => u.nm[i] = Free
           /\ \A i \in Slots : i \notin ids /\ SpareSite(t, i, ids) => u.nm[i] = t.nm[i]
           /\ \A i \in Slots : i \notin ids /\ t.nm[i].st # "alive" => u.nm[i] = t.nm[i]
           /\ \A i \in Slots : i \notin ids /\ t.nm[i].st = "alive" /\ ~SpareSite(t, i, ids) =>
                 u.nm[i] = [t.nm[i] EXCEPT !.site = Unresolved]
<1>1. PICK v : v = Unhook(t, ids)  OBVIOUS
<1>2. v \in Tables /\ v.jit = t.jit  BY <1>1, UnhookIs
<1>3. PICK nm : nm = [j \in Slots |-> IF j \in ids THEN Free ELSE ResetSites(t.nm, ids)[j]]  OBVIOUS
<1>4. u = [v EXCEPT !.nm = nm]  BY <1>1, <1>3 DEF FlushNmethod
<1>5. \A i \in Slots : SpareSite(t, i, ids) <=> Range(t.nm[i].site.arms) \cap ids = {}
  BY DEF SpareSite, Range
<1>6. \A i \in Slots : nm[i] = IF i \in ids THEN Free
         ELSE IF t.nm[i].st = "alive" /\ ~SpareSite(t, i, ids)
           THEN [t.nm[i] EXCEPT !.site = Unresolved] ELSE t.nm[i]
  BY <1>3, <1>5 DEF ResetSites
<1>7. Free \in Nmethods
  <2>1. /\ Unresolved \in Site /\ Root \in Classes /\ "empty" \in Tags
        /\ 0 \in 0 .. MaxVersions /\ 0 \in 0 .. TrapLimit
    BY SitesMade, ChainEquations, Limits DEF Tags
  <2>2. NoInline \in [k : Classes, m : Methods \cup {NoMethod}]  BY <2>1 DEF NoInline
  <2> QED  BY <2>1, <2>2 DEF Free, Nmethods
<1>8. ASSUME NEW n \in Nmethods PROVE [n EXCEPT !.site = Unresolved] \in Nmethods
  BY SitesMade DEF Nmethods
<1>9. \A i \in Slots : nm[i] \in Nmethods
  <2> TAKE i \in Slots
  <2>1. t.nm[i] \in Nmethods  BY TableIs
  <2>2. [t.nm[i] EXCEPT !.site = Unresolved] \in Nmethods  BY <1>8, <2>1
  <2> QED  BY <1>6, <1>7, <2>1, <2>2
<1>10. nm \in [Slots -> Nmethods]
  <2>1. nm = [j \in Slots |-> nm[j]]  BY <1>3
  <2> QED  BY <1>9, <2>1
<1>11. u \in Tables /\ u.nm = nm /\ u.byKey = v.byKey /\ u.osr = v.osr /\ u.jit = v.jit
  BY <1>2, <1>4, <1>10 DEF Tables
<1> QED  BY <1>1, <1>2, <1>6, <1>11

\* Flushing leaves the other code as it was, and every site of alive code linked.
LEMMA FlushKeeps ==
    ASSUME NEW t, TableShape(t), NEW ids \in SUBSET Slots, NEW u, u = FlushNmethod(t, ids)
    PROVE  /\ TableShape(u) /\ u.jit = t.jit
           /\ \A i \in ids : u.nm[i].st = "free"
           /\ \A i \in Slots \ ids : SameCode(u.nm[i], t.nm[i])
           /\ \A i \in Slots \ ids : SpareSite(t, i, ids) => u.nm[i].site = t.nm[i].site
           /\ \A i \in Slots \ ids : t.nm[i].st # "alive" => u.nm[i].site = t.nm[i].site
           /\ \A i \in Slots \ ids :
                 SiteRight(t, i) /\ (t.nm[i].st = "alive" \/ SpareSite(t, i, ids)) => SiteRight(u, i)
<1>1. t \in Tables /\ t.nm \in [Slots -> Nmethods]  BY TableIs DEF TableShape
<1>2. /\ u \in Tables /\ u.jit = t.jit
      /\ u.byKey = Unhook(t, ids).byKey /\ u.osr = Unhook(t, ids).osr
      /\ \A i \in Slots : i \in ids => u.nm[i] = Free
      /\ \A i \in Slots : i \notin ids /\ SpareSite(t, i, ids) => u.nm[i] = t.nm[i]
      /\ \A i \in Slots : i \notin ids /\ t.nm[i].st # "alive" => u.nm[i] = t.nm[i]
      /\ \A i \in Slots : i \notin ids /\ t.nm[i].st = "alive" /\ ~SpareSite(t, i, ids) =>
            u.nm[i] = [t.nm[i] EXCEPT !.site = Unresolved]
  BY <1>1, FlushIs
<1>3. \A i \in ids : u.nm[i].st = "free"  BY <1>2 DEF Free
<1>4. ASSUME NEW i \in Slots \ ids
      PROVE  /\ SameCode(u.nm[i], t.nm[i])
             /\ u.nm[i].site = t.nm[i].site \/ (u.nm[i].site = Unresolved /\ t.nm[i].st = "alive")
             /\ SpareSite(t, i, ids) => u.nm[i].site = t.nm[i].site
             /\ t.nm[i].st # "alive" => u.nm[i].site = t.nm[i].site
  <2>1. CASE u.nm[i] = t.nm[i]  BY <2>1 DEF SameCode
  <2>2. CASE u.nm[i] # t.nm[i]
    <3>1. t.nm[i].st = "alive" /\ ~SpareSite(t, i, ids)  BY <1>2, <2>2
    <3>2. u.nm[i] = [t.nm[i] EXCEPT !.site = Unresolved]  BY <1>2, <3>1
    <3>3. t.nm[i] \in Nmethods  BY <1>1
    <3>4. u.nm[i].site = Unresolved /\ SameCode(u.nm[i], t.nm[i])
      BY <3>2, <3>3 DEF Nmethods, SameCode
    <3> QED  BY <3>1, <3>4
  <2> QED  BY <2>1, <2>2
<1>5. ASSUME NEW i \in Slots \ ids, SiteRight(t, i), t.nm[i].st = "alive" \/ SpareSite(t, i, ids)
      PROVE  SiteRight(u, i)
  <2>1. CASE SpareSite(t, i, ids)
    <3>1. PICK a : a = t.nm[i].site.arms  OBVIOUS
    <3>2. u.nm[i].site.arms = a  BY <1>4, <2>1, <3>1
    <3>3. \A k \in DOMAIN a : a[k] \in Slots \cup {C2I}  BY <1>1, <3>1, TableIs, NmethodIs, SiteIs
    <3>4. \A k \in DOMAIN a : a[k] # C2I =>
             a[k] \in Slots \ ids /\ t.nm[a[k]].st # "free" /\ t.nm[a[k]].m.s = "f" /\ t.nm[a[k]].k = k
      BY <1>5, <2>1, <3>1, <3>3 DEF SiteRight, SpareSite
    <3>5. \A k \in DOMAIN a : a[k] # C2I =>
             u.nm[a[k]].st # "free" /\ u.nm[a[k]].m.s = "f" /\ u.nm[a[k]].k = k
      BY <1>4, <3>4 DEF SameCode
    <3> QED  BY <3>2, <3>5 DEF SiteRight
  <2>2. CASE ~SpareSite(t, i, ids)
    <3>1. u.nm[i] = [t.nm[i] EXCEPT !.site = Unresolved] /\ t.nm[i] \in Nmethods
      BY <1>1, <1>2, <1>5, <2>2
    <3>2. u.nm[i].site = Unresolved  BY <3>1 DEF Nmethods
    <3> QED  BY <3>2, SitesMade DEF SiteRight
  <2> QED  BY <2>1, <2>2
<1>6. \A i \in Slots : u.nm[i].st # "free" => i \in Slots \ ids /\ t.nm[i].st # "free"
  BY <1>3, <1>4 DEF SameCode
<1>7. ASSUME NEW i \in Slots, u.nm[i].st # "free" PROVE Formed(u.nm[i])
  <2>1. i \in Slots \ ids /\ Formed(t.nm[i])  BY <1>6, <1>7 DEF TableShape
  <2>2. CASE u.nm[i].site = t.nm[i].site  BY <1>4, <2>1, <2>2 DEF Formed, SameCode
  <2>3. CASE u.nm[i].site = Unresolved
    <3>1. u.nm[i].site.t = "unresolved" /\ DOMAIN u.nm[i].site.arms = {}  BY <2>3, SitesMade
    <3> QED  BY <1>4, <2>1, <3>1 DEF Formed, SameCode
  <2> QED  BY <1>4, <2>1, <2>2, <2>3
<1>8. \A i \in Alive(u) : i \in Alive(t) /\ i \in Slots \ ids
  BY <1>4, <1>6 DEF Alive, SameCode
<1>9. \A i \in Alive(u) : SiteRight(u, i)  BY <1>5, <1>8 DEF Alive, TableShape
<1>10. \A i \in Alive(t) \ ids : /\ i \in Alive(u) /\ u.nm[i].k = t.nm[i].k
                                 /\ u.nm[i].m = t.nm[i].m /\ u.nm[i].osr = t.nm[i].osr
  BY <1>4 DEF Alive, SameCode
<1>11. \A k \in Classes : OsrRight(u, k) /\ \A s \in Selectors : KeyRight(u, k, s)
  BY <1>2, <1>10, UnhookKeeps
<1>12. TableShape(u)  BY <1>2, <1>7, <1>9, <1>11 DEF TableShape
<1> QED  BY <1>2, <1>3, <1>4, <1>5, <1>12

\* What is left is current if it was.
LEMMA FlushStaysCurrent ==
    ASSUME NEW t, NEW d, NEW l, TableCurrent(t, d, l), NEW ids \in SUBSET Slots, NEW u,
           \A i \in ids : u.nm[i].st = "free",
           \A i \in Slots \ ids : SameCode(u.nm[i], t.nm[i])
    PROVE  TableCurrent(u, d, l)
<1>1. \A i \in Slots : u.nm[i].st # "free" => i \in Slots \ ids  OBVIOUS
<1>2. \A i \in Slots : u.nm[i].st # "free" => (u.nm[i].inl # NoInline => u.nm[i].inl.k \in l)
  BY <1>1 DEF TableCurrent, SameCode
<1>3. \A i \in Alive(u) : i \in Alive(t) /\ SameCode(u.nm[i], t.nm[i])
  BY <1>1 DEF Alive, SameCode
<1>4. \A i \in Alive(u) : Current(u.nm[i], d, l)
  BY <1>3 DEF TableCurrent, Current, InlineCurrent, SameCode
<1> QED  BY <1>2, <1>4 DEF TableCurrent

\* sweep_not_entrant_zombies is a flush of the retired code that is not on the stack.
LEMMA SweepIs ==
    ASSUME NEW t, TableShape(t), NEW ref, NEW u, u = SweepZombies(t, ref)
    PROVE  \E v, ids : /\ ids = NotEntrant(t) \ ref /\ ids \in SUBSET Slots
                       /\ v = FlushNmethod(t, ids) /\ TableShape(v)
                       /\ u \in Tables /\ u.nm = v.nm /\ u.byKey = v.byKey /\ u.osr = v.osr
<1>1. PICK ids : ids = NotEntrant(t) \ ref  OBVIOUS
<1>2. PICK v : v = FlushNmethod(t, ids)  OBVIOUS
<1>3. ids \in SUBSET Slots  BY <1>1 DEF NotEntrant
<1>4. TableShape(v)  BY <1>2, <1>3, FlushKeeps
<1>5. PICK a \in BOOLEAN : u = [v EXCEPT !.armed = a]
  <2>1. u = [v EXCEPT !.armed = t.armed /\ NotEntrant(v) # {}]  BY <1>1, <1>2 DEF SweepZombies
  <2>2. (t.armed /\ NotEntrant(v) # {}) \in BOOLEAN  OBVIOUS
  <2> QED  BY <2>1, <2>2
<1>6. v \in Tables  BY <1>4 DEF TableShape
<1>7. u \in Tables /\ u.nm = v.nm /\ u.byKey = v.byKey /\ u.osr = v.osr
  BY <1>5, <1>6 DEF Tables
<1> QED  BY <1>1, <1>2, <1>3, <1>4, <1>7


\* The sweep keeps alive code and what is on the stack.
LEMMA SweepKeeps ==
    ASSUME NEW t, TableShape(t), NEW ref, NEW u, u = SweepZombies(t, ref)
    PROVE  /\ TableShape(u)
           /\ \A d, l : TableCurrent(t, d, l) => TableCurrent(u, d, l)
           /\ \A i \in Slots : i \notin NotEntrant(t) \ ref => SameCode(u.nm[i], t.nm[i])
           /\ \A i \in Slots : i \in NotEntrant(t) \ ref => u.nm[i].st = "free"
           /\ \A i \in Slots : /\ i \notin NotEntrant(t) \ ref
                               /\ SpareSite(t, i, NotEntrant(t)) \/ t.nm[i].st # "alive"
                               => u.nm[i].site = t.nm[i].site
           /\ \A i \in Slots : /\ i \notin NotEntrant(t) \ ref /\ SiteRight(t, i)
                               /\ t.nm[i].st = "alive" \/ SpareSite(t, i, NotEntrant(t))
                               => SiteRight(u, i)
<1>1. PICK v, ids : /\ ids = NotEntrant(t) \ ref /\ ids \in SUBSET Slots
                    /\ v = FlushNmethod(t, ids) /\ TableShape(v)
                    /\ u \in Tables /\ u.nm = v.nm /\ u.byKey = v.byKey /\ u.osr = v.osr
  BY SweepIs
<1>2. /\ \A i \in ids : v.nm[i].st = "free"
      /\ \A i \in Slots \ ids : SameCode(v.nm[i], t.nm[i])
      /\ \A i \in Slots \ ids : SpareSite(t, i, ids) => v.nm[i].site = t.nm[i].site
      /\ \A i \in Slots \ ids : t.nm[i].st # "alive" => v.nm[i].site = t.nm[i].site
      /\ \A i \in Slots \ ids :
            SiteRight(t, i) /\ (t.nm[i].st = "alive" \/ SpareSite(t, i, ids)) => SiteRight(v, i)
  BY <1>1, FlushKeeps
<1>3. TableShape(u) /\ \A i : SiteRight(v, i) => SiteRight(u, i)  BY <1>1, FlagsOnly
<1>4. \A i \in Slots : SpareSite(t, i, NotEntrant(t)) => SpareSite(t, i, ids)
  BY <1>1 DEF SpareSite
<1>5. ASSUME NEW d, NEW l, TableCurrent(t, d, l) PROVE TableCurrent(u, d, l)
  <2>1. /\ \A i \in ids : u.nm[i].st = "free"
        /\ \A i \in Slots \ ids : SameCode(u.nm[i], t.nm[i])
    BY <1>1, <1>2
  <2> QED  BY <1>1, <1>5, <2>1, FlushStaysCurrent
<1> QED  BY <1>1, <1>2, <1>3, <1>4, <1>5

\* The highest slot of a set of slots.
LEMMA HighestIs ==
    ASSUME NEW S \in SUBSET Slots, NEW x, x = HighestSlot(S)
    PROVE  x \in 0 .. NumSlots /\ (x # 0 => x \in S)
<1>1. CASE S = {}  BY <1>1, Limits DEF HighestSlot
<1>2. CASE S # {}
  <2>1. S \in SUBSET (0 .. NumSlots) /\ NumSlots \in Nat  BY Limits
  <2>2. \E n \in S : \A j \in S : j <= n  BY <1>2, <2>1, Greatest
  <2>3. \E n \in S : \A j \in S : n >= j
    <3>1. PICK n \in S : \A j \in S : j <= n  BY <2>2
    <3>2. \A j \in S : n >= j  BY <2>1, <3>1
    <3> QED  BY <3>2
  <2>4. Max(S) \in S  BY <2>3 DEF Max
  <2> QED  BY <1>2, <2>1, <2>4 DEF HighestSlot
<1> QED  BY <1>1, <1>2

\* The collectors move the classes: whatever the maps then say, they are rebuilt from
\* the alive code, and lead to it.
LEMMA RehashKeeps ==
    ASSUME NEW t, TableShape(t), NEW move, NEW u, u = Rehash(MoveKeys(t, move))
    PROVE  TableShape(u) /\ u.nm = t.nm
<1>1. t \in Tables  BY DEF TableShape
<1>2. PICK v : v = MoveKeys(t, move)  OBVIOUS
<1>3. PICK b0, o0 : v = [t EXCEPT !.byKey = b0, !.osr = o0]  BY <1>2 DEF MoveKeys
<1>4. PICK b, o :
        /\ b = [k \in Classes |-> [s \in Selectors |->
                   HighestSlot({i \in Alive(v) : v.nm[i].k = k /\ v.nm[i].m.s = s})]]
        /\ o = [k \in Classes |-> HighestSlot({i \in Alive(v) : v.nm[i].k = k /\ v.nm[i].osr # "no"})]
  OBVIOUS
<1>5. u = [v EXCEPT !.byKey = b, !.osr = o]  BY <1>2, <1>4 DEF Rehash
<1>6. v.nm = t.nm  BY <1>1, <1>3 DEF Tables
<1>7. u.nm = t.nm /\ u.byKey = b /\ u.osr = o  BY <1>1, <1>3, <1>5 DEF Tables
<1>8. Alive(v) = Alive(t) /\ Alive(u) = Alive(t)  BY <1>6, <1>7 DEF Alive
<1>9. ASSUME NEW k \in Classes, NEW s \in Selectors
      PROVE  b[k][s] \in 0 .. NumSlots /\ KeyRight(u, k, s)
  <2>1. PICK S : S = {i \in Alive(t) : t.nm[i].k = k /\ t.nm[i].m.s = s}  OBVIOUS
  <2>2. b[k][s] = HighestSlot(S) /\ S \in SUBSET Slots  BY <1>4, <1>6, <1>8, <2>1 DEF Alive
  <2>3. b[k][s] \in 0 .. NumSlots /\ (b[k][s] # 0 => b[k][s] \in S)  BY <2>2, HighestIs
  <2> QED  BY <1>7, <1>8, <2>1, <2>3 DEF KeyRight
<1>10. ASSUME NEW k \in Classes PROVE o[k] \in 0 .. NumSlots /\ OsrRight(u, k)
  <2>1. PICK S : S = {i \in Alive(t) : t.nm[i].k = k /\ t.nm[i].osr # "no"}  OBVIOUS
  <2>2. o[k] = HighestSlot(S) /\ S \in SUBSET Slots  BY <1>4, <1>6, <1>8, <2>1 DEF Alive
  <2>3. o[k] \in 0 .. NumSlots /\ (o[k] # 0 => o[k] \in S)  BY <2>2, HighestIs
  <2> QED  BY <1>7, <1>8, <2>1, <2>3 DEF OsrRight
<1>11. b \in [Classes -> [Selectors -> 0 .. NumSlots]]
  <2>1. \A k \in Classes, s \in Selectors : b[k][s] \in 0 .. NumSlots  BY <1>9
  <2>2. \A k \in Classes : b[k] = [s \in Selectors |-> b[k][s]]  BY <1>4
  <2>3. \A k \in Classes : b[k] \in [Selectors -> 0 .. NumSlots]  BY <2>1, <2>2
  <2>4. b = [k \in Classes |-> b[k]]  BY <1>4
  <2> QED  BY <2>3, <2>4
<1>12. o \in [Classes -> 0 .. NumSlots]
  <2>1. o = [k \in Classes |-> o[k]]  BY <1>4
  <2> QED  BY <1>10, <2>1
<1>13. u \in Tables  BY <1>1, <1>3, <1>5, <1>11, <1>12 DEF Tables
<1>14. \A i : SiteRight(t, i) => SiteRight(u, i)  BY <1>7 DEF SiteRight
<1> QED  BY <1>7, <1>8, <1>9, <1>10, <1>13, <1>14 DEF TableShape


-----------------------------------------------------------------------------
(* The inline caches.                                                      *)

\* Where the lookup of a site starts.
LEMMA SiteStartIs ==
    ASSUME LiveOK(live), NEW m \in Methods, NEW k \in live, IsSuper(m) => OnChain(k, m.h)
    PROVE  /\ SiteStart(m, k) \in Classes /\ SiteStart(m, k) \in live
           /\ OnChain(k, SiteStart(m, k))
<1>1. k \in Classes  BY DEF LiveOK
<1>2. CASE ~IsSuper(m)
  <2>1. SiteStart(m, k) = k  BY <1>2 DEF SiteStart
  <2> QED  BY <1>1, <2>1, OnOwnChain
<1>3. CASE IsSuper(m)
  <2>1. SiteStart(m, k) = Super(m.h)  BY <1>3 DEF SiteStart
  <2>2. m.h \in Classes /\ Super(m.h) \in Classes /\ OnChain(m.h, Super(m.h))  BY <1>3, SuperHolderIs
  <2>3. OnChain(k, Super(m.h))  BY <1>1, <1>3, <2>2, OnChainTransitive
  <2> QED  BY <2>1, <2>2, <2>3 DEF LiveOK
<1> QED  BY <1>2, <1>3

\* What lookup finds for the site.
LEMMA SiteWalkIs ==
    ASSUME DictOK(dict), LiveOK(live), NEW m \in Methods, NEW k \in live, IsSuper(m) => OnChain(k, m.h)
    PROVE  /\ Walk(dict, SiteStart(m, k), "f") \in Methods
           /\ Walk(dict, SiteStart(m, k), "f").s = "f"
BY SiteStartIs, WalkFinds, Limits

\* A cache whose arms hold what lookup finds.
LEMMA CacheMade ==
    ASSUME DictOK(dict), LiveOK(live), NEW m \in CMethods, NEW tag \in Tags, NEW fresh \in BOOLEAN,
           NEW D \in SUBSET live, \A k \in D : IsSuper(m) => OnChain(k, m.h),
           NEW a, a = [k \in D |-> a[k]],
           \A k \in D : a[k] = ToMethod(Walk(dict, SiteStart(m, k), "f")),
           NEW c, c = [tag |-> tag, arms |-> a, fresh |-> fresh]
    PROVE  CacheOK(c, m, dict, live)
<1>1. m \in Methods  BY DEF CMethods
<1>2. \A k \in D : Walk(dict, SiteStart(m, k), "f") \in Methods  BY <1>1, SiteWalkIs
<1>3. \A k \in D : a[k].id = 0 /\ a[k].m = Walk(dict, SiteStart(m, k), "f")  BY DEF ToMethod
<1>4. \A k \in D : a[k] \in [id : 0 .. NumSlots, m : Methods \cup {NoMethod}]
  BY <1>2, Limits DEF ToMethod
<1>5. a \in [D -> [id : 0 .. NumSlots, m : Methods \cup {NoMethod}]]  BY <1>4
<1>6. D \in SUBSET Classes  BY DEF LiveOK
<1>7. a \in Arms  BY <1>5, <1>6 DEF Arms
<1>8. c \in Caches  BY <1>7 DEF Caches
<1>9. c.arms = a /\ DOMAIN a = D /\ c.tag = tag /\ c.fresh = fresh  BY <1>5
<1> QED  BY <1>2, <1>3, <1>8, <1>9 DEF CacheOK

\* ic_transition: the method it answers is what lookup finds, and so is every arm of a
\* cache it stamps as current; a monomorphic arm that a redefinition has overtaken is
\* not carried into a polymorphic cache (Skewed).
LEMMA TransitionKeeps ==
    ASSUME DictOK(dict), LiveOK(live), NEW m \in CMethods, NEW c, CacheOK(c, m, dict, live),
           NEW k \in live, IsSuper(m) => OnChain(k, m.h),
           NEW resolve, resolve = [j \in Classes |-> Walk(dict, SiteStart(m, j), "f")],
           c.tag = "mono" /\ k \notin DOMAIN c.arms => \A j \in DOMAIN c.arms :
               c.arms[j].id = 0 => c.arms[j].m = Walk(dict, SiteStart(m, j), "f"),
           NEW r, r = IcTransition(c, k, resolve)
    PROVE  CacheOK(r.ic, m, dict, live) /\ r.m = Walk(dict, SiteStart(m, k), "f")
<1>1. PICK D, w : D = DOMAIN c.arms /\ w = Walk(dict, SiteStart(m, k), "f")  OBVIOUS
<1>2. /\ D \in SUBSET live /\ \A j \in D : IsSuper(m) => OnChain(j, m.h)
      /\ c \in Caches /\ D \subseteq Classes /\ k \in Classes
  BY <1>1 DEF CacheOK, LiveOK
<1>3. c.tag \in Tags /\ c.fresh \in BOOLEAN /\ c.arms = [j \in D |-> c.arms[j]]
  BY <1>1, <1>2, CacheIs
<1>4. resolve[k] = w /\ \A j \in D : resolve[j] = Walk(dict, SiteStart(m, j), "f")
  BY <1>1, <1>2
<1>5. \A j \in D : c.arms[j].id \in 0 .. NumSlots /\ c.arms[j] = [id |-> c.arms[j].id, m |-> c.arms[j].m]
  <2>1. \A j \in D : c.arms[j] \in [id : 0 .. NumSlots, m : Methods \cup {NoMethod}]
    BY <1>1, <1>2, CacheIs
  <2> QED  BY <2>1
<1>6. CacheOK(SetMono(k, ToMethod(w)), m, dict, live)
  <2>1. PICK a : a = [j \in {k} |-> ToMethod(w)]  OBVIOUS
  <2>2. SetMono(k, ToMethod(w)) = [tag |-> "mono", arms |-> a, fresh |-> TRUE]  BY <2>1 DEF SetMono
  <2>3. a = [j \in {k} |-> a[j]] /\ \A j \in {k} : a[j] = ToMethod(Walk(dict, SiteStart(m, j), "f"))
    BY <1>1, <2>1
  <2>4. "mono" \in Tags /\ {k} \in SUBSET live /\ TRUE \in BOOLEAN  BY DEF Tags
  <2> QED  BY <2>2, <2>3, <2>4, CacheMade
<1>7. CacheOK(SetMega, m, dict, live)
  <2>1. PICK a : a = [j \in {} |-> ToMethod(NoMethod)]  OBVIOUS
  <2>5. EmptyIC = [tag |-> "empty", arms |-> a, fresh |-> FALSE]  BY <2>1 DEF EmptyIC
  <2>2. SetMega = [tag |-> "mega", arms |-> a, fresh |-> FALSE]
    <3>1. EmptyIC.arms = a  BY <2>5
    <3> QED  BY <3>1 DEF SetMega
  <2>3. a = [j \in {} |-> a[j]]  BY <2>1
  <2>4. "mega" \in Tags /\ {} \in SUBSET live /\ FALSE \in BOOLEAN  BY DEF Tags
  <2> QED  BY <2>2, <2>3, <2>4, CacheMade
<1>8. ASSUME NEW E \in SUBSET live, \A j \in E : IsSuper(m) => OnChain(j, m.h), NEW a,
             a = [j \in E |-> a[j]], \A j \in E : a[j] = ToMethod(Walk(dict, SiteStart(m, j), "f"))
      PROVE  CacheOK(SetPoly(a), m, dict, live)
  <2>1. SetPoly(a) = [tag |-> "poly", arms |-> a, fresh |-> TRUE]  BY DEF SetPoly
  <2>2. "poly" \in Tags /\ TRUE \in BOOLEAN  BY DEF Tags
  <2> QED  BY <1>8, <2>1, <2>2, CacheMade
<1>9. ASSUME NEW a, DOMAIN a = D, a = [j \in D |-> a[j]],
             \A j \in D : a[j] = ToMethod(Walk(dict, SiteStart(m, j), "f"))
      PROVE  CacheOK(SetPoly(Assign(a, k, ToMethod(w))), m, dict, live)
  <2>1. PICK e : e = Assign(a, k, ToMethod(w))  OBVIOUS
  <2>2. e = [j \in D \cup {k} |-> IF j = k THEN ToMethod(w) ELSE a[j]]  BY <1>9, <2>1 DEF Assign
  <2>3. e = [j \in D \cup {k} |-> e[j]]  BY <2>2
  <2>4. \A j \in D \cup {k} : e[j] = ToMethod(Walk(dict, SiteStart(m, j), "f"))  BY <1>1, <1>9, <2>2
  <2>5. D \cup {k} \in SUBSET live /\ \A j \in D \cup {k} : IsSuper(m) => OnChain(j, m.h)  BY <1>2
  <2> QED  BY <1>8, <2>1, <2>3, <2>4, <2>5
<1>10. CASE c.tag = "empty" \/ (c.tag = "mono" /\ k \in D)
  <2>1. r = [ic |-> SetMono(k, ToMethod(w)), m |-> w]
    <3>1. CASE c.tag = "empty"
      <4>1. IcTransition(c, k, resolve) = [ic |-> SetMono(k, ToMethod(resolve[k])), m |-> resolve[k]]
        BY <3>1 DEF IcTransition
      <4> QED  BY <1>4, <4>1
    <3>2. CASE c.tag = "mono" /\ k \in D
      <4>1. IcTransition(c, k, resolve) = [ic |-> SetMono(k, ToMethod(resolve[k])), m |-> resolve[k]]
        BY <1>1, <3>2 DEF IcTransition
      <4> QED  BY <1>4, <4>1
    <3> QED  BY <1>10, <3>1, <3>2
  <2> QED  BY <1>1, <1>6, <2>1
<1>11. CASE c.tag = "mono" /\ k \notin D
  <2>1. PICK a : a = Demoted(c, resolve)  OBVIOUS
  <2>2. r = [ic |-> SetPoly(Assign(a, k, ToMethod(w))), m |-> w]
    BY <1>1, <1>4, <1>11, <2>1 DEF IcTransition
  <2>3. a = [j \in D |-> IF c.arms[j].id = 0 THEN c.arms[j] ELSE ToMethod(resolve[j])]
    BY <1>1, <2>1 DEF Demoted
  <2>4. a = [j \in D |-> a[j]] /\ DOMAIN a = D  BY <2>3
  <2>5. ASSUME NEW j \in D PROVE a[j] = ToMethod(Walk(dict, SiteStart(m, j), "f"))
    <3>1. CASE c.arms[j].id = 0
      <4>1. c.arms[j].m = Walk(dict, SiteStart(m, j), "f")  BY <1>1, <1>11, <3>1
      <4>2. a[j] = c.arms[j]  BY <2>3, <3>1
      <4> QED  BY <1>5, <3>1, <4>1, <4>2 DEF ToMethod
    <3>2. CASE c.arms[j].id # 0  BY <1>4, <2>3, <3>2
    <3> QED  BY <3>1, <3>2
  <2> QED  BY <1>1, <1>9, <2>2, <2>4, <2>5
<1>12. CASE c.tag = "poly"
  <2>1. PICK a : a = IF c.fresh THEN c.arms ELSE Reverify(c.arms, k, resolve)  OBVIOUS
  <2>2. r = [ic |-> PolyArms(a, k, w), m |-> IF k \in DOMAIN a THEN a[k].m ELSE w]
    BY <1>1, <1>4, <1>12, <2>1 DEF IcTransition
  <2>3. /\ a = [j \in D |-> a[j]] /\ DOMAIN a = D
        /\ \A j \in D : a[j] = ToMethod(Walk(dict, SiteStart(m, j), "f"))
    <3>1. CASE c.fresh
      <4>1. a = c.arms  BY <2>1, <3>1
      <4>2. \A j \in D : c.arms[j].id = 0 /\ c.arms[j].m = Walk(dict, SiteStart(m, j), "f")
        BY <1>1, <1>12, <3>1 DEF CacheOK
      <4> QED  BY <1>1, <1>3, <1>5, <4>1, <4>2 DEF ToMethod
    <3>2. CASE ~c.fresh
      <4>1. a = [j \in D |-> ToMethod(resolve[j])]  BY <1>1, <2>1, <3>2 DEF Reverify
      <4> QED  BY <1>4, <4>1
    <3> QED  BY <3>1, <3>2
  <2>4. r.m = w
    <3>1. r.m = IF k \in DOMAIN a THEN a[k].m ELSE w  BY <2>2
    <3>2. k \in DOMAIN a => a[k] = ToMethod(w)  BY <1>1, <2>3
    <3>3. ToMethod(w).m = w  BY DEF ToMethod
    <3> QED  BY <3>1, <3>2, <3>3
  <2>5. CacheOK(PolyArms(a, k, w), m, dict, live)
    <3>1. CacheOK(SetPoly(a), m, dict, live)  BY <1>2, <1>8, <2>3
    <3>2. CacheOK(SetPoly(Assign(a, k, ToMethod(w))), m, dict, live)  BY <1>9, <2>3
    <3> QED  BY <1>7, <3>1, <3>2 DEF PolyArms
  <2> QED  BY <1>1, <2>2, <2>4, <2>5
<1>13. CASE c.tag = "mega"
  <2>1. r = [ic |-> c, m |-> w]  BY <1>1, <1>4, <1>13 DEF IcTransition
  <2> QED  BY <1>1, <2>1
<1> QED  BY <1>1, <1>3, <1>10, <1>11, <1>12, <1>13 DEF Tags

\* The seeding rule of activate_method: a compiled target is checked at every use.
LEMMA SeedKeeps ==
    ASSUME LiveOK(live), NEW m, NEW c, CacheOK(c, m, dict, live), NEW k \in live,
           IsSuper(m) => OnChain(k, m.h), NEW i \in Slots
    PROVE  CacheOK(Seed(c, k, i), m, dict, live)
<1>1. CASE Seed(c, k, i) = c  BY <1>1
<1>2. CASE Seed(c, k, i) # c
  <2>1. PICK e, a : e = Seed(c, k, i) /\ a = [j \in {k} |-> ToCode(i)]  OBVIOUS
  <2>2. e = [tag |-> "mono", arms |-> a, fresh |-> TRUE]
    <3>1. e = SetMono(k, ToCode(i))  BY <1>2, <2>1 DEF Seed
    <3> QED  BY <2>1, <3>1 DEF SetMono
  <2>3. ToCode(i) \in [id : 0 .. NumSlots, m : Methods \cup {NoMethod}] /\ ToCode(i).id = i /\ i # 0
    BY Limits DEF ToCode
  <2>4. a \in [{k} -> [id : 0 .. NumSlots, m : Methods \cup {NoMethod}]]  BY <2>1, <2>3
  <2>5. {k} \in SUBSET Classes  BY DEF LiveOK
  <2>6. a \in Arms  BY <2>4, <2>5 DEF Arms
  <2>7. e \in Caches  BY <2>2, <2>6 DEF Caches, Tags
  <2>8. e.arms = a /\ DOMAIN a = {k} /\ a[k].id # 0 /\ e.tag = "mono"  BY <2>1, <2>2, <2>3
  <2>9. CacheOK(e, m, dict, live)  BY <2>7, <2>8 DEF CacheOK
  <2> QED  BY <2>1, <2>9
<1> QED  BY <1>1, <1>2


-----------------------------------------------------------------------------
(* The stack.                                                              *)

\* The parts of a frame.
LEMMA FrameIs ==
    ASSUME NEW f \in Frames
    PROVE  /\ f.k \in Classes /\ f.m \in Methods /\ f.tier \in {"I", "C", "D", "N"}
           /\ f.id \in 0 .. NumSlots /\ f.redir \in BOOLEAN /\ f.after \in {C2IDone} \cup 0 .. NumSlots
           /\ f.pc \in {"eval", "send", "loop", "body"}
BY DEF Frames

\* The frames below place n stay, and f is put at place n, the top.
LEMMA TopChanged ==
    ASSUME NEW t, NEW u, NEW d, NEW l, NEW fs, StackOK(fs, t, d, l), NEW n \in Nat \ {0},
           n <= Len(fs) + 1, n <= MaxDepth, NEW f, FrameOK(f, l), RunsOK(f, u, d),
           f.m.s = "c" => n < MaxDepth, f.redir => f.pc = "eval",
           f.after = C2IDone => n > 1 /\ fs[n - 1].tier = "C" /\ fs[n - 1].pc = "send",
           n > 1 => fs[n - 1].m.s = "c" /\ fs[n - 1].pc \in {"eval", "send"},
           \A j \in 1 .. n - 1 : RunsOK(fs[j], u, d),
           NEW gs, gs \in Seq(Frames), Len(gs) = n, gs[n] = f, \A j \in 1 .. n - 1 : gs[j] = fs[j]
    PROVE  StackOK(gs, u, d, l)
<1>1. /\ fs \in Seq(Frames) /\ Len(fs) \in Nat /\ DOMAIN fs = 1 .. Len(fs) /\ DOMAIN gs = 1 .. n
      /\ \A j \in 1 .. n - 1 : j \in DOMAIN fs
  BY SeqElements DEF StackOK
<1>2. ASSUME NEW j \in 1 .. n - 1 PROVE FrameOK(gs[j], l) /\ RunsOK(gs[j], u, d) /\ PlaceOK(gs, j)
  <2>1. FrameOK(fs[j], l) /\ PlaceOK(fs, j) /\ gs[j] = fs[j]  BY <1>1 DEF StackOK
  <2>2. gs[j].m.s = "c" => j < MaxDepth  BY <2>1 DEF PlaceOK
  <2>3. gs[j].m.s = "c" /\ gs[j].pc \in {"eval", "send"}
    <3>1. CASE j = n - 1
      <4>1. n > 1  BY <3>1
      <4> QED  BY <2>1, <3>1, <4>1
    <3>2. CASE j # n - 1
      <4>1. j < Len(fs)  BY <1>1, <3>2
      <4> QED  BY <2>1, <4>1 DEF PlaceOK
    <3> QED  BY <3>1, <3>2
  <2>4. gs[j].after = C2IDone => j > 1 /\ gs[j - 1].tier = "C" /\ gs[j - 1].pc = "send"
    <3> SUFFICES ASSUME gs[j].after = C2IDone
                 PROVE  j > 1 /\ gs[j - 1].tier = "C" /\ gs[j - 1].pc = "send"
      OBVIOUS
    <3>1. j > 1 /\ fs[j - 1].tier = "C" /\ fs[j - 1].pc = "send"  BY <2>1 DEF PlaceOK
    <3>2. j - 1 \in 1 .. n - 1  BY <3>1
    <3> QED  BY <3>1, <3>2
  <2>5. j < n  OBVIOUS
  <2> QED  BY <2>1, <2>2, <2>3, <2>4, <2>5 DEF PlaceOK
<1>3. PlaceOK(gs, n)
  <2>1. f.after = C2IDone => n > 1 /\ gs[n - 1].tier = "C" /\ gs[n - 1].pc = "send"
    <3> SUFFICES ASSUME f.after = C2IDone
                 PROVE  n > 1 /\ gs[n - 1].tier = "C" /\ gs[n - 1].pc = "send"
      OBVIOUS
    <3>1. n > 1 /\ fs[n - 1].tier = "C" /\ fs[n - 1].pc = "send"  OBVIOUS
    <3>2. n - 1 \in 1 .. n - 1  BY <3>1
    <3> QED  BY <3>1, <3>2
  <2> QED  BY <2>1 DEF PlaceOK
<1>4. \A j \in DOMAIN gs : FrameOK(gs[j], l) /\ RunsOK(gs[j], u, d) /\ PlaceOK(gs, j)
  <2> TAKE j \in DOMAIN gs
  <2>1. j = n \/ j \in 1 .. n - 1  BY <1>1
  <2> QED  BY <1>2, <1>3, <2>1
<1> QED  BY <1>4 DEF StackOK

\* The top frame and the ones below it.
LEMMA TopIs ==
    ASSUME NEW t, NEW d, NEW l, StackOK(frames, t, d, l), frames # << >>
    PROVE  /\ Len(frames) \in Nat \ {0} /\ Len(frames) <= MaxDepth /\ Len(frames) \in DOMAIN frames
           /\ Top = frames[Len(frames)] /\ Top \in Frames
           /\ FrameOK(Top, l) /\ RunsOK(Top, t, d) /\ PlaceOK(frames, Len(frames))
           /\ Below \in Seq(Frames) /\ Len(Below) = Len(frames) - 1
           /\ \A j \in 1 .. Len(frames) - 1 : Below[j] = frames[j]
<1>1. /\ frames \in Seq(Frames) /\ DOMAIN frames = 1 .. Len(frames) /\ Len(frames) \in Nat
      /\ Len(frames) <= MaxDepth
  BY SeqElements DEF StackOK
<1>2. Len(frames) \in Nat \ {0} /\ Len(frames) \in DOMAIN frames  BY <1>1
<1>3. Top = frames[Len(frames)]  BY DEF Top
<1>4. FrameOK(Top, l) /\ RunsOK(Top, t, d) /\ PlaceOK(frames, Len(frames)) /\ Top \in Frames
  BY <1>2, <1>3 DEF StackOK, FrameOK
<1>5. Below = SubSeq(frames, 1, Len(frames) - 1)  BY DEF Below, Front
<1>6. PICK m : m = Len(frames) - 1  OBVIOUS
<1>7. m \in 0 .. Len(frames)  BY <1>2, <1>6
<1>8. Below \in Seq(Frames) /\ Len(Below) = m /\ \A j \in 1 .. m : Below[j] = frames[j]
  BY <1>1, <1>5, <1>6, <1>7, SeqCut
<1> QED  BY <1>1, <1>2, <1>3, <1>4, <1>6, <1>8

\* A new frame on top.
LEMMA Pushed ==
    ASSUME NEW t, NEW u, NEW d, NEW l, StackOK(frames, t, d, l), \A j \in DOMAIN frames : RunsOK(frames[j], u, d),
           NEW f, FrameOK(f, l), RunsOK(f, u, d), ~f.redir,
           Len(frames) < MaxDepth, f.m.s = "c" => Len(frames) + 1 < MaxDepth,
           frames # << >> => Top.m.s = "c" /\ Top.pc \in {"eval", "send"},
           f.after = C2IDone => frames # << >> /\ Top.tier = "C" /\ Top.pc = "send",
           NEW gs, gs = Append(frames, f)
    PROVE  StackOK(gs, u, d, l)
<1>1. frames \in Seq(Frames) /\ Len(frames) \in Nat /\ DOMAIN frames = 1 .. Len(frames) /\ f \in Frames
  BY SeqElements DEF StackOK, FrameOK
<1>2. PICK n : n = Len(frames) + 1  OBVIOUS
<1>3. gs \in Seq(Frames) /\ Len(gs) = n /\ gs[n] = f /\ \A j \in 1 .. n - 1 : gs[j] = frames[j]
  <2>1. gs \in Seq(Frames) /\ Len(gs) = Len(frames) + 1 /\ gs[Len(frames) + 1] = f
        /\ \A j \in 1 .. Len(frames) : gs[j] = frames[j]
    BY <1>1, SeqAppended
  <2> QED  BY <1>1, <1>2, <2>1
<1>4. n \in Nat \ {0} /\ n <= Len(frames) + 1 /\ n <= MaxDepth /\ (f.m.s = "c" => n < MaxDepth)
  BY <1>1, <1>2, Limits
<1>5. n > 1 <=> frames # << >>  BY <1>1, <1>2
<1>6. frames[n - 1] = Top /\ n - 1 = Len(frames)  BY <1>1, <1>2 DEF Top
<1>7. \A j \in 1 .. n - 1 : RunsOK(frames[j], u, d)  BY <1>1, <1>6
<1>8. n > 1 => frames[n - 1].m.s = "c" /\ frames[n - 1].pc \in {"eval", "send"}  BY <1>5, <1>6
<1>9. f.after = C2IDone => n > 1 /\ frames[n - 1].tier = "C" /\ frames[n - 1].pc = "send"  BY <1>5, <1>6
<1>10. f.redir => f.pc = "eval"  OBVIOUS
<1>11. n \in Nat \ {0} /\ n <= Len(frames) + 1 /\ n <= MaxDepth  BY <1>4
<1>12. f.m.s = "c" => n < MaxDepth  BY <1>4
<1> QED  BY ONLY StackOK(frames, t, d, l), FrameOK(f, l), RunsOK(f, u, d),
            <1>3, <1>7, <1>8, <1>9, <1>10, <1>11, <1>12, TopChanged

\* The top frame goes on, in the same place.
LEMMA TopGoesOn ==
    ASSUME NEW t, NEW u, NEW d, NEW l, StackOK(frames, t, d, l), frames # << >>,
           \A j \in 1 .. Len(frames) - 1 : RunsOK(frames[j], u, d),
           NEW f, FrameOK(f, l), RunsOK(f, u, d), f.redir => f.pc = "eval",
           f.m = Top.m, f.after = C2IDone => Top.after = C2IDone,
           NEW gs, gs = Append(Below, f)
    PROVE  StackOK(gs, u, d, l)
<1>1. /\ Len(frames) \in Nat \ {0} /\ Len(frames) <= MaxDepth /\ Len(frames) \in DOMAIN frames
      /\ Top = frames[Len(frames)] /\ PlaceOK(frames, Len(frames))
      /\ Below \in Seq(Frames) /\ Len(Below) = Len(frames) - 1
      /\ \A j \in 1 .. Len(frames) - 1 : Below[j] = frames[j]
  BY TopIs
<1>2. PICK n : n = Len(frames)  OBVIOUS
<1>3. f \in Frames  BY DEF FrameOK
<1>4. gs \in Seq(Frames) /\ Len(gs) = n /\ gs[n] = f /\ \A j \in 1 .. n - 1 : gs[j] = frames[j]
  <2>1. /\ gs \in Seq(Frames) /\ Len(gs) = Len(Below) + 1 /\ gs[Len(Below) + 1] = f
        /\ \A j \in 1 .. Len(Below) : gs[j] = Below[j]
    BY <1>1, <1>3, SeqAppended
  <2>2. Len(Below) = n - 1 /\ n \in Nat  BY <1>1, <1>2
  <2> QED  BY <1>1, <1>2, <2>1, <2>2
<1>5. f.m.s = "c" => n < MaxDepth  BY <1>1, <1>2 DEF PlaceOK
<1>6. f.after = C2IDone => n > 1 /\ frames[n - 1].tier = "C" /\ frames[n - 1].pc = "send"
  BY <1>1, <1>2 DEF PlaceOK
<1>7. n > 1 => frames[n - 1].m.s = "c" /\ frames[n - 1].pc \in {"eval", "send"}
  <2> SUFFICES ASSUME n > 1 PROVE frames[n - 1].m.s = "c" /\ frames[n - 1].pc \in {"eval", "send"}
    OBVIOUS
  <2>1. n - 1 \in DOMAIN frames /\ n - 1 < Len(frames)
    <3>1. DOMAIN frames = 1 .. Len(frames)  BY SeqElements DEF StackOK
    <3> QED  BY <1>1, <1>2, <3>1
  <2>2. PlaceOK(frames, n - 1)  BY <2>1 DEF StackOK
  <2> QED  BY <2>1, <2>2 DEF PlaceOK
<1>8. n \in Nat \ {0} /\ n <= Len(frames) + 1 /\ n <= MaxDepth  BY <1>1, <1>2, Limits
<1>9. \A j \in 1 .. n - 1 : RunsOK(frames[j], u, d)  BY <1>2
<1> QED  BY ONLY StackOK(frames, t, d, l), FrameOK(f, l), RunsOK(f, u, d), f.redir => f.pc = "eval",
            <1>4, <1>5, <1>6, <1>7, <1>8, <1>9, TopChanged


\* A new frame.
LEMMA FrameMade ==
    ASSUME LiveOK(live), NEW k \in live, NEW m \in Methods, m.s = "c" => OnChain(k, m.h),
           NEW tier \in {"I", "C", "N"}, tier = "N" => m.s = "f", NEW id \in 0 .. NumSlots,
           NEW after \in {C2IDone, 0}, after = C2IDone => m.s = "f",
           NEW f, f = Frame(k, m, tier, id, after)
    PROVE  /\ FrameOK(f, live) /\ f.k = k /\ f.m = m /\ f.tier = tier /\ f.id = id /\ ~f.redir
           /\ f.after = after /\ (f.pc = "eval" \/ f.pc = "body")
<1>1. PICK pc : pc = IF tier = "N" THEN "body" ELSE "eval"  OBVIOUS
<1>2. f = [k |-> k, m |-> m, tier |-> tier, id |-> id, redir |-> FALSE, after |-> after, pc |-> pc]
  BY <1>1 DEF Frame
<1>3. /\ k \in Classes /\ pc \in {"eval", "send", "loop", "body"} /\ after \in {C2IDone} \cup 0 .. NumSlots
      /\ (pc = "body" <=> tier = "N") /\ pc \in {"eval", "body"}
  BY <1>1, Limits DEF LiveOK
<1>4. /\ f.k = k /\ f.m = m /\ f.tier = tier /\ f.id = id /\ f.redir = FALSE
      /\ f.after = after /\ f.pc = pc
  BY <1>2
<1>5. f \in Frames  BY <1>2, <1>3 DEF Frames
<1>6. m.s # "c" \/ m.s # "f"  OBVIOUS
<1>7. FrameOK(f, live)  BY <1>3, <1>4, <1>5, <1>6 DEF FrameOK
<1> QED  BY <1>3, <1>4, <1>7

\* A frame may run any alive code of its method.
LEMMA AliveRuns ==
    ASSUME NEW u, NEW d, NEW l, TableOK(u, d, l), NEW f, f.id \in Alive(u), f.m = u.nm[f.id].m,
           OnChain(f.k, u.nm[f.id].k)
    PROVE  RunsOK(f, u, d)
<1>1. f.id \in Slots /\ u.nm[f.id].st # "free"  BY DEF Alive
<1>2. InlineCurrent(u.nm[f.id], d)  BY DEF TableOK, TableCurrent, Current
<1>3. SiteRight(u, f.id)  BY DEF TableOK, TableShape
<1> QED  BY <1>1, <1>2, <1>3 DEF RunsOK

\* enter_compiled sweeps only where no compiled code is below.
LEMMA EnterKeeps ==
    ASSUME NEW t, TableOK(t, dict, live), NEW i \in Alive(t), NEW u, u = EnterCompiled(t, i)
    PROVE  /\ TableOK(u, dict, live) /\ i \in Alive(u) /\ u.nm[i].k = t.nm[i].k /\ u.nm[i].m = t.nm[i].m
           /\ \A j \in DOMAIN frames : RunsOK(frames[j], t, dict) => RunsOK(frames[j], u, dict)
<1>1. CASE u = t  BY <1>1
<1>2. CASE u # t
  <2>1. u = SweepZombies(t, Referenced(frames)) /\ \A j \in DOMAIN frames : frames[j].tier = "I"
    BY <1>2 DEF EnterCompiled
  <2>2. TableShape(t) /\ TableCurrent(t, dict, live)  BY DEF TableOK
  <2>3. /\ TableShape(u) /\ TableCurrent(u, dict, live)
        /\ \A j \in Slots : j \notin NotEntrant(t) \ Referenced(frames) => SameCode(u.nm[j], t.nm[j])
    BY <2>1, <2>2, SweepKeeps
  <2>4. i \in Slots /\ i \notin NotEntrant(t) /\ t.nm[i].st = "alive"  BY DEF Alive, NotEntrant
  <2>5. SameCode(u.nm[i], t.nm[i])  BY <2>3, <2>4
  <2>6. i \in Alive(u) /\ u.nm[i].k = t.nm[i].k /\ u.nm[i].m = t.nm[i].m
    BY <2>4, <2>5 DEF SameCode, Alive
  <2>7. \A j \in DOMAIN frames : RunsOK(frames[j], u, dict)  BY <2>1 DEF RunsOK
  <2> QED  BY <2>3, <2>6, <2>7 DEF TableOK
<1> QED  BY <1>1, <1>2

\* A step starts an activation of m for a receiver of class k.
Runs(k, m) == \E f : frames' = Append(frames, f) /\ f.k = k /\ f.m = m /\ f.pc \in {"eval", "body"}

\* The activation of what lookup finds.
LEMMA ActivateKeeps ==
    ASSUME Around, TableOK(code, dict, live), StackOK(frames, code, dict, live),
           NEW k \in live, NEW s \in Selectors, NEW w, w = Walk(dict, k, s),
           NEW r, ResultOK(code, r, k, w), NEW m, r.id = 0 => m = w,
           Len(frames) < MaxDepth, s = "c" => Len(frames) + 1 < MaxDepth,
           frames # << >> => Top.m.s = "c" /\ Top.pc \in {"eval", "send"},
           Activate(r, k, m)
    PROVE  /\ TableOK(code', dict, live) /\ StackOK(frames', code', dict, live)
           /\ Runs(k, w)
<1>1. DictOK(dict) /\ LiveOK(live) /\ k \in Classes /\ code \in Tables
  BY DEF Around, LiveOK, TableOK, TableShape
<1>2. w \in Methods /\ w.s = s /\ OnChain(k, w.h)  BY <1>1, WalkFinds
<1>3. TableOK(r.t, dict, live) /\ Keeps(code, r.t)  BY DEF ResultOK
<1>4. \A j \in DOMAIN frames : RunsOK(frames[j], r.t, dict)
  BY <1>1, <1>3, RunsStay DEF StackOK
<1>5. 0 # C2IDone  BY DEF C2IDone
<1>6. CASE r.id = 0
  <2>1. PICK f : f = Frame(k, w, "I", 0, 0)  OBVIOUS
  <2>2. code' = r.t /\ frames' = Append(frames, f)  BY <1>6, <2>1 DEF Activate
  <2>3. /\ FrameOK(f, live) /\ f.m = w /\ f.tier = "I" /\ ~f.redir /\ f.after = 0 /\ f.k = k
        /\ f.pc \in {"eval", "body"}
    <3>1. 0 \in 0 .. NumSlots  BY Limits
    <3> QED  BY <1>1, <1>2, <1>5, <2>1, <3>1, FrameMade
  <2>4. RunsOK(f, r.t, dict)  BY <2>3 DEF RunsOK
  <2>5. f.after # C2IDone /\ (f.m.s = "c" => Len(frames) + 1 < MaxDepth)  BY <1>2, <1>5, <2>3
  <2>6. StackOK(frames', r.t, dict, live)
    BY ONLY StackOK(frames, code, dict, live), Len(frames) < MaxDepth,
            frames # << >> => Top.m.s = "c" /\ Top.pc \in {"eval", "send"},
            <1>4, <2>2, <2>3, <2>4, <2>5, Pushed
  <2>7. Runs(k, w)  BY <2>2, <2>3 DEF Runs
  <2> QED  BY <1>3, <2>2, <2>6, <2>7
<1>7. CASE r.id # 0
  <2>1. r.id \in Alive(r.t) /\ r.t.nm[r.id].k = k /\ r.t.nm[r.id].m = w  BY <1>7 DEF ResultOK
  <2>2. PICK f : f = Frame(k, w, "C", r.id, 0)  OBVIOUS
  <2>3. PICK u : u = EnterCompiled(r.t, r.id)  OBVIOUS
  <2>4. code' = u /\ frames' = Append(frames, f)  BY <1>7, <2>1, <2>2, <2>3 DEF Activate
  <2>5. /\ TableOK(u, dict, live) /\ r.id \in Alive(u) /\ u.nm[r.id].k = k /\ u.nm[r.id].m = w
        /\ \A j \in DOMAIN frames : RunsOK(frames[j], r.t, dict) => RunsOK(frames[j], u, dict)
    BY <1>3, <2>1, <2>3, EnterKeeps
  <2>6. \A j \in DOMAIN frames : RunsOK(frames[j], u, dict)  BY <1>4, <2>5
  <2>7. /\ FrameOK(f, live) /\ f.m = w /\ f.id = r.id /\ f.k = k /\ ~f.redir /\ f.after = 0
        /\ f.pc \in {"eval", "body"}
    <3>1. r.id \in 0 .. NumSlots  BY <2>1, Limits DEF Alive
    <3> QED  BY <1>1, <1>2, <1>5, <2>2, <3>1, FrameMade
  <2>8. RunsOK(f, u, dict)  BY <1>1, <2>5, <2>7, OnOwnChain, AliveRuns
  <2>9. f.after # C2IDone /\ (f.m.s = "c" => Len(frames) + 1 < MaxDepth)  BY <1>2, <1>5, <2>7
  <2>10. StackOK(frames', u, dict, live)
    BY ONLY StackOK(frames, code, dict, live), Len(frames) < MaxDepth,
            frames # << >> => Top.m.s = "c" /\ Top.pc \in {"eval", "send"},
            <2>4, <2>6, <2>7, <2>8, <2>9, Pushed
  <2>11. Runs(k, w)  BY <2>4, <2>7 DEF Runs
  <2> QED  BY <2>4, <2>5, <2>10, <2>11
<1> QED  BY <1>6, <1>7


-----------------------------------------------------------------------------
(* Every step keeps the invariant.                                         *)

\* What compiling reads is right.
LEMMA AroundIs ==
    ASSUME Admit = {}, TiersInv
    PROVE  Around
BY DEF TiersInv, Around

\* A step of the code and the frames only.
LEMMA InvAgain ==
    ASSUME TiersInv, UNCHANGED <<dict, live, stale, ic>>, TableOK(code', dict, live),
           StackOK(frames', code', dict, live)
    PROVE  TiersInv'
BY DEF TiersInv, CachesOK

\* An activation that a step starts is of what lookup finds.
Dispatches ==
    Len(frames') > Len(frames) =>
         LET f == frames'[Len(frames')]
         IN  f.m = Walk(dict, IF frames # << >> /\ Top.pc = "send" THEN SiteStart(Top.m, f.k)
                              ELSE f.k, f.m.s)

\* The frame that a step pushes.
LEMMA PushDispatches ==
    ASSUME frames \in Seq(Frames), NEW f, frames' = Append(frames, f), NEW k, f.k = k, NEW s, f.m.s = s,
           f.m = Walk(dict, IF frames # << >> /\ Top.pc = "send" THEN SiteStart(Top.m, k) ELSE k, s)
    PROVE  Dispatches
<1>1. frames'[Len(frames')] = f
  <2>1. PICK gs : gs = frames'  OBVIOUS
  <2>2. PICK fs : fs = frames  OBVIOUS
  <2>3. fs \in Seq(Frames) /\ gs = Append(fs, f)  BY <2>1, <2>2
  <2>4. Len(fs) \in Nat /\ Len(gs) = Len(fs) + 1 /\ gs[Len(fs) + 1] = f  BY <2>3
  <2> QED  BY <2>1, <2>4
<1> QED  BY <1>1 DEF Dispatches

\* A step that pushes none.
LEMMA NoPush ==
    ASSUME Len(frames) \in Nat, Len(frames') \in Nat, Len(frames') <= Len(frames)
    PROVE  Dispatches
BY DEF Dispatches

\* The evaluator's sends.
LEMMA DoitKeeps ==
    ASSUME Admit = {}, TiersInv, NEW k, NEW s \in Selectors, Doit(k, s)
    PROVE  TiersInv' /\ Dispatches /\ Runs(k, Walk(dict, k, s))
<1>1. /\ Around /\ TableOK(code, dict, live) /\ StackOK(frames, code, dict, live) /\ stale = {}
  BY AroundIs DEF TiersInv
<1>2. PICK w : w = Look(k, s)  OBVIOUS
<1>3. w = Walk(dict, k, s)  BY <1>1, <1>2, LookIs
<1>4. PICK r \in Activations(code, k, w) : Activate(r, k, w)  BY <1>2 DEF Doit
<1>5. k \in live /\ UNCHANGED <<dict, live, stale, ic>>  BY DEF Doit
<1>6. ResultOK(code, r, k, w)  BY <1>1, <1>3, <1>4, <1>5, ActivationsKeep
<1>7. Len(frames) \in Nat /\ MaxDepth \in Nat  BY <1>1, Limits, SeqElements DEF StackOK
<1>8. Len(frames) < MaxDepth /\ (s = "c" => Len(frames) + 1 < MaxDepth)
  <2>1. Len(frames) < IF s = "c" THEN MaxDepth - 1 ELSE MaxDepth  BY DEF Doit
  <2> QED  BY <1>7, <2>1
<1>9. frames # << >> => Top.m.s = "c" /\ Top.pc \in {"eval", "send"}  BY DEF Doit, AtEval
<1>10. /\ TableOK(code', dict, live) /\ StackOK(frames', code', dict, live)
       /\ Runs(k, w)
  BY <1>1, <1>3, <1>4, <1>5, <1>6, <1>8, <1>9, ActivateKeeps
<1>11. TiersInv'  BY <1>5, <1>10, InvAgain
<1>12. Dispatches
  <2>1. PICK f : frames' = Append(frames, f) /\ f.k = k /\ f.m = w  BY <1>10 DEF Runs
  <2>2. ~(frames # << >> /\ Top.pc = "send")  BY DEF Doit, AtEval
  <2>3. k \in Classes /\ DictOK(dict)  BY <1>1, <1>5 DEF Around, LiveOK
  <2>4. w.s = s  BY <1>3, <2>3, WalkFinds
  <2>5. f.m = Walk(dict, IF frames # << >> /\ Top.pc = "send" THEN SiteStart(Top.m, k) ELSE k, s)
    BY <1>3, <2>1, <2>2
  <2>6. frames \in Seq(Frames)  BY <1>1 DEF StackOK
  <2> QED  BY <2>1, <2>4, <2>5, <2>6, PushDispatches
<1> QED  BY <1>3, <1>10, <1>11, <1>12

\* The frame of a "c" has room above it.
LEMMA RoomAbove ==
    ASSUME TiersInv, frames # << >>, Top.pc = "send"
    PROVE  /\ Len(frames) < MaxDepth /\ Top.m.s = "c" /\ Top.m \in CMethods /\ Top.m \in Methods
           /\ Top.k \in live /\ OnChain(Top.k, Top.m.h)
<1>1. StackOK(frames, code, dict, live)  BY DEF TiersInv
<1>2. /\ Top = frames[Len(frames)] /\ Top \in Frames /\ FrameOK(Top, live)
      /\ PlaceOK(frames, Len(frames))
  BY <1>1, TopIs
<1>3. Top.m \in Methods  BY <1>2, FrameIs
<1>4. Top.m.s = "c"  BY <1>2, <1>3, MethodIs DEF FrameOK
<1>5. Len(frames) < MaxDepth  BY <1>2, <1>4 DEF PlaceOK
<1> QED  BY <1>2, <1>3, <1>4, <1>5, MethodIs DEF FrameOK

\* send_generic.
LEMMA SendInterpretedKeeps ==
    ASSUME Admit = {}, TiersInv, NEW k, SendInterpreted(k)
    PROVE  TiersInv' /\ Dispatches /\ Runs(k, Walk(dict, SiteStart(Top.m, k), "f"))
<1>1. /\ Around /\ TableOK(code, dict, live) /\ StackOK(frames, code, dict, live) /\ stale = {}
      /\ DictOK(dict) /\ LiveOK(live) /\ CachesOK(dict, live)
  BY AroundIs DEF TiersInv
<1>2. PICK m, w : m = Top.m /\ w = Walk(dict, SiteStart(m, k), "f")  OBVIOUS
<1>3. frames # << >> /\ Top.pc = "send" /\ k \in live /\ (IsSuper(m) => k = Top.k)
  BY <1>2 DEF SendInterpreted
<1>4. /\ Len(frames) < MaxDepth /\ m.s = "c" /\ m \in CMethods /\ m \in Methods
      /\ (IsSuper(m) => OnChain(k, m.h))
  BY <1>2, <1>3, RoomAbove
<1>5. CacheOK(ic[m], m, dict, live) /\ ic[m] \in Caches  BY <1>1, <1>4 DEF CachesOK
<1>6. w = Walk(dict, k, "f") /\ w \in Methods
  <2>1. w \in Methods  BY <1>1, <1>2, <1>3, <1>4, SiteWalkIs
  <2>2. CASE ~IsSuper(m)  BY <1>2, <2>1, <2>2 DEF SiteStart
  <2>3. CASE IsSuper(m)
    <3>1. m.h \in SuperHolders /\ k \in Classes /\ "f" \in Selectors
      BY <1>1, <1>3, <2>3, Limits DEF IsSuper, LiveOK
    <3>2. Walk(dict, k, "f") = Walk(dict, Super(m.h), "f")
      BY <1>1, <1>4, <2>3, <3>1, SuperSendIsLookup
    <3> QED  BY <1>2, <2>1, <2>3, <3>2 DEF SiteStart
  <2> QED  BY <2>2, <2>3
<1>7. PICK step : step = IcTransition(ic[m], k, [j \in Classes |-> SiteLook(m, j)])  OBVIOUS
<1>8. CacheOK(step.ic, m, dict, live) /\ step.m = w
  <2>1. PICK resolve : resolve = [j \in Classes |-> SiteLook(m, j)]  OBVIOUS
  <2>2. resolve = [j \in Classes |-> Walk(dict, SiteStart(m, j), "f")]
    <3>1. \A j \in Classes : SiteLook(m, j) = Walk(dict, SiteStart(m, j), "f")  BY <1>1, SiteLookIs
    <3> QED  BY <2>1, <3>1
  <2>3. ~Skewed(m, k)  BY <1>2 DEF SendInterpreted
  <2>4. ic[m].tag = "mono" /\ k \notin DOMAIN ic[m].arms => \A j \in DOMAIN ic[m].arms :
           ic[m].arms[j].id = 0 => ic[m].arms[j].m = Walk(dict, SiteStart(m, j), "f")
    BY <2>3 DEF Skewed
  <2> QED  BY <1>1, <1>2, <1>3, <1>4, <1>5, <1>7, <2>1, <2>2, <2>4, TransitionKeeps
<1>9. PICK fast \in BOOLEAN : fast = FastHit(ic[m], code, k)
  BY DEF FastHit
<1>10. fast => ic[m].fresh /\ k \in DOMAIN ic[m].arms /\ k \in DOMAIN ic[m].arms  BY <1>9 DEF FastHit
<1>11. PICK target, cache : /\ target = IF fast THEN ic[m].arms[k].m ELSE step.m
                            /\ cache = IF fast THEN ic[m] ELSE step.ic
  OBVIOUS
<1>12. CacheOK(cache, m, dict, live)  BY <1>5, <1>8, <1>11
<1>13. /\ \/ /\ fast /\ ic[m].arms[k].id # 0
             /\ Activate([t |-> code, id |-> ic[m].arms[k].id], k, NoMethod)
             /\ ic' = ic
          \/ /\ ~(fast /\ ic[m].arms[k].id # 0)
             /\ \E r \in Activations(code, k, target) :
                   /\ Activate(r, k, target)
                   /\ ic' = [ic EXCEPT ![m] = IF r.id = 0 THEN cache ELSE Seed(cache, k, r.id)]
       /\ UNCHANGED <<dict, live, stale>>
  BY <1>2, <1>7, <1>9, <1>11, ZenonT(60) DEF SendInterpreted
<1>14. "f" \in Selectors /\ "f" # "c"  BY Limits
<1>15. frames # << >> => Top.m.s = "c" /\ Top.pc \in {"eval", "send"}  BY <1>2, <1>3, <1>4
<1>18. ASSUME Runs(k, w) PROVE Dispatches /\ Runs(k, Walk(dict, SiteStart(Top.m, k), "f"))
  <2>1. PICK f : frames' = Append(frames, f) /\ f.k = k /\ f.m = w  BY <1>18 DEF Runs
  <2>2. f.m = Walk(dict, IF frames # << >> /\ Top.pc = "send" THEN SiteStart(Top.m, k) ELSE k, "f")
    BY <1>2, <1>3, <2>1
  <2>3. w.s = "f"  BY <1>1, <1>2, <1>3, <1>4, SiteWalkIs
  <2>4. frames \in Seq(Frames)  BY <1>1 DEF StackOK
  <2>5. Dispatches  BY <2>1, <2>2, <2>3, <2>4, PushDispatches
  <2> QED  BY <1>2, <1>18, <2>5
<1>16. CASE fast /\ ic[m].arms[k].id # 0
  <2>1. PICK i : i = ic[m].arms[k].id  OBVIOUS
  <2>2. i \in Alive(code) /\ code.nm[i].k = k /\ code.nm[i].m.s = "f"
    BY <1>9, <1>16, <2>1 DEF FastHit
  <2>3. code.nm[i].m = w
    BY <1>1, <1>6, <2>2 DEF TableOK, TableCurrent, Current
  <2>4. PICK r : r = [t |-> code, id |-> i]  OBVIOUS
  <2>5. r.t = code /\ r.id = i  BY <2>4
  <2>6. ResultOK(code, r, k, w)  BY <1>1, <2>2, <2>3, <2>5, KeepsItself DEF ResultOK
  <2>7. Activate(r, k, NoMethod) /\ ic' = ic /\ r.id # 0  BY <1>13, <1>16, <2>1, <2>4, <2>5
  <2>8. /\ TableOK(code', dict, live) /\ StackOK(frames', code', dict, live)
        /\ Runs(k, w)
    BY <1>1, <1>3, <1>4, <1>6, <1>14, <1>15, <2>6, <2>7, ActivateKeeps
  <2>9. Dispatches /\ Runs(k, Walk(dict, SiteStart(Top.m, k), "f"))  BY <1>18, <2>8
  <2> QED  BY <1>13, <2>7, <2>8, <2>9, InvAgain
<1>17. CASE ~(fast /\ ic[m].arms[k].id # 0)
  <2>1. target = w
    <3>1. CASE fast
      <4>1. ic[m].arms[k].id = 0  BY <1>17, <3>1
      <4>2. ic[m].arms[k].m = w  BY <1>2, <1>5, <1>10, <3>1, <4>1 DEF CacheOK
      <4> QED  BY <1>11, <3>1, <4>2
    <3>2. CASE ~fast  BY <1>8, <1>11, <3>2
    <3> QED  BY <3>1, <3>2
  <2>2. PICK r \in Activations(code, k, w) :
           /\ Activate(r, k, w)
           /\ ic' = [ic EXCEPT ![m] = IF r.id = 0 THEN cache ELSE Seed(cache, k, r.id)]
    BY <1>13, <1>17, <2>1
  <2>3. ResultOK(code, r, k, w)  BY <1>1, <1>3, <1>6, <1>14, <2>2, ActivationsKeep
  <2>4. /\ TableOK(code', dict, live) /\ StackOK(frames', code', dict, live)
        /\ Runs(k, w)
    BY <1>1, <1>3, <1>4, <1>6, <1>14, <1>15, <2>2, <2>3, ActivateKeeps
  <2>10. Dispatches /\ Runs(k, Walk(dict, SiteStart(Top.m, k), "f"))  BY <1>18, <2>4
  <2>5. PICK c : c = IF r.id = 0 THEN cache ELSE Seed(cache, k, r.id)  OBVIOUS
  <2>6. CacheOK(c, m, dict, live)
    <3>1. CASE r.id = 0  BY <1>12, <2>5, <3>1
    <3>2. CASE r.id # 0
      <4>1. r.id \in Slots  BY <2>3, <3>2 DEF ResultOK, Alive
      <4> QED  BY <1>1, <1>3, <1>4, <1>12, <2>5, <3>2, <4>1, SeedKeeps
    <3> QED  BY <3>1, <3>2
  <2>7. ic' = [ic EXCEPT ![m] = c] /\ c \in Caches  BY <2>2, <2>5, <2>6 DEF CacheOK
  <2>8. ic \in [CMethods -> Caches] /\ \A x \in CMethods : CacheOK(ic[x], x, dict, live)
    BY <1>1 DEF CachesOK
  <2>9. ic' \in [CMethods -> Caches] /\ \A x \in CMethods : CacheOK(ic'[x], x, dict, live)
    BY <1>4, <2>6, <2>7, <2>8
  <2>11. TiersInv'  BY <1>1, <1>13, <2>4, <2>9 DEF TiersInv, CachesOK
  <2> QED  BY <2>10, <2>11
<1> QED  BY <1>13, <1>16, <1>17


\* The arms of a site lead to installed code of their classes.
ArmsRight(t, a) ==
    \A k \in DOMAIN a : a[k] # C2I => t.nm[a[k]].st # "free" /\ t.nm[a[k]].m.s = "f" /\ t.nm[a[k]].k = k

\* A site that nmethod n may have.
SiteFits(t, n, x) ==
    /\ x \in Site /\ ArmsRight(t, x.arms)
    /\ x.t = "mono" => DOMAIN x.arms # {}
    /\ IsSuper(n.m) => x.t \in {"unresolved", "mono"} /\ DOMAIN x.arms \subseteq {Super(n.m.h)}

\* A site of one class.
LEMMA MonoFits ==
    ASSUME NEW t, TableShape(t), NEW n, NEW k \in Classes, IsSuper(n.m) => k = Super(n.m.h),
           NEW x, x = C2I \/ x = ResolveTarget(t, k)
    PROVE  SiteFits(t, n, Mono(k, x))
<1>1. /\ x \in Slots \cup {C2I}
      /\ x # C2I => t.nm[x].st # "free" /\ t.nm[x].m.s = "f" /\ t.nm[x].k = k
  BY ResolveIs
<1>2. PICK y : y = Mono(k, x)  OBVIOUS
<1>3. y \in Site /\ y.t = "mono" /\ DOMAIN y.arms = {k} /\ y.arms[k] = x  BY <1>1, <1>2, SitesMade
<1>4. ArmsRight(t, y.arms)  BY <1>1, <1>3 DEF ArmsRight
<1>5. SiteFits(t, n, y)  BY <1>3, <1>4 DEF SiteFits
<1> QED  BY <1>2, <1>5

\* A PIC of a site that is no super site.
LEMMA PicFits ==
    ASSUME NEW t, NEW n, ~IsSuper(n.m), NEW D \in SUBSET Classes, NEW a \in [D -> Slots \cup {C2I}],
           ArmsRight(t, a), NEW y, y = [t |-> "pic", arms |-> a]
    PROVE  SiteFits(t, n, y)
<1>1. y \in Site  BY SiteMade
<1>2. y.t = "pic" /\ y.arms = a  OBVIOUS
<1> QED  BY <1>1, <1>2 DEF SiteFits

\* The target of a call: the adapter, or alive code for "f" of the class that the lookup
\* of the site starts at.
TargetRight(t, n, k, x) ==
    x # C2I => x \in Alive(t) /\ t.nm[x].m.s = "f" /\ t.nm[x].k = SiteStart(n.m, k)

\* rt_resolve_send links the site and answers a target that are right.
LEMMA ResolveSendIsRight ==
    ASSUME NEW t, TableShape(t), NEW n, n \in Nmethods, n.m \in Methods, SiteFits(t, n, n.site),
           n.site.t # "mega", NEW k \in Classes, NEW c \in ResolveSend(t, n, k)
    PROVE  SiteFits(t, n, c.site) /\ TargetRight(t, n, k, c.target)
<1>1. PICK new, old : new = ResolveTarget(t, k) /\ old = DOMAIN n.site.arms  OBVIOUS
<1>2. /\ new \in Slots \cup {C2I}
      /\ new # C2I => new \in Alive(t) /\ t.nm[new].st = "alive" /\ t.nm[new].k = k /\ t.nm[new].m.s = "f"
  BY <1>1, ResolveIs
<1>3. /\ n.site.t \in {"unresolved", "mono", "pic", "mega"} /\ old \subseteq Classes
      /\ n.site.arms \in [old -> Slots \cup {C2I}] /\ \A j \in old : n.site.arms[j] \in Slots \cup {C2I}
  BY <1>1, NmethodIs, SiteIs
<1>4. CASE IsSuper(n.m)
  <2>1. PICK x \in SuperTargets(t, n.m) : c = Linked(Mono(Super(n.m.h), x), x)
    BY <1>4 DEF ResolveSend
  <2>2. c.site = Mono(Super(n.m.h), x) /\ c.target = x  BY <2>1 DEF Linked
  <2>3. Super(n.m.h) \in Classes /\ SiteStart(n.m, k) = Super(n.m.h)
    BY <1>4, SuperHolderIs DEF SiteStart
  <2>4. x = C2I \/ x = ResolveTarget(t, Super(n.m.h))  BY DEF SuperTargets
  <2>5. SiteFits(t, n, c.site)  BY <2>2, <2>3, <2>4, MonoFits
  <2>6. x # C2I => x \in Alive(t) /\ t.nm[x].m.s = "f" /\ t.nm[x].k = Super(n.m.h)
    BY <2>3, <2>4, ResolveIs
  <2> QED  BY <2>2, <2>3, <2>5, <2>6 DEF TargetRight
<1>5. CASE ~IsSuper(n.m)
  <2>0. SiteStart(n.m, k) = k  BY <1>5 DEF SiteStart
  <2>1. TargetRight(t, n, k, new)  BY <1>2, <2>0 DEF TargetRight
  <2>2. ASSUME NEW arms, c \in RekeyPic(n, arms, new),
               arms \in [old \cup {k} -> Slots \cup {C2I}], ArmsRight(t, arms)
        PROVE  SiteFits(t, n, c.site) /\ TargetRight(t, n, k, c.target)
    <3>1. c = Linked(n.site, new) \/ c = Linked([t |-> "pic", arms |-> arms], new)
      BY <2>2 DEF RekeyPic
    <3>2. c.target = new /\ (c.site = n.site \/ c.site = [t |-> "pic", arms |-> arms])
      BY <3>1 DEF Linked
    <3>3. old \cup {k} \in SUBSET Classes  BY <1>3
    <3>4. SiteFits(t, n, [t |-> "pic", arms |-> arms])  BY <1>5, <2>2, <3>3, PicFits
    <3> QED  BY <2>1, <3>2, <3>4
  <2>3. CASE n.site.t = "unresolved" \/ (n.site.t = "mono" /\ k \in old)
    <3>1. c = Linked(Mono(k, new), new)
      <4>1. c \in {Linked(Mono(k, new), new)}  BY <1>1, <1>5, <2>3 DEF ResolveSend
      <4> QED  BY <4>1
    <3>2. c.site = Mono(k, new) /\ c.target = new  BY <3>1 DEF Linked
    <3> QED  BY <1>1, <1>5, <2>1, <3>2, MonoFits
  <2>4. CASE n.site.t = "mono" /\ k \notin old
    <3>1. PICK arms : arms = [j \in old \cup {k} |-> ResolveTarget(t, j)]  OBVIOUS
    <3>2. c \in RekeyPic(n, arms, new)
      BY <1>1, <1>5, <2>4, <3>1 DEF ResolveSend
    <3>3. ASSUME NEW j \in old \cup {k}
          PROVE  /\ arms[j] \in Slots \cup {C2I}
                 /\ arms[j] # C2I => t.nm[arms[j]].st # "free" /\ t.nm[arms[j]].m.s = "f" /\ t.nm[arms[j]].k = j
      <4>1. arms[j] = ResolveTarget(t, j) /\ j \in Classes  BY <1>3, <3>1
      <4> QED  BY <4>1, ResolveIs
    <3>6. arms = [j \in old \cup {k} |-> arms[j]]  BY <3>1
    <3>4. arms \in [old \cup {k} -> Slots \cup {C2I}]  BY <3>3, <3>6
    <3>5. ArmsRight(t, arms)  BY <3>3, <3>4 DEF ArmsRight
    <3> QED  BY <2>2, <3>2, <3>4, <3>5
  <2>7. Cardinality(old) \in Nat /\ PicMax \in Nat
    <3>1. IsFiniteSet(Classes)  BY ChainAssumption
    <3>2. IsFiniteSet(old)  BY <1>3, <3>1, FS_Subset
    <3>3. PicMax \in Nat  BY TiersAssumption
    <3> QED  BY <3>2, <3>3, FS_CardinalityType
  <2>5. CASE n.site.t = "pic" /\ (k \in old \/ Cardinality(old) < PicMax)
    <3>1. PICK arms : arms = Assign(n.site.arms, k, new)  OBVIOUS
    <3>2. c \in RekeyPic(n, arms, new)
      <4>1. k \notin old => ~(Cardinality(old) >= PicMax)  BY <2>5, <2>7
      <4> QED  BY <1>1, <1>5, <2>5, <3>1, <4>1 DEF ResolveSend
    <3>3. arms = [j \in old \cup {k} |-> IF j = k THEN new ELSE n.site.arms[j]]
      BY <1>1, <3>1 DEF Assign
    <3>4. arms \in [old \cup {k} -> Slots \cup {C2I}]  BY <1>2, <1>3, <3>3
    <3>5. ArmsRight(t, n.site.arms)  BY DEF SiteFits
    <3>6. \A j \in old : n.site.arms[j] # C2I =>
             /\ t.nm[n.site.arms[j]].st # "free" /\ t.nm[n.site.arms[j]].m.s = "f"
             /\ t.nm[n.site.arms[j]].k = j
      BY <1>1, <3>5 DEF ArmsRight
    <3>7. ArmsRight(t, arms)
      <4> SUFFICES ASSUME NEW j \in old \cup {k}, arms[j] # C2I
                   PROVE  t.nm[arms[j]].st # "free" /\ t.nm[arms[j]].m.s = "f" /\ t.nm[arms[j]].k = j
        BY <3>3 DEF ArmsRight
      <4>1. CASE j = k  BY <1>2, <3>3, <4>1
      <4>2. CASE j # k  BY <3>3, <3>6, <4>2
      <4> QED  BY <4>1, <4>2
    <3> QED  BY <2>2, <3>2, <3>4, <3>7
  <2>6. CASE n.site.t = "pic" /\ k \notin old /\ ~(Cardinality(old) < PicMax)
    <3>1. Cardinality(old) >= PicMax  BY <2>6, <2>7
    <3>2. PICK mega : mega = [t |-> "mega", arms |-> NoArms]  OBVIOUS
    <3>3. c \in {Linked(n.site, new), Linked(mega, new)}
      BY <1>1, <1>5, <2>6, <3>1, <3>2 DEF ResolveSend
    <3>4. c.target = new /\ (c.site = n.site \/ c.site = mega)  BY <3>3 DEF Linked
    <3>5. SiteFits(t, n, mega)
      <4>1. NoArms \in [{} -> Slots \cup {C2I}] /\ DOMAIN NoArms = {}  BY DEF NoArms
      <4>2. mega \in Site  BY <3>2, <4>1, SiteMade
      <4>3. mega.t = "mega" /\ mega.arms = NoArms  BY <3>2
      <4> QED  BY <1>5, <4>1, <4>2, <4>3 DEF SiteFits, ArmsRight
    <3> QED  BY <2>1, <3>4, <3>5
  <2> QED  BY <1>3, <2>3, <2>4, <2>5, <2>6
<1> QED  BY <1>4, <1>5


\* The call instruction and what it leads to.
LEMMA CallsAreRight ==
    ASSUME NEW t, TableShape(t), NEW n, n \in Nmethods, Formed(n), SiteFits(t, n, n.site),
           NEW k \in Classes, NEW c \in Calls(t, n, k)
    PROVE  SiteFits(t, n, c.site) /\ TargetRight(t, n, k, c.target)
<1>1. PICK arms : arms = n.site.arms  OBVIOUS
<1>2. /\ n.site.t \in {"unresolved", "mono", "pic", "mega"} /\ DOMAIN arms \subseteq Classes
      /\ \A j \in DOMAIN arms : arms[j] \in Slots \cup {C2I}
  BY <1>1, NmethodIs, SiteIs
<1>3. n.m \in Methods /\ (n.site.t = "mono" => DOMAIN arms # {})
      /\ (IsSuper(n.m) => n.site.t \in {"unresolved", "mono"} /\ DOMAIN arms \subseteq {Super(n.m.h)})
  BY <1>1 DEF Formed
<1>4. \A j \in DOMAIN arms : arms[j] # C2I => t.nm[arms[j]].m.s = "f" /\ t.nm[arms[j]].k = j
  BY <1>1 DEF SiteFits, ArmsRight
<1>5. CASE Hit(t, n, k) = {}
  <2>1. c \in ResolveSend(t, n, k)  BY <1>5 DEF Calls
  <2>2. n.site.t # "mega"
    <3> SUFFICES ASSUME n.site.t = "mega" PROVE FALSE  OBVIOUS
    <3>1. Hit(t, n, k) = {ResolveTarget(t, k)}  BY DEF Hit
    <3> QED  BY <1>5, <3>1
  <2> QED  BY <1>3, <2>1, <2>2, ResolveSendIsRight
<1>6. CASE Hit(t, n, k) # {}
  <2>1. PICK x \in Hit(t, n, k) : c = Linked(n.site, x)  BY <1>6 DEF Calls
  <2>2. c.site = n.site /\ c.target = x  BY <2>1 DEF Linked
  <2>3. TargetRight(t, n, k, x)
    <3>1. CASE n.site.t = "mega"
      <4>1. Hit(t, n, k) = {ResolveTarget(t, k)}  BY <3>1 DEF Hit
      <4>2. x = ResolveTarget(t, k)  BY <4>1
      <4>3. SiteStart(n.m, k) = k  BY <1>3, <3>1 DEF SiteStart
      <4> QED  BY <4>2, <4>3, ResolveIs DEF TargetRight
    <3>2. CASE n.site.t = "unresolved"
      <4>1. Hit(t, n, k) = {}  BY <3>2 DEF Hit
      <4> QED  BY <1>6, <4>1
    <3>3. CASE n.site.t = "pic"
      <4>1. ~IsSuper(n.m)  BY <1>3, <3>3
      <4>2. k \in DOMAIN arms
        <5> SUFFICES ASSUME k \notin DOMAIN arms PROVE FALSE  OBVIOUS
        <5>1. Hit(t, n, k) = {}  BY <1>1, <3>3 DEF Hit
        <5> QED  BY <1>6, <5>1
      <4>3. Hit(t, n, k) = IF arms[k] = C2I THEN {C2I}
               ELSE {y \in {arms[k]} \cap Alive(t) : n.site.t = "mono" /\ ~IsSuper(n.m) => t.nm[y].k = k}
        BY <1>1, <3>3, <4>2 DEF Hit
      <4>4. x = C2I \/ (x = arms[k] /\ x \in Alive(t))  BY <4>3
      <4>5. SiteStart(n.m, k) = k  BY <4>1 DEF SiteStart
      <4> QED  BY <1>4, <4>2, <4>4, <4>5 DEF TargetRight
    <3>4. CASE n.site.t = "mono"
      <4>1. PICK j : j = CHOOSE i \in DOMAIN arms : TRUE  OBVIOUS
      <4>2. j \in DOMAIN arms  BY <1>3, <3>4, <4>1
      <4>3. Hit(t, n, k) = IF arms[j] = C2I THEN {C2I}
               ELSE {y \in {arms[j]} \cap Alive(t) : n.site.t = "mono" /\ ~IsSuper(n.m) => t.nm[y].k = k}
        BY <1>1, <3>4, <4>1 DEF Hit
      <4>4. x # C2I => x = arms[j] /\ x \in Alive(t) /\ (~IsSuper(n.m) => t.nm[x].k = k)
        BY <3>4, <4>3
      <4>5. x # C2I => t.nm[x].m.s = "f" /\ t.nm[x].k = j  BY <1>4, <4>2, <4>4
      <4>6. CASE IsSuper(n.m)
        <5>1. j = Super(n.m.h) /\ SiteStart(n.m, k) = Super(n.m.h)  BY <1>3, <4>2, <4>6 DEF SiteStart
        <5> QED  BY <4>4, <4>5, <5>1 DEF TargetRight
      <4>7. CASE ~IsSuper(n.m)
        <5>1. SiteStart(n.m, k) = k  BY <4>7 DEF SiteStart
        <5> QED  BY <4>4, <4>5, <4>7, <5>1 DEF TargetRight
      <4> QED  BY <4>6, <4>7
    <3> QED  BY <1>2, <3>1, <3>2, <3>3, <3>4
  <2> QED  BY <2>2, <2>3
<1> QED  BY <1>5, <1>6

\* A table in which one nmethod's site or counters are others.
LEMMA SiteChanged ==
    ASSUME NEW t, NEW d, NEW l, TableOK(t, d, l), NEW i \in Slots, t.nm[i].st # "free",
           NEW u \in Tables, u.byKey = t.byKey, u.osr = t.osr,
           \A j \in Slots : j # i => u.nm[j] = t.nm[j],
           SameCode(u.nm[i], t.nm[i]), Formed(u.nm[i]),
           SiteRight(t, i) => ArmsRight(t, u.nm[i].site.arms)
    PROVE  /\ TableOK(u, d, l) /\ Alive(u) = Alive(t)
           /\ \A j \in Slots : u.nm[j].m = t.nm[j].m /\ u.nm[j].k = t.nm[j].k
           /\ \A f : RunsOK(f, t, d) => RunsOK(f, u, d)
<1>1. t \in Tables /\ TableShape(t) /\ t.nm \in [Slots -> Nmethods]  BY TableIs DEF TableOK, TableShape
<1>2. PICK x : x = u.nm[i].site  OBVIOUS
<1>9. \A j \in Slots : /\ u.nm[j].st = t.nm[j].st /\ u.nm[j].k = t.nm[j].k /\ u.nm[j].m = t.nm[j].m
                       /\ u.nm[j].inl = t.nm[j].inl /\ u.nm[j].osr = t.nm[j].osr
                       /\ j # i => u.nm[j].site = t.nm[j].site
  BY DEF SameCode
<1>10. Alive(u) = Alive(t)  BY <1>9 DEF Alive
<1>11. ASSUME SiteRight(t, i) PROVE SiteRight(u, i)
  <2>1. PICK a : a = x.arms  OBVIOUS
  <2>2. u.nm[i].site.arms = a  BY <1>2, <2>1
  <2>3. \A k \in DOMAIN a : a[k] \in Slots \cup {C2I}  BY <1>2, <2>1, TableIs, NmethodIs, SiteIs
  <2>4. \A k \in DOMAIN a : a[k] # C2I =>
           t.nm[a[k]].st # "free" /\ t.nm[a[k]].m.s = "f" /\ t.nm[a[k]].k = k
    BY <1>2, <1>11, <2>1 DEF ArmsRight
  <2>5. \A k \in DOMAIN a : a[k] # C2I =>
           u.nm[a[k]].st # "free" /\ u.nm[a[k]].m.s = "f" /\ u.nm[a[k]].k = k
    BY <1>9, <2>3, <2>4
  <2> QED  BY <2>2, <2>5 DEF SiteRight
<1>12. ASSUME NEW j \in Slots, SiteRight(t, j) PROVE SiteRight(u, j)
  <2>1. CASE j = i  BY <1>11, <1>12, <2>1
  <2>2. CASE j # i
    <3>1. PICK a : a = t.nm[j].site.arms  OBVIOUS
    <3>2. u.nm[j].site.arms = a  BY <1>9, <2>2, <3>1
    <3>3. \A k \in DOMAIN a : a[k] \in Slots \cup {C2I}  BY <1>1, <3>1, TableIs, NmethodIs, SiteIs
    <3>4. \A k \in DOMAIN a : a[k] # C2I =>
             t.nm[a[k]].st # "free" /\ t.nm[a[k]].m.s = "f" /\ t.nm[a[k]].k = k
      BY <1>12, <3>1 DEF SiteRight
    <3>5. \A k \in DOMAIN a : a[k] # C2I =>
             u.nm[a[k]].st # "free" /\ u.nm[a[k]].m.s = "f" /\ u.nm[a[k]].k = k
      BY <1>9, <3>3, <3>4
    <3> QED  BY <3>2, <3>5 DEF SiteRight
  <2> QED  BY <2>1, <2>2
<1>13. ASSUME NEW j \in Slots, u.nm[j].st # "free" PROVE Formed(u.nm[j])
  <2>1. Formed(t.nm[j])  BY <1>9, <1>13 DEF TableOK, TableShape
  <2>2. CASE j # i  BY <2>1, <2>2
  <2>3. CASE j = i  BY <2>3
  <2> QED  BY <2>2, <2>3
<1>14. ASSUME NEW k \in Classes PROVE OsrRight(u, k)
  <2>1. OsrRight(t, k)  BY <1>1 DEF TableShape
  <2> QED  BY <1>9, <1>10, <2>1 DEF OsrRight, Alive
<1>15. ASSUME NEW k \in Classes, NEW s \in Selectors PROVE KeyRight(u, k, s)
  <2>1. KeyRight(t, k, s)  BY <1>1 DEF TableShape
  <2> QED  BY <1>9, <1>10, <2>1 DEF KeyRight, Alive
<1>16. \A j \in Alive(u) : SiteRight(u, j)  BY <1>10, <1>12 DEF TableOK, TableShape, Alive
<1>17. TableShape(u)  BY <1>13, <1>14, <1>15, <1>16 DEF TableShape
<1>18. TableCurrent(u, d, l)
  <2>1. \A j \in Slots : u.nm[j].st # "free" => (u.nm[j].inl # NoInline => u.nm[j].inl.k \in l)
    BY <1>9 DEF TableOK, TableCurrent
  <2>2. \A j \in Alive(u) : Current(u.nm[j], d, l)
    BY <1>9, <1>10 DEF TableOK, TableCurrent, Current, InlineCurrent, Alive
  <2> QED  BY <2>1, <2>2 DEF TableCurrent
<1>19. ASSUME NEW f, RunsOK(f, t, d) PROVE RunsOK(f, u, d)
  BY <1>9, <1>12, <1>19 DEF RunsOK, InlineCurrent
<1> QED  BY <1>9, <1>10, <1>17, <1>18, <1>19 DEF TableOK

\* A compiled frame at its send runs code that is right.
LEMMA TopRuns ==
    ASSUME TiersInv, frames # << >>, Top.tier = "C", Top.pc # "eval"
    PROVE  /\ Top.id \in Slots /\ code.nm[Top.id].st # "free" /\ code.nm[Top.id].m = Top.m
           /\ code.nm[Top.id] \in Nmethods /\ Formed(code.nm[Top.id])
           /\ InlineCurrent(code.nm[Top.id], dict) /\ SiteRight(code, Top.id)
           /\ SiteFits(code, code.nm[Top.id], code.nm[Top.id].site) /\ ~Top.redir
<1>1. StackOK(frames, code, dict, live) /\ TableShape(code) /\ code \in Tables
  BY DEF TiersInv, TableOK, TableShape
<1>2. RunsOK(Top, code, dict) /\ PlaceOK(frames, Len(frames)) /\ Top = frames[Len(frames)]
  BY <1>1, TopIs
<1>3. ~Top.redir  BY <1>2 DEF PlaceOK
<1>4. /\ Top.id \in Slots /\ code.nm[Top.id].st # "free" /\ code.nm[Top.id].m = Top.m
      /\ InlineCurrent(code.nm[Top.id], dict) /\ SiteRight(code, Top.id)
  BY <1>2, <1>3 DEF RunsOK
<1>5. code.nm[Top.id] \in Nmethods /\ Formed(code.nm[Top.id])  BY <1>1, <1>4, TableIs DEF TableShape
<1>6. PICK n : n = code.nm[Top.id]  OBVIOUS
<1>7. n.site \in Site  BY <1>5, <1>6, NmethodIs
<1>8. ArmsRight(code, n.site.arms)  BY <1>4, <1>6 DEF SiteRight, ArmsRight
<1>9. SiteFits(code, n, n.site)  BY <1>5, <1>6, <1>7, <1>8 DEF SiteFits, Formed
<1> QED  BY <1>3, <1>4, <1>5, <1>6, <1>9


\* Sends of compiled code, inlined ones too.
LEMMA SendCompiledKeeps ==
    ASSUME TiersInv, NEW k, SendCompiled(k)
    PROVE  TiersInv' /\ Dispatches /\ Runs(k, Walk(dict, SiteStart(Top.m, k), "f"))
<1>1. /\ TableOK(code, dict, live) /\ TableShape(code) /\ StackOK(frames, code, dict, live) /\ stale = {}
      /\ DictOK(dict) /\ LiveOK(live) /\ code \in Tables
  BY DEF TiersInv, TableOK, TableShape
<1>2. PICK n, i : i = Top.id /\ n = code.nm[i]  OBVIOUS
<1>3. /\ frames # << >> /\ Top.tier = "C" /\ Top.pc = "send" /\ k \in live /\ (IsSuper(n.m) => k = Top.k)
      /\ UNCHANGED <<dict, live, stale, ic>>
  BY <1>2 DEF SendCompiled
<1>4. /\ i \in Slots /\ n.st # "free" /\ n.m = Top.m /\ n \in Nmethods /\ Formed(n)
      /\ InlineCurrent(n, dict) /\ SiteFits(code, n, n.site)
  BY <1>2, <1>3, TopRuns
<1>5. /\ Len(frames) < MaxDepth /\ Top.m.s = "c" /\ n.m \in Methods /\ k \in Classes
      /\ (IsSuper(n.m) => OnChain(k, n.m.h))
  BY <1>1, <1>3, <1>4, RoomAbove DEF LiveOK
<1>6. PICK w : w = Walk(dict, SiteStart(n.m, k), "f")  OBVIOUS
<1>7. w \in Methods /\ w.s = "f"  BY <1>1, <1>3, <1>5, <1>6, SiteWalkIs
<1>8. PICK inlined : inlined = (n.inl # NoInline /\ (IsSuper(n.m) \/ n.inl.k = k))  OBVIOUS
<1>9. /\ SiteStart(n.m, k) \in Classes /\ OnChain(k, SiteStart(n.m, k))  BY <1>1, <1>3, <1>5, SiteStartIs
<1>10. 0 # C2IDone /\ 0 \in 0 .. NumSlots /\ "f" # "c"  BY Limits DEF C2IDone
<1>11. frames # << >> => Top.m.s = "c" /\ Top.pc \in {"eval", "send"}  BY <1>3, <1>5
<1>12. ASSUME NEW f, frames' = Append(frames, f), f.k = k, f.m = w, f.pc \in {"eval", "body"}
       PROVE  Dispatches /\ Runs(k, Walk(dict, SiteStart(Top.m, k), "f"))
  <2>1. f.m = Walk(dict, IF frames # << >> /\ Top.pc = "send" THEN SiteStart(Top.m, k) ELSE k, "f")
    BY <1>3, <1>4, <1>6, <1>12
  <2>2. frames \in Seq(Frames)  BY <1>1 DEF StackOK
  <2>3. Dispatches  BY <1>7, <1>12, <2>1, <2>2, PushDispatches
  <2>4. Runs(k, w)  BY <1>12 DEF Runs
  <2> QED  BY <1>4, <1>6, <2>3, <2>4
<1>13. CASE inlined
  <2>1. PICK f : f = Frame(k, n.inl.m, "N", 0, 0)  OBVIOUS
  <2>2. frames' = Append(frames, f) /\ code' = code
    BY <1>2, <1>8, <1>13, <2>1 DEF SendCompiled
  <2>3. n.inl.m = w
    <3>1. n.inl.m = Walk(dict, n.inl.k, "f")  BY <1>4, <1>8, <1>13 DEF InlineCurrent
    <3>2. n.inl.k = SiteStart(n.m, k)
      BY <1>4, <1>8, <1>13 DEF Formed, SiteStart
    <3> QED  BY <1>6, <3>1, <3>2
  <2>4. /\ FrameOK(f, live) /\ f.k = k /\ f.m = w /\ f.tier = "N" /\ ~f.redir /\ f.after = 0
        /\ f.pc \in {"eval", "body"}
    BY <1>1, <1>3, <1>7, <1>10, <2>1, <2>3, FrameMade
  <2>5. RunsOK(f, code, dict)  BY <2>4 DEF RunsOK
  <2>6. \A j \in DOMAIN frames : RunsOK(frames[j], code, dict)  BY <1>1 DEF StackOK
  <2>7. f.m.s # "c" /\ f.after # C2IDone  BY <1>7, <1>10, <2>4
  <2>8. StackOK(frames', code, dict, live)
    BY ONLY <1>1, <1>5, <1>11, <2>2, <2>4, <2>5, <2>6, <2>7, Pushed
  <2>9. TiersInv'  BY <1>1, <1>3, <2>2, <2>8, InvAgain
  <2>10. Dispatches /\ Runs(k, Walk(dict, SiteStart(Top.m, k), "f"))  BY <1>12, <2>2, <2>4
  <2> QED  BY <2>9, <2>10
<1>14. CASE ~inlined
  <2>1. PICK c \in Calls(code, n, k) :
          /\ code' = [code EXCEPT !.nm[i].site = c.site]
          /\ frames' = Append(frames,
                 IF c.target = C2I THEN Frame(k, SiteLook(n.m, k), "I", 0, C2IDone)
                 ELSE Frame(k, code.nm[c.target].m, "C", c.target, 0))
    BY <1>2, <1>8, <1>14 DEF SendCompiled
  <2>2. SiteFits(code, n, c.site) /\ TargetRight(code, n, k, c.target)
    BY <1>1, <1>4, <1>5, CallsAreRight
  <2>3. /\ TableOK(code', dict, live) /\ Alive(code') = Alive(code)
        /\ \A j \in Slots : code'.nm[j].m = code.nm[j].m /\ code'.nm[j].k = code.nm[j].k
        /\ \A f : RunsOK(f, code, dict) => RunsOK(f, code', dict)
    <3>1. PICK u : u = code'  OBVIOUS
    <3>4. PICK y : y = c.site  OBVIOUS
    <3>7. PICK o : o = [code.nm[i] EXCEPT !.site = y]  OBVIOUS
    <3>8. PICK nm : nm = [code.nm EXCEPT ![i] = o]  OBVIOUS
    <3>2. u = [code EXCEPT !.nm = nm]  BY <1>1, <2>1, <3>1, <3>4, <3>7, <3>8 DEF Tables
    <3>6. /\ u \in Tables /\ u.byKey = code.byKey /\ u.osr = code.osr /\ SameCode(u.nm[i], code.nm[i])
          /\ u.nm[i].site = y /\ \A j \in Slots : j # i => u.nm[j] = code.nm[j]
      <4>1. code.nm \in [Slots -> Nmethods] /\ y \in Site  BY <1>1, <2>2, <3>4, TableIs DEF SiteFits
      <4>2. o \in Nmethods /\ SameCode(o, code.nm[i]) /\ o.site = y
        BY <1>4, <3>7, <4>1 DEF Nmethods, SameCode
      <4>3. nm \in [Slots -> Nmethods] /\ nm[i] = o /\ \A j \in Slots : j # i => nm[j] = code.nm[j]
        BY <1>4, <3>8, <4>1, <4>2
      <4>4. u \in Tables /\ u.nm = nm /\ u.byKey = code.byKey /\ u.osr = code.osr
        BY <1>1, <3>2, <4>3 DEF Tables
      <4> QED  BY <4>2, <4>3, <4>4
    <3>5. /\ code.nm[i].st # "free" /\ ArmsRight(code, u.nm[i].site.arms) /\ Formed(u.nm[i])
      <4>1. SiteFits(code, n, u.nm[i].site)  BY <2>2, <3>4, <3>6
      <4>2. SameCode(u.nm[i], n)  BY <1>2, <3>6
      <4> QED  BY <1>2, <1>4, <4>1, <4>2 DEF SiteFits, Formed, SameCode
    <3>3. /\ TableOK(u, dict, live) /\ Alive(u) = Alive(code)
          /\ \A j \in Slots : u.nm[j].m = code.nm[j].m /\ u.nm[j].k = code.nm[j].k
          /\ \A f : RunsOK(f, code, dict) => RunsOK(f, u, dict)
      BY <1>1, <1>4, <3>5, <3>6, SiteChanged
    <3> QED  BY <3>1, <3>3
  <2>4. \A j \in DOMAIN frames : RunsOK(frames[j], code', dict)  BY <1>1, <2>3 DEF StackOK
  <2>5. CASE c.target = C2I
    <3>1. PICK f : f = Frame(k, w, "I", 0, C2IDone)  OBVIOUS
    <3>2. SiteLook(n.m, k) = w  BY <1>1, <1>6, SiteLookIs
    <3>3. frames' = Append(frames, f)  BY <2>1, <2>5, <3>1, <3>2
    <3>4. /\ FrameOK(f, live) /\ f.k = k /\ f.m = w /\ f.tier = "I" /\ ~f.redir /\ f.pc \in {"eval", "body"}
      BY <1>1, <1>3, <1>7, <1>10, <3>1, FrameMade
    <3>5. RunsOK(f, code', dict) /\ f.m.s # "c"  BY <1>7, <1>10, <3>4 DEF RunsOK
    <3>6. StackOK(frames', code', dict, live)
      BY ONLY <1>1, <1>3, <1>5, <1>11, <2>4, <3>3, <3>4, <3>5, Pushed
    <3>7. TiersInv'  BY <1>3, <2>3, <3>6, InvAgain
    <3>8. Dispatches /\ Runs(k, Walk(dict, SiteStart(Top.m, k), "f"))  BY <1>12, <3>3, <3>4
    <3> QED  BY <3>7, <3>8
  <2>6. CASE c.target # C2I
    <3>1. PICK x : x = c.target  OBVIOUS
    <3>2. x \in Alive(code) /\ code.nm[x].m.s = "f" /\ code.nm[x].k = SiteStart(n.m, k) /\ x \in Slots
      BY <2>2, <2>6, <3>1 DEF TargetRight, Alive
    <3>3. code.nm[x].m = w  BY <1>1, <1>6, <3>2 DEF TableOK, TableCurrent, Current
    <3>4. PICK f : f = Frame(k, w, "C", x, 0)  OBVIOUS
    <3>5. frames' = Append(frames, f)  BY <2>1, <2>6, <3>1, <3>3, <3>4
    <3>6. x \in 0 .. NumSlots  BY <3>2, Limits
    <3>7. /\ FrameOK(f, live) /\ f.k = k /\ f.m = w /\ f.tier = "C" /\ ~f.redir /\ f.id = x /\ f.after = 0
          /\ f.pc \in {"eval", "body"}
      BY <1>1, <1>3, <1>7, <1>10, <3>4, <3>6, FrameMade
    <3>8. RunsOK(f, code', dict)
      <4>1. f.id \in Alive(code') /\ f.m = code'.nm[f.id].m  BY <2>3, <3>2, <3>3, <3>7
      <4>2. OnChain(f.k, code'.nm[f.id].k)  BY <1>9, <2>3, <3>2, <3>7
      <4> QED  BY <2>3, <4>1, <4>2, AliveRuns
    <3>9. f.m.s # "c" /\ f.after # C2IDone  BY <1>7, <1>10, <3>7
    <3>10. StackOK(frames', code', dict, live)
      BY ONLY <1>1, <1>5, <1>11, <2>4, <3>5, <3>7, <3>8, <3>9, Pushed
    <3>11. TiersInv'  BY <1>3, <2>3, <3>10, InvAgain
    <3>12. Dispatches /\ Runs(k, Walk(dict, SiteStart(Top.m, k), "f"))  BY <1>12, <3>5, <3>7
    <3> QED  BY <3>11, <3>12
  <2> QED  BY <2>5, <2>6
<1> QED  BY <1>13, <1>14


\* A frame that goes on at pc in its own code.
LEMMA FrameMoves ==
    ASSUME NEW f, NEW t, NEW d, NEW l, FrameOK(f, l), RunsOK(f, t, d), f.m.s = "c",
           NEW pc \in {"eval", "send", "loop"}, NEW g, g = [f EXCEPT !.pc = pc]
    PROVE  /\ FrameOK(g, l) /\ RunsOK(g, t, d) /\ g.m = f.m /\ g.k = f.k /\ g.after = f.after /\ g.pc = pc
           /\ g.redir = f.redir
<1>1. /\ f \in Frames /\ f.k \in l /\ f.pc # "body" /\ f.tier # "N" /\ OnChain(f.k, f.m.h)
      /\ (f.tier # "C" => ~f.redir) /\ (f.after = C2IDone => f.m.s = "f")
  BY DEF FrameOK
<1>2. /\ g \in Frames /\ g.k = f.k /\ g.m = f.m /\ g.tier = f.tier /\ g.id = f.id
      /\ g.redir = f.redir /\ g.after = f.after /\ g.pc = pc
  BY <1>1 DEF Frames
<1>3. FrameOK(g, l)  BY <1>1, <1>2 DEF FrameOK
<1>4. RunsOK(g, t, d)  BY <1>2 DEF RunsOK
<1> QED  BY <1>2, <1>3, <1>4

\* A frame that is deoptimized and goes on in the interpreter.
LEMMA FrameLeaves ==
    ASSUME NEW f, NEW l, FrameOK(f, l), f.m.s = "c",
           NEW h \in Frames, h.k = f.k, h.m = f.m, h.tier = "D", h.redir = FALSE, h.after = f.after,
           h.pc \in {"eval", "send", "loop"}
    PROVE  FrameOK(h, l) /\ \A t, d : RunsOK(h, t, d)
<1>1. /\ f.k \in l /\ OnChain(f.k, f.m.h) /\ (f.after = C2IDone => f.m.s = "f")
  BY DEF FrameOK
<1>2. FrameOK(h, l)  BY <1>1 DEF FrameOK
<1>3. \A t, d : RunsOK(h, t, d)  BY DEF RunsOK
<1> QED  BY <1>2, <1>3

\* A step of the top frame alone.
LEMMA TopMoves ==
    ASSUME TiersInv, frames # << >>, NEW f, FrameOK(f, live), RunsOK(f, code, dict),
           f.redir => f.pc = "eval", f.m = Top.m, f.after = C2IDone => Top.after = C2IDone,
           frames' = Append(Below, f), UNCHANGED <<dict, live, stale, ic, code>>
    PROVE  TiersInv' /\ Dispatches
<1>1. StackOK(frames, code, dict, live) /\ TableOK(code, dict, live)  BY DEF TiersInv
<1>2. PICK gs : gs = frames'  OBVIOUS
<1>3. \A j \in 1 .. Len(frames) - 1 : RunsOK(frames[j], code, dict)
  <2>1. DOMAIN frames = 1 .. Len(frames) /\ Len(frames) \in Nat  BY <1>1, SeqElements DEF StackOK
  <2> QED  BY <1>1, <2>1 DEF StackOK
<1>4. StackOK(gs, code, dict, live)
  <2>1. gs = Append(Below, f)  BY <1>2
  <2> QED  BY <1>1, <1>3, <2>1, TopGoesOn
<1>5. TiersInv'  BY <1>1, <1>2, <1>4, InvAgain
<1>6. Dispatches
  <2>1. /\ Below \in Seq(Frames) /\ Len(Below) = Len(frames) - 1 /\ Len(frames) \in Nat
    BY <1>1, TopIs
  <2>2. f \in Frames  BY DEF FrameOK
  <2>3. Len(Append(Below, f)) = Len(Below) + 1 /\ Len(Below) \in Nat
    BY <2>1, <2>2, SeqAppended, SeqElements
  <2>4. Len(frames') = Len(frames)  BY <2>1, <2>3
  <2> QED  BY <2>1, <2>4, NoPush
<1> QED  BY <1>5, <1>6

\* A call returns into a frame, which is then deoptimized if its return was redirected.
LEMMA ReturnIntoIs ==
    ASSUME NEW f, NEW t, NEW d, NEW l, FrameOK(f, l), RunsOK(f, t, d), f.m.s = "c",
           NEW pc \in {"send", "loop"}, NEW g, g = ReturnInto(f, pc)
    PROVE  /\ FrameOK(g, l) /\ RunsOK(g, t, d) /\ g.m = f.m /\ g.k = f.k /\ g.after = f.after
           /\ ~g.redir /\ g.pc = pc
<1>1. f \in Frames /\ f.redir \in BOOLEAN  BY FrameIs DEF FrameOK
<1>2. CASE f.redir
  <2>1. PICK o : o = Deopt(f)  OBVIOUS
  <2>2. 0 \in 0 .. NumSlots  BY Limits
  <2>3. /\ o \in Frames /\ o.k = f.k /\ o.m = f.m /\ o.tier = "D" /\ o.redir = FALSE /\ o.after = f.after
    BY <1>1, <2>1, <2>2 DEF Frames, Deopt
  <2>4. g = [o EXCEPT !.pc = pc]  BY <1>2, <2>1 DEF ReturnInto
  <2>5. /\ g \in Frames /\ g.k = f.k /\ g.m = f.m /\ g.tier = "D" /\ g.redir = FALSE /\ g.after = f.after
        /\ g.pc = pc
    BY <2>3, <2>4 DEF Frames
  <2> QED  BY <2>5, FrameLeaves
<1>3. CASE ~f.redir
  <2>1. g = [f EXCEPT !.pc = pc]  BY <1>3 DEF ReturnInto
  <2> QED  BY <1>3, <2>1, FrameMoves
<1> QED  BY <1>2, <1>3

\* The evaluator call returns, into the frame or into the deoptimizer.
LEMMA EvalDoneKeeps ==
    ASSUME TiersInv, EvalDone
    PROVE  TiersInv' /\ Dispatches
<1>1. /\ frames # << >> /\ Top.m.s = "c" /\ Top.pc = "eval" /\ frames' = Append(Below, ReturnInto(Top, "send"))
      /\ UNCHANGED <<dict, live, stale, ic, code>>
  BY DEF EvalDone
<1>2. PICK f, g : f = Top /\ g = ReturnInto(f, "send")  OBVIOUS
<1>3. FrameOK(f, live) /\ RunsOK(f, code, dict) /\ f.m.s = "c"
  BY <1>1, <1>2, TopIs DEF TiersInv
<1>4. FrameOK(g, live) /\ RunsOK(g, code, dict) /\ g.m = f.m /\ g.after = f.after /\ ~g.redir
  BY <1>2, <1>3, ReturnIntoIs
<1>5. frames' = Append(Below, g) /\ g.m = Top.m /\ g.after = Top.after  BY <1>1, <1>2, <1>4
<1> QED  BY <1>1, <1>4, <1>5, TopMoves

\* rt_poll at the back edge.
LEMMA LoopCompiledKeeps ==
    ASSUME TiersInv, LoopCompiled
    PROVE  TiersInv' /\ Dispatches
<1>1. PICK f, h : f = Top /\ h = IF code.armed /\ f.id \in NotEntrant(code) THEN Deopt(f) ELSE f  OBVIOUS
<1>2. PICK g : g = [h EXCEPT !.pc = "eval"]  OBVIOUS
<1>3. /\ frames # << >> /\ f.pc = "loop" /\ frames' = Append(Below, g)
      /\ UNCHANGED <<dict, live, stale, ic, code>>
  BY <1>1, <1>2 DEF LoopCompiled
<1>4. FrameOK(f, live) /\ RunsOK(f, code, dict) /\ f \in Frames  BY <1>1, <1>3, TopIs DEF TiersInv
<1>5. f.m.s = "c"  BY <1>3, <1>4, FrameIs, MethodIs DEF FrameOK
<1>6. /\ FrameOK(g, live) /\ RunsOK(g, code, dict) /\ g.m = f.m /\ g.after = f.after /\ g.pc = "eval"
  <2>1. CASE h = f
    <3>1. g = [f EXCEPT !.pc = "eval"]  BY <1>2, <2>1
    <3> QED  BY <1>4, <1>5, <3>1, FrameMoves
  <2>2. CASE h = Deopt(f)
    <3>1. PICK o : o = Deopt(f)  OBVIOUS
    <3>2. 0 \in 0 .. NumSlots /\ f \in Frames  BY <1>4, Limits DEF FrameOK
    <3>3. /\ o \in Frames /\ o.k = f.k /\ o.m = f.m /\ o.tier = "D" /\ o.redir = FALSE /\ o.after = f.after
      BY <3>1, <3>2 DEF Frames, Deopt
    <3>4. g = [o EXCEPT !.pc = "eval"]  BY <3>1, <1>2, <2>2
    <3>5. /\ g \in Frames /\ g.k = f.k /\ g.m = f.m /\ g.tier = "D" /\ g.redir = FALSE /\ g.after = f.after
          /\ g.pc = "eval"
      BY <3>3, <3>4 DEF Frames
    <3> QED  BY <1>4, <1>5, <3>5, FrameLeaves
  <2> QED  BY <1>1, <2>1, <2>2
<1>7. g.m = Top.m /\ g.after = Top.after  BY <1>1, <1>6
<1> QED  BY <1>3, <1>6, <1>7, TopMoves

\* The back edge of an interpreted loop.
LEMMA LoopInterpretedKeeps ==
    ASSUME TiersInv, LoopInterpreted
    PROVE  TiersInv' /\ Dispatches
<1>1. PICK g : g = [Top EXCEPT !.pc = "eval"]  OBVIOUS
<1>2. /\ frames # << >> /\ Top.pc = "loop" /\ frames' = Append(Below, g)
      /\ UNCHANGED <<dict, live, stale, ic, code>>
  BY <1>1 DEF LoopInterpreted
<1>3. FrameOK(Top, live) /\ RunsOK(Top, code, dict) /\ Top \in Frames  BY <1>2, TopIs DEF TiersInv
<1>4. Top.m.s = "c"  BY <1>2, <1>3, FrameIs, MethodIs DEF FrameOK
<1>5. /\ FrameOK(g, live) /\ RunsOK(g, code, dict) /\ g.m = Top.m /\ g.after = Top.after /\ g.pc = "eval"
  BY <1>1, <1>3, <1>4, FrameMoves
<1> QED  BY <1>2, <1>5, TopMoves

\* rt_uncommon_trap.
LEMMA UncommonTrapKeeps ==
    ASSUME TiersInv, NEW k, UncommonTrap(k)
    PROVE  TiersInv' /\ Dispatches
<1>1. PICK g : g = [Deopt(Top) EXCEPT !.after = Top.id]  OBVIOUS
<1>2. /\ frames # << >> /\ Top.tier = "C" /\ Top.pc = "send" /\ frames' = Append(Below, g)
      /\ UNCHANGED <<dict, live, stale, ic, code>>
  BY <1>1 DEF UncommonTrap
<1>3. FrameOK(Top, live) /\ Top \in Frames  BY <1>2, TopIs DEF TiersInv
<1>4. Top.m.s = "c" /\ Top.id \in Slots  BY <1>2, RoomAbove, TopRuns
<1>5. 0 \in 0 .. NumSlots /\ Top.id \in 0 .. NumSlots /\ Top.id # C2IDone
  <2>1. Top.id \in Nat  BY <1>4, Limits
  <2> QED  BY <1>4, <2>1, Limits DEF C2IDone
<1>6. PICK h : h = Deopt(Top)  OBVIOUS
<1>7. /\ h \in Frames /\ h.k = Top.k /\ h.m = Top.m /\ h.tier = "D" /\ h.id = 0
      /\ h.redir = FALSE /\ h.pc = Top.pc
  BY <1>3, <1>5, <1>6 DEF Frames, Deopt
<1>8. g = [h EXCEPT !.after = Top.id]  BY <1>1, <1>6
<1>9. /\ g \in Frames /\ g.k = Top.k /\ g.m = Top.m /\ g.tier = "D"
      /\ g.redir = FALSE /\ g.pc = "send" /\ g.after = Top.id
  BY <1>2, <1>5, <1>7, <1>8 DEF Frames
<1>10. FrameOK(g, live)  BY <1>3, <1>4, <1>5, <1>9 DEF FrameOK
<1>11. RunsOK(g, code, dict)  BY <1>9 DEF RunsOK
<1>12. ~g.redir /\ g.after # C2IDone  BY <1>5, <1>9
<1> QED  BY <1>2, <1>9, <1>10, <1>11, <1>12, TopMoves


\* rt_osr_request enters code of the method that runs.
LEMMA OsrRequestKeeps ==
    ASSUME Admit = {}, TiersInv, OsrRequest
    PROVE  TiersInv' /\ Dispatches
<1>1. /\ Around /\ TableOK(code, dict, live) /\ TableShape(code) /\ code \in Tables /\ stale = {}
      /\ StackOK(frames, code, dict, live) /\ DictOK(dict) /\ LiveOK(live)
  BY AroundIs DEF TiersInv, TableOK, TableShape
<1>2. PICK f, i, j : f = Top /\ i = code.osr[f.k] /\ j = code.byKey[f.k]["c"]  OBVIOUS
<1>3. /\ frames # << >> /\ f.tier \in {"I", "D"} /\ f.pc = "loop" /\ Look(f.k, "c") = f.m
      /\ UNCHANGED <<dict, live, stale, ic>>
  BY <1>2 DEF OsrRequest
<1>4. PICK v : v = IF j = 0 THEN 0 ELSE code.nm[j].version  OBVIOUS
<1>5. PICK r : /\ r \in IF i \in Alive(code) THEN {[t |-> code, id |-> i]} ELSE Compile(code, f.k, f.m, v, TRUE)
               /\ code' = r.t
               /\ frames' = Append(Below, [f EXCEPT !.pc = "eval", !.id = r.id,
                                             !.tier = IF r.id = 0 THEN @ ELSE "C"])
  BY <1>2, <1>4 DEF OsrRequest
<1>6. FrameOK(f, live) /\ f \in Frames /\ f.k \in live /\ f.k \in Classes
  BY <1>1, <1>2, <1>3, TopIs DEF FrameOK, LiveOK
<1>7. f.m.s = "c" /\ OnChain(f.k, f.m.h)  BY <1>3, <1>6, FrameIs, MethodIs DEF FrameOK
<1>8. f.m = Walk(dict, f.k, "c") /\ "c" \in Selectors  BY <1>1, <1>3, LookIs, Limits
<1>9. ResultOK(code, r, f.k, f.m)
  <2>1. CASE i \in Alive(code)
    <3>1. r = [t |-> code, id |-> i]  BY <1>5, <2>1
    <3>2. i # 0  BY <2>1, Limits DEF Alive
    <3>3. code.nm[i].k = f.k /\ code.nm[i].osr # "no"  BY <1>1, <1>2, <1>6, <3>2 DEF TableShape, OsrRight
    <3>4. code.nm[i].m.s = "c"
      <4>1. i \in Slots /\ code.nm[i].st # "free"  BY <2>1 DEF Alive
      <4> QED  BY <1>1, <3>3, <4>1 DEF TableShape, Formed
    <3>5. code.nm[i].m = f.m  BY <1>1, <1>8, <2>1, <3>3, <3>4 DEF TableOK, TableCurrent, Current
    <3> QED  BY <1>1, <2>1, <3>1, <3>3, <3>5, KeepsItself DEF ResultOK
  <2>2. CASE i \notin Alive(code)
    <3>1. PICK o \in BOOLEAN : r \in Compile(code, f.k, f.m, v, o)  BY <1>5, <2>2
    <3>2. v \in 0 .. MaxVersions
      <4>1. CASE j = 0  BY <1>4, <4>1, Limits
      <4>2. CASE j # 0
        <5>1. j \in Slots  BY <1>1, <1>2, <1>6, <1>8, <4>2, TableIs, Limits
        <5> QED  BY <1>1, <1>4, <4>2, <5>1, TableIs, NmethodIs
      <4> QED  BY <4>1, <4>2
    <3> QED  BY <1>1, <1>6, <1>8, <3>1, <3>2, CompileKeeps
  <2> QED  BY <2>1, <2>2
<1>10. TableOK(r.t, dict, live) /\ Keeps(code, r.t)  BY <1>9 DEF ResultOK
<1>11. PICK tier, g : tier = (IF r.id = 0 THEN f.tier ELSE "C") /\ g = [f EXCEPT !.pc = "eval", !.id = r.id, !.tier = tier]
  OBVIOUS
<1>12. r.id \in 0 .. NumSlots /\ (r.id # 0 => r.id \in Alive(r.t))
  <2>1. CASE r.id = 0  BY <2>1, Limits
  <2>2. CASE r.id # 0  BY <1>9, <2>2, Limits DEF ResultOK, Alive
  <2> QED  BY <2>1, <2>2
<1>13. /\ g \in Frames /\ g.k = f.k /\ g.m = f.m /\ g.tier = tier /\ g.id = r.id /\ g.redir = f.redir
       /\ g.after = f.after /\ g.pc = "eval"
  BY <1>3, <1>6, <1>11, <1>12 DEF Frames
<1>14. FrameOK(g, live)  BY <1>3, <1>6, <1>7, <1>11, <1>13 DEF FrameOK
<1>15. RunsOK(g, r.t, dict)
  <2>1. CASE r.id = 0  BY <1>3, <1>11, <1>13, <2>1 DEF RunsOK
  <2>2. CASE r.id # 0
    <3>1. g.id \in Alive(r.t) /\ r.t.nm[g.id].m = g.m /\ r.t.nm[g.id].k = g.k  BY <1>9, <1>13, <2>2 DEF ResultOK
    <3>2. OnChain(g.k, g.k)  BY <1>6, <1>13, OnOwnChain
    <3> QED  BY <1>10, <3>1, <3>2, AliveRuns
  <2> QED  BY <2>1, <2>2
<1>16. frames' = Append(Below, g) /\ g.m = Top.m /\ g.after = Top.after
  BY <1>2, <1>5, <1>6, <1>11, <1>13 DEF Frames
<1>17. \A x \in 1 .. Len(frames) - 1 : RunsOK(frames[x], r.t, dict)
  <2>1. DOMAIN frames = 1 .. Len(frames) /\ Len(frames) \in Nat  BY <1>1, SeqElements DEF StackOK
  <2>2. \A x \in DOMAIN frames : RunsOK(frames[x], r.t, dict)  BY <1>1, <1>10, RunsStay DEF StackOK
  <2> QED  BY <2>1, <2>2
<1>18. PICK gs : gs = frames'  OBVIOUS
<1>19. StackOK(gs, r.t, dict, live)
  <2>1. gs = Append(Below, g)  BY <1>16, <1>18
  <2> QED  BY <1>1, <1>3, <1>13, <1>14, <1>15, <1>16, <1>17, <2>1, TopGoesOn
<1>20. TiersInv'  BY <1>3, <1>5, <1>10, <1>18, <1>19, InvAgain
<1>21. Dispatches
  <2>1. Below \in Seq(Frames) /\ Len(Below) = Len(frames) - 1 /\ Len(frames) \in Nat  BY <1>1, <1>3, TopIs
  <2>2. Len(Append(Below, g)) = Len(Below) + 1 /\ Len(Below) \in Nat
    BY <1>13, <2>1, SeqAppended, SeqElements
  <2>3. Len(frames') = Len(frames)  BY <1>16, <2>1, <2>2
  <2> QED  BY <2>1, <2>3, NoPush
<1> QED  BY <1>20, <1>21


-----------------------------------------------------------------------------
(* Completing an activation.                                               *)

\* A table in which every activation goes on as it did.
GoesOn(t, u) == TableOK(u, dict, live) /\ \A f : RunsOK(f, t, dict) => RunsOK(f, u, dict)

\* GoesOn is transitive, and follows from Keeps.
LEMMA GoesOnFacts ==
    ASSUME NEW t, TableOK(t, dict, live)
    PROVE  /\ GoesOn(t, t)
           /\ \A u, w : GoesOn(t, u) /\ GoesOn(u, w) => GoesOn(t, w)
           /\ \A u : TableOK(u, dict, live) /\ Keeps(t, u) => GoesOn(t, u)
<1>1. t \in Tables  BY DEF TableOK, TableShape
<1>2. \A u : TableOK(u, dict, live) /\ Keeps(t, u) => GoesOn(t, u)
  BY <1>1, RunsStay DEF GoesOn
<1> QED  BY <1>2 DEF GoesOn

\* A table with one nmethod changed.
Changed(t, i, n) == [t EXCEPT !.nm = [t.nm EXCEPT ![i] = n]]

\* The parts of such a table.
LEMMA OneChanged ==
    ASSUME NEW t \in Tables, NEW i \in Slots, NEW n \in Nmethods, NEW u, u = Changed(t, i, n)
    PROVE  /\ u \in Tables /\ u.byKey = t.byKey /\ u.osr = t.osr /\ u.armed = t.armed /\ u.jit = t.jit
           /\ u.nm[i] = n /\ \A j \in Slots : j # i => u.nm[j] = t.nm[j]
<1>1. PICK nm : nm = [t.nm EXCEPT ![i] = n]  OBVIOUS
<1>2. t.nm \in [Slots -> Nmethods]  BY TableIs
<1>3. nm \in [Slots -> Nmethods] /\ nm[i] = n /\ \A j \in Slots : j # i => nm[j] = t.nm[j]
  BY <1>1, <1>2
<1>4. u = [t EXCEPT !.nm = nm]  BY <1>1 DEF Changed
<1>5. u \in Tables /\ u.nm = nm /\ u.byKey = t.byKey /\ u.osr = t.osr /\ u.armed = t.armed /\ u.jit = t.jit
  BY <1>3, <1>4 DEF Tables
<1> QED  BY <1>3, <1>5

\* A change of the counters of one nmethod.
LEMMA CountersChanged ==
    ASSUME NEW t, TableOK(t, dict, live), NEW i \in Slots, t.nm[i].st # "free", NEW n \in Nmethods,
           SameCode(n, t.nm[i]), n.site = t.nm[i].site,
           NEW u, u = Changed(t, i, n)
    PROVE  GoesOn(t, u) /\ Alive(u) = Alive(t)
<1>1. t \in Tables  BY DEF TableOK, TableShape
<1>2. /\ u \in Tables /\ u.byKey = t.byKey /\ u.osr = t.osr
      /\ u.nm[i] = n /\ \A j \in Slots : j # i => u.nm[j] = t.nm[j]
  BY <1>1, OneChanged
<1>3. Formed(n)
  <2>1. Formed(t.nm[i])  BY DEF TableOK, TableShape
  <2> QED  BY <2>1 DEF Formed, SameCode
<1>4. SiteRight(t, i) => ArmsRight(t, n.site.arms)
  <2>1. PICK a : a = t.nm[i].site.arms  OBVIOUS
  <2>2. SiteRight(t, i) => ArmsRight(t, a)  BY <2>1 DEF SiteRight, ArmsRight
  <2> QED  BY <2>1, <2>2
<1>5. SameCode(u.nm[i], t.nm[i]) /\ Formed(u.nm[i]) /\ (SiteRight(t, i) => ArmsRight(t, u.nm[i].site.arms))
  BY <1>2, <1>3, <1>4
<1>6. TableOK(u, dict, live) /\ Alive(u) = Alive(t) /\ \A f : RunsOK(f, t, dict) => RunsOK(f, u, dict)
  BY <1>2, <1>5, SiteChanged
<1> QED  BY <1>6 DEF GoesOn

\* note_uncommon_trap: whatever has the id by now is counted, and perhaps replaced.
LEMMA TrapNoted ==
    ASSUME Around, NEW t, TableOK(t, dict, live), NEW i \in Slots, NEW u \in NoteUncommonTrap(t, i)
    PROVE  GoesOn(t, u)
<1>1. /\ t \in Tables /\ stale = {} /\ DictOK(dict) /\ LiveOK(live) /\ GoesOn(t, t)
  BY GoesOnFacts DEF TableOK, TableShape, Around
<1>2. PICK n, m, c : /\ n = t.nm[i] /\ m = Look(n.k, n.m.s)
                     /\ c = IF n.traps < TrapLimit THEN n.traps + 1 ELSE n.traps
  OBVIOUS
<1>3. n \in Nmethods  BY <1>1, <1>2, TableIs
<1>4. c \in 0 .. TrapLimit /\ 0 \in 0 .. TrapLimit /\ MaxVersions \in 0 .. MaxVersions
  <2>1. PICK x : x = n.traps  OBVIOUS
  <2>2. x \in 0 .. TrapLimit /\ TrapLimit \in Nat /\ MaxVersions \in Nat  BY <1>3, <2>1, NmethodIs, Limits
  <2>3. c = IF x < TrapLimit THEN x + 1 ELSE x  BY <1>2, <2>1
  <2> QED  BY <2>2, <2>3
<1>5. PICK nc, nz : nc = [n EXCEPT !.traps = c] /\ nz = [n EXCEPT !.traps = 0]  OBVIOUS
<1>6. PICK tc, tz : tc = Changed(t, i, nc) /\ tz = Changed(t, i, nz)  OBVIOUS
<1>7. tc = [t EXCEPT !.nm[i].traps = IF n.traps < TrapLimit THEN n.traps + 1 ELSE @]
  BY <1>1, <1>2, <1>3, <1>5, <1>6 DEF Tables, Nmethods, Changed
<1>8. tz = [t EXCEPT !.nm[i].traps = 0]
  BY <1>1, <1>2, <1>3, <1>5, <1>6 DEF Tables, Nmethods, Changed
<1>9. /\ nc \in Nmethods /\ SameCode(nc, n) /\ nc.site = n.site /\ nc.version = n.version
      /\ nz \in Nmethods /\ SameCode(nz, n) /\ nz.site = n.site
  BY <1>3, <1>4, <1>5 DEF Nmethods, SameCode
<1>10. CASE i \notin Alive(t)
  <2>1. u = t  BY <1>10 DEF NoteUncommonTrap
  <2> QED  BY <1>1, <2>1
<1>11. CASE i \in Alive(t)
  <2>1. n.st # "free" /\ Current(n, dict, live) /\ Formed(n)
    BY <1>2, <1>11 DEF Alive, TableOK, TableCurrent, TableShape
  <2>2. GoesOn(t, tc) /\ Alive(tc) = Alive(t)  BY <1>2, <1>6, <1>9, <2>1, CountersChanged
  <2>3. GoesOn(t, tz)  BY <1>2, <1>6, <1>9, <2>1, CountersChanged
  <2>4. CASE u = tc \/ u = tz  BY <2>2, <2>3, <2>4
  <2>5. CASE ~(u = tc \/ u = tz)
    <3>1. PICK r \in Replace(tc, i, m, n.version + 1) :
             u = IF r.id = 0 THEN [r.t EXCEPT !.nm[i].version = MaxVersions] ELSE r.t
      BY <1>2, <1>7, <1>8, <1>11, <2>5 DEF NoteUncommonTrap
    <3>2. ~ThrashCapped(n)
      BY <1>2, <1>7, <1>8, <1>11, <2>5 DEF NoteUncommonTrap
    <3>3. n.version + 1 \in 0 .. MaxVersions
      <4>1. n.version \in 0 .. MaxVersions /\ MaxVersions \in Nat  BY <1>3, NmethodIs, Limits
      <4> QED  BY <3>2, <4>1 DEF ThrashCapped
    <3>4. m = Walk(dict, n.k, n.m.s)  BY <1>1, <1>2, LookIs
    <3>5. n.m.s \in Selectors  BY <2>1, MethodIs, Limits DEF Formed
    <3>6. /\ tc.nm[i] = nc /\ tc \in Tables  BY <1>1, <1>6, <1>9, OneChanged
    <3>7. tc.nm[i].k = n.k  BY <1>9, <3>6 DEF SameCode
    <3>8. TableOK(tc, dict, live)  BY <2>2 DEF GoesOn
    <3>9. PICK v : v = n.version + 1  OBVIOUS
    <3>10. /\ ResultOK(tc, r, n.k, m) /\ (r.id = 0 => r.t = [tc EXCEPT !.jit = FALSE])
      <4>1. r \in Replace(tc, i, m, v) /\ v \in 0 .. MaxVersions  BY <3>1, <3>3, <3>9
      <4> QED  BY <1>11, <2>2, <3>4, <3>5, <3>7, <3>8, <4>1, ReplaceKeeps
    <3>11. GoesOn(t, r.t)  BY <1>1, <2>2, <3>8, <3>10, GoesOnFacts DEF ResultOK
    <3>12. CASE r.id # 0  BY <3>1, <3>11, <3>12
    <3>13. CASE r.id = 0
      <4>1. PICK w : w = r.t  OBVIOUS
      <4>2. w.nm[i] = nc /\ w \in Tables /\ TableOK(w, dict, live)
        BY <3>6, <3>10, <3>13, <4>1 DEF Tables, ResultOK
      <4>3. PICK nv : nv = [nc EXCEPT !.version = MaxVersions]  OBVIOUS
      <4>4. nv \in Nmethods /\ SameCode(nv, nc) /\ nv.site = nc.site
        BY <1>4, <1>9, <4>3 DEF Nmethods, SameCode
      <4>5. u = Changed(w, i, nv)
        BY <3>1, <3>13, <4>1, <4>2, <4>3 DEF Tables, Nmethods, Changed
      <4>6. w.nm[i].st # "free"  BY <1>9, <2>1, <4>2 DEF SameCode
      <4>7. GoesOn(w, u)  BY <4>2, <4>4, <4>5, <4>6, CountersChanged
      <4> QED  BY <3>11, <4>1, <4>7, GoesOnFacts
    <3> QED  BY <3>12, <3>13
  <2> QED  BY <2>4, <2>5
<1> QED  BY <1>10, <1>11


\* A site linked anew.
LEMMA SiteReplaced ==
    ASSUME NEW t, TableOK(t, dict, live), NEW i \in Slots, t.nm[i].st # "free", ~IsSuper(t.nm[i].m),
           NEW n \in Nmethods, SameCode(n, t.nm[i]), n.site.t = "mono" => DOMAIN n.site.arms # {},
           SiteRight(t, i) => ArmsRight(t, n.site.arms), NEW u, u = Changed(t, i, n)
    PROVE  GoesOn(t, u)
<1>1. t \in Tables  BY DEF TableOK, TableShape
<1>2. /\ u \in Tables /\ u.byKey = t.byKey /\ u.osr = t.osr
      /\ u.nm[i] = n /\ \A j \in Slots : j # i => u.nm[j] = t.nm[j]
  BY <1>1, OneChanged
<1>3. Formed(n)
  <2>1. Formed(t.nm[i])  BY DEF TableOK, TableShape
  <2>2. n.m = t.nm[i].m /\ n.osr = t.nm[i].osr /\ n.inl = t.nm[i].inl  BY DEF SameCode
  <2> QED  BY <2>1, <2>2 DEF Formed
<1>4. SameCode(u.nm[i], t.nm[i]) /\ Formed(u.nm[i]) /\ (SiteRight(t, i) => ArmsRight(t, u.nm[i].site.arms))
  BY <1>2, <1>3
<1>5. TableOK(u, dict, live) /\ \A f : RunsOK(f, t, dict) => RunsOK(f, u, dict)
  BY <1>2, <1>4, SiteChanged
<1> QED  BY <1>5 DEF GoesOn

\* The end of rt_interpret_call links the caller's site to code of the class it sent to.
LEMMA Repointed ==
    ASSUME NEW t, TableOK(t, dict, live), NEW c \in Slots, t.nm[c].st # "free", NEW k \in Classes,
           NEW i \in Alive(t), t.nm[i].k = k, t.nm[i].m.s = "f", NEW u \in Repoint(t, c, k, i)
    PROVE  GoesOn(t, u)
<1>1. t \in Tables /\ TableShape(t) /\ GoesOn(t, t)  BY GoesOnFacts DEF TableOK, TableShape
<1>2. PICK n : n = t.nm[c]  OBVIOUS
<1>3. n \in Nmethods /\ n.site \in Site /\ i \in Slots /\ t.nm[i].st # "free"
  BY <1>1, <1>2, TableIs, NmethodIs DEF Alive
<1>4. CASE ~IsSuper(n.m) /\ n.site.t = "mono" /\ k \in DOMAIN n.site.arms
  <2>1. PICK y, o : y = Mono(k, i) /\ o = [n EXCEPT !.site = y]  OBVIOUS
  <2>2. y \in Site /\ DOMAIN y.arms = {k} /\ y.arms[k] = i  BY <1>3, <2>1, SitesMade
  <2>3. o \in Nmethods /\ SameCode(o, n) /\ o.site = y  BY <1>3, <2>1, <2>2 DEF Nmethods, SameCode
  <2>4. ArmsRight(t, y.arms)  BY <1>3, <2>2 DEF ArmsRight
  <2>5. u = [t EXCEPT !.nm[c].site = y]  BY <1>2, <1>4, <2>1 DEF Repoint
  <2>6. u = Changed(t, c, o)  BY <1>1, <1>2, <2>1, <2>5 DEF Changed, Tables
  <2> QED  BY <1>2, <1>4, <2>2, <2>3, <2>4, <2>6, SiteReplaced
<1>5. CASE ~IsSuper(n.m) /\ n.site.t = "pic" /\ k \in DOMAIN n.site.arms
  <2>1. PICK x : x = ResolveTarget(t, k)  OBVIOUS
  <2>2. u = t \/ u = [t EXCEPT !.nm[c].site.arms[k] = x]
    <3>1. n.site.t # "mono"  BY <1>5
    <3> QED  BY <1>2, <1>5, <2>1, <3>1 DEF Repoint
  <2>3. CASE u = t  BY <1>1, <2>3
  <2>4. CASE u = [t EXCEPT !.nm[c].site.arms[k] = x]
    <3>1. PICK a : a = [n.site.arms EXCEPT ![k] = x]  OBVIOUS
    <3>2. PICK y : y = [n.site EXCEPT !.arms = a]  OBVIOUS
    <3>3. PICK o : o = [n EXCEPT !.site = y]  OBVIOUS
    <3>4. /\ x \in Slots \cup {C2I}
          /\ x # C2I => t.nm[x].st = "alive" /\ t.nm[x].k = k /\ t.nm[x].m.s = "f"
      BY <1>1, <2>1, ResolveIs
    <3>5. /\ DOMAIN n.site.arms \subseteq Classes
          /\ n.site.arms \in [DOMAIN n.site.arms -> Slots \cup {C2I}]
      BY <1>3, SiteIs
    <3>6. a \in [DOMAIN n.site.arms -> Slots \cup {C2I}] /\ a[k] = x
          /\ \A j \in DOMAIN n.site.arms : j # k => a[j] = n.site.arms[j]
      BY <1>5, <3>1, <3>4, <3>5
    <3>7. y \in Site /\ y.t = "pic" /\ y.arms = a  BY <1>3, <1>5, <3>2, <3>5, <3>6 DEF Site
    <3>8. o \in Nmethods /\ SameCode(o, n) /\ o.site = y  BY <1>3, <3>3, <3>7 DEF Nmethods, SameCode
    <3>9. SiteRight(t, c) => ArmsRight(t, a)
      <4> SUFFICES ASSUME SiteRight(t, c), NEW j \in DOMAIN a, a[j] # C2I
                   PROVE  t.nm[a[j]].st # "free" /\ t.nm[a[j]].m.s = "f" /\ t.nm[a[j]].k = j
        BY DEF ArmsRight
      <4>1. CASE j = k  BY <3>4, <3>6, <4>1
      <4>2. CASE j # k
        <5>1. j \in DOMAIN n.site.arms /\ a[j] = n.site.arms[j]  BY <3>6, <4>2
        <5> QED  BY <1>2, <5>1 DEF SiteRight
      <4> QED  BY <4>1, <4>2
    <3>10. u = Changed(t, c, o)
      <4>1. u = [t EXCEPT !.nm[c].site = y]
        BY <1>1, <1>2, <1>3, <2>4, <3>1, <3>2 DEF Tables, Nmethods, Site
      <4> QED  BY <1>1, <1>2, <3>3, <4>1 DEF Changed, Tables
    <3> QED  BY <1>2, <1>5, <3>7, <3>8, <3>9, <3>10, SiteReplaced
  <2> QED  BY <2>2, <2>3, <2>4
<1>6. CASE ~(~IsSuper(n.m) /\ n.site.t \in {"mono", "pic"} /\ k \in DOMAIN n.site.arms)
  <2>1. u = t  BY <1>2, <1>6 DEF Repoint
  <2> QED  BY <1>1, <2>1
<1> QED  BY <1>4, <1>5, <1>6

\* rt_interpret_call after the activation: the method may be compiled, and the caller linked.
LEMMA HatchKeeps ==
    ASSUME Around, NEW t, TableOK(t, dict, live), NEW c \in Slots, t.nm[c].st # "free", NEW k \in live,
           NEW m, m.s = "f", NEW u \in C2IHatch(t, c, k, m)
    PROVE  GoesOn(t, u)
<1>1. /\ GoesOn(t, t) /\ stale = {} /\ k \in Classes /\ "f" \in Selectors
  BY GoesOnFacts, Limits DEF Around, LiveOK
<1>2. CASE u = t  BY <1>1, <1>2
<1>3. CASE u # t
  <2>1. IsDispatchTruth(k, m)  BY <1>3 DEF C2IHatch
  <2>2. PICK r \in CompiledFor(t, k, m) : u \in IF r.id = 0 THEN {r.t} ELSE Repoint(r.t, c, k, r.id)
    BY <1>3 DEF C2IHatch
  <2>3. m = Walk(dict, k, "f")  BY <1>1, <2>1, LookIs DEF IsDispatchTruth
  <2>4. ResultOK(t, r, k, m)  BY <1>1, <2>2, <2>3, CompiledForKeeps
  <2>5. TableOK(r.t, dict, live) /\ Keeps(t, r.t) /\ GoesOn(t, r.t)
    BY <2>4, GoesOnFacts DEF ResultOK
  <2>6. CASE r.id = 0  BY <2>2, <2>5, <2>6
  <2>7. CASE r.id # 0
    <3>1. u \in Repoint(r.t, c, k, r.id)  BY <2>2, <2>7
    <3>2. r.id \in Alive(r.t) /\ r.t.nm[r.id].k = k /\ r.t.nm[r.id].m.s = "f"
      BY <2>4, <2>7 DEF ResultOK
    <3>3. r.t.nm[c].st # "free"  BY <2>5 DEF Keeps
    <3>4. PICK w, i : w = r.t /\ i = r.id  OBVIOUS
    <3>5. GoesOn(w, u)  BY <1>1, <2>5, <3>1, <3>2, <3>3, <3>4, Repointed
    <3> QED  BY <2>5, <3>4, <3>5, GoesOnFacts
  <2> QED  BY <2>6, <2>7
<1> QED  BY <1>2, <1>3


\* What the runtime does when an activation completes.
LEMMA CompletedKeeps ==
    ASSUME Admit = {}, TiersInv, frames # << >>, NEW u \in Completed(Top)
    PROVE  GoesOn(code, u)
<1>1. /\ Around /\ TableOK(code, dict, live) /\ StackOK(frames, code, dict, live)
      /\ GoesOn(code, code)
  BY AroundIs, GoesOnFacts DEF TiersInv
<1>2. PICK f, L : f = Top /\ L = Len(frames)  OBVIOUS
<1>3. /\ L \in Nat \ {0} /\ L \in DOMAIN frames /\ f = frames[L] /\ f \in Frames /\ FrameOK(f, live)
      /\ PlaceOK(frames, L) /\ Len(Below) = L - 1 /\ \A j \in 1 .. L - 1 : Below[j] = frames[j]
      /\ DOMAIN frames = 1 .. L
  BY <1>1, <1>2, TopIs, SeqElements DEF StackOK
<1>4. f.after \in {C2IDone} \cup 0 .. NumSlots  BY <1>3, FrameIs
<1>5. CASE f.after = 0
  <2>1. u = code  BY <1>2, <1>5 DEF Completed, C2IDone
  <2> QED  BY <1>1, <2>1
<1>6. CASE f.after = C2IDone
  <2>1. PICK c : c = Below[Len(Below)].id  OBVIOUS
  <2>2. f.after # 0 /\ ~(f.after > 0)  BY <1>6 DEF C2IDone
  <2>3. u \in C2IHatch(code, c, f.k, f.m)  BY <1>2, <1>6, <2>1, <2>2 DEF Completed
  <2>4. L > 1 /\ frames[L - 1].tier = "C"  BY <1>3, <1>6 DEF PlaceOK
  <2>5. L - 1 \in DOMAIN frames /\ L - 1 \in 1 .. L - 1  BY <1>3, <2>4
  <2>6. c = frames[L - 1].id  BY <1>3, <2>1, <2>5
  <2>7. RunsOK(frames[L - 1], code, dict)  BY <1>1, <2>5 DEF StackOK
  <2>8. c \in Slots /\ code.nm[c].st # "free"  BY <2>4, <2>6, <2>7 DEF RunsOK
  <2>9. f.k \in live /\ f.m.s = "f"  BY <1>3, <1>6 DEF FrameOK
  <2> QED  BY <1>1, <2>3, <2>8, <2>9, HatchKeeps
<1>7. CASE f.after \in 0 .. NumSlots /\ f.after # 0
  <2>1. f.after > 0 /\ f.after # C2IDone /\ f.after \in Slots  BY <1>7, Limits DEF C2IDone
  <2>2. u \in NoteUncommonTrap(code, f.after)  BY <1>2, <1>7, <2>1 DEF Completed
  <2> QED  BY <1>1, <2>1, <2>2, TrapNoted
<1> QED  BY <1>4, <1>5, <1>6, <1>7

\* An activation completes.
LEMMA ReturnKeeps ==
    ASSUME Admit = {}, TiersInv, Return
    PROVE  TiersInv' /\ Dispatches
<1>1. /\ frames # << >> /\ code' \in Completed(Top) /\ UNCHANGED <<dict, live, stale, ic>>
  BY DEF Return
<1>2. PICK u, gs, n : u = code' /\ gs = frames' /\ n = Len(frames) - 1  OBVIOUS
<1>3. TableOK(u, dict, live) /\ \A f : RunsOK(f, code, dict) => RunsOK(f, u, dict)
  BY <1>1, <1>2, CompletedKeeps DEF GoesOn
<1>4. StackOK(frames, code, dict, live)  BY DEF TiersInv
<1>5. /\ n \in Nat /\ Len(frames) = n + 1 /\ n + 1 <= MaxDepth /\ DOMAIN frames = 1 .. n + 1
  <2>1. Len(frames) \in Nat \ {0} /\ Len(frames) <= MaxDepth /\ DOMAIN frames = 1 .. Len(frames)
    BY <1>1, <1>4, TopIs, SeqElements DEF StackOK
  <2> QED  BY <1>2, <2>1
<1>6. PICK g : g = IF frames[n].pc = "send" THEN ReturnInto(frames[n], "loop") ELSE frames[n]  OBVIOUS
<1>7. gs = [j \in 1 .. n |-> IF j = n THEN g ELSE frames[j]]
  <2>1. gs = [j \in 1 .. n |-> IF j = n /\ frames[j].pc = "send" THEN ReturnInto(frames[j], "loop") ELSE frames[j]]
    BY <1>2 DEF Return
  <2>2. \A j \in 1 .. n : (IF j = n /\ frames[j].pc = "send" THEN ReturnInto(frames[j], "loop") ELSE frames[j])
                          = IF j = n THEN g ELSE frames[j]
    BY <1>6
  <2> QED  BY <2>1, <2>2
<1>8. StackOK(gs, u, dict, live) /\ Len(gs) = n
  <2>1. CASE n = 0
    <3>1. gs = << >>  BY <1>7, <2>1
    <3>2. gs \in Seq(Frames) /\ Len(gs) = 0 /\ DOMAIN gs = {}  BY <3>1
    <3> QED  BY <1>5, <2>1, <3>2, Limits DEF StackOK
  <2>2. CASE n # 0
    <3>1. n \in DOMAIN frames /\ n < Len(frames) /\ n \in 1 .. n  BY <1>5, <2>2
    <3>2. FrameOK(frames[n], live) /\ RunsOK(frames[n], u, dict) /\ PlaceOK(frames, n)
      BY <1>3, <1>4, <3>1 DEF StackOK
    <3>3. frames[n].m.s = "c" /\ frames[n].pc \in {"eval", "send"}  BY <3>1, <3>2 DEF PlaceOK
    <3>4. /\ FrameOK(g, live) /\ RunsOK(g, u, dict) /\ g.m = frames[n].m /\ g.after = frames[n].after
          /\ g.redir => g.pc = "eval"
      <4>1. CASE frames[n].pc = "send"
        <5>1. g = ReturnInto(frames[n], "loop")  BY <1>6, <4>1
        <5> QED  BY <3>2, <3>3, <5>1, ReturnIntoIs
      <4>2. CASE frames[n].pc # "send"
        <5>1. g = frames[n]  BY <1>6, <4>2
        <5> QED  BY <3>2, <3>3, <4>2, <5>1
      <4> QED  BY <4>1, <4>2
    <3>5. \A j \in 1 .. n - 1 : j \in DOMAIN frames /\ RunsOK(frames[j], u, dict) /\ gs[j] = frames[j]
      <4> TAKE j \in 1 .. n - 1
      <4>1. j \in 1 .. n /\ j # n /\ j \in DOMAIN frames  BY <1>5
      <4>2. RunsOK(frames[j], code, dict)  BY <1>4, <4>1 DEF StackOK
      <4> QED  BY <1>3, <1>7, <4>1, <4>2
    <3>6. gs[n] = g  BY <1>7, <3>1
    <3>7. gs \in Seq(Frames) /\ Len(gs) = n
      <4>1. gs = [j \in 1 .. n |-> gs[j]]  BY <1>7
      <4>2. \A j \in 1 .. n : gs[j] \in Frames
        <5> TAKE j \in 1 .. n
        <5>1. CASE j = n  BY <3>4, <3>6, <5>1 DEF FrameOK
        <5>2. CASE j # n
          <6>1. j \in 1 .. n - 1  BY <1>5, <5>2
          <6>2. FrameOK(frames[j], live)  BY <1>4, <3>5, <6>1 DEF StackOK
          <6> QED  BY <3>5, <6>1, <6>2 DEF FrameOK
        <5> QED  BY <5>1, <5>2
      <4> QED  BY <1>5, <4>1, <4>2, SeqMade
    <3>8. g.m.s = "c" => n < MaxDepth  BY <3>2, <3>3 DEF PlaceOK
    <3>9. g.after = C2IDone => n > 1 /\ frames[n - 1].tier = "C" /\ frames[n - 1].pc = "send"
      BY <3>2, <3>4 DEF PlaceOK
    <3>10. n > 1 => frames[n - 1].m.s = "c" /\ frames[n - 1].pc \in {"eval", "send"}
      <4> SUFFICES ASSUME n > 1 PROVE frames[n - 1].m.s = "c" /\ frames[n - 1].pc \in {"eval", "send"}
        OBVIOUS
      <4>1. n - 1 \in DOMAIN frames /\ n - 1 < Len(frames)  BY <1>5
      <4>2. PlaceOK(frames, n - 1)  BY <1>4, <4>1 DEF StackOK
      <4> QED  BY <4>1, <4>2 DEF PlaceOK
    <3>11. n \in Nat \ {0} /\ n <= Len(frames) + 1 /\ n <= MaxDepth  BY <1>5, <2>2, Limits
    <3>12. \A j \in 1 .. n - 1 : RunsOK(frames[j], u, dict)  BY <3>5
    <3>13. \A j \in 1 .. n - 1 : gs[j] = frames[j]  BY <3>5
    <3>14. StackOK(gs, u, dict, live)
      BY ONLY <1>4, <3>4, <3>6, <3>7, <3>8, <3>9, <3>10, <3>11, <3>12, <3>13, TopChanged
    <3> QED  BY <3>7, <3>14
  <2> QED  BY <2>1, <2>2
<1>9. TiersInv'  BY <1>1, <1>2, <1>3, <1>8, InvAgain
<1>10. Dispatches  BY <1>2, <1>5, <1>8, NoPush
<1> QED  BY <1>9, <1>10


-----------------------------------------------------------------------------
(* Redefinition.                                                           *)

\* The dictionaries after a redefinition of (h, s).
Redefined(d, h, s) == [d EXCEPT ![h][s] = @ + 1]

\* They are dictionaries, and lookups of other selectors, and those
\* that start at a class h is not a superclass of, find what they did.
LEMMA RedefinedDict ==
    ASSUME NEW d, DictOK(d), NEW h \in Classes, NEW s \in Selectors,
           [h |-> h, s |-> s, v |-> d[h][s] + 1] \in Redefinitions,
           NEW e, e = Redefined(d, h, s)
    PROVE  /\ DictOK(e)
           /\ \A k \in Classes, q \in Selectors : q # s \/ ~OnChain(k, h) => Walk(e, k, q) = Walk(d, k, q)
<1>1. d \in [Classes -> [Selectors -> 0 .. 2]]  BY DEF DictOK
<1>2. d[h][s] + 1 \in 1 .. 2 /\ [h |-> h, s |-> s, v |-> d[h][s] + 1] \in Methods
  <2>1. Redefinitions \subseteq [h : Classes, s : Selectors, v : 1 .. 2]  BY TiersAssumption
  <2>2. [h |-> h, s |-> s, v |-> d[h][s] + 1] \in [h : Classes, s : Selectors, v : 1 .. 2]  BY <2>1
  <2> QED  BY <2>2 DEF Methods
<1>3. PICK v : v = d[h][s] + 1  OBVIOUS
<1>4. /\ e \in [Classes -> [Selectors -> 0 .. 2]] /\ e[h][s] = v
      /\ \A g \in Classes, q \in Selectors : g # h \/ q # s => e[g][q] = d[g][q]
  BY <1>1, <1>2, <1>3 DEF Redefined
<1>5. DictOK(e)
  <2>1. \A q \in Selectors : e[Root][q] > 0
    <3> TAKE q \in Selectors
    <3>1. d[Root][q] > 0 /\ Root \in Classes  BY ChainEquations DEF DictOK
    <3> QED  BY <1>2, <1>3, <1>4, <3>1
  <2>2. ASSUME NEW g \in Classes, NEW q \in Selectors, e[g][q] > 0
        PROVE  [h |-> g, s |-> q, v |-> e[g][q]] \in Methods
    <3>1. CASE g = h /\ q = s  BY <1>2, <1>3, <1>4, <3>1
    <3>2. CASE g # h \/ q # s
      <4>1. e[g][q] = d[g][q]  BY <1>4, <3>2
      <4> QED  BY <2>2, <4>1 DEF DictOK
    <3> QED  BY <3>1, <3>2
  <2> QED  BY <1>4, <2>1, <2>2 DEF DictOK
<1>6. ASSUME NEW k \in Classes, NEW q \in Selectors, q # s \/ ~OnChain(k, h)
      PROVE  Walk(e, k, q) = Walk(d, k, q)
  <2>1. \A g \in Classes : OnChain(k, g) => e[g][q] = d[g][q]  BY <1>4, <1>6
  <2>2. DictOK(d) /\ k \in Classes /\ q \in Selectors  OBVIOUS
  <2> QED  BY ONLY <2>1, <2>2, WalkSame
<1> QED  BY <1>5, <1>6

\* affected_by_install finds all the alive code that the redefinition makes wrong.
LEMMA UnaffectedStaysCurrent ==
    ASSUME NEW t, NEW d, NEW l, DictOK(d), l \subseteq Classes, TableOK(t, d, l),
           NEW h \in Classes, NEW s \in Selectors, NEW e,
           \A k \in Classes, q \in Selectors : q # s \/ ~OnChain(k, h) => Walk(e, k, q) = Walk(d, k, q),
           NEW i \in Alive(t), i \notin AffectedByInstall(t, h, s)
    PROVE  Current(t.nm[i], e, l)
<1>1. PICK n : n = t.nm[i]  OBVIOUS
<1>2. Current(n, d, l) /\ Formed(n) /\ n \in Nmethods
  <2>1. i \in Slots /\ t.nm[i].st # "free" /\ t \in Tables  BY DEF Alive, TableOK, TableShape
  <2> QED  BY <1>1, <2>1, TableIs DEF TableOK, TableCurrent, TableShape
<1>3. /\ ~(n.m.s = s /\ OnChain(n.k, h))
      /\ ~(n.inl # NoInline /\ n.inl.m.s = s /\ OnChain(n.inl.k, h))
  BY <1>1 DEF AffectedByInstall
<1>4. n.k \in l /\ n.k \in Classes /\ n.m.s \in Selectors /\ n.m = Walk(d, n.k, n.m.s)
  BY <1>2, MethodIs, Limits DEF Current, Formed
<1>5. n.m = Walk(e, n.k, n.m.s)  BY <1>3, <1>4
<1>6. InlineCurrent(n, e)
  <2> SUFFICES ASSUME n.inl # NoInline PROVE n.inl.m = Walk(e, n.inl.k, "f")  BY DEF InlineCurrent
  <2>1. n.inl.m = Walk(d, n.inl.k, "f")  BY <1>2 DEF Current, InlineCurrent
  <2>2. n.inl.k \in Classes /\ "f" \in Selectors  BY <1>2, NmethodIs, Limits
  <2>3. n.inl.m.s = "f"  BY <2>1, <2>2, WalkFinds
  <2>4. "f" # s \/ ~OnChain(n.inl.k, h)  BY <1>3, <2>3
  <2> QED  BY <2>1, <2>2, <2>4
<1> QED  BY <1>1, <1>4, <1>5, <1>6 DEF Current

\* A redirected frame.
LEMMA RedirectedIs ==
    ASSUME NEW f \in Frames, f.tier = "C", NEW l, FrameOK(f, l), NEW g, g = [f EXCEPT !.redir = TRUE]
    PROVE  /\ FrameOK(g, l) /\ g.k = f.k /\ g.m = f.m /\ g.tier = "C" /\ g.id = f.id /\ g.redir
           /\ g.after = f.after /\ g.pc = f.pc
<1>1. /\ g \in Frames /\ g.k = f.k /\ g.m = f.m /\ g.tier = "C" /\ g.id = f.id /\ g.redir
      /\ g.after = f.after /\ g.pc = f.pc
  BY DEF Frames
<1> QED  BY <1>1 DEF FrameOK


\* The stack when invalidated code is retired under it: a frame of code that is wrong now
\* is redirected, and the code of the others is still alive, hence current, or was retired
\* lazily before and inlined nothing that changes.
LEMMA StackRedirected ==
    ASSUME NEW d, NEW e, NEW l, StackOK(frames, code, d, l), TableShape(code), AtEval,
           NEW ids \in SUBSET Alive(code), NEW u, TableShape(u), Keeps(code, u),
           \A i \in Slots : i \notin ids => u.nm[i] = code.nm[i],
           \A i \in Alive(code) : i \notin ids => Current(code.nm[i], e, l),
           \A j \in DOMAIN frames : Lingering(j) => InlineCurrent(code.nm[frames[j].id], e),
           NEW gs, gs = Redirect(ids)
    PROVE  StackOK(gs, u, e, l) /\ Len(gs) = Len(frames) /\ Len(frames) \in Nat
<1>1. /\ frames \in Seq(Frames) /\ Len(frames) \in Nat /\ DOMAIN frames = 1 .. Len(frames)
      /\ Len(frames) <= MaxDepth /\ code \in Tables
  BY SeqElements DEF StackOK, TableShape
<1>2. ASSUME NEW j \in DOMAIN frames
      PROVE  /\ FrameOK(gs[j], l) /\ RunsOK(gs[j], u, e)
             /\ gs[j].m = frames[j].m /\ gs[j].tier = frames[j].tier /\ gs[j].pc = frames[j].pc
             /\ gs[j].after = frames[j].after
  <2>1. PICK f : f = frames[j]  OBVIOUS
  <2>2. FrameOK(f, l) /\ RunsOK(f, code, d) /\ f \in Frames  BY <2>1 DEF StackOK, FrameOK
  <2>3. gs[j] = IF f.tier = "C" /\ f.id \in ids THEN [f EXCEPT !.redir = TRUE] ELSE f
    BY <2>1 DEF Redirect
  <2>4. CASE f.tier = "C" /\ f.id \in ids
    <3>1. PICK g : g = [f EXCEPT !.redir = TRUE]  OBVIOUS
    <3>2. gs[j] = g  BY <2>3, <2>4, <3>1
    <3>3. /\ FrameOK(g, l) /\ g.k = f.k /\ g.m = f.m /\ g.tier = "C" /\ g.id = f.id /\ g.redir
          /\ g.after = f.after /\ g.pc = f.pc
      BY <2>2, <2>4, <3>1, RedirectedIs
    <3>4. /\ f.id \in Slots /\ code.nm[f.id].st # "free" /\ code.nm[f.id].m = f.m
          /\ OnChain(f.k, code.nm[f.id].k)
      BY <2>2, <2>4 DEF RunsOK
    <3>5. RunsOK(g, u, e)  BY <3>3, <3>4 DEF RunsOK, Keeps
    <3> QED  BY <2>1, <2>4, <3>2, <3>3, <3>5
  <2>5. CASE ~(f.tier = "C" /\ f.id \in ids)
    <3>1. gs[j] = f  BY <2>3, <2>5
    <3>2. RunsOK(f, u, e)
      <4>1. CASE f.tier # "C"  BY <4>1 DEF RunsOK
      <4>2. CASE f.tier = "C"
        <5>1. /\ f.id \in Slots /\ code.nm[f.id].st # "free" /\ code.nm[f.id].m = f.m
              /\ OnChain(f.k, code.nm[f.id].k) /\ (~f.redir => SiteRight(code, f.id))
          BY <2>2, <4>2 DEF RunsOK
        <5>2. u.nm[f.id] = code.nm[f.id]  BY <2>5, <4>2, <5>1
        <5>3. CASE f.redir  BY <5>1, <5>2, <5>3 DEF RunsOK
        <5>4. CASE ~f.redir
          <6>1. code.nm[f.id].st \in {"free", "alive", "notentrant"}
            BY <1>1, <5>1, TableIs, NmethodIs
          <6>2. f.id \in Alive(code) \/ f.id \in NotEntrant(code)
            BY <5>1, <6>1 DEF Alive, NotEntrant
          <6>3. f.id \in Alive(code) => InlineCurrent(code.nm[f.id], e)
            BY <2>5, <4>2 DEF Current
          <6>4. f.id \in NotEntrant(code) => InlineCurrent(code.nm[f.id], e)
            BY <2>1, <4>2, <5>4 DEF Lingering
          <6>5. SiteRight(u, f.id)  BY <1>1, <5>1, <5>4, SiteStaysRight
          <6>6. InlineCurrent(code.nm[f.id], e)  BY <6>2, <6>3, <6>4
          <6> QED  BY <5>1, <5>2, <6>5, <6>6 DEF RunsOK
        <5> QED  BY <5>3, <5>4
      <4> QED  BY <4>1, <4>2
    <3> QED  BY <2>1, <2>2, <3>1, <3>2
  <2> QED  BY <2>4, <2>5
<1>3. gs = [j \in 1 .. Len(frames) |-> gs[j]]  BY <1>1 DEF Redirect
<1>4. \A j \in 1 .. Len(frames) : gs[j] \in Frames  BY <1>1, <1>2 DEF FrameOK
<1>5. gs \in Seq(Frames) /\ Len(gs) = Len(frames) /\ DOMAIN gs = 1 .. Len(frames)
  BY <1>1, <1>3, <1>4, SeqMade
<1>6. ASSUME NEW j \in DOMAIN gs PROVE PlaceOK(gs, j)
  <2>1. j \in DOMAIN frames /\ j \in Nat  BY <1>1, <1>5
  <2>2. PlaceOK(frames, j)  BY <2>1 DEF StackOK
  <2>3. gs[j].m.s = "c" => j < MaxDepth  BY <1>2, <2>1, <2>2 DEF PlaceOK
  <2>4. j < Len(gs) => gs[j].m.s = "c" /\ gs[j].pc \in {"eval", "send"}
    BY <1>2, <1>5, <2>1, <2>2 DEF PlaceOK
  <2>5. j = Len(gs) /\ gs[j].redir => gs[j].pc = "eval"
    <3> SUFFICES ASSUME j = Len(gs) PROVE gs[j].pc = "eval"  OBVIOUS
    <3>1. frames # << >> /\ Top = frames[j]  BY <1>1, <1>5, <2>1 DEF Top
    <3>2. frames[j].pc = "eval"  BY <3>1 DEF AtEval
    <3> QED  BY <1>2, <2>1, <3>2
  <2>6. gs[j].after = C2IDone => j > 1 /\ gs[j - 1].tier = "C" /\ gs[j - 1].pc = "send"
    <3> SUFFICES ASSUME gs[j].after = C2IDone
                 PROVE  j > 1 /\ gs[j - 1].tier = "C" /\ gs[j - 1].pc = "send"
      OBVIOUS
    <3>1. j > 1 /\ frames[j - 1].tier = "C" /\ frames[j - 1].pc = "send"
      BY <1>2, <2>1, <2>2 DEF PlaceOK
    <3>2. j - 1 \in DOMAIN frames  BY <1>1, <2>1, <3>1
    <3> QED  BY <1>2, <3>1, <3>2
  <2> QED  BY <2>3, <2>4, <2>5, <2>6 DEF PlaceOK
<1>7. \A j \in DOMAIN gs : FrameOK(gs[j], l) /\ RunsOK(gs[j], u, e)  BY <1>1, <1>2, <1>5
<1> QED  BY <1>1, <1>5, <1>6, <1>7 DEF StackOK

\* The caches after the epoch moved on.
LEMMA CachesAged ==
    ASSUME NEW d, NEW e, NEW l, CachesOK(d, l), ic' = [m \in CMethods |-> [ic[m] EXCEPT !.fresh = FALSE]]
    PROVE  ic' \in [CMethods -> Caches] /\ \A m \in CMethods : CacheOK(ic'[m], m, e, l)
<1>1. ASSUME NEW m \in CMethods PROVE CacheOK(ic'[m], m, e, l)
  <2>1. PICK b, c : b = ic[m] /\ c = ic'[m]  OBVIOUS
  <2>2. c = [b EXCEPT !.fresh = FALSE] /\ CacheOK(b, m, d, l) /\ b \in Caches
    BY <2>1 DEF CachesOK, CacheOK
  <2>3. c \in Caches /\ c.tag = b.tag /\ c.arms = b.arms /\ c.fresh = FALSE
    BY <2>2 DEF Caches
  <2>4. CacheOK(c, m, e, l)  BY <2>2, <2>3 DEF CacheOK
  <2> QED  BY <2>1, <2>4
<1>2. ic' \in [CMethods -> Caches]
  <2>1. PICK c : c = ic'  OBVIOUS
  <2>2. c = [m \in CMethods |-> c[m]]  BY <2>1
  <2>3. \A m \in CMethods : c[m] \in Caches  BY <1>1, <2>1 DEF CacheOK
  <2>4. c \in [CMethods -> Caches]  BY <2>2, <2>3
  <2> QED  BY <2>1, <2>4
<1> QED  BY <1>1, <1>2

\* install_method.
LEMMA InstallMethodKeeps ==
    ASSUME Admit = {}, TiersInv, NEW h, NEW s \in Selectors, InstallMethod(h, s)
    PROVE  TiersInv' /\ Dispatches
<1>1. /\ DictOK(dict) /\ LiveOK(live) /\ TableOK(code, dict, live) /\ TableShape(code) /\ CachesOK(dict, live)
      /\ StackOK(frames, code, dict, live)
  BY DEF TiersInv, TableOK
<1>2. /\ AtEval /\ h \in live /\ [h |-> h, s |-> s, v |-> dict[h][s] + 1] \in Redefinitions
      /\ dict' = [dict EXCEPT ![h][s] = @ + 1] /\ live' = live
      /\ ic' = [m \in CMethods |-> [ic[m] EXCEPT !.fresh = FALSE]]
  BY DEF InstallMethod
<1>3. PICK ids, e, u, gs : ids = AffectedByInstall(code, h, s) /\ e = dict' /\ u = code' /\ gs = frames'
  OBVIOUS
<1>4. u = MakeNotEntrantLazy(code, ids) /\ gs = Redirect(ids)
  BY <1>3 DEF InstallMethod, InvalidateDependents
<1>5. \A j \in DOMAIN frames : ~Overlooked(j, h, s)  BY DEF InstallMethod
<1>6. stale' = {}  BY DEF InstallMethod, Flush
<1>7. h \in Classes /\ live \subseteq Classes  BY <1>1, <1>2 DEF LiveOK
<1>8. /\ DictOK(e)
      /\ \A k \in Classes, q \in Selectors : q # s \/ ~OnChain(k, h) => Walk(e, k, q) = Walk(dict, k, q)
  <2>1. e = Redefined(dict, h, s)  BY <1>2, <1>3 DEF Redefined
  <2> QED  BY <1>1, <1>2, <1>7, <2>1, RedefinedDict
<1>9. ids \in SUBSET Alive(code)  BY <1>3 DEF AffectedByInstall
<1>10. /\ TableShape(u) /\ Keeps(code, u) /\ Alive(u) = Alive(code) \ ids
       /\ \A i \in Slots : i \notin ids => u.nm[i] = code.nm[i]
       /\ \A i \in Slots : code.nm[i].st = "free" => u.nm[i].st = "free"
  BY <1>1, <1>4, <1>9, RetireKeeps
<1>11. \A i \in Alive(code) : i \notin ids => Current(code.nm[i], e, live)
  BY <1>1, <1>3, <1>7, <1>8, UnaffectedStaysCurrent
<1>12. \A j \in DOMAIN frames : Lingering(j) => InlineCurrent(code.nm[frames[j].id], e)
  <2> SUFFICES ASSUME NEW j \in DOMAIN frames, Lingering(j), NEW n, n = code.nm[frames[j].id],
                      n.inl # NoInline
               PROVE  n.inl.m = Walk(e, n.inl.k, "f")
    BY DEF InlineCurrent
  <2>1. RunsOK(frames[j], code, dict)  BY <1>1 DEF StackOK
  <2>2. frames[j].id \in Slots /\ n.inl.m = Walk(dict, n.inl.k, "f")
    BY <2>1 DEF Lingering, RunsOK, InlineCurrent
  <2>3. n \in Nmethods  BY <1>1, <2>2, TableIs DEF TableShape
  <2>4. n.inl.k \in Classes /\ "f" \in Selectors  BY <2>3, NmethodIs, Limits
  <2>5. n.inl.m.s = "f"  BY <1>1, <2>2, <2>4, WalkFinds
  <2>6. ~(n.inl.m.s = s /\ OnChain(n.inl.k, h))  BY <1>5 DEF Overlooked
  <2> QED  BY <1>8, <2>2, <2>4, <2>5, <2>6
<1>13. TableCurrent(u, e, live)
  <2>1. \A i \in Slots : u.nm[i].st # "free" => (u.nm[i].inl # NoInline => u.nm[i].inl.k \in live)
    BY <1>1, <1>10 DEF TableOK, TableCurrent, Keeps
  <2>2. \A i \in Alive(u) : Current(u.nm[i], e, live)  BY <1>10, <1>11 DEF Alive
  <2> QED  BY <2>1, <2>2 DEF TableCurrent
<1>14. StackOK(gs, u, e, live) /\ Len(gs) = Len(frames) /\ Len(frames) \in Nat
  BY <1>1, <1>2, <1>4, <1>9, <1>10, <1>11, <1>12, StackRedirected
<1>15. ic' \in [CMethods -> Caches] /\ \A m \in CMethods : CacheOK(ic'[m], m, e, live)
  BY <1>1, <1>2, CachesAged
<1>16. TiersInv'
  BY <1>1, <1>2, <1>3, <1>6, <1>8, <1>10, <1>13, <1>14, <1>15 DEF TiersInv, TableOK, CachesOK
<1>17. Dispatches  BY <1>3, <1>14, NoPush
<1> QED  BY <1>16, <1>17


-----------------------------------------------------------------------------
(* Collection.                                                             *)

\* The maps play no part in what runs.
LEMMA MapsOnly ==
    ASSUME NEW t, NEW u, u.nm = t.nm
    PROVE  /\ \A d, l : TableCurrent(t, d, l) => TableCurrent(u, d, l)
           /\ \A f, d : RunsOK(f, t, d) => RunsOK(f, u, d)
<1>1. Alive(u) = Alive(t)  BY DEF Alive
<1>2. \A i : SiteRight(t, i) => SiteRight(u, i)  BY DEF SiteRight
<1>3. \A d, l : TableCurrent(t, d, l) => TableCurrent(u, d, l)  BY <1>1 DEF TableCurrent
<1>4. \A f, d : RunsOK(f, t, d) => RunsOK(f, u, d)  BY <1>2 DEF RunsOK
<1> QED  BY <1>3, <1>4

\* A stack that stays as it is.
LEMMA StackStays ==
    ASSUME NEW fs, NEW t, NEW d, NEW l, StackOK(fs, t, d, l), NEW u, NEW e, NEW ll,
           \A j \in DOMAIN fs : fs[j].k \in ll /\ RunsOK(fs[j], u, e)
    PROVE  StackOK(fs, u, e, ll)
<1>1. \A j \in DOMAIN fs : FrameOK(fs[j], ll)  BY DEF StackOK, FrameOK
<1> QED  BY <1>1 DEF StackOK

\* The end of a scavenge.
LEMMA ScavengeKeeps ==
    ASSUME TiersInv, NEW move, Scavenge(move)
    PROVE  TiersInv' /\ Dispatches
<1>1. /\ TableShape(code) /\ TableCurrent(code, dict, live) /\ StackOK(frames, code, dict, live)
  BY DEF TiersInv, TableOK
<1>2. PICK u : u = code'  OBVIOUS
<1>3. u = Rehash(MoveKeys(code, move)) /\ UNCHANGED <<dict, live, ic, frames>>  BY <1>2 DEF Scavenge
<1>4. stale' = {} /\ stale = {}  BY DEF Scavenge, Flush, TiersInv
<1>5. TableShape(u) /\ u.nm = code.nm  BY <1>1, <1>3, RehashKeeps
<1>6. /\ TableCurrent(u, dict, live)
      /\ \A f : RunsOK(f, code, dict) => RunsOK(f, u, dict)
  BY <1>1, <1>5, MapsOnly
<1>7. \A j \in DOMAIN frames : frames[j].k \in live /\ RunsOK(frames[j], u, dict)
  BY <1>1, <1>6 DEF StackOK, FrameOK
<1>8. StackOK(frames, u, dict, live)  BY <1>1, <1>7, StackStays
<1>9. UNCHANGED <<dict, live, stale, ic>> /\ TableOK(code', dict, live) /\ StackOK(frames', code', dict, live)
  BY <1>2, <1>3, <1>4, <1>5, <1>6, <1>8 DEF TableOK
<1>10. TiersInv'  BY <1>9, InvAgain
<1>11. Len(frames) \in Nat /\ frames' = frames  BY <1>1, <1>3, SeqElements DEF StackOK
<1>12. Len(frames') \in Nat /\ Len(frames') <= Len(frames)  BY <1>11
<1>13. Dispatches  BY <1>11, <1>12, NoPush
<1> QED  BY <1>10, <1>13

\* The dictionaries after classes have died.
Buried(d, dead) == [k \in Classes |-> IF k \in dead THEN [s \in Selectors |-> 0] ELSE d[k]]

\* No class left inherits from a dead one: it finds what it did.
LEMMA DeadDict ==
    ASSUME NEW d, DictOK(d), NEW l, LiveOK(l), NEW dead \in SUBSET (Classes \ {Root}),
           \A j \in l \ dead, k \in dead : ~OnChain(j, k),
           NEW e, e = Buried(d, dead)
    PROVE  /\ DictOK(e) /\ LiveOK(l \ dead)
           /\ \A k \in l \ dead, s \in Selectors : Walk(e, k, s) = Walk(d, k, s)
<1>1. d \in [Classes -> [Selectors -> 0 .. 2]]  BY DEF DictOK
<1>2. /\ \A k \in Classes : k \notin dead => e[k] = d[k]
      /\ \A k \in Classes, s \in Selectors : k \in dead => e[k][s] = 0
  BY DEF Buried
<1>3. e \in [Classes -> [Selectors -> 0 .. 2]]
  <2>1. \A k \in Classes : (IF k \in dead THEN [s \in Selectors |-> 0] ELSE d[k]) \in [Selectors -> 0 .. 2]
    BY <1>1
  <2> QED  BY <2>1 DEF Buried
<1>4. DictOK(e)
  <2>1. \A s \in Selectors : e[Root][s] > 0  BY <1>2, ChainEquations DEF DictOK
  <2>2. ASSUME NEW h \in Classes, NEW s \in Selectors, e[h][s] > 0
        PROVE  [h |-> h, s |-> s, v |-> e[h][s]] \in Methods
    <3>1. h \notin dead  BY <1>2, <2>2
    <3>2. e[h][s] = d[h][s]  BY <1>2, <3>1
    <3> QED  BY <2>2, <3>2 DEF DictOK
  <2> QED  BY <1>3, <2>1, <2>2 DEF DictOK
<1>5. LiveOK(l \ dead)  BY DEF LiveOK
<1>6. ASSUME NEW k \in l \ dead, NEW s \in Selectors PROVE Walk(e, k, s) = Walk(d, k, s)
  <2>1. \A h \in Classes : OnChain(k, h) => e[h][s] = d[h][s]  BY <1>2
  <2>2. DictOK(d) /\ k \in Classes /\ s \in Selectors  BY DEF LiveOK
  <2> QED  BY ONLY <2>1, <2>2, WalkSame
<1> QED  BY <1>4, <1>5, <1>6

\* The code of classes that have died.
DeadCode(t, dead) == {i \in Alive(t) : t.nm[i].k \in dead}

\* It goes first, then the retired code that no frame refers to:
\* what is left is as it was.
LEMMA SweptIs ==
    ASSUME NEW t, TableShape(t), NEW dead, NEW ref, NEW w, w = SweepZombies(WeakSweep(t, dead), ref),
           NEW D, D = DeadCode(t, dead)
    PROVE  /\ TableShape(w) /\ D \in SUBSET Slots
           /\ \A i \in D : w.nm[i].st = "free"
           /\ \A i \in Slots : w.nm[i].st # "free" => i \notin D /\ SameCode(w.nm[i], t.nm[i])
           /\ \A i \in ref \cap (Slots \ D) : SameCode(w.nm[i], t.nm[i])
           /\ \A i \in ref \cap (Slots \ D) :
                 /\ SiteRight(t, i) /\ SpareSite(t, i, D)
                 /\ t.nm[i].st = "alive" \/ SpareSite(t, i, NotEntrant(t))
                 => SiteRight(w, i)
<1>1. PICK v : v = WeakSweep(t, dead)  OBVIOUS
<1>2. v = FlushNmethod(t, D) /\ D \in SUBSET Slots  BY <1>1 DEF WeakSweep, Alive, DeadCode
<1>3. w = SweepZombies(v, ref)  BY <1>1
<1>4. /\ TableShape(v)
      /\ \A i \in D : v.nm[i].st = "free"
      /\ \A i \in Slots \ D : SameCode(v.nm[i], t.nm[i])
      /\ \A i \in Slots \ D : SpareSite(t, i, D) => v.nm[i].site = t.nm[i].site
      /\ \A i \in Slots \ D :
            SiteRight(t, i) /\ (t.nm[i].st = "alive" \/ SpareSite(t, i, D)) => SiteRight(v, i)
  BY <1>2, FlushKeeps
<1>5. /\ TableShape(w)
      /\ \A i \in Slots : i \notin NotEntrant(v) \ ref => SameCode(w.nm[i], v.nm[i])
      /\ \A i \in Slots : i \in NotEntrant(v) \ ref => w.nm[i].st = "free"
      /\ \A i \in Slots : /\ i \notin NotEntrant(v) \ ref /\ SiteRight(v, i)
                          /\ v.nm[i].st = "alive" \/ SpareSite(v, i, NotEntrant(v))
                          => SiteRight(w, i)
  BY <1>3, <1>4, SweepKeeps
<1>6. \A i \in D : w.nm[i].st = "free"
  <2> TAKE i \in D
  <2>1. i \in Slots /\ v.nm[i].st = "free"  BY <1>2, <1>4
  <2>2. i \notin NotEntrant(v)  BY <2>1 DEF NotEntrant
  <2> QED  BY <1>5, <2>1, <2>2 DEF SameCode
<1>7. ASSUME NEW i \in Slots, w.nm[i].st # "free" PROVE i \notin D /\ SameCode(w.nm[i], t.nm[i])
  <2>1. i \notin D /\ i \notin NotEntrant(v) \ ref  BY <1>5, <1>6, <1>7
  <2>2. SameCode(w.nm[i], v.nm[i]) /\ SameCode(v.nm[i], t.nm[i])  BY <1>4, <1>5, <2>1
  <2> QED  BY <2>1, <2>2 DEF SameCode
<1>8. ASSUME NEW i \in ref \cap (Slots \ D) PROVE SameCode(w.nm[i], t.nm[i])
  <2>1. SameCode(w.nm[i], v.nm[i]) /\ SameCode(v.nm[i], t.nm[i])  BY <1>4, <1>5
  <2> QED  BY <2>1 DEF SameCode
<1>9. NotEntrant(v) \subseteq NotEntrant(t)
  <2> SUFFICES ASSUME NEW i \in NotEntrant(v) PROVE i \in NotEntrant(t)  OBVIOUS
  <2>1. i \in Slots /\ v.nm[i].st = "notentrant"  BY DEF NotEntrant
  <2>2. i \notin D  BY <1>4, <2>1
  <2> QED  BY <1>4, <2>1, <2>2 DEF SameCode, NotEntrant
<1>10. ASSUME NEW i \in ref \cap (Slots \ D), SiteRight(t, i), SpareSite(t, i, D),
              t.nm[i].st = "alive" \/ SpareSite(t, i, NotEntrant(t))
       PROVE  SiteRight(w, i)
  <2>1. SiteRight(v, i) /\ v.nm[i].site = t.nm[i].site /\ v.nm[i].st = t.nm[i].st
    BY <1>4, <1>10 DEF SameCode
  <2>2. SpareSite(t, i, NotEntrant(t)) => SpareSite(v, i, NotEntrant(v))
    BY <1>9, <2>1 DEF SpareSite
  <2> QED  BY <1>5, <1>10, <2>1, <2>2
<1> QED  BY <1>2, <1>5, <1>6, <1>7, <1>8, <1>10


\* The tables after a full collection: what is left is code for live classes.
LEMMA SweptStaysCurrent ==
    ASSUME NEW t, NEW d, NEW l, TableOK(t, d, l), l \subseteq Classes, NEW e, NEW dead,
           \A k \in l \ dead, s \in Selectors : Walk(e, k, s) = Walk(d, k, s),
           \A i \in Slots \ FreeSlots(t) : t.nm[i].inl.k \notin dead,
           NEW w, \A i \in Slots : w.nm[i].st # "free" =>
                     /\ ~(i \in Alive(t) /\ t.nm[i].k \in dead) /\ SameCode(w.nm[i], t.nm[i])
    PROVE  TableCurrent(w, e, l \ dead)
<1>1. "f" \in Selectors  BY Limits
<1>2. ASSUME NEW i \in Slots, w.nm[i].st # "free", w.nm[i].inl # NoInline
      PROVE  w.nm[i].inl.k \in l \ dead
  <2>1. SameCode(w.nm[i], t.nm[i])  BY <1>2
  <2>2. t.nm[i].st # "free" /\ w.nm[i].inl = t.nm[i].inl  BY <1>2, <2>1 DEF SameCode
  <2>3. t.nm[i].inl.k \in l  BY <1>2, <2>2 DEF TableOK, TableCurrent
  <2>4. t.nm[i].inl.k \notin dead  BY <2>2 DEF FreeSlots
  <2> QED  BY <2>2, <2>3, <2>4
<1>3. ASSUME NEW i \in Alive(w) PROVE Current(w.nm[i], e, l \ dead)
  <2>1. i \in Slots /\ w.nm[i].st # "free" /\ w.nm[i].st = "alive"  BY DEF Alive
  <2>2. SameCode(w.nm[i], t.nm[i]) /\ ~(i \in Alive(t) /\ t.nm[i].k \in dead)  BY <2>1
  <2>3. PICK n, o : n = w.nm[i] /\ o = t.nm[i]  OBVIOUS
  <2>4. i \in Alive(t) /\ n.k = o.k /\ n.m = o.m /\ n.inl = o.inl  BY <2>1, <2>2, <2>3 DEF Alive, SameCode
  <2>5. Current(o, d, l) /\ Formed(o)
    BY <2>1, <2>3, <2>4 DEF TableOK, TableCurrent, TableShape, Alive
  <2>6. o.k \in l \ dead /\ o.m = Walk(d, o.k, o.m.s) /\ o.m.s \in Selectors
    BY <2>2, <2>3, <2>4, <2>5, MethodIs, Limits DEF Current, Formed
  <2>7. InlineCurrent(n, e)
    <3> SUFFICES ASSUME n.inl # NoInline PROVE n.inl.m = Walk(e, n.inl.k, "f")  BY DEF InlineCurrent
    <3>1. n.inl.k \in l \ dead  BY <1>2, <2>1, <2>3
    <3>2. n.inl.m = Walk(d, n.inl.k, "f")  BY <2>4, <2>5 DEF Current, InlineCurrent
    <3> QED  BY <1>1, <3>1, <3>2
  <2> QED  BY <2>3, <2>4, <2>6, <2>7 DEF Current
<1> QED  BY <1>2, <1>3 DEF TableCurrent

\* A frame during a full collection: its code is not swept, and its site leads to none that is.
LEMMA SweptRuns ==
    ASSUME NEW t, NEW d, NEW l, TableOK(t, d, l), NEW e, NEW dead,
           \A k \in l \ dead, s \in Selectors : Walk(e, k, s) = Walk(d, k, s),
           NEW f, f.tier = "C", RunsOK(f, t, d), t.nm[f.id].k \notin dead,
           \A k \in DOMAIN t.nm[f.id].site.arms : k \notin dead, t.nm[f.id].inl.k \notin dead,
           NEW ref, f.id \in ref,
           ~f.redir => t.nm[f.id].st = "alive" \/ SpareSite(t, f.id, NotEntrant(t)),
           NEW w, w = SweepZombies(WeakSweep(t, dead), ref)
    PROVE  RunsOK(f, w, e)
<1>1. PICK D, i : D = DeadCode(t, dead) /\ i = f.id  OBVIOUS
<1>2. t \in Tables /\ TableShape(t)  BY DEF TableOK, TableShape
<1>3. /\ i \in Slots /\ t.nm[i].st # "free" /\ t.nm[i].m = f.m /\ OnChain(f.k, t.nm[i].k)
      /\ ~f.redir => InlineCurrent(t.nm[i], d) /\ SiteRight(t, i)
  BY <1>1 DEF RunsOK
<1>4. i \in ref \cap (Slots \ D)  BY <1>1, <1>3 DEF DeadCode
<1>5. /\ SameCode(w.nm[i], t.nm[i])
      /\ /\ SiteRight(t, i) /\ SpareSite(t, i, D)
         /\ t.nm[i].st = "alive" \/ SpareSite(t, i, NotEntrant(t))
         => SiteRight(w, i)
  BY <1>1, <1>2, <1>4, SweptIs
<1>6. CASE f.redir  BY <1>1, <1>3, <1>5, <1>6 DEF RunsOK, SameCode
<1>7. CASE ~f.redir
  <2>1. SpareSite(t, i, D)
    <3> SUFFICES ASSUME NEW k \in DOMAIN t.nm[i].site.arms, t.nm[i].site.arms[k] \in D PROVE FALSE
      BY DEF SpareSite
    <3>1. PICK x : x = t.nm[i].site.arms[k]  OBVIOUS
    <3>2. x \in Alive(t) /\ t.nm[x].k \in dead  BY <1>1, <3>1 DEF DeadCode
    <3>3. x # C2I  BY <3>2, Limits DEF Alive, C2I
    <3>4. t.nm[x].k = k  BY <1>3, <1>7, <3>1, <3>3 DEF SiteRight
    <3>5. k \notin dead  BY <1>1
    <3> QED  BY <3>2, <3>4, <3>5
  <2>2. SiteRight(w, i)  BY <1>1, <1>3, <1>5, <1>7, <2>1
  <2>3. InlineCurrent(w.nm[i], e)
    <3>1. w.nm[i].inl = t.nm[i].inl  BY <1>5 DEF SameCode
    <3> SUFFICES ASSUME t.nm[i].inl # NoInline PROVE t.nm[i].inl.m = Walk(e, t.nm[i].inl.k, "f")
      BY <3>1 DEF InlineCurrent
    <3>2. t.nm[i].inl.m = Walk(d, t.nm[i].inl.k, "f")  BY <1>3, <1>7 DEF InlineCurrent
    <3>3. t.nm[i].inl.k \in l \ dead  BY <1>1, <1>3 DEF TableOK, TableCurrent
    <3>4. "f" \in Selectors  BY Limits
    <3> QED  BY <3>2, <3>3, <3>4
  <2> QED  BY <1>1, <1>3, <1>5, <2>2, <2>3 DEF RunsOK, SameCode
<1> QED  BY <1>6, <1>7


\* The caches during a full collection: they hold their classes.
LEMMA CachesHold ==
    ASSUME DictOK(dict), LiveOK(live), CachesOK(dict, live), NEW e, NEW dead,
           \A j \in live \ dead, k \in dead : ~OnChain(j, k),
           \A k \in live \ dead, s \in Selectors : Walk(e, k, s) = Walk(dict, k, s),
           \A m \in CMethods : \A k \in DOMAIN ic[m].arms : k \notin dead
    PROVE  CachesOK(e, live \ dead)
<1> SUFFICES ASSUME NEW m \in CMethods PROVE CacheOK(ic[m], m, e, live \ dead)
  BY DEF CachesOK
<1>1. PICK c : c = ic[m]  OBVIOUS
<1>2. CacheOK(c, m, dict, live) /\ \A k \in DOMAIN c.arms : k \notin dead  BY <1>1 DEF CachesOK
<1>3. m \in Methods /\ "f" \in Selectors  BY Limits DEF CMethods
<1>4. ASSUME NEW k \in DOMAIN c.arms, c.fresh, c.arms[k].id = 0
      PROVE  c.arms[k].m = Walk(e, SiteStart(m, k), "f")
  <2>1. k \in live \ dead /\ (IsSuper(m) => OnChain(k, m.h))  BY <1>2 DEF CacheOK
  <2>2. SiteStart(m, k) \in live /\ OnChain(k, SiteStart(m, k))  BY <1>3, <2>1, SiteStartIs
  <2>3. SiteStart(m, k) \in live \ dead  BY <2>1, <2>2
  <2>4. c.arms[k].m = Walk(dict, SiteStart(m, k), "f")  BY <1>2, <1>4 DEF CacheOK
  <2> QED  BY <1>3, <2>3, <2>4
<1>5. CacheOK(c, m, e, live \ dead)  BY <1>2, <1>4 DEF CacheOK
<1> QED  BY <1>1, <1>5

\* A full collection: A.5, A.6 and the moves.
LEMMA FullGCKeeps ==
    ASSUME Admit = {}, TiersInv, NEW dead \in SUBSET (Mortal \cap live), NEW move, FullGC(dead, move)
    PROVE  TiersInv' /\ Dispatches
<1>1. /\ DictOK(dict) /\ LiveOK(live) /\ live \subseteq Classes /\ TableOK(code, dict, live)
      /\ TableShape(code) /\ code \in Tables
      /\ CachesOK(dict, live) /\ StackOK(frames, code, dict, live)
  BY DEF TiersInv, TableOK, TableShape, LiveOK
<1>2. PICK e, l, u, w : /\ e = dict' /\ l = live \ dead /\ u = code'
                        /\ w = SweepZombies(WeakSweep(code, dead), Referenced(frames))
  OBVIOUS
<1>3. /\ \A k \in dead : ~Held(k)
      /\ \A j \in live \ dead, k \in dead : ~OnChain(j, k)
      /\ \A j \in DOMAIN frames : Lingering(j) =>
            Range(code.nm[frames[j].id].site.arms) \cap NotEntrant(code) = {}
      /\ live' = l /\ ic' = ic /\ frames' = frames
  BY <1>2 DEF FullGC
<1>4. u = Rehash(MoveKeys(w, move)) /\ e = Buried(dict, dead) /\ stale' = {}
  BY <1>2 DEF FullGC, Buried, Flush
<1>5. dead \in SUBSET (Classes \ {Root})  BY Limits
<1>6. DictOK(e) /\ LiveOK(l) /\ \A k \in live \ dead, s \in Selectors : Walk(e, k, s) = Walk(dict, k, s)
  BY <1>1, <1>2, <1>3, <1>4, <1>5, DeadDict
<1>7. \A j \in DOMAIN frames : frames[j].k \notin dead  BY <1>3 DEF Held
<1>8. \A m \in CMethods : \A k \in DOMAIN ic[m].arms : k \notin dead  BY <1>3 DEF Held
<1>9. /\ \A i \in Slots \ FreeSlots(code) : code.nm[i].inl.k \notin dead
      /\ \A i \in Slots \ FreeSlots(code) : \A k \in DOMAIN code.nm[i].site.arms : k \notin dead
  BY <1>3 DEF Held
<1>10. CachesOK(e, l)  BY <1>1, <1>2, <1>3, <1>6, <1>8, CachesHold
<1>11. PICK D : D = DeadCode(code, dead)  OBVIOUS
<1>12. TableShape(w) /\ \A i \in Slots : w.nm[i].st # "free" => i \notin D /\ SameCode(w.nm[i], code.nm[i])
  BY <1>1, <1>2, <1>11, SweptIs
<1>13. TableCurrent(w, e, l)
  <2>1. \A i \in Slots : w.nm[i].st # "free" =>
           /\ ~(i \in Alive(code) /\ code.nm[i].k \in dead) /\ SameCode(w.nm[i], code.nm[i])
    BY <1>11, <1>12 DEF DeadCode
  <2> QED  BY ONLY <1>1, <1>2, <1>6, <1>9, <2>1, SweptStaysCurrent
<1>14. TableShape(u) /\ u.nm = w.nm  BY <1>4, <1>12, RehashKeeps
<1>15. TableOK(u, e, l)
  <2>1. TableCurrent(u, e, l)  BY <1>13, <1>14, MapsOnly
  <2> QED  BY <1>14, <2>1 DEF TableOK
<1>16. ASSUME NEW j \in DOMAIN frames PROVE frames[j].k \in l /\ RunsOK(frames[j], u, e)
  <2>1. PICK f : f = frames[j]  OBVIOUS
  <2>2. f.k \in live /\ f.k \notin dead /\ RunsOK(f, code, dict)
    BY <1>1, <1>7, <2>1 DEF StackOK, FrameOK
  <2>3. RunsOK(f, w, e)
    <3>1. CASE f.tier # "C"  BY <3>1 DEF RunsOK
    <3>2. CASE f.tier = "C"
      <4>1. PICK i : i = f.id  OBVIOUS
      <4>2. i \in Slots /\ code.nm[i].st # "free" /\ OnChain(f.k, code.nm[i].k)
        BY <2>2, <3>2, <4>1 DEF RunsOK
      <4>3. i \in Slots \ FreeSlots(code)  BY <4>2 DEF FreeSlots
      <4>4. code.nm[i].k \notin dead  BY <1>3, <2>2, <4>2
      <4>5. i \in Referenced(frames)  BY <2>1, <3>2, <4>1 DEF Referenced
      <4>6. ~f.redir => code.nm[i].st = "alive" \/ SpareSite(code, i, NotEntrant(code))
        <5> SUFFICES ASSUME ~f.redir, code.nm[i].st # "alive" PROVE SpareSite(code, i, NotEntrant(code))
          OBVIOUS
        <5>1. i \in NotEntrant(code)  BY <1>1, <4>2, TableIs, NmethodIs DEF NotEntrant
        <5>2. Lingering(j)  BY <2>1, <3>2, <4>1, <5>1 DEF Lingering
        <5>3. Range(code.nm[i].site.arms) \cap NotEntrant(code) = {}  BY <1>3, <2>1, <4>1, <5>2
        <5> QED  BY <5>3 DEF SpareSite, Range
      <4>7. \A k \in DOMAIN code.nm[i].site.arms : k \notin dead  BY <1>9, <4>3
      <4>8. code.nm[i].inl.k \notin dead  BY <1>9, <4>3
      <4>9. PICK ref : ref = Referenced(frames)  OBVIOUS
      <4>10. i \in ref /\ w = SweepZombies(WeakSweep(code, dead), ref)  BY <1>2, <4>5, <4>9
      <4> QED  BY ONLY <1>1, <1>6, <2>2, <3>2, <4>1, <4>4, <4>6, <4>7, <4>8, <4>10, SweptRuns
    <3> QED  BY <3>1, <3>2
  <2>4. RunsOK(f, u, e)  BY <1>14, <2>3, MapsOnly
  <2> QED  BY <1>2, <2>1, <2>2, <2>4
<1>17. StackOK(frames, u, e, l)  BY <1>1, <1>16, StackStays
<1>18. TiersInv'
  BY <1>2, <1>3, <1>4, <1>6, <1>10, <1>15, <1>17 DEF TiersInv, CachesOK
<1>19. Len(frames) \in Nat  BY <1>1, SeqElements DEF StackOK
<1>20. Len(frames') \in Nat /\ Len(frames') <= Len(frames)  BY <1>3, <1>19
<1>21. Dispatches  BY <1>19, <1>20, NoPush
<1> QED  BY <1>18, <1>21

\* The program makes a class again.
LEMMA CreateClassKeeps ==
    ASSUME TiersInv, NEW k \in Classes, CreateClass(k)
    PROVE  TiersInv' /\ Dispatches
<1>1. /\ DictOK(dict) /\ LiveOK(live) /\ TableShape(code) /\ TableCurrent(code, dict, live)
      /\ CachesOK(dict, live) /\ StackOK(frames, code, dict, live) /\ stale = {}
  BY DEF TiersInv, TableOK
<1>2. PICK l : l = live \cup {k}  OBVIOUS
<1>3. /\ \A j \in Classes : OnChain(k, j) => j \in l
      /\ live' = l /\ UNCHANGED <<dict, stale, ic, code, frames>>
  BY <1>2 DEF CreateClass
<1>4. LiveOK(l)  BY <1>1, <1>2, <1>3 DEF LiveOK
<1>5. TableCurrent(code, dict, l)  BY <1>1, <1>2 DEF TableCurrent, Current
<1>6. CachesOK(dict, l)  BY <1>1, <1>2 DEF CachesOK, CacheOK
<1>7. \A j \in DOMAIN frames : frames[j].k \in l /\ RunsOK(frames[j], code, dict)
  BY <1>1, <1>2 DEF StackOK, FrameOK
<1>8. StackOK(frames, code, dict, l)  BY <1>1, <1>7, StackStays
<1>9. TiersInv'
  BY <1>1, <1>3, <1>4, <1>5, <1>6, <1>8 DEF TiersInv, TableOK, CachesOK
<1>10. Len(frames) \in Nat  BY <1>1, SeqElements DEF StackOK
<1>11. Len(frames') \in Nat /\ Len(frames') <= Len(frames)  BY <1>3, <1>10
<1>12. Dispatches  BY <1>10, <1>11, NoPush
<1> QED  BY <1>9, <1>12


-----------------------------------------------------------------------------
(* The invariant.                                                          *)

\* The empty table.
LEMMA EmptyTableOK == ASSUME NEW d, NEW l PROVE TableOK(EmptyTable, d, l)
<1>1. PICK t : t = EmptyTable  OBVIOUS
<1>2. /\ t.nm = [i \in Slots |-> Free] /\ t.osr = [k \in Classes |-> 0]
      /\ t.byKey = [k \in Classes |-> [s \in Selectors |-> 0]]
      /\ \E x, y, z : t = [nm |-> x, byKey |-> y, osr |-> z, armed |-> FALSE, jit |-> TRUE]
  BY <1>1 DEF EmptyTable
<1>3. Free \in Nmethods /\ Free.st = "free"
  <2>1. Unresolved \in Site  BY SitesMade
  <2>2. NoInline \in [k : Classes, m : Methods \cup {NoMethod}]  BY ChainEquations DEF NoInline
  <2>3. 0 \in 0 .. MaxVersions /\ 0 \in 0 .. TrapLimit /\ "empty" \in Tags /\ Root \in Classes
    BY Limits, ChainEquations DEF Tags
  <2>4. NoMethod \in Methods \cup {NoMethod}  OBVIOUS
  <2> QED  BY <2>1, <2>2, <2>3, <2>4 DEF Free, Nmethods
<1>4. 0 \in 0 .. NumSlots  BY Limits
<1>5. t.nm \in [Slots -> Nmethods]  BY <1>2, <1>3
<1>6. t.byKey \in [Classes -> [Selectors -> 0 .. NumSlots]]  BY <1>2, <1>4
<1>7. t.osr \in [Classes -> 0 .. NumSlots]  BY <1>2, <1>4
<1>8. t \in Tables
  <2>1. PICK x, y, z : t = [nm |-> x, byKey |-> y, osr |-> z, armed |-> FALSE, jit |-> TRUE]  BY <1>2
  <2>2. x = t.nm /\ y = t.byKey /\ z = t.osr  BY <2>1
  <2> QED  BY <1>5, <1>6, <1>7, <2>1, <2>2 DEF Tables
<1>9. \A i \in Slots : t.nm[i].st = "free"  BY <1>2, <1>3
<1>10. Alive(t) = {}  BY <1>9 DEF Alive
<1>11. \A k \in Classes : t.osr[k] = 0 /\ \A s \in Selectors : t.byKey[k][s] = 0  BY <1>2
<1>12. \A k \in Classes : OsrRight(t, k) /\ \A s \in Selectors : KeyRight(t, k, s)
  BY <1>11 DEF OsrRight, KeyRight
<1>13. TableShape(t)  BY <1>8, <1>9, <1>10, <1>12 DEF TableShape
<1>14. TableCurrent(t, d, l)  BY <1>9, <1>10 DEF TableCurrent
<1> QED  BY <1>1, <1>13, <1>14 DEF TableOK

\* It holds at first.
LEMMA InitKeeps == Init => TiersInv
<1> SUFFICES ASSUME Init PROVE TiersInv  OBVIOUS
<1>1. /\ dict \in InitDicts /\ live = Classes /\ stale = {} /\ ic = [m \in CMethods |-> EmptyIC]
      /\ code = EmptyTable /\ frames = << >>
  BY DEF Init
<1>2. DictOK(dict)
  <2>1. dict \in [Classes -> [Selectors -> 0 .. 1]] /\ \A s \in Selectors : dict[Root][s] > 0
    BY <1>1, TiersAssumption
  <2>2. dict \in [Classes -> [Selectors -> 0 .. 2]]
    <3>1. \A k \in Classes : dict[k] \in [Selectors -> 0 .. 1]  BY <2>1
    <3>2. \A k \in Classes : dict[k] \in [Selectors -> 0 .. 2]  BY <3>1
    <3> QED  BY <2>1, <3>2
  <2>3. ASSUME NEW h \in Classes, NEW s \in Selectors, dict[h][s] > 0
        PROVE  [h |-> h, s |-> s, v |-> dict[h][s]] \in Methods
    <3>1. dict[h][s] = 1  BY <2>1, <2>3
    <3>2. PICK m : m = [h |-> h, s |-> s, v |-> 1]  OBVIOUS
    <3>3. m \in [h : Classes, s : Selectors, v : {1}] /\ m.h = h /\ m.s = s  BY <3>2
    <3>4. \E d \in InitDicts : d[m.h][m.s] = 1  BY <1>1, <3>1, <3>3
    <3> QED  BY <3>1, <3>2, <3>3, <3>4 DEF Methods
  <2> QED  BY <2>1, <2>2, <2>3 DEF DictOK
<1>3. LiveOK(live)  BY <1>1 DEF LiveOK
<1>4. TableOK(code, dict, live)  BY <1>1, EmptyTableOK
<1>5. CachesOK(dict, live)
  <2>1. EmptyIC.arms \in Arms /\ DOMAIN EmptyIC.arms = {}
    <3>1. PICK a : a = EmptyIC.arms  OBVIOUS
    <3>2. a = [k \in {} |-> ToMethod(NoMethod)]  BY <3>1 DEF EmptyIC
    <3>3. DOMAIN a = {} /\ a \in [{} -> [id : 0 .. NumSlots, m : Methods \cup {NoMethod}]]  BY <3>2
    <3>4. {} \in SUBSET Classes  OBVIOUS
    <3> QED  BY <3>1, <3>3, <3>4 DEF Arms
  <2>2. PICK a : EmptyIC = [tag |-> "empty", arms |-> a, fresh |-> FALSE]  BY DEF EmptyIC
  <2>3. EmptyIC \in Caches
    <3>1. a = EmptyIC.arms  BY <2>2
    <3>2. a \in Arms  BY <2>1, <3>1
    <3> QED  BY <2>2, <3>2 DEF Caches, Tags
  <2>4. ic \in [CMethods -> Caches] /\ \A m \in CMethods : ic[m] = EmptyIC  BY <1>1, <2>3
  <2>5. \A m \in CMethods : CacheOK(ic[m], m, dict, live)  BY <2>1, <2>3, <2>4 DEF CacheOK
  <2> QED  BY <2>4, <2>5 DEF CachesOK
<1>6. StackOK(frames, code, dict, live)
  <2>1. frames \in Seq(Frames) /\ Len(frames) = 0 /\ DOMAIN frames = {}  BY <1>1
  <2> QED  BY <2>1, Limits DEF StackOK
<1> QED  BY <1>1, <1>2, <1>3, <1>4, <1>5, <1>6 DEF TiersInv

\* Every step keeps it, and what a step activates is what lookup finds.
LEMMA NextKeeps ==
    ASSUME Admit = {}, TiersInv, Next
    PROVE  TiersInv' /\ Dispatches
<1>1. "c" \in Selectors /\ "f" \in Selectors /\ Mortal \subseteq Classes  BY Limits
<1>2. CASE \E k \in CReceivers : Doit(k, "c")  BY <1>1, <1>2, DoitKeeps
<1>3. CASE \E k \in FReceivers : Doit(k, "f")  BY <1>1, <1>3, DoitKeeps
<1>4. CASE \E k \in FReceivers : SendInterpreted(k)  BY <1>4, SendInterpretedKeeps
<1>5. CASE \E k \in FReceivers : SendCompiled(k)  BY <1>5, SendCompiledKeeps
<1>6. CASE \E k \in FReceivers : UncommonTrap(k)  BY <1>6, UncommonTrapKeeps
<1>7. CASE Return  BY <1>7, ReturnKeeps
<1>8. CASE EvalDone  BY <1>8, EvalDoneKeeps
<1>9. CASE LoopCompiled  BY <1>9, LoopCompiledKeeps
<1>10. CASE LoopInterpreted  BY <1>10, LoopInterpretedKeeps
<1>11. CASE OsrRequest  BY <1>11, OsrRequestKeeps
<1>12. CASE \E h \in Classes, s \in Selectors : InstallMethod(h, s)  BY <1>12, InstallMethodKeeps
<1>13. CASE \E move \in Moves : Scavenge(move)  BY <1>13, ScavengeKeeps
<1>14. CASE \E dead \in SUBSET (Mortal \cap live), move \in Moves : FullGC(dead, move)
  BY <1>14, FullGCKeeps
<1>15. CASE \E k \in Mortal : CreateClass(k)  BY <1>1, <1>15, CreateClassKeeps
<1> QED
  BY <1>2, <1>3, <1>4, <1>5, <1>6, <1>7, <1>8, <1>9, <1>10, <1>11, <1>12, <1>13, <1>14, <1>15 DEF Next

\* A step that changes nothing keeps it.
LEMMA StutterKeeps ==
    ASSUME TiersInv, UNCHANGED vars
    PROVE  TiersInv'
BY DEF TiersInv, CachesOK, vars

\* The invariant holds, for every program, hierarchy and size, where none of the
\* disagreements of README section 3 is admitted.
THEOREM TiersInvariant == ASSUME Admit = {} PROVE Spec => []TiersInv
<1>1. TiersInv /\ [Next]_vars => TiersInv'  BY NextKeeps, StutterKeeps
<1> QED  BY <1>1, InitKeeps, PTL DEF Spec


\* Types of the dictionaries, the table and the stack.
THEOREM TypeCorrect == ASSUME Admit = {} PROVE Spec => []TypeOK
<1>1. TiersInv => TypeOK
  <2> SUFFICES ASSUME TiersInv PROVE TypeOK  OBVIOUS
  <2>1. /\ dict \in [Classes -> [Selectors -> 0 .. 2]] /\ live \subseteq Classes /\ code \in Tables
        /\ Len(frames) <= MaxDepth
    BY DEF TiersInv, DictOK, LiveOK, TableOK, TableShape, StackOK
  <2>2. ASSUME NEW i \in Slots
        PROVE  /\ code.nm[i].st \in {"free", "alive", "notentrant"} /\ code.nm[i].site \in Site
               /\ code.nm[i].version \in 0 .. MaxVersions /\ code.nm[i].traps \in 0 .. TrapLimit
    BY <2>1, TableIs, NmethodIs
  <2> QED  BY <2>1, <2>2 DEF TypeOK
<1> QED  BY <1>1, TiersInvariant, PTL

\* Every activation, in either tier and inlined ones too, runs the method the dictionaries
\* define for the receiver at that moment (send_generic, rt_resolve_send,
\* rt_interpret_call, install_method).
THEOREM EveryActivationIsLookup == ASSUME Admit = {} PROVE Spec => DispatchIsLookup
<1>1. TiersInv /\ [Next]_vars =>
        [Len(frames') > Len(frames) =>
           LET f == frames'[Len(frames')]
           IN  f.m = Walk(dict, IF frames # << >> /\ Top.pc = "send" THEN SiteStart(Top.m, f.k)
                                ELSE f.k, f.m.s)]_vars
  BY NextKeeps DEF Dispatches
<1> QED  BY <1>1, TiersInvariant, PTL DEF Spec, DispatchIsLookup

\* No region of compiled code is freed or reused under an activation
\* (sweep_not_entrant_zombies, weak_sweep).
THEOREM CodeStaysUnderFrames == ASSUME Admit = {} PROVE Spec => []CodeUnderFrames
<1>1. TiersInv => CodeUnderFrames  BY DEF TiersInv, StackOK, RunsOK, CodeUnderFrames
<1> QED  BY <1>1, TiersInvariant, PTL

\* A site of alive code only calls installed code of the class it expects
\* (flush_nmethod D6.2, rt_resolve_send).
THEOREM SitesStayLinked == ASSUME Admit = {} PROVE Spec => []SitesAreLinked
<1>1. TiersInv => SitesAreLinked  BY DEF TiersInv, TableOK, TableShape, SiteRight, SitesAreLinked
<1> QED  BY <1>1, TiersInvariant, PTL

\* Alive code is code for what lookup finds, inlined bodies too (affected_by_install).
THEOREM AliveCodeIsCurrent == ASSUME Admit = {} PROVE Spec => []AliveIsCurrent
<1>1. TiersInv => AliveIsCurrent
  BY DEF TiersInv, TableOK, TableCurrent, Current, InlineCurrent, AliveIsCurrent
<1> QED  BY <1>1, TiersInvariant, PTL

\* What the maps name is alive code of that key: rt_resolve_send never finds retired code,
\* which would send its caller back for ever (set_not_entrant, mark_zombie, rehash).
THEOREM KeysStayAlive == ASSUME Admit = {} PROVE Spec => []KeysLeadToAlive
<1>1. TiersInv => KeysLeadToAlive
  BY DEF TiersInv, TableOK, TableShape, KeyRight, OsrRight, KeysLeadToAlive
<1> QED  BY <1>1, TiersInvariant, PTL

\* An activation of code that a redefinition has made wrong does not go on in it
\* (make_not_entrant 2c).
THEOREM NoneGoesOnInWrongCode == ASSUME Admit = {} PROVE Spec => []WrongCodeIsLeft
<1>1. TiersInv => WrongCodeIsLeft
  <2> SUFFICES ASSUME TiersInv, NEW j \in DOMAIN frames, frames[j].tier = "C", ~frames[j].redir
               PROVE  ~LET n == code.nm[frames[j].id]
                       IN  n.inl # NoInline /\ n.inl.m # Walk(dict, n.inl.k, "f")
    BY DEF WrongCodeIsLeft
  <2>1. RunsOK(frames[j], code, dict)  BY DEF TiersInv, StackOK
  <2> QED  BY <2>1 DEF RunsOK, InlineCurrent
<1> QED  BY <1>1, TiersInvariant, PTL


-----------------------------------------------------------------------------
(* The two tiers implement the program.                                    *)

\* A frame as the program sees it, and the stack.
Seen(f) == [k |-> f.k, m |-> f.m, pc |-> IF f.pc = "body" THEN "eval" ELSE f.pc]
ViewOf(fs) == [j \in DOMAIN fs |-> Seen(fs[j])]
ProgramFrames == [k : Classes, m : Methods, pc : {"eval", "send", "loop"}]

\* The operators of the two modules are the same.
LEMMA SameLookup ==
    /\ \A d, k, s : Prog!Walk(d, k, s) = Walk(d, k, s)
    /\ \A m, k : Prog!IsSuper(m) = IsSuper(m) /\ Prog!SiteStart(m, k) = SiteStart(m, k)
<1>1. ASSUME NEW d, NEW k, NEW s PROVE Prog!Walk(d, k, s) = Walk(d, k, s)
  BY DEF Prog!Walk, Walk, Prog!Min, Min
<1>2. ASSUME NEW m, NEW k PROVE Prog!IsSuper(m) = IsSuper(m) /\ Prog!SiteStart(m, k) = SiteStart(m, k)
  BY DEF Prog!IsSuper, IsSuper, Prog!SiteStart, SiteStart, Prog!Super, Super
<1> QED  BY <1>1, <1>2

\* The view of a frame.
LEMMA SeenIs ==
    ASSUME NEW f \in Frames
    PROVE  /\ Seen(f) \in ProgramFrames /\ Seen(f).k = f.k /\ Seen(f).m = f.m
           /\ Seen(f).pc = IF f.pc = "body" THEN "eval" ELSE f.pc
BY DEF Seen, Frames, ProgramFrames

\* The view of a stack.
LEMMA ViewIs ==
    ASSUME NEW fs \in Seq(Frames), NEW v, v = ViewOf(fs)
    PROVE  /\ v \in Seq(ProgramFrames) /\ Len(v) = Len(fs) /\ Len(fs) \in Nat
           /\ DOMAIN v = 1 .. Len(fs) /\ DOMAIN fs = 1 .. Len(fs)
           /\ \A j \in 1 .. Len(fs) : v[j] = Seen(fs[j]) /\ fs[j] \in Frames
           /\ v = << >> <=> fs = << >>
<1>1. Len(fs) \in Nat /\ DOMAIN fs = 1 .. Len(fs) /\ \A j \in 1 .. Len(fs) : fs[j] \in Frames
  BY SeqElements
<1>2. v = [j \in 1 .. Len(fs) |-> v[j]] /\ \A j \in 1 .. Len(fs) : v[j] = Seen(fs[j])
  BY <1>1 DEF ViewOf
<1>3. \A j \in 1 .. Len(fs) : v[j] \in ProgramFrames  BY <1>1, <1>2, SeenIs
<1>4. v \in Seq(ProgramFrames) /\ Len(v) = Len(fs) /\ DOMAIN v = 1 .. Len(fs)
  BY <1>1, <1>2, <1>3, SeqMade
<1>5. v = << >> <=> fs = << >>
  <2>1. v = << >> <=> Len(v) = 0  BY <1>4
  <2>2. fs = << >> <=> Len(fs) = 0  OBVIOUS
  <2> QED  BY <1>4, <2>1, <2>2
<1> QED  BY <1>1, <1>2, <1>4, <1>5

\* Stacks that look the same.
LEMMA SameView ==
    ASSUME NEW fs \in Seq(Frames), NEW gs \in Seq(Frames), Len(gs) = Len(fs),
           \A j \in 1 .. Len(fs) : Seen(gs[j]) = Seen(fs[j])
    PROVE  ViewOf(gs) = ViewOf(fs)
<1>1. DOMAIN fs = 1 .. Len(fs) /\ DOMAIN gs = 1 .. Len(fs)  BY SeqElements
<1> QED  BY <1>1 DEF ViewOf

\* A frame more.
LEMMA ViewPushed ==
    ASSUME NEW fs \in Seq(Frames), NEW f \in Frames, NEW gs, gs = Append(fs, f)
    PROVE  ViewOf(gs) = Append(ViewOf(fs), Seen(f))
<1>1. PICK v, w : v = ViewOf(fs) /\ w = ViewOf(gs)  OBVIOUS
<1>2. /\ gs \in Seq(Frames) /\ Len(gs) = Len(fs) + 1 /\ gs[Len(fs) + 1] = f
      /\ \A j \in 1 .. Len(fs) : gs[j] = fs[j]
  BY SeqAppended
<1>3. /\ v \in Seq(ProgramFrames) /\ Len(v) = Len(fs) /\ Len(fs) \in Nat
      /\ \A j \in 1 .. Len(fs) : v[j] = Seen(fs[j])
  BY <1>1, ViewIs
<1>4. /\ w \in Seq(ProgramFrames) /\ Len(w) = Len(fs) + 1
      /\ \A j \in 1 .. Len(fs) + 1 : w[j] = Seen(gs[j])
  <2>1. /\ w \in Seq(ProgramFrames) /\ Len(w) = Len(gs)
        /\ \A j \in 1 .. Len(gs) : w[j] = Seen(gs[j])
    BY ONLY <1>1, <1>2, ViewIs
  <2> QED  BY <1>2, <2>1
<1>5. Seen(f) \in ProgramFrames  BY SeenIs
<1>6. PICK x : x = Append(v, Seen(f))  OBVIOUS
<1>7. /\ x \in Seq(ProgramFrames) /\ Len(x) = Len(v) + 1 /\ x[Len(v) + 1] = Seen(f)
      /\ \A j \in 1 .. Len(v) : x[j] = v[j]
  BY <1>3, <1>5, <1>6, SeqAppended
<1>8. \A j \in 1 .. Len(fs) + 1 : w[j] = x[j]
  <2> TAKE j \in 1 .. Len(fs) + 1
  <2>1. CASE j = Len(fs) + 1  BY <1>2, <1>3, <1>4, <1>7, <2>1
  <2>2. CASE j # Len(fs) + 1
    <3>1. j \in 1 .. Len(fs)  BY <1>3, <2>2
    <3> QED  BY <1>2, <1>3, <1>4, <1>7, <3>1
  <2> QED  BY <2>1, <2>2
<1>9. w = x  BY <1>3, <1>4, <1>7, <1>8
<1> QED  BY <1>1, <1>6, <1>9

\* The top frame goes on.
LEMMA ViewMoved ==
    ASSUME NEW fs \in Seq(Frames), fs # << >>, NEW gs \in Seq(Frames), Len(gs) = Len(fs),
           \A j \in 1 .. Len(fs) - 1 : Seen(gs[j]) = Seen(fs[j]),
           NEW g, g = gs[Len(fs)], NEW f, f = fs[Len(fs)], g.k = f.k, g.m = f.m,
           NEW pc, pc = g.pc, pc # "body"
    PROVE  ViewOf(gs) = Prog!Goto(ViewOf(fs), pc)
<1>1. PICK v, w : v = ViewOf(fs) /\ w = ViewOf(gs)  OBVIOUS
<1>2. PICK n : n = Len(fs)  OBVIOUS
<1>3. n \in Nat \ {0} /\ n \in 1 .. n  BY <1>2, SeqElements
<1>4. /\ v \in Seq(ProgramFrames) /\ Len(v) = n /\ DOMAIN v = 1 .. n
      /\ \A j \in 1 .. n : v[j] = Seen(fs[j]) /\ fs[j] \in Frames
  BY <1>1, <1>2, ViewIs
<1>5. /\ w \in Seq(ProgramFrames) /\ Len(w) = n /\ DOMAIN w = 1 .. n
      /\ \A j \in 1 .. n : w[j] = Seen(gs[j]) /\ gs[j] \in Frames
  BY <1>1, <1>2, ViewIs
<1>6. PICK x : x = [v[n] EXCEPT !.pc = pc]  OBVIOUS
<1>7. v[n] = Seen(f) /\ w[n] = Seen(g) /\ f \in Frames /\ g \in Frames  BY <1>2, <1>3, <1>4, <1>5
<1>8. w[n] = x
  <2>1. Seen(f) = [k |-> f.k, m |-> f.m, pc |-> IF f.pc = "body" THEN "eval" ELSE f.pc]  BY DEF Seen
  <2>2. Seen(g) = [k |-> f.k, m |-> f.m, pc |-> pc]  BY DEF Seen
  <2> QED  BY <1>6, <1>7, <2>1, <2>2
<1>9. \A j \in 1 .. n : j # n => w[j] = v[j]
  <2> TAKE j \in 1 .. n
  <2> HAVE j # n
  <2>1. j \in 1 .. Len(fs) - 1  BY <1>2, <1>3
  <2> QED  BY <1>4, <1>5, <2>1
<1>10. w = [v EXCEPT ![n] = x]  BY <1>3, <1>4, <1>5, <1>8, <1>9
<1>11. Prog!Goto(v, pc) = [v EXCEPT ![n] = x]  BY <1>4, <1>6 DEF Prog!Goto
<1> QED  BY <1>1, <1>10, <1>11


\* A push is a step of the program's interpreter.
LEMMA RunsIsRun ==
    ASSUME TiersInv, TiersInv', NEW k, NEW m, Runs(k, m)
    PROVE  Prog!Run(k, m)
<1>1. PICK f : frames' = Append(frames, f) /\ f.k = k /\ f.m = m /\ f.pc \in {"eval", "body"}
  BY DEF Runs
<1>2. PICK fs, gs : fs = frames /\ gs = frames'  OBVIOUS
<1>3. fs \in Seq(Frames) /\ gs \in Seq(Frames) /\ gs = Append(fs, f)  BY <1>1, <1>2 DEF TiersInv, StackOK
<1>4. f \in Frames
  <2>1. Len(fs) \in Nat /\ Len(gs) = Len(fs) + 1 /\ gs[Len(fs) + 1] = f  BY <1>3
  <2>2. Len(gs) \in DOMAIN gs  BY <1>3, <2>1
  <2> QED  BY <1>3, <2>1, <2>2, SeqElements
<1>5. ViewOf(gs) = Append(ViewOf(fs), Seen(f))  BY <1>3, <1>4, ViewPushed
<1>6. Seen(f) = [k |-> k, m |-> m, pc |-> "eval"]  BY <1>1 DEF Seen
<1>7. View' = ViewOf(gs) /\ View = ViewOf(fs)  BY <1>2 DEF View, ViewOf, Seen
<1> QED  BY <1>5, <1>6, <1>7 DEF Prog!Run

\* Where the program is.
LEMMA ViewTop ==
    ASSUME TiersInv
    PROVE  /\ View = ViewOf(frames) /\ frames \in Seq(Frames) /\ (View = << >> <=> frames = << >>)
           /\ AtEval => Prog!AtEval
           /\ frames # << >> => /\ Prog!Top = Seen(Top) /\ Prog!Top.k = Top.k /\ Prog!Top.m = Top.m
                                /\ Top.pc # "body" => Prog!Top.pc = Top.pc
                                /\ Top.pc = "body" => Prog!Top.pc = "eval"
<1>1. View = ViewOf(frames) /\ frames \in Seq(Frames)  BY DEF View, ViewOf, Seen, TiersInv, StackOK
<1>2. /\ Len(View) = Len(frames) /\ Len(frames) \in Nat /\ (View = << >> <=> frames = << >>)
      /\ \A j \in 1 .. Len(frames) : View[j] = Seen(frames[j]) /\ frames[j] \in Frames
  BY <1>1, ViewIs
<1>3. ASSUME frames # << >>
      PROVE  /\ Prog!Top = Seen(Top) /\ Prog!Top.k = Top.k /\ Prog!Top.m = Top.m
             /\ Top.pc # "body" => Prog!Top.pc = Top.pc
             /\ Top.pc = "body" => Prog!Top.pc = "eval"
  <2>1. Len(frames) \in 1 .. Len(frames)  BY <1>1, <1>2, <1>3
  <2>2. Prog!Top = Seen(Top) /\ Top \in Frames  BY <1>2, <2>1 DEF Prog!Top, Top
  <2> QED  BY <2>2, SeenIs
<1>4. AtEval => Prog!AtEval
  <2> SUFFICES ASSUME AtEval, frames # << >> PROVE Prog!At("eval")  BY <1>2 DEF Prog!AtEval
  <2>1. Top.pc = "eval"  BY DEF AtEval
  <2> QED  BY <1>2, <1>3, <2>1 DEF Prog!At
<1> QED  BY <1>1, <1>2, <1>3, <1>4

\* The evaluator's sends and the sends of "f", in either tier.
LEMMA SendsAreSteps ==
    ASSUME Admit = {}, TiersInv, NEW k
    PROVE  /\ \A s \in Selectors : Doit(k, s) => Prog!Doit(k, s)
           /\ SendInterpreted(k) => Prog!Send(k)
           /\ SendCompiled(k) => Prog!Send(k)
<1>1. ASSUME NEW s \in Selectors, Doit(k, s) PROVE Prog!Doit(k, s)
  <2>1. TiersInv' /\ Runs(k, Walk(dict, k, s))  BY <1>1, DoitKeeps
  <2>2. AtEval /\ k \in live /\ UNCHANGED <<dict, live>>  BY <1>1 DEF Doit
  <2>3. Prog!Run(k, Walk(dict, k, s))  BY <2>1, RunsIsRun
  <2>4. Prog!Walk(dict, k, s) = Walk(dict, k, s)  BY SameLookup
  <2> QED  BY <2>2, <2>3, <2>4, ViewTop DEF Prog!Doit
<1>2. ASSUME TiersInv', Runs(k, Walk(dict, SiteStart(Top.m, k), "f")), frames # << >>, Top.pc = "send",
             k \in live, IsSuper(Top.m) => k = Top.k, UNCHANGED <<dict, live>>
      PROVE  Prog!Send(k)
  <2>1. Prog!Top.m = Top.m /\ Prog!Top.k = Top.k /\ Prog!Top.pc = "send" /\ View # << >>
    BY <1>2, ViewTop
  <2>2. Prog!Run(k, Walk(dict, SiteStart(Top.m, k), "f"))  BY <1>2, RunsIsRun
  <2>3. /\ Prog!Walk(dict, Prog!SiteStart(Prog!Top.m, k), "f") = Walk(dict, SiteStart(Top.m, k), "f")
        /\ Prog!IsSuper(Prog!Top.m) = IsSuper(Top.m)
    BY <2>1, SameLookup
  <2> QED  BY <1>2, <2>1, <2>2, <2>3 DEF Prog!Send, Prog!At
<1>3. ASSUME SendInterpreted(k) PROVE Prog!Send(k)
  <2>1. TiersInv' /\ Runs(k, Walk(dict, SiteStart(Top.m, k), "f"))  BY <1>3, SendInterpretedKeeps
  <2>2. /\ frames # << >> /\ Top.pc = "send" /\ k \in live /\ (IsSuper(Top.m) => k = Top.k)
        /\ UNCHANGED <<dict, live>>
    BY <1>3 DEF SendInterpreted
  <2> QED  BY <1>2, <2>1, <2>2
<1>4. ASSUME SendCompiled(k) PROVE Prog!Send(k)
  <2>1. TiersInv' /\ Runs(k, Walk(dict, SiteStart(Top.m, k), "f"))  BY <1>4, SendCompiledKeeps
  <2>2. /\ frames # << >> /\ Top.tier = "C" /\ Top.pc = "send" /\ k \in live
        /\ (IsSuper(code.nm[Top.id].m) => k = Top.k) /\ UNCHANGED <<dict, live>>
    BY <1>4 DEF SendCompiled
  <2>3. code.nm[Top.id].m = Top.m  BY <2>2, TopRuns
  <2> QED  BY <1>2, <2>1, <2>2, <2>3
<1> QED  BY <1>1, <1>3, <1>4

\* A step that goes on with the top frame is one of the program's, or none.
LEMMA MovesAreSteps ==
    ASSUME TiersInv, frames # << >>, NEW g \in Frames, g.k = Top.k, g.m = Top.m, g.pc # "body",
           frames' = Append(Below, g)
    PROVE  /\ View' = Prog!Goto(View, g.pc)
           /\ g.pc = Top.pc => View' = View
<1>1. PICK fs, gs, n : fs = frames /\ gs = frames' /\ n = Len(fs)  OBVIOUS
<1>2. /\ View = ViewOf(fs) /\ fs \in Seq(Frames) /\ fs # << >>  BY <1>1, ViewTop
<1>3. View' = ViewOf(gs)  BY <1>1 DEF View, ViewOf, Seen
<1>4. /\ n \in Nat \ {0} /\ Below \in Seq(Frames) /\ Len(Below) = n - 1 /\ Top = fs[n]
      /\ \A j \in 1 .. n - 1 : Below[j] = fs[j]
  BY <1>1, TopIs DEF TiersInv
<1>5. /\ gs \in Seq(Frames) /\ Len(gs) = n /\ gs[n] = g /\ \A j \in 1 .. n - 1 : gs[j] = fs[j]
  <2>1. gs = Append(Below, g)  BY <1>1
  <2>2. /\ gs \in Seq(Frames) /\ Len(gs) = Len(Below) + 1 /\ gs[Len(Below) + 1] = g
        /\ \A j \in 1 .. Len(Below) : gs[j] = Below[j]
    BY <1>4, <2>1, SeqAppended
  <2>3. Len(Below) + 1 = n  BY <1>4
  <2> QED  BY <1>4, <2>2, <2>3
<1>6. View' = Prog!Goto(View, g.pc)
  <2>1. \A j \in 1 .. Len(fs) - 1 : Seen(gs[j]) = Seen(fs[j])  BY <1>1, <1>5
  <2>2. PICK f, pc : f = Top /\ pc = g.pc  OBVIOUS
  <2>3. /\ Len(gs) = Len(fs) /\ g = gs[Len(fs)] /\ f = fs[Len(fs)]
        /\ g.k = f.k /\ g.m = f.m /\ pc # "body" /\ pc = g.pc
    BY <1>1, <1>4, <1>5, <2>2
  <2>4. gs \in Seq(Frames)  BY <1>5
  <2>5. ViewOf(gs) = Prog!Goto(ViewOf(fs), pc)
    BY ONLY <1>2, <2>1, <2>3, <2>4, ViewMoved
  <2> QED  BY <1>2, <1>3, <2>2, <2>5
<1>7. ASSUME g.pc = Top.pc PROVE View' = View
  <2>1. Seen(g) = Seen(fs[n])  BY <1>4, <1>7 DEF Seen
  <2>2. \A j \in 1 .. Len(fs) : Seen(gs[j]) = Seen(fs[j])
    <3> TAKE j \in 1 .. Len(fs)
    <3>1. CASE j = n  BY <1>5, <2>1, <3>1
    <3>2. CASE j # n
      <4>1. j \in 1 .. n - 1  BY <1>1, <1>4, <3>2
      <4> QED  BY <1>5, <4>1
    <3> QED  BY <3>1, <3>2
  <2>3. ViewOf(gs) = ViewOf(fs)  BY <1>1, <1>2, <1>5, <2>2, SameView
  <2> QED  BY <1>2, <1>3, <2>3
<1> QED  BY <1>6, <1>7

\* The steps of the top frame: the evaluator returns, the loop goes round in either tier, and
\* a trap, which the program does not see.
LEMMA TopStepsAreSteps ==
    ASSUME Admit = {}, TiersInv
    PROVE  /\ EvalDone => Prog!EvalDone
           /\ LoopCompiled => Prog!Loop
           /\ LoopInterpreted => Prog!Loop
           /\ OsrRequest => Prog!Loop
           /\ \A k : UncommonTrap(k) => UNCHANGED <<dict, live, View>>
<1>1. ASSUME frames # << >>, Top.pc = "loop", NEW g \in Frames, g.k = Top.k, g.m = Top.m, g.pc = "eval",
             frames' = Append(Below, g), UNCHANGED <<dict, live>>
      PROVE  Prog!Loop
  <2>1. View' = Prog!Goto(View, "eval")
    <3>1. View' = Prog!Goto(View, g.pc)
      <4>1. g.pc # "body"  BY <1>1
      <4> QED  BY ONLY TiersInv, <1>1, <4>1, MovesAreSteps
    <3> QED  BY <1>1, <3>1
  <2>2. View # << >> /\ Prog!Top.pc = "loop"  BY <1>1, ViewTop
  <2> QED  BY <1>1, <2>1, <2>2 DEF Prog!Loop, Prog!At
<1>2. ASSUME EvalDone PROVE Prog!EvalDone
  <2>1. /\ frames # << >> /\ Top.m.s = "c" /\ Top.pc = "eval" /\ frames' = Append(Below, ReturnInto(Top, "send"))
        /\ UNCHANGED <<dict, live>>
    BY <1>2 DEF EvalDone
  <2>2. PICK f, g : f = Top /\ g = ReturnInto(f, "send")  OBVIOUS
  <2>3. FrameOK(f, live) /\ RunsOK(f, code, dict) /\ f.m.s = "c"  BY <2>1, <2>2, TopIs DEF TiersInv
  <2>4. FrameOK(g, live) /\ g.m = f.m /\ g.k = f.k /\ g.pc = "send"  BY <2>2, <2>3, ReturnIntoIs
  <2>5. g \in Frames /\ g.k = Top.k /\ g.m = Top.m /\ g.pc # "body" /\ frames' = Append(Below, g)
    BY <2>1, <2>2, <2>4 DEF FrameOK
  <2>6. View' = Prog!Goto(View, g.pc)  BY ONLY TiersInv, <2>1, <2>5, MovesAreSteps
  <2>7. View # << >> /\ Prog!Top.pc = "eval" /\ Prog!Top.m = Top.m  BY <2>1, ViewTop
  <2> QED  BY <2>1, <2>4, <2>6, <2>7 DEF Prog!EvalDone, Prog!At
<1>3. ASSUME LoopCompiled PROVE Prog!Loop
  <2>1. PICK f, h : f = Top /\ h = IF code.armed /\ f.id \in NotEntrant(code) THEN Deopt(f) ELSE f  OBVIOUS
  <2>2. PICK g : g = [h EXCEPT !.pc = "eval"]  OBVIOUS
  <2>3. frames # << >> /\ f.pc = "loop" /\ frames' = Append(Below, g) /\ UNCHANGED <<dict, live>>
    BY <1>3, <2>1, <2>2 DEF LoopCompiled
  <2>4. f \in Frames /\ 0 \in 0 .. NumSlots  BY <2>1, <2>3, TopIs, Limits DEF TiersInv
  <2>5. h \in Frames /\ h.k = f.k /\ h.m = f.m
    <3>1. CASE h = f  BY <2>4, <3>1
    <3>2. CASE h = Deopt(f)  BY <2>4, <3>2 DEF Frames, Deopt
    <3> QED  BY <2>1, <3>1, <3>2
  <2>6. g \in Frames /\ g.k = f.k /\ g.m = f.m /\ g.pc = "eval"  BY <2>2, <2>5 DEF Frames
  <2> QED  BY <1>1, <2>1, <2>3, <2>6
<1>4. ASSUME LoopInterpreted PROVE Prog!Loop
  <2>1. PICK f, g : f = Top /\ g = [f EXCEPT !.pc = "eval"]  OBVIOUS
  <2>2. frames # << >> /\ f.pc = "loop" /\ frames' = Append(Below, g) /\ UNCHANGED <<dict, live>>
    BY <1>4, <2>1 DEF LoopInterpreted
  <2>3. f \in Frames  BY <2>1, <2>2, TopIs DEF TiersInv
  <2>4. g \in Frames /\ g.k = f.k /\ g.m = f.m /\ g.pc = "eval"  BY <2>1, <2>3 DEF Frames
  <2> QED  BY <1>1, <2>1, <2>2, <2>4
<1>5. ASSUME OsrRequest PROVE Prog!Loop
  <2>1. PICK f : f = Top  OBVIOUS
  <2>2. frames # << >> /\ f.pc = "loop" /\ UNCHANGED <<dict, live>>  BY <1>5, <2>1 DEF OsrRequest
  <2>3. PICK id, tier : frames' = Append(Below, [f EXCEPT !.pc = "eval", !.id = id, !.tier = tier])
    BY <1>5, <2>1 DEF OsrRequest
  <2>4. f \in Frames /\ Below \in Seq(Frames)  BY <2>1, <2>2, TopIs DEF TiersInv
  <2>5. PICK g : g = [f EXCEPT !.pc = "eval", !.id = id, !.tier = tier]  OBVIOUS
  <2>6. g.k = f.k /\ g.m = f.m /\ g.pc = "eval"  BY <2>4, <2>5 DEF Frames
  <2>7. g \in Frames
    <3>1. frames' \in Seq(Frames)  BY <1>5, OsrRequestKeeps DEF TiersInv, StackOK
    <3>2. PICK b, gs : b = Below /\ gs = frames'  OBVIOUS
    <3>3. gs \in Seq(Frames) /\ gs = Append(b, g) /\ b \in Seq(Frames)  BY <2>3, <2>4, <2>5, <3>1, <3>2
    <3>4. Len(b) \in Nat /\ Len(gs) = Len(b) + 1 /\ gs[Len(b) + 1] = g  BY <3>3
    <3>5. Len(gs) \in DOMAIN gs  BY <3>3, <3>4
    <3> QED  BY <3>3, <3>4, <3>5, SeqElements
  <2> QED  BY <1>1, <2>1, <2>2, <2>3, <2>5, <2>6, <2>7
<1>6. ASSUME NEW k, UncommonTrap(k) PROVE UNCHANGED <<dict, live, View>>
  <2>1. PICK f, h : f = Top /\ h = Deopt(f)  OBVIOUS
  <2>2. PICK g : g = [h EXCEPT !.after = f.id]  OBVIOUS
  <2>3. /\ frames # << >> /\ f.pc = "send" /\ frames' = Append(Below, g) /\ UNCHANGED <<dict, live>>
    BY <1>6, <2>1, <2>2 DEF UncommonTrap
  <2>4. f \in Frames /\ 0 \in 0 .. NumSlots  BY <2>1, <2>3, TopIs, Limits DEF TiersInv
  <2>5. h \in Frames /\ h.k = f.k /\ h.m = f.m /\ h.pc = "send"  BY <2>1, <2>3, <2>4 DEF Frames, Deopt
  <2>6. f.id \in {C2IDone} \cup 0 .. NumSlots  BY <2>4, FrameIs
  <2>7. g \in Frames /\ g.k = f.k /\ g.m = f.m /\ g.pc = "send"  BY <2>2, <2>5, <2>6 DEF Frames
  <2>8. g.k = Top.k /\ g.m = Top.m /\ g.pc # "body" /\ g.pc = Top.pc  BY <2>1, <2>3, <2>7
  <2>9. View' = View  BY ONLY TiersInv, <2>3, <2>7, <2>8, MovesAreSteps
  <2> QED  BY <2>3, <2>9
<1> QED  BY <1>2, <1>3, <1>4, <1>5, <1>6

\* An activation ends.
LEMMA ReturnIsReturn ==
    ASSUME Admit = {}, TiersInv, Return
    PROVE  Prog!Return
<1>1. PICK fs, gs, n : fs = frames /\ gs = frames' /\ n = Len(fs) - 1  OBVIOUS
<1>2. /\ fs # << >> /\ (Top.m.s = "f" \/ Top.pc = "loop") /\ UNCHANGED <<dict, live>>
      /\ gs = [j \in 1 .. n |-> IF j = n /\ fs[j].pc = "send" THEN ReturnInto(fs[j], "loop") ELSE fs[j]]
  BY <1>1 DEF Return
<1>3. StackOK(fs, code, dict, live) /\ fs \in Seq(Frames)  BY <1>1 DEF TiersInv, StackOK
<1>4. n \in Nat /\ Len(fs) = n + 1 /\ DOMAIN fs = 1 .. n + 1
  <2>1. Len(fs) \in Nat \ {0} /\ DOMAIN fs = 1 .. Len(fs)  BY <1>2, <1>3
  <2> QED  BY <1>1, <2>1
<1>5. PICK v, w : v = ViewOf(fs) /\ w = ViewOf(gs)  OBVIOUS
<1>6. View = v /\ View' = w  BY <1>1, <1>5 DEF View, ViewOf, Seen
<1>7. PICK bs : bs = SubSeq(fs, 1, n)  OBVIOUS
<1>8. bs \in Seq(Frames) /\ Len(bs) = n /\ DOMAIN bs = 1 .. n /\ \A j \in 1 .. n : bs[j] = fs[j]
  <2>1. n \in 0 .. Len(fs)  BY <1>4
  <2> QED  BY <1>3, <1>7, <2>1, SeqCut
<1>9. gs \in Seq(Frames)  BY <1>1, ReturnKeeps DEF TiersInv, StackOK
<1>10. Len(gs) = n /\ DOMAIN gs = 1 .. n
  <2>1. DOMAIN gs = 1 .. n  BY <1>2
  <2> QED  BY <1>4, <1>9, <2>1
<1>11. SubSeq(v, 1, Len(v) - 1) = ViewOf(bs)
  <2>1. v \in Seq(ProgramFrames) /\ Len(v) = n + 1 /\ \A j \in 1 .. n + 1 : v[j] = Seen(fs[j])
    BY <1>3, <1>4, <1>5, ViewIs
  <2>2. PICK x, y : x = SubSeq(v, 1, n) /\ y = ViewOf(bs)  OBVIOUS
  <2>3. n \in 0 .. Len(v) /\ Len(v) - 1 = n  BY <1>4, <2>1
  <2>4. x \in Seq(ProgramFrames) /\ Len(x) = n /\ \A j \in 1 .. n : x[j] = v[j]
    BY <2>1, <2>2, <2>3, SeqCut
  <2>5. y \in Seq(ProgramFrames) /\ Len(y) = n /\ \A j \in 1 .. n : y[j] = Seen(bs[j])
    BY <1>8, <2>2, ViewIs
  <2>6. \A j \in 1 .. n : x[j] = y[j]
    <3> TAKE j \in 1 .. n
    <3>1. j \in 1 .. n + 1  BY <1>4
    <3> QED  BY <1>8, <2>1, <2>4, <2>5, <3>1
  <2>7. x = y  BY <1>4, <2>4, <2>5, <2>6
  <2> QED  BY <2>2, <2>3, <2>7
<1>12. PICK b : b = ViewOf(bs)  OBVIOUS
<1>13. b \in Seq(ProgramFrames) /\ Len(b) = n /\ (b = << >> <=> bs = << >>)
       /\ \A j \in 1 .. n : b[j] = Seen(bs[j])
  BY <1>8, <1>12, ViewIs
<1>14. w = IF b # << >> /\ b[Len(b)].pc = "send" THEN Prog!Goto(b, "loop") ELSE b
  <2>1. CASE n = 0
    <3>1. b = << >>  BY <1>13, <2>1
    <3>2. \A j \in 1 .. Len(bs) : Seen(gs[j]) = Seen(bs[j])  BY <1>8, <2>1
    <3>3. w = b  BY <1>5, <1>8, <1>9, <1>10, <1>12, <3>2, SameView
    <3> QED  BY <3>1, <3>3
  <2>2. CASE n # 0
    <3>1. n \in 1 .. n /\ n \in DOMAIN fs /\ n < Len(fs)  BY <1>4, <2>2
    <3>2. b # << >> /\ bs # << >> /\ bs[n] = fs[n] /\ b[n] = Seen(fs[n]) /\ bs[n] \in Frames
      <4>1. b # << >>  BY <1>13, <2>2
      <4> QED  BY <1>8, <1>13, <3>1, <4>1
    <3>3. FrameOK(fs[n], live) /\ RunsOK(fs[n], code, dict) /\ PlaceOK(fs, n)  BY <1>3, <3>1 DEF StackOK
    <3>4. fs[n].m.s = "c" /\ fs[n].pc \in {"eval", "send"}  BY <3>1, <3>3 DEF PlaceOK
    <3>5. b[n].pc = fs[n].pc  BY <3>2, <3>4, SeenIs
    <3>6. \A j \in 1 .. n - 1 : gs[j] = bs[j]
      <4> TAKE j \in 1 .. n - 1
      <4>1. j \in 1 .. n /\ j # n  BY <1>4
      <4> QED  BY <1>2, <1>8, <4>1
    <3>7. CASE fs[n].pc = "send"
      <4>1. PICK f, g, pc : f = fs[n] /\ g = ReturnInto(f, "loop") /\ pc = "loop"  OBVIOUS
      <4>2. gs[n] = g  BY <1>2, <3>1, <3>7, <4>1
      <4>3. g.m = f.m /\ g.k = f.k /\ g.pc = "loop"  BY <3>3, <3>4, <4>1, ReturnIntoIs
      <4>4. /\ Len(gs) = Len(bs) /\ g = gs[Len(bs)] /\ f = bs[Len(bs)] /\ g.k = f.k /\ g.m = f.m
            /\ pc = g.pc /\ pc # "body"
        BY <1>8, <1>10, <3>2, <4>1, <4>2, <4>3
      <4>5. \A j \in 1 .. Len(bs) - 1 : Seen(gs[j]) = Seen(bs[j])  BY <1>8, <3>6
      <4>6. bs \in Seq(Frames) /\ gs \in Seq(Frames) /\ bs # << >>  BY <1>8, <1>9, <3>2
      <4>7. ViewOf(gs) = Prog!Goto(ViewOf(bs), pc)  BY ONLY <4>4, <4>5, <4>6, ViewMoved
      <4>8. w = Prog!Goto(b, "loop")  BY <1>5, <1>12, <4>1, <4>7
      <4> QED  BY <1>13, <3>2, <3>5, <3>7, <4>8
    <3>8. CASE fs[n].pc # "send"
      <4>1. gs[n] = bs[n]  BY <1>2, <3>1, <3>2, <3>8
      <4>2. \A j \in 1 .. Len(bs) : Seen(gs[j]) = Seen(bs[j])
        <5> TAKE j \in 1 .. Len(bs)
        <5>1. CASE j = n  BY <4>1, <5>1
        <5>2. CASE j # n
          <6>1. j \in 1 .. n - 1  BY <1>4, <1>8, <5>2
          <6> QED  BY <3>6, <6>1
        <5> QED  BY <5>1, <5>2
      <4>3. bs \in Seq(Frames) /\ gs \in Seq(Frames) /\ Len(gs) = Len(bs)  BY <1>8, <1>9, <1>10
      <4>4. ViewOf(gs) = ViewOf(bs)  BY ONLY <4>2, <4>3, SameView
      <4>5. w = b  BY <1>5, <1>12, <4>4
      <4> QED  BY <1>13, <3>5, <3>8, <4>5
    <3> QED  BY <3>7, <3>8
  <2> QED  BY <2>1, <2>2
<1>15. View # << >> /\ Prog!Top.m = Top.m /\ (Top.pc = "loop" => Prog!Top.pc = "loop")
  BY <1>1, <1>2, ViewTop
<1>16. SubSeq(View, 1, Len(View) - 1) = b  BY <1>6, <1>11, <1>12
<1>17. View' = IF b # << >> /\ b[Len(b)].pc = "send" THEN Prog!Goto(b, "loop") ELSE b  BY <1>6, <1>14
<1> QED  BY <1>2, <1>15, <1>16, <1>17 DEF Prog!Return, Prog!At


\* Redefinition and collection, as the program sees them.
LEMMA WorldStepsAreSteps ==
    ASSUME Admit = {}, TiersInv
    PROVE  /\ \A h \in Classes, s \in Selectors : InstallMethod(h, s) => Prog!Define(h, s)
           /\ \A move : Scavenge(move) => UNCHANGED <<dict, live, View>>
           /\ \A dead, move : FullGC(dead, move) => Prog!Forget(dead)
           /\ \A k : CreateClass(k) => Prog!Create(k)
<1>1. ASSUME UNCHANGED frames PROVE View' = View  BY <1>1 DEF View
<1>2. ASSUME NEW h \in Classes, NEW s \in Selectors, InstallMethod(h, s) PROVE Prog!Define(h, s)
  <2>1. PICK fs, gs, ids : fs = frames /\ gs = frames' /\ ids = AffectedByInstall(code, h, s)  OBVIOUS
  <2>2. /\ AtEval /\ h \in live /\ [h |-> h, s |-> s, v |-> dict[h][s] + 1] \in Redefinitions
        /\ dict' = [dict EXCEPT ![h][s] = @ + 1] /\ live' = live
        /\ gs = [j \in DOMAIN fs |-> IF fs[j].tier = "C" /\ fs[j].id \in ids
                                       THEN [fs[j] EXCEPT !.redir = TRUE] ELSE fs[j]]
    BY <1>2, <2>1 DEF InstallMethod, Redirect
  <2>3. fs \in Seq(Frames)  BY <2>1 DEF TiersInv, StackOK
  <2>4. gs \in Seq(Frames)  BY <1>2, <2>1, InstallMethodKeeps DEF TiersInv, StackOK
  <2>5. Len(fs) \in Nat /\ DOMAIN fs = 1 .. Len(fs) /\ \A j \in 1 .. Len(fs) : fs[j] \in Frames  BY <2>3
  <2>6. DOMAIN gs = DOMAIN fs  BY <2>2
  <2>7. Len(gs) = Len(fs)  BY <2>4, <2>5, <2>6
  <2>8. \A j \in 1 .. Len(fs) : Seen(gs[j]) = Seen(fs[j])
    <3> TAKE j \in 1 .. Len(fs)
    <3>1. PICK f, g : f = fs[j] /\ g = gs[j]  OBVIOUS
    <3>2. f \in Frames /\ (g = f \/ g = [f EXCEPT !.redir = TRUE])  BY <2>2, <2>5, <3>1
    <3>3. g.k = f.k /\ g.m = f.m /\ g.pc = f.pc  BY <3>2 DEF Frames
    <3> QED  BY <3>1, <3>3 DEF Seen
  <2>9. ViewOf(gs) = ViewOf(fs)  BY ONLY <2>3, <2>4, <2>7, <2>8, SameView
  <2>10. View' = View  BY <2>1, <2>9 DEF View, ViewOf, Seen
  <2> QED  BY <2>2, <2>10, ViewTop DEF Prog!Define
<1>3. ASSUME NEW move, Scavenge(move) PROVE UNCHANGED <<dict, live, View>>
  BY <1>1, <1>3 DEF Scavenge
<1>4. ASSUME NEW dead, NEW move, FullGC(dead, move) PROVE Prog!Forget(dead)
  <2>1. /\ AtEval /\ UNCHANGED frames /\ live' = live \ dead
        /\ dict' = [k \in Classes |-> IF k \in dead THEN [s \in Selectors |-> 0] ELSE dict[k]]
        /\ \A k \in dead : ~Held(k)
    BY <1>4 DEF FullGC
  <2>2. ASSUME NEW i \in DOMAIN View PROVE {View[i].k, View[i].m.h} \cap dead = {}
    <3>1. i \in DOMAIN frames /\ View[i].k = frames[i].k /\ View[i].m = frames[i].m  BY <2>2 DEF View
    <3>2. frames[i].k \notin dead /\ frames[i].m.h \notin dead  BY <2>1, <3>1 DEF Held
    <3> QED  BY <3>1, <3>2
  <2> QED  BY <1>1, <2>1, <2>2, ViewTop DEF Prog!Forget
<1>5. ASSUME NEW k, CreateClass(k) PROVE Prog!Create(k)
  BY <1>1, <1>5, ViewTop DEF CreateClass, Prog!Create
<1> QED  BY <1>2, <1>3, <1>4, <1>5

\* The two tiers are the program run by one interpreter without caches or compiled code:
\* entering compiled code, on-stack replacement, traps, deoptimization in the middle of a call
\* or at a back edge, redefinition and collection neither repeat nor skip a step of any
\* activation and change no method that runs (rt_osr_request, rt_uncommon_trap,
\* rt_deopt_on_return, rt_poll, install_method, full_gc).
THEOREM TiersImplementProgram == ASSUME Admit = {} PROVE Spec => ProgramSpec
<1>1. Init => Prog!Init  BY DEF Prog!Init, Init, View
<1>2. TiersInv /\ [Next]_vars => [Prog!Next]_(Prog!vars)
  <2> SUFFICES ASSUME TiersInv, [Next]_vars PROVE Prog!Next \/ UNCHANGED <<dict, live, View>>
    BY DEF Prog!vars
  <2>1. CASE UNCHANGED vars  BY <2>1 DEF vars, View
  <2>2. CASE \E k \in CReceivers : Doit(k, "c")
    <3>1. "c" \in Selectors  BY Limits
    <3> QED  BY <2>2, <3>1, SendsAreSteps DEF Prog!Next
  <2>3. CASE \E k \in FReceivers : Doit(k, "f")
    <3>1. "f" \in Selectors  BY Limits
    <3> QED  BY <2>3, <3>1, SendsAreSteps DEF Prog!Next
  <2>4. CASE \E k \in FReceivers : SendInterpreted(k)  BY <2>4, SendsAreSteps DEF Prog!Next
  <2>5. CASE \E k \in FReceivers : SendCompiled(k)  BY <2>5, SendsAreSteps DEF Prog!Next
  <2>6. CASE \E k \in FReceivers : UncommonTrap(k)  BY <2>6, TopStepsAreSteps
  <2>7. CASE Return  BY <2>7, ReturnIsReturn DEF Prog!Next
  <2>8. CASE EvalDone  BY <2>8, TopStepsAreSteps DEF Prog!Next
  <2>9. CASE LoopCompiled \/ LoopInterpreted \/ OsrRequest  BY <2>9, TopStepsAreSteps DEF Prog!Next
  <2>10. CASE \E h \in Classes, s \in Selectors : InstallMethod(h, s)
    BY <2>10, WorldStepsAreSteps DEF Prog!Next
  <2>11. CASE \E move \in Moves : Scavenge(move)  BY <2>11, WorldStepsAreSteps
  <2>12. CASE \E dead \in SUBSET (Mortal \cap live), move \in Moves : FullGC(dead, move)
    BY <2>12, WorldStepsAreSteps DEF Prog!Next
  <2>13. CASE \E k \in Mortal : CreateClass(k)  BY <2>13, WorldStepsAreSteps DEF Prog!Next
  <2> QED  BY <2>1, <2>2, <2>3, <2>4, <2>5, <2>6, <2>7, <2>8, <2>9, <2>10, <2>11, <2>12, <2>13 DEF Next
<1> QED  BY <1>1, <1>2, TiersInvariant, PTL DEF Spec, ProgramSpec, Prog!Spec


=============================================================================
