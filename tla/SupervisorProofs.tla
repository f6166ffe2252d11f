-------------------------- MODULE SupervisorProofs --------------------------
(***************************************************************************)
(* The Cocoa host, for every number of generations, requests, rebuilds and *)
(* nested dispatches.                                                      *)
(*                                                                         *)
(* That a continuation's request is somewhere (NothingForgotten), and only *)
(* in one place (AnsweredOnce), rests on what a link may lead to: a        *)
(* generation the UI worker was not linked to before, which has therefore  *)
(* been asked nothing (LinkInv, FreshInv).                                 *)
(***************************************************************************)
EXTENDS Supervisor, DataLemmas

States == {"boot", "failed", "up", "loop", "pump", "file", "filing", "done", "dead"}
Generation ==
    [st : States, stop : BOOLEAN, birth : Nat, req : Seq(Request), stack : Seq(Request),
     cur : Request \cup {NoRequest}, hosted : Seq(Request)]
UiWorker ==
    [gen : Nat, vm : 1 .. MaxRebuilds + 1, corr : Nat, pending : SUBSET Nat, raised : SUBSET Nat]

\* The requests a generation has yet to answer, and the replies it has sent.
Asked(n) == Range(n.req) \cup Range(n.stack)
Told(n) == Range(n.hosted)

\* Types; a rebuild asked for is within the bound until it is done.
TypeInv ==
    /\ gens \in Seq(Generation)
    /\ dog \in [pc : {"boot", "watch", "exit"}, fails : Nat] /\ dog.fails < MaxBootFailures
    /\ resync \in Seq(Nat)
    /\ ui \in UiWorker /\ ui.pending \subseteq 1 .. ui.corr
    /\ ask \subseteq {"restart", "rebuild"}
    /\ "rebuild" \in ask => ui.gen # 0 /\ ui.vm <= MaxRebuilds
    /\ file \in [seq : Nat, pending : Nat]

\* Links arrive in the order of their generations, each one newer than the one
\* the UI worker has; a generation being booted is newer than all of them.  Before
\* its first link the UI worker asks nothing.
LinkInv ==
    /\ ui.gen <= Len(gens) /\ (ui.gen = 0 => ui.pending = {})
    /\ dog.pc # "exit" => Len(gens) # 0
    /\ \A k \in 1 .. Len(resync) : ui.gen < resync[k] /\ resync[k] <= Len(gens)
    /\ \A k, l \in 1 .. Len(resync) : k < l => resync[k] < resync[l]
    /\ dog.pc = "boot" =>
          ui.gen < Len(gens) /\ \A k \in 1 .. Len(resync) : resync[k] < Len(gens)

\* A generation that is gone serves nothing, and one the UI worker has not been
\* linked to was asked nothing.
FreshInv ==
    \A g \in 1 .. Len(gens) :
        /\ gens[g].st \in {"done", "dead"} => gens[g].stack = << >>
        /\ g > ui.gen => Asked(gens[g]) = {} /\ Told(gens[g]) = {}

\* The queue of a generation, the requests it serves and its replies have no
\* request in common, and none twice.
Separate(n) ==
    /\ IsInjective(n.req) /\ IsInjective(n.stack) /\ IsInjective(n.hosted)
    /\ Range(n.req) \cap Range(n.stack) = {}
    /\ Range(n.req) \cap Range(n.hosted) = {}
    /\ Range(n.stack) \cap Range(n.hosted) = {}

\* Numbers not yet given out: no request the linked generation knows has one.
OnceInv ==
    ui.gen # 0 =>
        /\ Separate(gens[ui.gen])
        /\ \A r \in Asked(gens[ui.gen]) \cup Told(gens[ui.gen]) :
              r.vm < ui.vm \/ (r.vm = ui.vm /\ r.c <= ui.corr)

SupervisorInv == TypeInv /\ LinkInv /\ FreshInv /\ NothingForgotten /\ OnceInv

-----------------------------------------------------------------------------
(* Sequences of requests. *)

\* The elements of a sequence, after what the model does to it.
LEMMA RangeOf ==
    ASSUME NEW S, NEW s \in Seq(S)
    PROVE  /\ Range(s) \subseteq S
           /\ Range(<< >>) = {}
           /\ s # << >> => /\ Head(s) \in S /\ Tail(s) \in Seq(S)
                           /\ Range(s) = {Head(s)} \cup Range(Tail(s))
           /\ s # << >> => /\ Last(s) \in S /\ Front(s) \in Seq(S)
                           /\ Range(s) = {Last(s)} \cup Range(Front(s))
           /\ \A e \in S : Append(s, e) \in Seq(S) /\ Range(Append(s, e)) = Range(s) \cup {e}
<1>1. Len(s) \in Nat /\ DOMAIN s = 1 .. Len(s) /\ \A i \in 1 .. Len(s) : s[i] \in S  OBVIOUS
<1>2. Range(s) \subseteq S  BY <1>1 DEF Range
<1>3. Range(<< >>) = {}  BY DEF Range
<1>4. ASSUME s # << >>
      PROVE  /\ Head(s) \in S /\ Tail(s) \in Seq(S)
             /\ Range(s) = {Head(s)} \cup Range(Tail(s))
  <2>1. Len(s) >= 1  BY <1>1, <1>4
  <2>2. /\ Head(s) = s[1] /\ Tail(s) \in Seq(S) /\ Len(Tail(s)) = Len(s) - 1
        /\ \A i \in 1 .. Len(s) - 1 : Tail(s)[i] = s[i + 1]
    BY <1>1, <1>4
  <2>3. DOMAIN Tail(s) = 1 .. Len(s) - 1  BY <2>2
  <2>4. ASSUME NEW x \in Range(s)  PROVE x \in {Head(s)} \cup Range(Tail(s))
    <3>1. PICK i \in 1 .. Len(s) : x = s[i]  BY <1>1 DEF Range
    <3>2. CASE i = 1  BY <2>2, <3>1, <3>2
    <3>3. CASE i # 1
      <4>1. i - 1 \in 1 .. Len(s) - 1 /\ (i - 1) + 1 = i  BY <1>1, <3>3
      <4> QED  BY <2>2, <2>3, <3>1, <4>1 DEF Range
    <3> QED  BY <3>2, <3>3
  <2>5. ASSUME NEW x \in Range(Tail(s))  PROVE x \in Range(s)
    <3>1. PICK i \in 1 .. Len(s) - 1 : x = Tail(s)[i]  BY <2>3 DEF Range
    <3>2. i + 1 \in 1 .. Len(s)  BY <1>1
    <3> QED  BY <1>1, <2>2, <3>1, <3>2 DEF Range
  <2>6. Head(s) \in Range(s) /\ Head(s) \in S  BY <1>1, <2>1, <2>2 DEF Range
  <2> QED  BY <2>2, <2>4, <2>5, <2>6
<1>5. ASSUME s # << >>
      PROVE  /\ Last(s) \in S /\ Front(s) \in Seq(S)
             /\ Range(s) = {Last(s)} \cup Range(Front(s))
  <2>1. PICK n \in Nat : n = Len(s)  BY <1>1
  <2>a. n >= 1
    <3>1. Len(s) >= 1  BY <1>1, <1>5
    <3> QED  BY <2>1, <3>1
  <2>2. PICK m \in Nat : m = n - 1
    <3>1. n - 1 \in Nat  BY <2>a
    <3> QED  BY <3>1
  <2>3. Last(s) = s[n] /\ Front(s) = SubSeq(s, 1, m)  BY <2>1, <2>2 DEF Last, Front
  <2>4. /\ Front(s) \in Seq(S) /\ DOMAIN Front(s) = 1 .. m
        /\ \A i \in 1 .. m : Front(s)[i] = s[i]
    <3>1. m \in 0 .. Len(s)  BY <2>1, <2>2
    <3> QED  BY <2>3, <3>1, SeqCut
  <2>5. n \in 1 .. n /\ \A i \in 1 .. n : i \in 1 .. m \/ i = n  BY <2>a, <2>2
  <2>6. \A i \in 1 .. m : i \in 1 .. n  BY <2>2
  <2>7. Last(s) \in Range(s) /\ Last(s) \in S  BY <1>1, <2>1, <2>3, <2>5 DEF Range
  <2>8. ASSUME NEW x \in Range(s)  PROVE x \in {Last(s)} \cup Range(Front(s))
    <3>1. PICK i \in 1 .. n : x = s[i]  BY <1>1, <2>1 DEF Range
    <3> QED  BY <2>3, <2>4, <2>5, <3>1 DEF Range
  <2>9. ASSUME NEW x \in Range(Front(s))  PROVE x \in Range(s)
    <3>1. PICK i \in 1 .. m : x = Front(s)[i]  BY <2>4 DEF Range
    <3> QED  BY <1>1, <2>1, <2>4, <2>6, <3>1 DEF Range
  <2> QED  BY <2>4, <2>7, <2>8, <2>9
<1>6. ASSUME NEW e \in S
      PROVE  Append(s, e) \in Seq(S) /\ Range(Append(s, e)) = Range(s) \cup {e}
  <2>1. /\ Append(s, e) \in Seq(S) /\ Len(Append(s, e)) = Len(s) + 1
        /\ Append(s, e)[Len(s) + 1] = e /\ \A i \in 1 .. Len(s) : Append(s, e)[i] = s[i]
    BY SeqAppended
  <2>2. DOMAIN Append(s, e) = 1 .. Len(s) + 1  BY <2>1
  <2>3. \A i \in 1 .. Len(s) + 1 : i \in 1 .. Len(s) \/ i = Len(s) + 1  BY <1>1
  <2>4. Len(s) + 1 \in 1 .. Len(s) + 1 /\ \A i \in 1 .. Len(s) : i \in 1 .. Len(s) + 1  BY <1>1
  <2> QED  BY <1>1, <2>1, <2>2, <2>3, <2>4 DEF Range
<1> QED  BY <1>2, <1>3, <1>4, <1>5, <1>6

\* The same, of one that is appended to.
LEMMA AppendedTo ==
    ASSUME NEW S, NEW s \in Seq(S), NEW e \in S
    PROVE  Append(s, e) \in Seq(S) /\ Range(Append(s, e)) = Range(s) \cup {e}
BY RangeOf

\* What the model does to a sequence without repetitions leaves it without.
LEMMA InjectiveOf ==
    ASSUME NEW S, NEW s \in Seq(S), IsInjective(s)
    PROVE  /\ s # << >> => IsInjective(Tail(s)) /\ Head(s) \notin Range(Tail(s))
           /\ s # << >> => IsInjective(Front(s)) /\ Last(s) \notin Range(Front(s))
           /\ \A e \in S : e \notin Range(s) => IsInjective(Append(s, e))
<1>1. PICK n \in Nat : n = Len(s) /\ DOMAIN s = 1 .. n  OBVIOUS
<1>2. \A i, j \in 1 .. n : s[i] = s[j] => i = j  BY <1>1 DEF IsInjective
<1>3. ASSUME s # << >>  PROVE IsInjective(Tail(s)) /\ Head(s) \notin Range(Tail(s))
  <2>1. PICK t : t = Tail(s)  OBVIOUS
  <2>2. /\ DOMAIN t = 1 .. n - 1 /\ n >= 1 /\ Head(s) = s[1]
        /\ \A j \in 1 .. n - 1 : t[j] = s[j + 1]
    BY <1>1, <1>3, <2>1, SeqTaken
  <2>3. \A i \in 1 .. n - 1 : i + 1 \in 1 .. n /\ i + 1 # 1  BY <2>2
  <2>4. 1 \in 1 .. n  BY <2>2
  <2>5. \A i, j \in 1 .. n - 1 : t[i] = t[j] => i = j
    <3>1. \A i, j \in 1 .. n - 1 : t[i] = t[j] => i + 1 = j + 1  BY <1>2, <2>2, <2>3
    <3> QED  BY <3>1
  <2>6. \A i \in 1 .. n - 1 : t[i] # s[1]  BY <1>2, <2>2, <2>3, <2>4
  <2> QED  BY <2>1, <2>2, <2>5, <2>6 DEF IsInjective, Range
<1>4. ASSUME s # << >>  PROVE IsInjective(Front(s)) /\ Last(s) \notin Range(Front(s))
  <2>1. n >= 1
    <3>1. Len(s) >= 1  BY <1>1, <1>4
    <3> QED  BY <1>1, <3>1
  <2>2. PICK m \in Nat : m = n - 1
    <3>1. n - 1 \in Nat  BY <2>1
    <3> QED  BY <3>1
  <2>3. PICK t : t = Front(s)  OBVIOUS
  <2>4. Last(s) = s[n] /\ t = SubSeq(s, 1, m)  BY <1>1, <2>2, <2>3 DEF Last, Front
  <2>5. DOMAIN t = 1 .. m /\ \A i \in 1 .. m : t[i] = s[i]
    <3>1. m \in 0 .. Len(s)  BY <1>1, <2>2
    <3> QED  BY <2>4, <3>1, SeqCut
  <2>6. n \in 1 .. n /\ \A i \in 1 .. m : i \in 1 .. n /\ i # n  BY <2>1, <2>2
  <2>7. \A i, j \in 1 .. m : t[i] = t[j] => i = j  BY <1>2, <2>5, <2>6
  <2>8. \A i \in 1 .. m : t[i] # s[n]  BY <1>2, <2>5, <2>6
  <2>9. IsInjective(t)  BY <2>5, <2>7 DEF IsInjective
  <2>10. s[n] \notin Range(t)  BY <2>5, <2>8 DEF Range
  <2>11. Last(s) = s[n]  BY <2>4
  <2> QED  BY <2>3, <2>9, <2>10, <2>11
<1>5. ASSUME NEW e \in S, e \notin Range(s)  PROVE IsInjective(Append(s, e))
  <2>1. PICK t : t = Append(s, e)  OBVIOUS
  <2>2. /\ DOMAIN t = 1 .. n + 1 /\ t[n + 1] = e /\ \A i \in 1 .. n : t[i] = s[i]
    BY <1>1, <2>1, SeqAppended
  <2>3. \A i \in 1 .. n : s[i] # e  BY <1>1, <1>5 DEF Range
  <2>4. \A i \in 1 .. n + 1 : i \in 1 .. n \/ i = n + 1  OBVIOUS
  <2> QED  BY <1>2, <2>1, <2>2, <2>3, <2>4 DEF IsInjective
<1> QED  BY <1>3, <1>4, <1>5

\* Two such sequences with nothing in common make one.
LEMMA InjectiveJoin ==
    ASSUME NEW S, NEW s \in Seq(S), NEW t \in Seq(S), IsInjective(s), IsInjective(t),
           Range(s) \cap Range(t) = {}
    PROVE  /\ s \o t \in Seq(S) /\ IsInjective(s \o t)
           /\ Range(s \o t) \subseteq Range(s) \cup Range(t)
<1>1. PICK n \in Nat : n = Len(s) /\ DOMAIN s = 1 .. n  OBVIOUS
<1>2. PICK m \in Nat : m = Len(t) /\ DOMAIN t = 1 .. m  OBVIOUS
<1>3. PICK u : u = s \o t  OBVIOUS
<1>4. /\ u \in Seq(S) /\ DOMAIN u = 1 .. n + m
      /\ \A i \in 1 .. n + m : u[i] = IF i <= n THEN s[i] ELSE t[i - n]
  BY <1>1, <1>2, <1>3
<1>5. \A i \in 1 .. n + m : \/ i \in 1 .. n /\ i <= n
                            \/ i - n \in 1 .. m /\ ~(i <= n)
  OBVIOUS
<1>6. \A i, j \in 1 .. n : s[i] = s[j] => i = j  BY <1>1 DEF IsInjective
<1>7. \A i, j \in 1 .. m : t[i] = t[j] => i = j  BY <1>2 DEF IsInjective
<1>8. \A i \in 1 .. n, j \in 1 .. m : s[i] # t[j]  BY <1>1, <1>2 DEF Range
<1>9. \A i \in 1 .. n + m : u[i] \in Range(s) \cup Range(t)
  BY <1>1, <1>2, <1>4, <1>5 DEF Range
<1>10. ASSUME NEW i \in 1 .. n + m, NEW j \in 1 .. n + m, u[i] = u[j]  PROVE i = j
  <2>1. CASE i \in 1 .. n /\ i <= n /\ j \in 1 .. n /\ j <= n  BY <1>4, <1>6, <1>10, <2>1
  <2>2. CASE i - n \in 1 .. m /\ ~(i <= n) /\ j - n \in 1 .. m /\ ~(j <= n)
    <3>1. t[i - n] = t[j - n]  BY <1>4, <1>10, <2>2
    <3>2. i - n = j - n  BY <1>7, <2>2, <3>1
    <3> QED  BY <3>2
  <2>3. CASE i \in 1 .. n /\ i <= n /\ j - n \in 1 .. m /\ ~(j <= n)  BY <1>4, <1>8, <1>10, <2>3
  <2>4. CASE j \in 1 .. n /\ j <= n /\ i - n \in 1 .. m /\ ~(i <= n)  BY <1>4, <1>8, <1>10, <2>4
  <2> QED  BY <1>5, <2>1, <2>2, <2>3, <2>4
<1>11. IsInjective(u)  BY <1>4, <1>10 DEF IsInjective
<1>12. Range(u) \subseteq Range(s) \cup Range(t)  BY <1>4, <1>9 DEF Range
<1> QED  BY <1>3, <1>4, <1>11, <1>12

\* A sequence that has no elements has none twice.
LEMMA NothingTwice ==
    ASSUME NEW S, NEW s \in Seq(S), Range(s) = {}
    PROVE  IsInjective(s)
BY DEF Range, IsInjective

-----------------------------------------------------------------------------
(* Steps of a generation. *)

\* Fields of a generation, and what is left when it is gone.
LEMMA GenerationFields ==
    ASSUME NEW n \in Generation
    PROVE  /\ n.st \in States /\ n.stop \in BOOLEAN /\ n.birth \in Nat
           /\ n.req \in Seq(Request) /\ n.stack \in Seq(Request) /\ n.hosted \in Seq(Request)
           /\ n.cur \in Request \cup {NoRequest}
BY DEF Generation

\* A generation that has just been spawned.
LEMMA NewGeneration ==
    /\ NewGen \in Generation /\ NewGen.st = "boot" /\ NewGen.req = << >>
    /\ NewGen.stack = << >> /\ NewGen.hosted = << >>
    /\ Asked(NewGen) = {} /\ Told(NewGen) = {}
<1>1. << >> \in Seq(Request)  OBVIOUS
<1>2. /\ NewGen \in Generation /\ NewGen.st = "boot" /\ NewGen.req = << >>
      /\ NewGen.stack = << >> /\ NewGen.hosted = << >>
  BY <1>1 DEF NewGen, Generation, States
<1> QED  BY <1>1, <1>2, RangeOf DEF Asked, Told

\* A generation that was asked nothing repeats nothing.
LEMMA AskedNothing ==
    ASSUME NEW n \in Generation, Asked(n) = {}, Told(n) = {}
    PROVE  Separate(n)
<1>1. n.req \in Seq(Request) /\ n.stack \in Seq(Request) /\ n.hosted \in Seq(Request)
  BY GenerationFields
<1>2. Range(n.req) = {} /\ Range(n.stack) = {} /\ Range(n.hosted) = {}  BY DEF Asked, Told
<1>3. IsInjective(n.req) /\ IsInjective(n.stack) /\ IsInjective(n.hosted)
  BY <1>1, <1>2, NothingTwice
<1> QED  BY <1>2, <1>3 DEF Separate

\* What a step of generation g does to its requests: those it has not answered were
\* its own before, and so were its replies or the requests they answer.
Works(g, n) ==
    /\ g \in 1 .. Len(gens) /\ n \in Generation /\ gens' = [gens EXCEPT ![g] = n]
    /\ Asked(n) \subseteq Asked(gens[g]) /\ Told(n) \subseteq Told(gens[g]) \cup Asked(gens[g])
    /\ n.st \in {"done", "dead"} => n.stack = << >>
    /\ Separate(gens[g]) => Separate(n)

\* None of them is lost, unless the generation is gone or raised.
Keeps(g, n) ==
    \/ n.st \in {"done", "dead"}
    \/ /\ gens[g].st \notin {"done", "dead"}
       /\ \A r \in Asked(gens[g]) \cup Told(gens[g]) :
             r \in Asked(n) \cup Told(n) \/ (g = ui.gen /\ r.vm = ui.vm => r.c \in ui'.raised)

\* The main thread's and the watchdog's side of such a step.
Apart ==
    /\ UNCHANGED <<dog, resync, ask>>
    /\ ui' \in UiWorker /\ ui'.gen = ui.gen /\ ui'.vm = ui.vm /\ ui'.corr = ui.corr
    /\ ui'.pending = ui.pending /\ ui.raised \subseteq ui'.raised
    /\ file' \in [seq : Nat, pending : Nat]

\* Such a step preserves the invariants.
LEMMA WorkKeeps ==
    ASSUME SupervisorInv, NEW g, NEW n, Works(g, n), Keeps(g, n), Apart
    PROVE  SupervisorInv'
<1>1. /\ gens \in Seq(Generation) /\ g \in 1 .. Len(gens) /\ n \in Generation
      /\ gens' = [gens EXCEPT ![g] = n] /\ Len(gens) \in Nat /\ ui.gen \in Nat
  BY DEF Works, SupervisorInv, TypeInv, UiWorker
<1>2. /\ gens' \in Seq(Generation) /\ Len(gens') = Len(gens) /\ gens'[g] = n
      /\ \A k \in 1 .. Len(gens) : k # g => gens'[k] = gens[k]
  BY <1>1, SeqReplaced
<1>3. TypeInv'  BY <1>2 DEF SupervisorInv, TypeInv, Apart
<1>4. LinkInv'  BY <1>2 DEF SupervisorInv, LinkInv, Apart
<1>5. FreshInv'
  <2> SUFFICES ASSUME NEW k \in 1 .. Len(gens)
               PROVE  /\ gens'[k].st \in {"done", "dead"} => gens'[k].stack = << >>
                      /\ k > ui.gen => Asked(gens'[k]) = {} /\ Told(gens'[k]) = {}
    BY <1>2 DEF FreshInv, Apart, Asked, Told
  <2>1. /\ gens[k].st \in {"done", "dead"} => gens[k].stack = << >>
        /\ k > ui.gen => Asked(gens[k]) = {} /\ Told(gens[k]) = {}
    BY DEF SupervisorInv, FreshInv
  <2>2. CASE k = g  BY <1>2, <2>1, <2>2 DEF Works
  <2>3. CASE k # g  BY <1>2, <2>1, <2>3
  <2> QED  BY <2>2, <2>3
<1>6. ui'.gen = ui.gen /\ ui'.vm = ui.vm /\ ui'.pending = ui.pending /\ ui.raised \subseteq ui'.raised
  BY DEF Apart
<1>7. NothingForgotten'
  <2> SUFFICES ASSUME NEW c \in ui.pending
               PROVE  \/ gens'[ui.gen].st \in {"done", "dead"}
                      \/ c \in ui'.raised
                      \/ [c |-> c, vm |-> ui.vm] \in Asked(gens'[ui.gen]) \cup Told(gens'[ui.gen])
    BY <1>6 DEF NothingForgotten, Gen, Asked, Told
  <2>1. PICK r : r = [c |-> c, vm |-> ui.vm]  OBVIOUS
  <2>2. r.c = c /\ r.vm = ui.vm  BY <2>1
  <2>3. \/ gens[ui.gen].st \in {"done", "dead"}
        \/ c \in ui.raised
        \/ r \in Asked(gens[ui.gen]) \cup Told(gens[ui.gen])
    BY <2>1 DEF SupervisorInv, NothingForgotten, Gen, Asked, Told
  <2>4. CASE ui.gen = g
    BY <1>2, <1>6, <2>1, <2>2, <2>3, <2>4 DEF Keeps
  <2>5. CASE ui.gen # g
    <3>1. gens'[ui.gen] = gens[ui.gen]
      <4>1. CASE ui.gen \in 1 .. Len(gens)  BY <1>2, <2>5, <4>1
      <4>2. CASE ui.gen \notin 1 .. Len(gens)
        BY <1>1, <2>5, <4>2
      <4> QED  BY <4>1, <4>2
    <3> QED  BY <1>6, <2>1, <2>3, <3>1
  <2> QED  BY <2>4, <2>5
<1>8. OnceInv'
  <2> SUFFICES ASSUME ui.gen # 0
               PROVE  /\ Separate(gens'[ui.gen])
                      /\ \A r \in Asked(gens'[ui.gen]) \cup Told(gens'[ui.gen]) :
                            r.vm < ui.vm \/ (r.vm = ui.vm /\ r.c <= ui.corr)
    BY <1>6 DEF OnceInv, Apart, Asked, Told, Separate
  <2>1. ui.gen \in 1 .. Len(gens)  BY <1>1 DEF SupervisorInv, LinkInv
  <2>2. /\ Separate(gens[ui.gen])
        /\ \A r \in Asked(gens[ui.gen]) \cup Told(gens[ui.gen]) :
              r.vm < ui.vm \/ (r.vm = ui.vm /\ r.c <= ui.corr)
    BY DEF SupervisorInv, OnceInv
  <2>3. CASE ui.gen = g  BY <1>2, <2>2, <2>3 DEF Works
  <2>4. CASE ui.gen # g  BY <1>2, <2>1, <2>2, <2>4
  <2> QED  BY <2>3, <2>4
<1> QED  BY <1>3, <1>4, <1>5, <1>7, <1>8 DEF SupervisorInv

\* Facts about a generation the steps below take again and again.
LEMMA GenerationAt ==
    ASSUME SupervisorInv, NEW g \in DOMAIN gens
    PROVE  /\ g \in 1 .. Len(gens) /\ gens[g] \in Generation
           /\ gens[g].st \in {"done", "dead"} => gens[g].stack = << >>
<1>1. gens \in Seq(Generation) /\ FreshInv  BY DEF SupervisorInv, TypeInv
<1>2. g \in 1 .. Len(gens) /\ gens[g] \in Generation  BY <1>1
<1> QED  BY <1>1, <1>2 DEF FreshInv

\* A step that only moves a generation on in its beat.
LEMMA MovesOn ==
    ASSUME SupervisorInv, NEW g \in DOMAIN gens, NEW n \in Generation,
           gens' = [gens EXCEPT ![g] = n], Apart,
           n.st \notin {"done", "dead"}, gens[g].st \notin {"done", "dead"},
           n.req = gens[g].req, n.stack = gens[g].stack, n.hosted = gens[g].hosted
    PROVE  SupervisorInv'
<1>1. Asked(n) = Asked(gens[g]) /\ Told(n) = Told(gens[g])  BY DEF Asked, Told
<1>2. Works(g, n)  BY <1>1, GenerationAt DEF Works, Separate
<1>3. Keeps(g, n)  BY <1>1 DEF Keeps
<1> QED  BY <1>2, <1>3, WorkKeeps

\* A generation that ends leaves only its replies.
LEMMA Ends ==
    ASSUME SupervisorInv, NEW g \in DOMAIN gens, NEW st \in {"done", "dead"},
           gens' = [gens EXCEPT ![g] = Gone(gens[g], st)], Apart
    PROVE  SupervisorInv'
<1>1. PICK n : n = Gone(gens[g], st)  OBVIOUS
<1>2. g \in 1 .. Len(gens) /\ gens[g] \in Generation  BY GenerationAt
<1>3. gens[g].hosted \in Seq(Request) /\ st \in States  BY <1>2, GenerationFields DEF States
<1>4. /\ n \in Generation /\ n.st = st /\ n.req = << >> /\ n.stack = << >>
      /\ n.hosted = gens[g].hosted
  BY <1>1, <1>3, NewGeneration DEF Gone, Generation, NewGen
<1>5. << >> \in Seq(Request)  OBVIOUS
<1>6. Range(n.req) = {} /\ Range(n.stack) = {}  BY <1>4, <1>5, RangeOf
<1>7. Asked(n) = {} /\ Told(n) = Told(gens[g])  BY <1>4, <1>6 DEF Asked, Told
<1>a. IsInjective(n.req) /\ IsInjective(n.stack)  BY <1>4, <1>5, <1>6, NothingTwice
<1>b. Separate(gens[g]) => Separate(n)  BY <1>4, <1>6, <1>a DEF Separate
<1>8. Works(g, n)  BY <1>1, <1>2, <1>4, <1>7, <1>b DEF Works
<1>9. Keeps(g, n)  BY <1>4 DEF Keeps
<1> QED  BY <1>8, <1>9, WorkKeeps

\* A step the main thread and the watchdog take no part in.
LEMMA NotApart ==
    ASSUME SupervisorInv, UNCHANGED <<dog, resync, ui, ask>>, file' = file
    PROVE  Apart
BY DEF Apart, SupervisorInv, TypeInv

\* Boot, birth stamp, the top of the beat, and its end.
LEMMA BeatKeeps ==
    ASSUME SupervisorInv, NEW g, Boot(g) \/ BirthStamp(g) \/ Beat(g) \/ TakeFile(g) \/ FileDone(g)
    PROVE  SupervisorInv'
<1>1. g \in DOMAIN gens  BY DEF Boot, BirthStamp, Beat, TakeFile, FileDone, At
<1>2. PICK o \in Generation : o = gens[g]  BY <1>1, GenerationAt
<1>3. ASSUME NEW s \in States \ {"done", "dead"}, o.st \notin {"done", "dead"}, Apart,
             gens' = [gens EXCEPT ![g] = [o EXCEPT !.st = s]]
      PROVE  SupervisorInv'
  <2>1. PICK n : n = [o EXCEPT !.st = s]  OBVIOUS
  <2>2. n \in Generation /\ n.st = s /\ n.req = o.req /\ n.stack = o.stack /\ n.hosted = o.hosted
    BY <2>1 DEF Generation
  <2> QED  BY <1>1, <1>2, <1>3, <2>1, <2>2, MovesOn
<1>4. {"up", "failed", "loop", "pump", "filing"} \subseteq States \ {"done", "dead"}  BY DEF States
<1>5. CASE Boot(g)
  <2>1. Apart  BY <1>5, NotApart DEF Boot
  <2>2. o.st = "boot"  BY <1>2, <1>5 DEF Boot, At, Gen
  <2>3. \/ gens' = [gens EXCEPT ![g] = [o EXCEPT !.st = "up"]]
        \/ gens' = [gens EXCEPT ![g] = [o EXCEPT !.st = "failed"]]
    BY <1>2, <1>5 DEF Boot, SetGen, Gen
  <2> QED  BY <1>3, <1>4, <2>1, <2>2, <2>3
<1>6. CASE BirthStamp(g)
  <2>1. Apart  BY <1>6, NotApart DEF BirthStamp
  <2>2. o.st = "up" /\ file.seq \in Nat
    BY <1>2, <1>6 DEF BirthStamp, At, Gen, SupervisorInv, TypeInv
  <2>3. PICK n : n = [o EXCEPT !.st = "loop", !.birth = file.seq]  OBVIOUS
  <2>4. /\ n \in Generation /\ n.st = "loop" /\ n.req = o.req /\ n.stack = o.stack
        /\ n.hosted = o.hosted
    BY <2>2, <2>3 DEF Generation, States
  <2>5. gens' = [gens EXCEPT ![g] = n]  BY <1>2, <1>6, <2>3 DEF BirthStamp, SetGen, Gen
  <2> QED  BY <1>1, <1>2, <2>1, <2>2, <2>4, <2>5, MovesOn
<1>7. CASE Beat(g)
  <2>1. Apart  BY <1>7, NotApart DEF Beat
  <2>2. o.st = "loop"  BY <1>2, <1>7 DEF Beat, At, Gen
  <2>3. \/ gens' = [gens EXCEPT ![g] = Gone(gens[g], "done")]
        \/ gens' = [gens EXCEPT ![g] = [o EXCEPT !.st = "pump"]]
    BY <1>2, <1>7 DEF Beat, SetGen, Gen
  <2> QED  BY <1>1, <1>3, <1>4, <2>1, <2>2, <2>3, Ends
<1>8. CASE TakeFile(g)
  <2>1. Apart
    <3>1. file' \in [seq : Nat, pending : Nat]
      BY <1>8 DEF TakeFile, SupervisorInv, TypeInv
    <3> QED  BY <1>8, <3>1 DEF TakeFile, Apart, SupervisorInv, TypeInv
  <2>2. o.st \in {"file", "pump"}  BY <1>2, <1>8 DEF TakeFile, At, Gen
  <2>3. \/ gens' = [gens EXCEPT ![g] = [o EXCEPT !.st = "filing"]]
        \/ gens' = [gens EXCEPT ![g] = [o EXCEPT !.st = "loop"]]
    BY <1>2, <1>8 DEF TakeFile, SetGen, Gen
  <2> QED  BY <1>3, <1>4, <2>1, <2>2, <2>3
<1>9. CASE FileDone(g)
  <2>1. Apart  BY <1>9, NotApart DEF FileDone
  <2>2. o.st = "filing" /\ gens' = [gens EXCEPT ![g] = [o EXCEPT !.st = "loop"]]
    BY <1>2, <1>9 DEF FileDone, At, Gen, SetGen
  <2> QED  BY <1>3, <1>4, <2>1, <2>2
<1> QED  BY <1>5, <1>6, <1>7, <1>8, <1>9

\* A request goes from the inbox to the stack of those being served.
LEMMA DispatchKeeps ==
    ASSUME SupervisorInv, NEW g, DispatchOne(g)
    PROVE  SupervisorInv'
<1>1. g \in DOMAIN gens  BY DEF DispatchOne, At
<1>2. PICK o \in Generation : o = gens[g]  BY <1>1, GenerationAt
<1>3. o.st = "pump" /\ o.req # << >>  BY <1>2 DEF DispatchOne, At, Gen
<1>4. PICK req \in Seq(Request) : req = o.req  BY GenerationFields
<1>5. PICK stack \in Seq(Request) : stack = o.stack  BY GenerationFields
<1>6. PICK r : r = Head(req)  OBVIOUS
<1>7. r \in Request /\ Tail(req) \in Seq(Request) /\ Range(req) = {r} \cup Range(Tail(req))
  BY <1>3, <1>4, <1>6, RangeOf
<1>8. Append(stack, r) \in Seq(Request) /\ Range(Append(stack, r)) = Range(stack) \cup {r}
  <2>1. r \in Request  BY <1>7
  <2>2. Append(stack, r) \in Seq(Request)  BY <2>1, AppendedTo
  <2>3. Range(Append(stack, r)) = Range(stack) \cup {r}  BY <2>1, AppendedTo
  <2> QED  BY <2>2, <2>3
<1>9. PICK n : n = [o EXCEPT !.req = Tail(req), !.stack = Append(stack, r), !.cur = r]  OBVIOUS
<1>10. gens' = [gens EXCEPT ![g] = n]
  BY <1>2, <1>4, <1>5, <1>6, <1>9 DEF DispatchOne, SetGen, Gen
<1>11. /\ n \in Generation /\ n.st = o.st /\ n.req = Tail(req)
       /\ n.stack = Append(stack, r) /\ n.hosted = o.hosted
  BY <1>7, <1>8, <1>9 DEF Generation
<1>12. Asked(n) = Asked(gens[g]) /\ Told(n) = Told(gens[g])
  BY <1>2, <1>4, <1>5, <1>7, <1>8, <1>11 DEF Asked, Told
<1>a. Separate(gens[g]) => Separate(n)
  <2> SUFFICES ASSUME Separate(o)  PROVE Separate(n)  BY <1>2
  <2>1. /\ IsInjective(req) /\ IsInjective(stack) /\ IsInjective(o.hosted)
        /\ Range(req) \cap Range(stack) = {} /\ Range(req) \cap Range(o.hosted) = {}
        /\ Range(stack) \cap Range(o.hosted) = {}
    BY <1>4, <1>5 DEF Separate
  <2>2. IsInjective(Tail(req)) /\ r \notin Range(Tail(req))
    BY <1>3, <1>4, <1>6, <2>1, InjectiveOf
  <2>3. r \in Request /\ r \notin Range(stack)  BY <1>7, <2>1
  <2>4. IsInjective(Append(stack, r))  BY <2>1, <2>3, InjectiveOf
  <2> QED  BY <1>7, <1>8, <1>11, <2>1, <2>2, <2>4 DEF Separate
<1>13. Works(g, n)  BY <1>1, <1>3, <1>10, <1>11, <1>12, <1>a, GenerationAt DEF Works
<1>14. Keeps(g, n)  BY <1>2, <1>3, <1>12 DEF Keeps
<1>15. Apart  BY NotApart DEF DispatchOne
<1> QED  BY <1>13, <1>14, <1>15, WorkKeeps

\* A reply goes to the inbox of the main thread; only a generation whose link was
\* replaced, which no continuation waits for, is not heard any more.
LEMMA ReplyKeeps ==
    ASSUME SupervisorInv, NEW g, Reply(g)
    PROVE  SupervisorInv'
<1>1. g \in DOMAIN gens  BY DEF Reply, Serving
<1>2. PICK o \in Generation : o = gens[g]  BY <1>1, GenerationAt
<1>3. o.stack # << >>  BY <1>2 DEF Reply, Serving, Gen
<1>4. o.st \notin {"done", "dead"}  BY <1>1, <1>2, <1>3, GenerationAt
<1>5. PICK stack \in Seq(Request) : stack = o.stack  BY GenerationFields
<1>6. PICK hosted \in Seq(Request) : hosted = o.hosted  BY GenerationFields
<1>7. PICK r : r = Last(stack)  OBVIOUS
<1>8. r \in Request /\ Front(stack) \in Seq(Request) /\ Range(stack) = {r} \cup Range(Front(stack))
  BY <1>3, <1>5, <1>7, RangeOf
<1>9. Append(hosted, r) \in Seq(Request) /\ Range(Append(hosted, r)) = Range(hosted) \cup {r}
  <2>1. r \in Request  BY <1>8
  <2>2. Append(hosted, r) \in Seq(Request)  BY <2>1, AppendedTo
  <2>3. Range(Append(hosted, r)) = Range(hosted) \cup {r}  BY <2>1, AppendedTo
  <2> QED  BY <2>2, <2>3
<1>10. PICK told : told = IF Heard(g) THEN Append(hosted, r) ELSE hosted  OBVIOUS
<1>11. PICK cur \in Request \cup {NoRequest} : cur = IF Len(stack) = 1 THEN NoRequest ELSE o.cur
  BY GenerationFields
<1>12. PICK n : n = [o EXCEPT !.stack = Front(stack), !.hosted = told, !.cur = cur]  OBVIOUS
<1>13. gens' = [gens EXCEPT ![g] = n]
  BY <1>2, <1>5, <1>6, <1>7, <1>10, <1>11, <1>12 DEF Reply, SetGen, Gen, ReplyTo
<1>14. told \in Seq(Request) /\ Range(told) \subseteq Range(hosted) \cup {r}  BY <1>9, <1>10
<1>15. /\ n \in Generation /\ n.st = o.st /\ n.req = o.req
       /\ n.stack = Front(stack) /\ n.hosted = told
  BY <1>8, <1>12, <1>14 DEF Generation
<1>16. /\ Asked(n) \subseteq Asked(o) /\ Asked(o) = Asked(n) \cup {r}
       /\ Told(n) \subseteq Told(o) \cup Asked(o) /\ Told(o) \subseteq Told(n)
  BY <1>5, <1>6, <1>8, <1>9, <1>10, <1>14, <1>15 DEF Asked, Told
<1>17. r \in Told(n) \/ g # ui.gen
  <2>1. CASE Heard(g)  BY <1>9, <1>10, <1>15, <2>1 DEF Told
  <2>2. CASE ~Heard(g)
    <3>1. g \in Nat /\ ui.gen \in Nat
      BY <1>1, GenerationAt DEF SupervisorInv, TypeInv, UiWorker
    <3> QED  BY <2>2, <3>1 DEF Heard
  <2> QED  BY <2>1, <2>2
<1>a. Separate(gens[g]) => Separate(n)
  <2> SUFFICES ASSUME Separate(o)  PROVE Separate(n)  BY <1>2
  <2>1. /\ IsInjective(o.req) /\ IsInjective(stack) /\ IsInjective(hosted)
        /\ Range(o.req) \cap Range(stack) = {} /\ Range(o.req) \cap Range(hosted) = {}
        /\ Range(stack) \cap Range(hosted) = {}
    BY <1>5, <1>6 DEF Separate
  <2>2. IsInjective(Front(stack)) /\ r \notin Range(Front(stack))
    BY <1>3, <1>5, <1>7, <2>1, InjectiveOf
  <2>3. r \in Request /\ r \notin Range(hosted)  BY <1>8, <2>1
  <2>4. IsInjective(Append(hosted, r))  BY <2>1, <2>3, InjectiveOf
  <2>5. IsInjective(told)  BY <1>10, <2>1, <2>4
  <2> QED  BY <1>8, <1>14, <1>15, <2>1, <2>2, <2>5 DEF Separate
<1>18. Works(g, n)  BY <1>1, <1>2, <1>4, <1>13, <1>15, <1>16, <1>a, GenerationAt DEF Works
<1>19. Keeps(g, n)  BY <1>2, <1>4, <1>16, <1>17 DEF Keeps
<1>20. Apart  BY NotApart DEF Reply
<1> QED  BY <1>18, <1>19, <1>20, WorkKeeps

\* A doit that raised is not answered, and its number is recorded.
LEMMA RaiseKeeps ==
    ASSUME SupervisorInv, NEW g, Raise(g)
    PROVE  SupervisorInv'
<1>1. g \in DOMAIN gens  BY DEF Raise, Serving
<1>2. PICK o \in Generation : o = gens[g]  BY <1>1, GenerationAt
<1>3. o.stack # << >>  BY <1>2 DEF Raise, Serving, Gen
<1>4. o.st \notin {"done", "dead"}  BY <1>1, <1>2, <1>3, GenerationAt
<1>5. PICK n : n = [o EXCEPT !.stack = << >>, !.cur = NoRequest, !.st = "file"]  OBVIOUS
<1>6. gens' = [gens EXCEPT ![g] = n]  BY <1>2, <1>5 DEF Raise, SetGen, Gen
<1>7. << >> \in Seq(Request)  OBVIOUS
<1>8. /\ n \in Generation /\ n.st = "file" /\ n.req = o.req /\ n.stack = << >>
      /\ n.hosted = o.hosted
  BY <1>5, <1>7 DEF Generation, States
<1>9. Asked(o) = Asked(n) \cup Range(o.stack) /\ Told(n) = Told(o)
  BY <1>7, <1>8, RangeOf DEF Asked, Told
<1>10. PICK R : R = {r.c : r \in {q \in Range(o.stack) : q.vm = ui.vm}}  OBVIOUS
<1>11. R \in SUBSET Nat
  <2>1. Range(o.stack) \subseteq Request  BY GenerationFields, RangeOf
  <2>2. \A r \in Request : r.c \in Nat  BY SupervisorAssumption DEF Request
  <2> QED  BY <1>10, <2>1, <2>2
<1>12. ui' = IF g # ui.gen THEN ui ELSE [ui EXCEPT !.raised = @ \cup R]
  BY <1>2, <1>10 DEF Raise, Gen
<1>13. ui \in UiWorker  BY DEF SupervisorInv, TypeInv
<1>14. /\ ui' \in UiWorker /\ ui'.gen = ui.gen /\ ui'.vm = ui.vm /\ ui'.corr = ui.corr
       /\ ui'.pending = ui.pending /\ ui.raised \subseteq ui'.raised
       /\ g = ui.gen => R \subseteq ui'.raised
  BY <1>11, <1>12, <1>13 DEF UiWorker
<1>15. Apart  BY <1>14 DEF Apart, Raise, SupervisorInv, TypeInv
<1>16. \A r \in Range(o.stack) : r.vm = ui.vm => r.c \in R  BY <1>10
<1>a. Separate(gens[g]) => Separate(n)
  <2>1. Range(n.stack) = {} /\ IsInjective(n.stack)  BY <1>7, <1>8, RangeOf, NothingTwice
  <2> QED  BY <1>2, <1>8, <2>1 DEF Separate
<1>17. Works(g, n)  BY <1>1, <1>2, <1>6, <1>8, <1>9, <1>a, GenerationAt DEF Works
<1>18. Keeps(g, n)  BY <1>2, <1>4, <1>9, <1>14, <1>16 DEF Keeps
<1> QED  BY <1>15, <1>17, <1>18, WorkKeeps

\* A fatal ends the thread.
LEMMA FatalKeeps ==
    ASSUME SupervisorInv, NEW g, Fatal(g)
    PROVE  SupervisorInv'
<1>1. g \in DOMAIN gens  BY DEF Fatal, Serving, At
<1>2. gens' = [gens EXCEPT ![g] = Gone(gens[g], "dead")]  BY DEF Fatal, SetGen, Gen
<1>3. Apart  BY NotApart DEF Fatal
<1> QED  BY <1>1, <1>2, <1>3, Ends

-----------------------------------------------------------------------------
(* Steps of the watchdog. *)

\* A new generation: the one before may have been told to stop.
LEMMA Spawned ==
    ASSUME SupervisorInv, NEW old \in Seq(Generation), Len(old) = Len(gens),
           \A k \in 1 .. Len(gens) : /\ old[k].st = gens[k].st /\ old[k].req = gens[k].req
                                     /\ old[k].stack = gens[k].stack /\ old[k].hosted = gens[k].hosted,
           gens' = Append(old, NewGen), UNCHANGED <<resync, ui, ask, file>>,
           dog' \in [pc : {"boot"}, fails : Nat], dog'.fails < MaxBootFailures
    PROVE  SupervisorInv'
<1>1. PICK m \in Nat : m = Len(gens)  BY DEF SupervisorInv, TypeInv
<1>2. /\ gens' \in Seq(Generation) /\ Len(gens') = m + 1 /\ gens'[m + 1] = NewGen
      /\ \A k \in 1 .. m : gens'[k] = old[k]
  BY <1>1, NewGeneration, SeqAppended
<1>3. \A k \in 1 .. m : /\ gens'[k].st = gens[k].st /\ gens'[k].stack = gens[k].stack
                        /\ Asked(gens'[k]) = Asked(gens[k]) /\ Told(gens'[k]) = Told(gens[k])
  BY <1>1, <1>2 DEF Asked, Told
<1>4. TypeInv'  BY <1>2 DEF SupervisorInv, TypeInv
<1>5. ui.gen \in Nat /\ resync \in Seq(Nat)  BY DEF SupervisorInv, TypeInv, UiWorker
<1>6. LinkInv'
  <2>1. \A k \in 1 .. Len(resync) : resync[k] \in Nat  BY <1>5
  <2>2. /\ ui.gen <= m /\ (ui.gen = 0 => ui.pending = {})
        /\ \A k \in 1 .. Len(resync) : ui.gen < resync[k] /\ resync[k] <= m
        /\ \A k, l \in 1 .. Len(resync) : k < l => resync[k] < resync[l]
    BY <1>1 DEF SupervisorInv, LinkInv
  <2> QED  BY <1>2, <1>5, <2>1, <2>2 DEF LinkInv
<1>7. FreshInv'
  <2> SUFFICES ASSUME NEW k \in 1 .. m + 1
               PROVE  /\ gens'[k].st \in {"done", "dead"} => gens'[k].stack = << >>
                      /\ k > ui.gen => Asked(gens'[k]) = {} /\ Told(gens'[k]) = {}
    BY <1>2 DEF FreshInv, Asked, Told
  <2>1. CASE k = m + 1  BY <1>2, <2>1, NewGeneration
  <2>2. CASE k # m + 1
    <3>1. k \in 1 .. m  BY <2>2
    <3> QED  BY <1>1, <1>3, <3>1 DEF SupervisorInv, FreshInv
  <2> QED  BY <2>1, <2>2
<1>8. ui.gen # 0 => ui.gen \in 1 .. m
  BY <1>1, <1>5 DEF SupervisorInv, LinkInv
<1>9. NothingForgotten'
  <2> SUFFICES ASSUME NEW c \in ui.pending
               PROVE  \/ gens'[ui.gen].st \in {"done", "dead"}
                      \/ c \in ui.raised
                      \/ [c |-> c, vm |-> ui.vm] \in Asked(gens'[ui.gen]) \cup Told(gens'[ui.gen])
    BY DEF NothingForgotten, Gen, Asked, Told
  <2>1. ui.gen \in 1 .. m  BY <1>8 DEF SupervisorInv, LinkInv
  <2>2. PICK r : r = [c |-> c, vm |-> ui.vm]  OBVIOUS
  <2>3. \/ gens[ui.gen].st \in {"done", "dead"}
        \/ c \in ui.raised
        \/ r \in Asked(gens[ui.gen]) \cup Told(gens[ui.gen])
    BY <2>2 DEF SupervisorInv, NothingForgotten, Gen, Asked, Told
  <2> QED  BY <1>3, <2>1, <2>2, <2>3
<1>10. OnceInv'
  <2> SUFFICES ASSUME ui.gen # 0
               PROVE  /\ Separate(gens'[ui.gen])
                      /\ \A r \in Asked(gens'[ui.gen]) \cup Told(gens'[ui.gen]) :
                            r.vm < ui.vm \/ (r.vm = ui.vm /\ r.c <= ui.corr)
    BY DEF OnceInv, Asked, Told, Separate
  <2>1. ui.gen \in 1 .. m  BY <1>8
  <2>2. /\ Separate(gens[ui.gen])
        /\ \A r \in Asked(gens[ui.gen]) \cup Told(gens[ui.gen]) :
              r.vm < ui.vm \/ (r.vm = ui.vm /\ r.c <= ui.corr)
    BY DEF SupervisorInv, OnceInv
  <2>3. Separate(gens'[ui.gen])  BY <1>1, <1>2, <2>1, <2>2 DEF Separate
  <2> QED  BY <1>3, <2>1, <2>2, <2>3
<1> QED  BY <1>4, <1>6, <1>7, <1>9, <1>10 DEF SupervisorInv

\* Every step of the watchdog.
LEMMA WatchdogKeeps ==
    ASSUME SupervisorInv, Watchdog
    PROVE  SupervisorInv'
<1>1. PICK m \in Nat : m = Len(gens)  BY DEF SupervisorInv, TypeInv
<1>2. dog \in [pc : {"boot", "watch", "exit"}, fails : Nat] /\ dog.fails < MaxBootFailures
  BY DEF SupervisorInv, TypeInv
<1>3. gens \in Seq(Generation)  BY DEF SupervisorInv, TypeInv
<1>4. MaxBootFailures \in Nat \ {0}  BY SupervisorAssumption
<1>5. CASE WatchdogRegister
  <2>1. /\ dog.pc = "boot" /\ dog' = [pc |-> "watch", fails |-> 0]
        /\ resync' = Append(resync, m) /\ UNCHANGED <<gens, ui, ask, file>>
    BY <1>1, <1>5 DEF WatchdogRegister, Newest
  <2>2. dog'.pc = "watch" /\ dog' \in [pc : {"boot", "watch", "exit"}, fails : Nat] /\ dog'.fails = 0
    BY <2>1
  <2>3. resync \in Seq(Nat) /\ ui.gen \in Nat  BY DEF SupervisorInv, TypeInv, UiWorker
  <2>4. PICK p \in Nat : p = Len(resync)  BY <2>3
  <2>5. /\ resync' \in Seq(Nat) /\ Len(resync') = p + 1 /\ resync'[p + 1] = m
        /\ \A k \in 1 .. p : resync'[k] = resync[k] /\ resync[k] \in Nat
    BY <2>1, <2>3, <2>4, SeqAppended
  <2>6. TypeInv'  BY <1>4, <2>1, <2>2, <2>5 DEF SupervisorInv, TypeInv
  <2>7. LinkInv'
    <3>1. /\ ui.gen < m /\ (ui.gen = 0 => ui.pending = {}) /\ m # 0
          /\ \A k \in 1 .. p : ui.gen < resync[k] /\ resync[k] < m
          /\ \A k, l \in 1 .. p : k < l => resync[k] < resync[l]
      BY <1>1, <2>1, <2>4 DEF SupervisorInv, LinkInv
    <3>2. \A k \in 1 .. p + 1 : k \in 1 .. p \/ k = p + 1  OBVIOUS
    <3>3. ASSUME NEW k \in 1 .. p + 1  PROVE ui.gen < resync'[k] /\ resync'[k] <= m
      <4>1. CASE k = p + 1  BY <2>5, <3>1, <4>1
      <4>2. CASE k \in 1 .. p  BY <2>5, <3>1, <4>2
      <4> QED  BY <3>2, <4>1, <4>2
    <3>4. ASSUME NEW k \in 1 .. p + 1, NEW l \in 1 .. p + 1, k < l
          PROVE  resync'[k] < resync'[l]
      <4>1. k \in 1 .. p  BY <3>4
      <4>2. CASE l = p + 1  BY <2>5, <3>1, <4>1, <4>2
      <4>3. CASE l \in 1 .. p  BY <2>5, <3>1, <3>4, <4>1, <4>3
      <4> QED  BY <3>2, <4>2, <4>3
    <3> QED  BY <1>1, <2>1, <2>2, <2>3, <2>5, <3>1, <3>3, <3>4 DEF LinkInv
  <2> QED
    BY <2>1, <2>6, <2>7
    DEF SupervisorInv, FreshInv, NothingForgotten, OnceInv, Separate, Gen, Asked, Told
<1>6. CASE WatchdogBootFailed
  <2>1. /\ ~(dog.fails + 1 >= MaxBootFailures) /\ dog' = [dog EXCEPT !.fails = @ + 1]
        /\ dog.pc = "boot" /\ gens' = Append(gens, NewGen) /\ UNCHANGED <<resync, ui, ask, file>>
    BY <1>6 DEF WatchdogBootFailed, GiveUp
  <2>2. dog' \in [pc : {"boot"}, fails : Nat] /\ dog'.fails = dog.fails + 1  BY <1>2, <2>1
  <2>3. dog'.fails < MaxBootFailures  BY <1>2, <1>4, <2>1, <2>2
  <2> QED  BY <1>3, <2>1, <2>2, <2>3, Spawned
<1>7. CASE WatchdogExits
  <2>1. /\ gens' = << >> /\ resync' = << >> /\ ui' = NewUi /\ ask' = {} /\ file' = NoFile
        /\ dog' = [dog EXCEPT !.pc = "exit"]
    BY <1>7 DEF WatchdogExits
  <2>2. /\ dog' \in [pc : {"boot", "watch", "exit"}, fails : Nat] /\ dog'.fails = dog.fails
        /\ dog'.pc = "exit"
    BY <1>2, <2>1
  <2>3. ui' \in UiWorker /\ ui'.gen = 0 /\ ui'.pending = {}
    BY <2>1, SupervisorAssumption DEF NewUi, UiWorker
  <2>4. file' \in [seq : Nat, pending : Nat]  BY <2>1 DEF NoFile
  <2>5. gens' \in Seq(Generation) /\ resync' \in Seq(Nat) /\ Len(gens') = 0 /\ Len(resync') = 0
    BY <2>1
  <2>6. TypeInv'  BY <1>2, <2>1, <2>2, <2>3, <2>4, <2>5 DEF TypeInv
  <2>7. LinkInv'  BY <2>2, <2>3, <2>5 DEF LinkInv
  <2>8. FreshInv'  BY <2>5 DEF FreshInv
  <2> QED  BY <2>3, <2>6, <2>7, <2>8 DEF SupervisorInv, NothingForgotten, OnceInv
<1>8. CASE WatchdogEvent
  <2>1. /\ dog.pc = "watch" /\ dog' = [dog EXCEPT !.pc = "boot"] /\ UNCHANGED <<resync, ui, ask, file>>
        /\ gens' = Append([gens EXCEPT ![m].stop = TRUE], NewGen)
    BY <1>1, <1>8 DEF WatchdogEvent, Newest
  <2>2. dog' \in [pc : {"boot"}, fails : Nat] /\ dog'.fails = dog.fails  BY <1>2, <2>1
  <2>3. m \in 1 .. Len(gens)  BY <1>1, <2>1 DEF SupervisorInv, LinkInv
  <2>4. PICK n : n = [gens[m] EXCEPT !.stop = TRUE]  OBVIOUS
  <2>5. gens[m] \in Generation  BY <1>3, <2>3
  <2>6. /\ n \in Generation /\ n.st = gens[m].st /\ n.req = gens[m].req
        /\ n.stack = gens[m].stack /\ n.hosted = gens[m].hosted
    BY <2>4, <2>5 DEF Generation
  <2>7. PICK old : old = [gens EXCEPT ![m] = n]  OBVIOUS
  <2>8. /\ old \in Seq(Generation) /\ Len(old) = Len(gens) /\ old[m] = n
        /\ \A k \in 1 .. Len(gens) : k # m => old[k] = gens[k]
    BY <1>3, <2>3, <2>6, <2>7, SeqReplaced
  <2>9. \A k \in 1 .. Len(gens) :
           /\ old[k].st = gens[k].st /\ old[k].req = gens[k].req
           /\ old[k].stack = gens[k].stack /\ old[k].hosted = gens[k].hosted
    BY <2>6, <2>8
  <2>10. gens' = Append(old, NewGen)  BY <2>1, <2>4, <2>7
  <2> QED  BY <1>2, <2>1, <2>2, <2>8, <2>9, <2>10, Spawned
<1> QED  BY <1>5, <1>6, <1>7, <1>8 DEF Watchdog

-----------------------------------------------------------------------------
(* Steps of the main thread. *)

\* The link the UI worker has leads to a generation.
LEMMA LinkedTo ==
    ASSUME SupervisorInv, ui.gen # 0
    PROVE  ui.gen \in 1 .. Len(gens) /\ ui.gen \in DOMAIN gens /\ gens[ui.gen] \in Generation
<1>1. ui.gen \in Nat /\ gens \in Seq(Generation)  BY DEF SupervisorInv, TypeInv, UiWorker
<1>2. ui.gen \in 1 .. Len(gens)  BY <1>1 DEF SupervisorInv, LinkInv
<1> QED  BY <1>1, <1>2

\* The menu items set flags only.
LEMMA AskKeeps ==
    ASSUME SupervisorInv, AskRestart \/ AskFileIn \/ AskRebuild
    PROVE  SupervisorInv'
<1>1. UNCHANGED <<gens, dog, resync, ui>> /\ ui.gen # 0  BY DEF AskRestart, AskFileIn, AskRebuild
<1>2. /\ ask' \subseteq {"restart", "rebuild"}
      /\ "rebuild" \in ask' => ui.vm <= MaxRebuilds
  BY DEF AskRestart, AskFileIn, AskRebuild, SupervisorInv, TypeInv
<1>3. file' \in [seq : Nat, pending : Nat]
  <2>1. file \in [seq : Nat, pending : Nat]  BY DEF SupervisorInv, TypeInv
  <2> QED  BY <2>1 DEF AskRestart, AskFileIn, AskRebuild
<1> QED
  BY <1>1, <1>2, <1>3
  DEF SupervisorInv, TypeInv, LinkInv, FreshInv, NothingForgotten, OnceInv, Separate, Gen, Asked, Told

\* The first link: nobody asked its generation anything.
LEMMA UiBootKeeps ==
    ASSUME SupervisorInv, UiBoot
    PROVE  SupervisorInv'
<1>1. /\ ui.gen = 0 /\ resync # << >> /\ ui' = [ui EXCEPT !.gen = Head(resync)]
      /\ resync' = Tail(resync) /\ UNCHANGED <<gens, dog, ask, file>>
  BY DEF UiBoot
<1>2. /\ resync \in Seq(Nat) /\ ui \in UiWorker /\ gens \in Seq(Generation)
      /\ "rebuild" \notin ask
  BY <1>1 DEF SupervisorInv, TypeInv
<1>3. PICK p \in Nat : p = Len(resync)  BY <1>2
<1>4. /\ resync' \in Seq(Nat) /\ Len(resync') = p - 1 /\ p >= 1
      /\ \A k \in 1 .. p - 1 : resync'[k] = resync[k + 1]
      /\ Head(resync) = resync[1] /\ resync[1] \in Nat
  BY <1>1, <1>2, <1>3, SeqTaken
<1>5. PICK h \in Nat : h = resync[1]  BY <1>4
<1>6. PICK m \in Nat : m = Len(gens)  BY <1>2
<1>7. /\ ui' \in UiWorker /\ ui'.gen = h /\ ui'.vm = ui.vm /\ ui'.corr = ui.corr
      /\ ui'.pending = ui.pending
  BY <1>1, <1>2, <1>4, <1>5 DEF UiWorker
<1>8. /\ \A k \in 1 .. p : 0 < resync[k] /\ resync[k] <= m
      /\ \A k, l \in 1 .. p : k < l => resync[k] < resync[l]
      /\ dog.pc = "boot" => 0 < m /\ \A k \in 1 .. p : resync[k] < m
      /\ ui.pending = {} /\ (dog.pc # "exit" => m # 0)
  BY <1>1, <1>3, <1>6 DEF SupervisorInv, LinkInv
<1>9. 1 \in 1 .. p /\ \A k \in 1 .. p - 1 : k + 1 \in 1 .. p /\ 1 < k + 1  BY <1>4
<1>10. 0 < h /\ h <= m /\ (dog.pc = "boot" => h < m)  BY <1>5, <1>8, <1>9
<1>11. TypeInv'
  <2>1. /\ gens' \in Seq(Generation) /\ ask' \subseteq {"restart", "rebuild"} /\ "rebuild" \notin ask'
        /\ dog' \in [pc : {"boot", "watch", "exit"}, fails : Nat] /\ dog'.fails < MaxBootFailures
        /\ file' \in [seq : Nat, pending : Nat]
    BY <1>1, <1>2 DEF SupervisorInv, TypeInv
  <2>2. ui'.pending \subseteq 1 .. ui'.corr  BY <1>7, <1>8
  <2> QED  BY <1>4, <1>7, <2>1, <2>2 DEF TypeInv
<1>12. LinkInv'
  <2>1. \A k \in 1 .. p - 1 : /\ h < resync'[k] /\ resync'[k] <= m
                              /\ dog.pc = "boot" => resync'[k] < m
    BY <1>4, <1>5, <1>8, <1>9
  <2>2. ASSUME NEW k \in 1 .. p - 1, NEW l \in 1 .. p - 1, k < l
        PROVE  resync'[k] < resync'[l]
    <3>1. k + 1 < l + 1  BY <2>2
    <3> QED  BY <1>4, <1>8, <1>9, <3>1
  <2>3. \A k, l \in 1 .. p - 1 : k < l => resync'[k] < resync'[l]  BY <2>2
  <2> QED  BY <1>1, <1>4, <1>6, <1>7, <1>8, <1>10, <2>1, <2>3 DEF LinkInv
<1>13. \A k \in 1 .. m : Asked(gens[k]) = {} /\ Told(gens[k]) = {}
  <2>1. \A k \in 1 .. m : k > ui.gen  BY <1>1
  <2>2. \A k \in 1 .. m : k > ui.gen => Asked(gens[k]) = {} /\ Told(gens[k]) = {}
    BY <1>6 DEF SupervisorInv, FreshInv
  <2> QED  BY <2>1, <2>2
<1>14. FreshInv'
  <2>1. \A k \in 1 .. m : gens[k].st \in {"done", "dead"} => gens[k].stack = << >>
    BY <1>6 DEF SupervisorInv, FreshInv
  <2> QED  BY <1>1, <1>6, <1>13, <2>1 DEF FreshInv, Asked, Told
<1>15. NothingForgotten'  BY <1>7, <1>8 DEF NothingForgotten
<1>16. OnceInv'
  <2>1. h \in 1 .. m  BY <1>10
  <2>2. Asked(gens[h]) = {} /\ Told(gens[h]) = {}  BY <1>13, <2>1
  <2>3. gens[h] \in Generation  BY <1>2, <1>6, <2>1
  <2>4. Separate(gens[h])  BY <2>2, <2>3, AskedNothing
  <2> QED  BY <1>1, <1>7, <2>2, <2>4 DEF OnceInv, Asked, Told, Separate
<1> QED  BY <1>11, <1>12, <1>14, <1>15, <1>16 DEF SupervisorInv

\* A request: registered under its number, and queued unless its generation is gone.
LEMMA UiRequestKeeps ==
    ASSUME SupervisorInv, UiRequest
    PROVE  SupervisorInv'
<1>1. /\ ui.gen # 0 /\ ui.corr + ui.vm <= MaxCorr
      /\ UNCHANGED <<dog, resync, ask, file>>
  BY DEF UiRequest
<1>2. /\ ui \in UiWorker /\ ui.corr \in Nat /\ ui.vm \in 1 .. MaxRebuilds + 1 /\ ui.gen \in Nat
      /\ ui.pending \subseteq 1 .. ui.corr
  BY DEF SupervisorInv, TypeInv, UiWorker
<1>3. PICK d : d = ui.corr + 1  OBVIOUS
<1>4. d \in Nat /\ d \in 1 .. MaxCorr /\ MaxCorr \in Nat
  <2>1. MaxCorr \in Nat /\ MaxRebuilds \in Nat  BY SupervisorAssumption
  <2>2. ui.vm \in Nat /\ ui.vm >= 1  BY <1>2, <2>1
  <2> QED  BY <1>1, <1>2, <1>3, <2>1, <2>2
<1>5. ui' = [ui EXCEPT !.corr = d, !.pending = ui.pending \cup {d}]
  BY <1>3 DEF UiRequest
<1>6. /\ ui' \in UiWorker /\ ui'.gen = ui.gen /\ ui'.vm = ui.vm /\ ui'.corr = d
      /\ ui'.pending = ui.pending \cup {d} /\ ui'.raised = ui.raised
  BY <1>2, <1>4, <1>5 DEF UiWorker
<1>7. ui'.pending \subseteq 1 .. ui'.corr
  <2>1. \A c \in 1 .. ui.corr : c \in 1 .. d  BY <1>2, <1>3
  <2>2. d \in 1 .. d  BY <1>4
  <2> QED  BY <1>2, <1>6, <2>1, <2>2
<1>8. ui.gen \in 1 .. Len(gens) /\ ui.gen \in DOMAIN gens  BY <1>1, LinkedTo
<1>9. PICK o \in Generation : o = gens[ui.gen]  BY <1>1, LinkedTo
<1>10. PICK r : r = [c |-> d, vm |-> ui.vm]  OBVIOUS
<1>11. r \in Request /\ r.vm = ui.vm /\ r.c = d  BY <1>2, <1>4, <1>10 DEF Request
<1>12. PICK req \in Seq(Request) : req = o.req  BY GenerationFields
<1>13. Append(req, r) \in Seq(Request) /\ Range(Append(req, r)) = Range(req) \cup {r}
  <2>1. r \in Request  BY <1>11
  <2>2. Append(req, r) \in Seq(Request)  BY <2>1, AppendedTo
  <2>3. Range(Append(req, r)) = Range(req) \cup {r}  BY <2>1, AppendedTo
  <2> QED  BY <2>2, <2>3
<1>14. PICK n \in Generation : /\ gens' = [gens EXCEPT ![ui.gen] = n]
                               /\ n.st = o.st /\ n.stack = o.stack /\ Told(n) = Told(o)
                               /\ Asked(n) \subseteq Asked(o) \cup {r} /\ Asked(o) \subseteq Asked(n)
                               /\ o.st \in {"done", "dead"} \/ r \in Asked(n)
                               /\ n = o \/ (n.req = Append(req, r) /\ n.hosted = o.hosted)
  <2>1. CASE o.st \in {"done", "dead"}
    <3>1. gens' = gens  BY <1>9, <2>1 DEF UiRequest, Gen
    <3>2. gens \in Seq(Generation)  BY DEF SupervisorInv, TypeInv
    <3>3. gens = [gens EXCEPT ![ui.gen] = o]  BY <1>8, <1>9, <3>2
    <3> QED  BY <2>1, <3>1, <3>3
  <2>2. CASE o.st \notin {"done", "dead"}
    <3>1. PICK n : n = [o EXCEPT !.req = Append(req, r)]  OBVIOUS
    <3>2. gens' = [gens EXCEPT ![ui.gen] = n]
      BY <1>3, <1>9, <1>10, <1>12, <2>2, <3>1 DEF UiRequest, Gen
    <3>3. /\ n \in Generation /\ n.st = o.st /\ n.stack = o.stack /\ n.hosted = o.hosted
          /\ n.req = Append(req, r)
      BY <1>13, <3>1 DEF Generation
    <3>4. Asked(n) = Asked(o) \cup {r} /\ Told(n) = Told(o)
      BY <1>12, <1>13, <3>3 DEF Asked, Told
    <3> QED  BY <3>2, <3>3, <3>4
  <2> QED  BY <2>1, <2>2
<1>15. gens \in Seq(Generation)  BY DEF SupervisorInv, TypeInv
<1>16. /\ gens' \in Seq(Generation) /\ Len(gens') = Len(gens) /\ gens'[ui.gen] = n
       /\ \A k \in 1 .. Len(gens) : k # ui.gen => gens'[k] = gens[k]
  BY <1>8, <1>14, <1>15, SeqReplaced
<1>17. TypeInv'
  <2>1. /\ dog' \in [pc : {"boot", "watch", "exit"}, fails : Nat] /\ dog'.fails < MaxBootFailures
        /\ resync' \in Seq(Nat) /\ ask' \subseteq {"restart", "rebuild"}
        /\ "rebuild" \in ask' => ui.gen # 0 /\ ui.vm <= MaxRebuilds
        /\ file' \in [seq : Nat, pending : Nat]
    BY <1>1 DEF SupervisorInv, TypeInv
  <2> QED  BY <1>6, <1>7, <1>16, <2>1 DEF TypeInv
<1>18. LinkInv'  BY <1>1, <1>6, <1>16 DEF SupervisorInv, LinkInv
<1>19. FreshInv'
  <2> SUFFICES ASSUME NEW k \in 1 .. Len(gens)
               PROVE  /\ gens'[k].st \in {"done", "dead"} => gens'[k].stack = << >>
                      /\ k > ui.gen => Asked(gens'[k]) = {} /\ Told(gens'[k]) = {}
    BY <1>6, <1>16 DEF FreshInv, Asked, Told
  <2>1. /\ gens[k].st \in {"done", "dead"} => gens[k].stack = << >>
        /\ k > ui.gen => Asked(gens[k]) = {} /\ Told(gens[k]) = {}
    BY DEF SupervisorInv, FreshInv
  <2>2. CASE k = ui.gen
    <3>1. ~(k > ui.gen)  BY <2>2
    <3> QED  BY <1>9, <1>14, <1>16, <2>1, <2>2, <3>1
  <2>3. CASE k # ui.gen  BY <1>16, <2>1, <2>3
  <2> QED  BY <2>2, <2>3
<1>20. NothingForgotten'
  <2> SUFFICES ASSUME NEW c \in ui.pending \cup {d}
               PROVE  \/ n.st \in {"done", "dead"}
                      \/ c \in ui.raised
                      \/ [c |-> c, vm |-> ui.vm] \in Asked(n) \cup Told(n)
    BY <1>6, <1>16 DEF NothingForgotten, Gen, Asked, Told
  <2>1. CASE c = d  BY <1>10, <1>14, <2>1
  <2>2. CASE c \in ui.pending
    <3>1. PICK q : q = [c |-> c, vm |-> ui.vm]  OBVIOUS
    <3>2. o.st \in {"done", "dead"} \/ c \in ui.raised \/ q \in Asked(o) \cup Told(o)
      BY <1>9, <2>2, <3>1 DEF SupervisorInv, NothingForgotten, Gen, Asked, Told
    <3> QED  BY <1>14, <3>1, <3>2
  <2> QED  BY <2>1, <2>2
<1>21. /\ Separate(o)
       /\ \A q \in Asked(o) \cup Told(o) : q.vm < ui.vm \/ (q.vm = ui.vm /\ q.c <= ui.corr)
  BY <1>1, <1>9 DEF SupervisorInv, OnceInv
<1>22. \A q \in Request : q.c \in Nat /\ q.vm \in Nat
  BY SupervisorAssumption DEF Request
<1>23. Asked(o) \cup Told(o) \subseteq Request
  BY GenerationFields, RangeOf DEF Asked, Told
<1>24. r \notin Asked(o) \cup Told(o)
  <2>1. ~(ui.vm < ui.vm) /\ ~(d <= ui.corr)
    <3>1. ui.vm \in Nat  BY <1>11, <1>22
    <3> QED  BY <1>2, <1>3, <3>1
  <2> QED  BY <1>11, <1>21, <2>1
<1>25. Separate(n)
  <2>1. CASE n = o  BY <1>21, <2>1
  <2>2. CASE n.req = Append(req, r) /\ n.hosted = o.hosted
    <3>1. r \in Request /\ r \notin Range(req) /\ r \notin Range(o.stack) /\ r \notin Range(o.hosted)
      BY <1>11, <1>12, <1>24 DEF Asked, Told
    <3>2. IsInjective(req)  BY <1>12, <1>21 DEF Separate
    <3>3. IsInjective(Append(req, r))  BY <3>1, <3>2, InjectiveOf
    <3> QED  BY <1>12, <1>13, <1>14, <1>21, <2>2, <3>1, <3>3 DEF Separate
  <2> QED  BY <1>14, <2>1, <2>2
<1>26. OnceInv'
  <2> SUFFICES ASSUME NEW q \in Asked(n) \cup Told(n)
               PROVE  q.vm < ui.vm \/ (q.vm = ui.vm /\ q.c <= d)
    BY <1>6, <1>16, <1>25 DEF OnceInv, Separate, Asked, Told
  <2>1. CASE q = r  BY <1>4, <1>11, <2>1
  <2>2. CASE q \in Asked(o) \cup Told(o)
    <3>1. q.c \in Nat  BY <1>22, <1>23, <2>2
    <3> QED  BY <1>2, <1>3, <1>21, <2>2, <3>1
  <2> QED  BY <1>14, <2>1, <2>2
<1> QED  BY <1>17, <1>18, <1>19, <1>20, <1>26 DEF SupervisorInv

\* A generation whose replies were taken.
Drained(n, o) ==
    /\ n \in Generation /\ n.st = o.st /\ n.stack = o.stack
    /\ Asked(n) = Asked(o) /\ Told(n) = {}
    /\ Separate(o) => Separate(n)

\* Replies taken from some generations.
LEMMA DrainedGeneration ==
    ASSUME NEW o \in Generation
    PROVE  Drained([o EXCEPT !.hosted = << >>], o)
<1>1. << >> \in Seq(Request)  OBVIOUS
<1>2. PICK n : n = [o EXCEPT !.hosted = << >>]  OBVIOUS
<1>3. n \in Generation /\ n.st = o.st /\ n.req = o.req /\ n.stack = o.stack /\ n.hosted = << >>
  BY <1>1, <1>2 DEF Generation
<1>4. Asked(n) = Asked(o) /\ Told(n) = {}  BY <1>1, <1>3, RangeOf DEF Asked, Told
<1>5. Range(n.hosted) = {} /\ IsInjective(n.hosted)  BY <1>1, <1>3, RangeOf, NothingTwice
<1>6. Separate(o) => Separate(n)  BY <1>3, <1>5 DEF Separate
<1> QED  BY <1>2, <1>3, <1>4, <1>6 DEF Drained

\* Freshness survives that, and a newer link.
LEMMA DrainedFresh ==
    ASSUME SupervisorInv, NEW m \in Nat, m = Len(gens), Len(gens') = m,
           \A k \in 1 .. m : gens'[k] = gens[k] \/ Drained(gens'[k], gens[k]),
           ui'.gen \in Nat, ui.gen <= ui'.gen
    PROVE  FreshInv'
<1> SUFFICES ASSUME NEW k \in 1 .. m
             PROVE  /\ gens'[k].st \in {"done", "dead"} => gens'[k].stack = << >>
                    /\ k > ui'.gen => Asked(gens'[k]) = {} /\ Told(gens'[k]) = {}
  BY DEF FreshInv, Asked, Told
<1>1. /\ gens[k].st \in {"done", "dead"} => gens[k].stack = << >>
      /\ k > ui.gen => Asked(gens[k]) = {} /\ Told(gens[k]) = {}
  BY DEF SupervisorInv, FreshInv
<1>2. ui.gen \in Nat  BY DEF SupervisorInv, TypeInv, UiWorker
<1>3. k > ui'.gen => k > ui.gen  BY <1>2
<1> QED  BY <1>1, <1>3 DEF Drained

\* A rebuild: the new VM starts with no continuation, and its generation with no
\* reply under way.
LEMMA RebuildKeeps ==
    ASSUME SupervisorInv, RebuildUi
    PROVE  SupervisorInv'
<1>1. /\ "rebuild" \in ask /\ ask' = ask \ {"rebuild"} /\ UNCHANGED <<dog, resync, file>>
      /\ gens' = [gens EXCEPT ![ui.gen] = [gens[ui.gen] EXCEPT !.hosted = << >>]]
      /\ ui' = [ui EXCEPT !.vm = @ + 1, !.corr = 0, !.pending = {}, !.raised = {}]
  BY DEF RebuildUi, DiscardInbox
<1>2. /\ ui.gen # 0 /\ ui.vm <= MaxRebuilds /\ ui \in UiWorker /\ gens \in Seq(Generation)
      /\ ui.gen \in Nat
  BY <1>1 DEF SupervisorInv, TypeInv, UiWorker
<1>3. ui.gen \in 1 .. Len(gens) /\ ui.gen \in DOMAIN gens /\ gens[ui.gen] \in Generation
  BY <1>2, LinkedTo
<1>4. PICK n : n = [gens[ui.gen] EXCEPT !.hosted = << >>]  OBVIOUS
<1>5. Drained(n, gens[ui.gen])  BY <1>3, <1>4, DrainedGeneration
<1>6. n \in Generation  BY <1>5 DEF Drained
<1>7. /\ gens' \in Seq(Generation) /\ Len(gens') = Len(gens) /\ gens'[ui.gen] = n
      /\ \A k \in 1 .. Len(gens) : k # ui.gen => gens'[k] = gens[k]
  BY <1>1, <1>2, <1>3, <1>4, <1>6, SeqReplaced
<1>8. ui.vm + 1 \in 1 .. MaxRebuilds + 1
  <2>1. MaxRebuilds \in Nat  BY SupervisorAssumption
  <2>2. ui.vm \in 1 .. MaxRebuilds + 1  BY <1>2 DEF UiWorker
  <2> QED  BY <1>2, <2>1, <2>2
<1>9. /\ ui' \in UiWorker /\ ui'.gen = ui.gen /\ ui'.vm = ui.vm + 1 /\ ui'.pending = {}
  BY <1>1, <1>2, <1>8 DEF UiWorker
<1>10. TypeInv'
  <2>1. /\ dog' \in [pc : {"boot", "watch", "exit"}, fails : Nat] /\ dog'.fails < MaxBootFailures
        /\ resync' \in Seq(Nat) /\ ask' \subseteq {"restart", "rebuild"} /\ "rebuild" \notin ask'
        /\ file' \in [seq : Nat, pending : Nat]
    BY <1>1 DEF SupervisorInv, TypeInv
  <2> QED  BY <1>7, <1>9, <2>1 DEF TypeInv
<1>11. LinkInv'  BY <1>1, <1>7, <1>9 DEF SupervisorInv, LinkInv
<1>12. FreshInv'
  <2>1. PICK m \in Nat : m = Len(gens)  BY <1>2
  <2>2. \A k \in 1 .. m : gens'[k] = gens[k] \/ Drained(gens'[k], gens[k])  BY <1>5, <1>7, <2>1
  <2>3. ui'.gen \in Nat /\ ui.gen <= ui'.gen /\ Len(gens') = m  BY <1>2, <1>7, <1>9, <2>1
  <2> QED  BY <2>1, <2>2, <2>3, DrainedFresh
<1>13. NothingForgotten'  BY <1>9 DEF NothingForgotten
<1>14. OnceInv'
  <2> SUFFICES Separate(n) /\ \A r \in Asked(n) \cup Told(n) : r.vm < ui.vm + 1
    BY <1>7, <1>9 DEF OnceInv, Separate, Asked, Told
  <2>1. /\ Separate(gens[ui.gen])
        /\ \A r \in Asked(gens[ui.gen]) : r.vm < ui.vm \/ r.vm = ui.vm
    BY <1>2 DEF SupervisorInv, OnceInv
  <2>2. \A r \in Asked(gens[ui.gen]) : r.vm \in Nat
    <3>1. Asked(gens[ui.gen]) \subseteq Request  BY <1>3, GenerationFields, RangeOf DEF Asked
    <3>2. \A r \in Request : r.vm \in Nat  BY SupervisorAssumption DEF Request
    <3> QED  BY <3>1, <3>2
  <2>3. ui.vm \in Nat  BY <1>2, SupervisorAssumption DEF UiWorker
  <2> QED  BY <1>5, <2>1, <2>2, <2>3 DEF Drained
<1> QED  BY <1>10, <1>11, <1>12, <1>13, <1>14 DEF SupervisorInv

\* A drain: the replies of the linked generation are dispatched under their numbers; a
\* new link leads to a generation that was asked nothing, and abandons what was
\* asked before.
LEMMA DrainKeeps ==
    ASSUME SupervisorInv, DrainPerform
    PROVE  SupervisorInv'
<1>1. PICK linked : linked = IF resync = << >> THEN ui.gen ELSE Last(resync)  OBVIOUS
<1>2. PICK left : left = IF resync = << >> THEN ui.pending ELSE {}  OBVIOUS
<1>3. PICK D : D = {ui.gen, linked} \cup Range(resync)  OBVIOUS
<1>4. PICK H : H = Answered(gens[linked].hosted)  OBVIOUS
<1>5. PICK R : R = IF linked = ui.gen THEN ui.raised ELSE {}  OBVIOUS
<1>6. /\ ui.gen # 0 /\ ask' = {} /\ resync' = << >> /\ UNCHANGED <<dog, file>>
      /\ ui' = [ui EXCEPT !.gen = linked, !.pending = left \ H, !.raised = R]
      /\ gens' = [g \in DOMAIN gens |->
                    IF g \in D THEN [gens[g] EXCEPT !.hosted = << >>] ELSE gens[g]]
  BY <1>1, <1>2, <1>3, <1>4, <1>5 DEF DrainPerform, Gen
<1>7. /\ gens \in Seq(Generation) /\ resync \in Seq(Nat) /\ ui \in UiWorker /\ ui.gen \in Nat
      /\ ui.pending \in SUBSET Nat /\ ui.raised \in SUBSET Nat /\ ui.pending \subseteq 1 .. ui.corr
  BY DEF SupervisorInv, TypeInv, UiWorker
<1>8. PICK m \in Nat : m = Len(gens) /\ DOMAIN gens = 1 .. m  BY <1>7
<1>9. ui.gen \in 1 .. m  BY <1>6, <1>8, LinkedTo
<1>10. /\ linked \in 1 .. m /\ ui.gen <= linked /\ linked \in D
       /\ dog.pc = "boot" => linked < m
       /\ linked # ui.gen => linked > ui.gen /\ left = {}
  <2>1. CASE resync = << >>
    BY <1>1, <1>2, <1>3, <1>7, <1>8, <1>9, <2>1 DEF SupervisorInv, LinkInv
  <2>2. CASE resync # << >>
    <3>1. PICK p \in Nat : p = Len(resync)  BY <1>7
    <3>2. p >= 1
      <4>1. Len(resync) >= 1  BY <1>7, <2>2
      <4> QED  BY <3>1, <4>1
    <3>3. linked = resync[p] /\ p \in 1 .. p  BY <1>1, <2>2, <3>1, <3>2 DEF Last
    <3>4. linked \in Nat  BY <1>7, <3>1, <3>3
    <3>5. /\ ui.gen < linked /\ linked <= m /\ (dog.pc = "boot" => linked < m)
      BY <1>8, <3>1, <3>3 DEF SupervisorInv, LinkInv
    <3> QED  BY <1>2, <1>3, <1>7, <2>2, <3>4, <3>5
  <2> QED  BY <2>1, <2>2
<1>11. \A k \in 1 .. m : /\ k \in D => Drained(gens'[k], gens[k])
                         /\ k \notin D => gens'[k] = gens[k] /\ gens'[k] \in Generation
  <2> SUFFICES ASSUME NEW k \in 1 .. m
               PROVE  /\ k \in D => Drained(gens'[k], gens[k])
                      /\ k \notin D => gens'[k] = gens[k] /\ gens'[k] \in Generation
    OBVIOUS
  <2>1. gens[k] \in Generation  BY <1>7, <1>8
  <2>2. Drained([gens[k] EXCEPT !.hosted = << >>], gens[k])  BY <2>1, DrainedGeneration
  <2> QED  BY <1>6, <1>8, <2>1, <2>2
<1>12. gens' \in Seq(Generation) /\ Len(gens') = m
  <2>1. \A k \in 1 .. m : gens'[k] \in Generation  BY <1>11 DEF Drained
  <2>2. gens' = [k \in 1 .. m |-> gens'[k]]  BY <1>6, <1>8
  <2> QED  BY <2>1, <2>2, SeqMade
<1>13. left \ H \in SUBSET Nat /\ left \subseteq 1 .. ui.corr /\ R \in SUBSET Nat
  BY <1>2, <1>5, <1>7
<1>14. /\ ui' \in UiWorker /\ ui'.gen = linked /\ ui'.vm = ui.vm /\ ui'.corr = ui.corr
       /\ ui'.pending = left \ H /\ ui'.raised = R
  <2>1. linked \in Nat  BY <1>10
  <2>2. PICK P \in SUBSET Nat : P = left \ H  BY <1>13
  <2>3. ui' = [ui EXCEPT !.gen = linked, !.pending = P, !.raised = R]  BY <1>6, <2>2
  <2>4. R \in SUBSET Nat  BY <1>13
  <2> QED  BY <1>7, <2>1, <2>2, <2>3, <2>4 DEF UiWorker
<1>15. resync' \in Seq(Nat) /\ Len(resync') = 0  BY <1>6
<1>16. TypeInv'
  <2>1. /\ dog' \in [pc : {"boot", "watch", "exit"}, fails : Nat] /\ dog'.fails < MaxBootFailures
        /\ file' \in [seq : Nat, pending : Nat]
    BY <1>6 DEF SupervisorInv, TypeInv
  <2>2. ui'.pending \subseteq 1 .. ui'.corr  BY <1>13, <1>14
  <2> QED  BY <1>6, <1>12, <1>14, <1>15, <2>1, <2>2 DEF TypeInv
<1>17. LinkInv'  BY <1>6, <1>10, <1>12, <1>14, <1>15 DEF LinkInv
<1>18. FreshInv'
  <2>1. \A k \in 1 .. m : gens'[k] = gens[k] \/ Drained(gens'[k], gens[k])  BY <1>11
  <2>2. ui'.gen \in Nat /\ ui.gen <= ui'.gen  BY <1>10, <1>14
  <2> QED  BY <1>8, <1>12, <2>1, <2>2, DrainedFresh
<1>19. Drained(gens'[linked], gens[linked])  BY <1>10, <1>11
<1>20. NothingForgotten'
  <2> SUFFICES ASSUME NEW c \in left \ H
               PROVE  \/ gens'[linked].st \in {"done", "dead"}
                      \/ c \in R
                      \/ [c |-> c, vm |-> ui.vm] \in Asked(gens'[linked]) \cup Told(gens'[linked])
    BY <1>14 DEF NothingForgotten, Gen, Asked, Told
  <2>1. linked = ui.gen /\ c \in ui.pending  BY <1>2, <1>10
  <2>2. PICK r : r = [c |-> c, vm |-> ui.vm]  OBVIOUS
  <2>3. \/ gens[linked].st \in {"done", "dead"}
        \/ c \in ui.raised
        \/ r \in Asked(gens[linked]) \cup Told(gens[linked])
    BY <2>1, <2>2 DEF SupervisorInv, NothingForgotten, Gen, Asked, Told
  <2>4. r \notin Told(gens[linked])
    <3>1. r.c = c  BY <2>2
    <3>2. r \in Told(gens[linked]) => r.c \in H  BY <1>4 DEF Told, Answered, Range
    <3> QED  BY <3>1, <3>2
  <2> QED  BY <1>5, <1>19, <2>1, <2>2, <2>3, <2>4 DEF Drained
<1>21. OnceInv'
  <2> SUFFICES /\ Separate(gens'[linked])
               /\ \A r \in Asked(gens'[linked]) \cup Told(gens'[linked]) :
                     r.vm < ui.vm \/ (r.vm = ui.vm /\ r.c <= ui.corr)
    BY <1>6, <1>14 DEF OnceInv, Separate, Asked, Told
  <2>1. CASE linked = ui.gen  BY <1>6, <1>19, <2>1 DEF SupervisorInv, OnceInv, Drained
  <2>2. CASE linked # ui.gen
    <3>1. Asked(gens[linked]) = {} /\ Told(gens[linked]) = {}
      BY <1>8, <1>10, <2>2 DEF SupervisorInv, FreshInv
    <3>2. gens[linked] \in Generation  BY <1>7, <1>8, <1>10
    <3>3. Separate(gens[linked])  BY <3>1, <3>2, AskedNothing
    <3> QED  BY <1>19, <3>1, <3>3 DEF Drained
  <2> QED  BY <2>1, <2>2
<1> QED  BY <1>16, <1>17, <1>18, <1>20, <1>21 DEF SupervisorInv

-----------------------------------------------------------------------------
(* The theorems. *)

\* The invariants hold when the host starts.
LEMMA SupervisorInit ==
    ASSUME Init
    PROVE  SupervisorInv
<1>1. /\ gens = <<NewGen>> /\ dog = [pc |-> "boot", fails |-> 0] /\ resync = << >>
      /\ ui = NewUi /\ ask = {} /\ file = NoFile
  BY DEF Init
<1>2. gens \in Seq(Generation) /\ Len(gens) = 1 /\ gens[1] = NewGen  BY <1>1, NewGeneration
<1>3. ui \in UiWorker /\ ui.gen = 0 /\ ui.pending = {}
  BY <1>1, SupervisorAssumption DEF NewUi, UiWorker
<1>4. /\ dog \in [pc : {"boot", "watch", "exit"}, fails : Nat] /\ dog.fails = 0
      /\ file \in [seq : Nat, pending : Nat] /\ resync \in Seq(Nat) /\ Len(resync) = 0
  BY <1>1 DEF NoFile
<1>5. TypeInv
  <2>1. MaxBootFailures \in Nat \ {0}  BY SupervisorAssumption
  <2> QED  BY <1>1, <1>2, <1>3, <1>4, <2>1 DEF TypeInv
<1>6. LinkInv  BY <1>2, <1>3, <1>4 DEF LinkInv
<1>7. FreshInv
  <2>1. \A k \in 1 .. Len(gens) : gens[k] = NewGen
    <3>1. \A k \in 1 .. 1 : k = 1  OBVIOUS
    <3> QED  BY <1>2, <3>1
  <2> QED  BY <2>1, NewGeneration DEF FreshInv
<1> QED  BY <1>3, <1>5, <1>6, <1>7 DEF SupervisorInv, NothingForgotten, OnceInv

\* Every step preserves the invariants.
LEMMA SupervisorStep ==
    ASSUME SupervisorInv, [Next]_vars
    PROVE  SupervisorInv'
<1>1. CASE Watchdog  BY <1>1, WatchdogKeeps
<1>2. ASSUME NEW g \in 1 .. MaxGens,
             Boot(g) \/ BirthStamp(g) \/ Beat(g) \/ TakeFile(g) \/ FileDone(g)
      PROVE  SupervisorInv'
  BY <1>2, BeatKeeps
<1>3. ASSUME NEW g \in 1 .. MaxGens, DispatchOne(g) \/ Reply(g) \/ Raise(g) \/ Fatal(g)
      PROVE  SupervisorInv'
  BY <1>3, DispatchKeeps, ReplyKeeps, RaiseKeeps, FatalKeeps
<1>4. CASE UiBoot \/ RebuildUi \/ DrainPerform  BY <1>4, UiBootKeeps, RebuildKeeps, DrainKeeps
<1>5. CASE UiRequest  BY <1>5, UiRequestKeeps
<1>6. CASE AskRestart \/ AskFileIn \/ AskRebuild  BY <1>6, AskKeeps
<1>7. CASE UNCHANGED vars
  BY <1>7
  DEF vars, SupervisorInv, TypeInv, LinkInv, FreshInv, NothingForgotten, OnceInv, Separate, Gen,
      Asked, Told
<1> QED  BY <1>1, <1>2, <1>3, <1>4, <1>5, <1>6, <1>7 DEF Next, Watchdog, Exited

\* In every reachable state, links lead to newer generations, which were asked nothing.
THEOREM SupervisorInvariant == Spec => []SupervisorInv
<1>1. Init => SupervisorInv  BY SupervisorInit
<1>2. SupervisorInv /\ [Next]_vars => SupervisorInv'  BY SupervisorStep
<1> QED  BY <1>1, <1>2, PTL DEF Spec

\* Types, the number of consecutive boot failures the watchdog tolerates, and a link
\* that leads to a generation the watchdog started (watchdog_main, drain_perform).
THEOREM SupervisorTypeCorrect == Spec => []TypeOK
<1>1. SupervisorInv => TypeOK
  <2> SUFFICES ASSUME SupervisorInv  PROVE TypeOK  OBVIOUS
  <2>1. dog.fails < MaxBootFailures /\ ui.pending \subseteq 1 .. ui.corr
    BY DEF SupervisorInv, TypeInv
  <2>2. ui.gen \in 0 .. Len(gens)  BY DEF SupervisorInv, TypeInv, LinkInv, UiWorker
  <2>3. ASSUME NEW g \in DOMAIN gens
        PROVE  /\ gens[g].st \in States
               /\ Range(gens[g].req) \cup Range(gens[g].stack) \cup Range(gens[g].hosted) \subseteq Request
    <3>1. gens[g] \in Generation  BY GenerationAt
    <3>2. /\ gens[g].st \in States /\ gens[g].req \in Seq(Request)
          /\ gens[g].stack \in Seq(Request) /\ gens[g].hosted \in Seq(Request)
      BY <3>1, GenerationFields
    <3>3. \A s \in Seq(Request) : Range(s) \subseteq Request  BY RangeOf
    <3> QED  BY <3>2, <3>3
  <2> QED  BY <2>1, <2>2, <2>3 DEF TypeOK, States
<1> QED  BY <1>1, SupervisorInvariant, PTL

\* No continuation waits for nothing, for every number of generations, requests,
\* rebuilds and nested dispatches (serveUiReq:, abandonPending).
THEOREM NothingIsForgotten == Spec => []NothingForgotten
<1>1. SupervisorInv => NothingForgotten  BY DEF SupervisorInv
<1> QED  BY <1>1, SupervisorInvariant, PTL

\* A request is under way once, for every number of generations, requests, rebuilds
\* at any time and nested dispatches: no reply is sent twice, or under the number of
\* another request (serveUiReq:, dispatchOne:).
THEOREM EachIsAnsweredOnce == Spec => []AnsweredOnce
<1>1. SupervisorInv => AnsweredOnce
  <2> SUFFICES ASSUME SupervisorInv, ui.gen # 0
               PROVE  IsInjective(gens[ui.gen].req \o gens[ui.gen].stack \o gens[ui.gen].hosted)
    BY DEF AnsweredOnce, Gen
  <2>1. PICK n \in Generation : n = gens[ui.gen]  BY LinkedTo
  <2>2. n.req \in Seq(Request) /\ n.stack \in Seq(Request) /\ n.hosted \in Seq(Request)
    BY GenerationFields
  <2>3. Separate(n)  BY <2>1 DEF SupervisorInv, OnceInv
  <2>4. PICK u : u = n.req \o n.stack  OBVIOUS
  <2>5. u \in Seq(Request) /\ IsInjective(u) /\ Range(u) \subseteq Range(n.req) \cup Range(n.stack)
    BY <2>2, <2>3, <2>4, InjectiveJoin DEF Separate
  <2>6. Range(u) \cap Range(n.hosted) = {} /\ IsInjective(n.hosted)
    BY <2>3, <2>5 DEF Separate
  <2>7. IsInjective(u \o n.hosted)  BY <2>2, <2>5, <2>6, InjectiveJoin
  <2> QED  BY <2>1, <2>4, <2>7
<1> QED  BY <1>1, SupervisorInvariant, PTL

=============================================================================
