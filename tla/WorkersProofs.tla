--------------------------- MODULE WorkersProofs ---------------------------
(***************************************************************************)
(* The worker registry is correct for any number of worker threads, any    *)
(* cap up to 16 and any number of requests: the registry never loses a     *)
(* running thread, a death notice is always about a thread that failed,    *)
(* and a continuation runs once, on the reply of the thread that accepted  *)
(* the request.  The event router alone loses no wakeup; the composed      *)
(* system implements it, so that none is lost there either.                *)
(***************************************************************************)
EXTENDS Workers, DataLemmas, FiniteSetTheorems

-----------------------------------------------------------------------------
(* The event router, for any number of sending threads and any envelopes.  *)
(* The wakeup invariant is not inductive alone: a sender that finds the    *)
(* flag set leaves without calling the hook, and is right to do so only    *)
(* because the flag means that a wake is on its way.                       *)

USE SenderAssumption, HostAssumption, MaxSendsAssumption

\* A thread that enqueues an envelope keeps the type of the router's state.
LEMMA EnqueueTyped ==
    ASSUME InboxTypeOK, NEW s \in Senders, NEW e \in Envelopes, Enqueue(s, e)
    PROVE  InboxTypeOK'
BY DEF Enqueue, InboxTypeOK

\* So do the other two pieces of a send.
LEMMA SendStepTyped ==
    ASSUME InboxTypeOK, NEW s \in Senders, SendStep(s)
    PROVE  InboxTypeOK'
<1> USE DEF InboxTypeOK
<1>1. CASE Swap(s)
  BY <1>1 DEF Swap
<1>2. CASE FireHook(s)
  <2>1. host \in {"gui", "hosted", "pump"}
    OBVIOUS
  <2>2. wakes' \in Nat
    BY <1>2, <2>1 DEF FireHook
  <2> QED
    BY <1>2, <2>2 DEF FireHook
<1> QED
  BY <1>1, <1>2 DEF SendStep

\* So do the Drainer's steps.
LEMMA DrainStepTyped ==
    ASSUME InboxTypeOK, DrainStep
    PROVE  InboxTypeOK'
<1> USE DEF InboxTypeOK
<1>1. CASE Wake
  <2>1. wakes' \in Nat
    BY <1>1 DEF Wake
  <2>2. stranded' \in BOOLEAN /\ wake_pending' \in BOOLEAN
    BY <1>1, Zenon DEF Wake
  <2> QED
    BY <1>1, <2>1, <2>2 DEF Wake
<1>2. CASE Clear
  BY <1>2 DEF Clear
<1>3. CASE Recv
  <2>1. queue # << >> => Tail(queue) \in Seq(Envelopes)
    OBVIOUS
  <2> QED
    BY <1>3, <2>1 DEF Recv
<1>4. CASE Dispatched
  BY <1>4 DEF Dispatched
<1>5. CASE DispatchFailed
  BY <1>5 DEF DispatchFailed
<1> QED
  BY <1>1, <1>2, <1>3, <1>4, <1>5 DEF DrainStep

\* The router's initial state has the type.
LEMMA InitTyped == InboxInit => InboxTypeOK
<1> SUFFICES ASSUME InboxInit PROVE InboxTypeOK
  OBVIOUS
<1>1. queue \in Seq(Envelopes) /\ wakes \in Nat /\ sent \in Nat
  BY DEF InboxInit
<1>2. sender \in [Senders -> {"idle", "enqueued", "swapped"}]
  BY DEF InboxInit
<1>3. wake_pending \in BOOLEAN /\ stranded \in BOOLEAN
  BY Zenon DEF InboxInit
<1> QED
  BY <1>1, <1>2, <1>3 DEF InboxInit, InboxTypeOK

\* The router's state keeps its type through every step of every thread.
THEOREM TypeCorrect == InboxSpec => []InboxTypeOK
<1>1. InboxTypeOK /\ [InboxNext]_inboxVars => InboxTypeOK'
  <2> SUFFICES ASSUME InboxTypeOK, [InboxNext]_inboxVars PROVE InboxTypeOK'
    OBVIOUS
  <2>1. CASE UNCHANGED inboxVars
    BY <2>1 DEF inboxVars, InboxTypeOK
  <2> QED
    BY <2>1, EnqueueTyped, SendStepTyped, DrainStepTyped DEF InboxNext
<1> QED
  BY <1>1, InitTyped, PTL DEF InboxSpec

-----------------------------------------------------------------------------
WakeInv == FlagMeansWake /\ NoLostWakeup

\* No thread but s changes what it is doing inside send.
LEMMA OthersStay ==
    ASSUME NEW s \in Senders, NEW v, sender \in [Senders -> {"idle", "enqueued", "swapped"}],
           sender' = [sender EXCEPT ![s] = v]
    PROVE  /\ \A t \in Senders \ {s} : sender'[t] = sender[t]
           /\ sender'[s] = v
OBVIOUS

\* A sender about to call the hook is a member of Swapped after any step that
\* leaves it there; the same for Enqueued.
LEMMA StillThere ==
    ASSUME NEW s \in Senders, sender' = [sender EXCEPT ![s] = "enqueued"],
           sender \in [Senders -> {"idle", "enqueued", "swapped"}], sender[s] = "idle"
    PROVE  Swapped \subseteq Swapped' /\ Enqueued' # {}
<1>1. \A t \in Senders \ {s} : sender'[t] = sender[t]
  BY OthersStay
<1>2. s \in Enqueued'
  BY OthersStay DEF Enqueued
<1> QED
  BY <1>1, <1>2 DEF Swapped

\* The step of a sender that enqueues keeps the wake invariant.
LEMMA EnqueueKeeps ==
    ASSUME InboxTypeOK, WakeInv, NEW s \in Senders, NEW e, Enqueue(s, e)
    PROVE  WakeInv'
<1>1. Swapped \subseteq Swapped' /\ Enqueued' # {}
  BY StillThere DEF Enqueue, InboxTypeOK
<1> QED
  BY <1>1 DEF Enqueue, WakeInv, FlagMeansWake, NoLostWakeup, WakeComing

\* The step of a sender that swaps the flag keeps the wake invariant: whoever finds
\* it set may rely on the wake it stands for.
LEMMA SwapKeeps ==
    ASSUME InboxTypeOK, WakeInv, NEW s \in Senders, Swap(s)
    PROVE  WakeInv'
<1>1. CASE wake_pending
  <2>1. \A t \in Senders : sender[t] = "swapped" => sender'[t] = "swapped"
    BY <1>1 DEF Swap, InboxTypeOK
  <2>2. Swapped \subseteq Swapped'
    BY <2>1 DEF Swapped
  <2> QED
    BY <1>1, <2>2 DEF Swap, WakeInv, FlagMeansWake, NoLostWakeup, WakeComing
<1>2. CASE ~wake_pending
  <2>1. sender'[s] = "swapped"
    BY <1>2 DEF Swap, InboxTypeOK
  <2>2. Swapped' # {}
    BY <2>1 DEF Swapped
  <2> QED
    BY <2>2 DEF Swap, WakeInv, FlagMeansWake, NoLostWakeup, WakeComing
<1> QED
  BY <1>1, <1>2

\* A hook that is called leaves a wake behind, in every embedding that has one.
LEMMA HookKeeps ==
    ASSUME InboxTypeOK, WakeInv, NEW s \in Senders, FireHook(s)
    PROVE  WakeInv'
<1>1. host # "pump" => wakes' > 0
  BY DEF FireHook, InboxTypeOK
<1>2. host' = host
  BY DEF FireHook
<1> QED
  BY <1>1, <1>2 DEF WakeInv, FlagMeansWake, NoLostWakeup, WakeComing

\* The Drainer's steps keep the wake invariant: it clears the flag only when it is
\* about to look at the channel, and falls asleep only on an empty one.
LEMMA DrainKeeps ==
    ASSUME InboxTypeOK, WakeInv, DrainStep
    PROVE  WakeInv'
<1> USE DEF WakeInv, FlagMeansWake, NoLostWakeup, WakeComing, Swapped, Enqueued
<1>1. CASE Wake
  BY <1>1 DEF Wake
<1>2. CASE Clear
  BY <1>2 DEF Clear
<1>3. CASE Recv
  BY <1>3 DEF Recv
<1>4. CASE Dispatched
  BY <1>4 DEF Dispatched
<1>5. CASE DispatchFailed
  <2>1. host \in {"gui", "hosted", "pump"}
    BY DEF InboxTypeOK
  <2> QED
    BY <1>5, <2>1 DEF DispatchFailed
<1> QED
  BY <1>1, <1>2, <1>3, <1>4, <1>5 DEF DrainStep

\* The wake invariant holds always.
THEOREM WakeInvariant == InboxSpec => []WakeInv
<1>1. InboxInit => WakeInv
  BY DEF InboxInit, WakeInv, FlagMeansWake, NoLostWakeup
<1>2. InboxTypeOK /\ WakeInv /\ [InboxNext]_inboxVars => WakeInv'
  <2> SUFFICES ASSUME InboxTypeOK, WakeInv, [InboxNext]_inboxVars PROVE WakeInv'
    OBVIOUS
  <2>1. CASE \E s \in Senders, e \in Envelopes : sent < MaxSends /\ MaySend(s) /\ Enqueue(s, e)
    BY <2>1, EnqueueKeeps
  <2>2. CASE \E s \in Senders : SendStep(s)
    BY <2>2, SwapKeeps, HookKeeps DEF SendStep
  <2>3. CASE DrainStep
    BY <2>3, DrainKeeps
  <2>4. CASE UNCHANGED inboxVars
    BY <2>4 DEF inboxVars, WakeInv, FlagMeansWake, NoLostWakeup, WakeComing, Swapped, Enqueued
  <2> QED
    BY <2>1, <2>2, <2>3, <2>4 DEF InboxNext
<1> QED
  BY <1>1, <1>2, TypeCorrect, PTL DEF InboxSpec

\* No lost wakeup: an envelope never waits in the channel of a sleeping host with no
\* wake on its way, unless a handler's error aborted the drain.
THEOREM NoWakeupIsLost == InboxSpec => []NoLostWakeup
BY WakeInvariant, PTL DEF WakeInv

\* A set flag always stands for a wake that is queued or about to be.
THEOREM FlagStandsForWake == InboxSpec => []FlagMeansWake
BY WakeInvariant, PTL DEF WakeInv

-----------------------------------------------------------------------------
(* The worker registry.                                                    *)

USE IncsAssumption, NoneAssumption, CapAssumption, CorrAssumption, EnvelopeAssumption

-----------------------------------------------------------------------------
(* The inductive invariant, in the parts that the theorems need.           *)

\* A thread that was started has been given a worker id.
StartedHaveId == \A i \in Incs : pc[i] # "unborn" => id[i] \in Ids

\* A live link leads to a thread, and no link leads to one that was never started.
LinksLead ==
    \A k \in DOMAIN links :
        /\ links[k].alive => links[k].inc # None
        /\ links[k].inc # None => pc[links[k].inc] # "unborn"

TypeInv == TypeOK /\ StartedHaveId /\ LinksLead

\* A dead link that still has its sender leads to a thread that has ended: only
\* such a link, or a terminated one, is given to a new worker.
DeadLinksEnded ==
    \A k \in DOMAIN links :
        ~links[k].alive /\ links[k].inc # None => pc[links[k].inc] = "gone"

LinkInv == DeadLinksEnded /\ NoOrphan

\* A thread that ends without a failure is one that no link leads to any more, so
\* that a failed send can only meet a thread that failed.
EndsAreReal ==
    \A i \in Incs :
        /\ pc[i] \in {"died", "retiring"} => i \in erred
        /\ pc[i] = "gone" => i \in erred \/ Disconnected(i)

RegInv == LinkInv /\ EndsAreReal

\* A registered continuation has not run, its key is made from its own correlation
\* id, and it is registered once.
PendingInv ==
    /\ \A p \in pending :
          /\ p[2] <= nextCorr
          /\ fired[p[2]] = << >>
          /\ \E k \in Ids : p[1] = ReplyKey(k, p[2])
    /\ \A p, q \in pending : p[2] = q[2] => p = q
    /\ \A c \in Corrs : c > nextCorr => fired[c] = << >>

\* A correlation id travels only with the thread that accepted its request: through
\* its channel, its staging slot, and back in its replies.
Travels(c, i) == c <= nextCorr /\ target[c] = i

MailTravels == \A i \in Incs : \A n \in 1 .. Len(mail[i]) : Travels(mail[i][n], i)
StagedTravels == \A i \in Incs : staged[i] # 0 => Travels(staged[i], i)
QueueTravels ==
    \A n \in 1 .. Len(queue) : queue[n].corr # 0 => Travels(queue[n].corr, queue[n].inc)

CorrInv == MailTravels /\ StagedTravels /\ QueueTravels

ReplyInv == PendingInv /\ CorrInv /\ AnsweredByTarget

\* The envelopes sent are at most the traffic, one notice for each failed send and
\* one for each thread that has left its loop.
Ended == {i \in Incs : pc[i] \in {"retiring", "gone"}}
SentInv == sent <= MaxTraffic + nextCorr + Cardinality(Ended)

-----------------------------------------------------------------------------
(* Types.                                                                  *)

\* A step that leaves the router alone keeps its type.
LEMMA RouterUntouched ==
    ASSUME InboxTypeOK, UNCHANGED inboxVars
    PROVE  InboxTypeOK'
BY DEF InboxTypeOK, inboxVars

\* The envelopes that a started thread sends, and the notice a failed send makes
\* about it, are well-formed.
LEMMA EnvelopesTyped ==
    ASSUME TypeInv, NEW i \in Incs, pc[i] # "unborn"
    PROVE  Died(i) \in Envelopes /\ Line(i) \in Envelopes /\ Answer(i) \in Envelopes
<1>1. id[i] \in Ids /\ staged[i] \in 0 .. MaxCorr
  BY DEF TypeInv, TypeOK, StartedHaveId
<1> QED
  BY <1>1 DEF Died, Line, Answer, Envelope

\* The registry is a sequence of links.
LEMMA LinksTyped ==
    ASSUME TypeInv
    PROVE  /\ links \in Seq(Link) /\ Len(links) \in Nat /\ DOMAIN links = 1 .. Len(links)
           /\ Len(links) <= MAX_WORKERS
           /\ \A k \in DOMAIN links : /\ links[k] \in Link
                                      /\ links[k].alive \in BOOLEAN
                                      /\ links[k].inc \in Incs \cup {None}
<1>1. links \in Seq(Link) /\ Len(links) <= MAX_WORKERS
  BY DEF TypeInv, TypeOK
<1>2. Len(links) \in Nat /\ DOMAIN links = 1 .. Len(links)
  BY <1>1
<1>3. \A k \in 1 .. Len(links) : links[k] \in Link
  BY <1>1
<1> QED
  BY <1>1, <1>2, <1>3 DEF Link

\* A live link leads to a thread that was started.
LEMMA LiveLink ==
    ASSUME TypeInv, NEW k, Live(k)
    PROVE  /\ k \in DOMAIN links /\ links[k].inc \in Incs
           /\ pc[links[k].inc] # "unborn" /\ id[links[k].inc] \in Ids
<1>1. k \in DOMAIN links /\ links[k].inc \in Incs \cup {None}
  BY LinksTyped DEF Live
<1> QED
  BY <1>1 DEF Live, TypeInv, LinksLead, StartedHaveId

\* What the reply table becomes when a continuation is registered.
LEMMA RegisterTyped ==
    ASSUME TypeInv, NEW k \in Ids, RegisterReply(k)
    PROVE  /\ nextCorr' = nextCorr + 1 /\ nextCorr + 1 \in Corrs
           /\ pending' \subseteq Nat \X Corrs /\ fired' = fired
<1>1. nextCorr + 1 \in Corrs /\ ReplyKey(k, nextCorr + 1) \in Nat
  BY DEF RegisterReply, TypeInv, TypeOK, Corrs, Ids, ReplyKey
<1> QED
  BY <1>1 DEF RegisterReply, TypeInv, TypeOK

\* What a slot becomes when a link is put into it.
LEMMA PutLinkTyped ==
    ASSUME TypeInv, NEW k \in Ids, FreeSlot(k), NEW new \in Link, links' = PutLink(k, new)
    PROVE  /\ links' \in Seq(Link) /\ Len(links') <= MAX_WORKERS
           /\ DOMAIN links \subseteq DOMAIN links' /\ k \in DOMAIN links'
           /\ links'[k] = new
           /\ \A j \in DOMAIN links' : j # k => j \in DOMAIN links /\ links'[j] = links[j]
           /\ k \in DOMAIN links => ~links[k].alive
<1>1. links \in Seq(Link)
  BY LinksTyped
<1>2. CASE k \in DOMAIN links
  <2>1. links' = [links EXCEPT ![k] = new]
    BY <1>2 DEF PutLink
  <2>2. ~links[k].alive
    <3>1. CASE DeadSlots # {}
      BY <3>1 DEF FreeSlot, DeadSlots
    <3>2. CASE DeadSlots = {}
      BY <1>2, <3>2, LinksTyped DEF FreeSlot
    <3> QED
      BY <3>1, <3>2
  <2>3. /\ links' \in Seq(Link) /\ Len(links') = Len(links) /\ DOMAIN links' = DOMAIN links
        /\ links'[k] = new
        /\ \A j \in DOMAIN links : j # k => links'[j] = links[j]
    BY <1>1, <1>2, <2>1, SeqReplaced
  <2> QED
    BY <1>2, <2>2, <2>3, LinksTyped
<1>3. CASE k \notin DOMAIN links
  <2>1. links' = Append(links, new)
    BY <1>3 DEF PutLink
  <2>2. k = Len(links) + 1 /\ Len(links) < MAX_WORKERS
    <3>1. CASE DeadSlots # {}
      BY <1>3, <3>1 DEF FreeSlot, DeadSlots
    <3>2. CASE DeadSlots = {}
      BY <3>2 DEF FreeSlot
    <3> QED
      BY <3>1, <3>2
  <2>3. /\ links' \in Seq(Link) /\ Len(links') = Len(links) + 1
        /\ DOMAIN links' = 1 .. Len(links) + 1
        /\ links'[Len(links) + 1] = new
        /\ \A j \in 1 .. Len(links) : links'[j] = links[j]
    BY <1>1, <2>1, SeqAppended
  <2> QED
    BY <1>3, <2>2, <2>3, LinksTyped
<1> QED
  BY <1>2, <1>3

\* A new link is appended by register_hosted_worker.
LEMMA AppendLinkTyped ==
    ASSUME TypeInv, Len(links) < MAX_WORKERS, NEW new \in Link, links' = Append(links, new)
    PROVE  /\ links' \in Seq(Link) /\ Len(links') <= MAX_WORKERS /\ Len(links) + 1 \in Ids
           /\ DOMAIN links \subseteq DOMAIN links' /\ Len(links) + 1 \in DOMAIN links'
           /\ links'[Len(links) + 1] = new
           /\ \A j \in DOMAIN links' : j # Len(links) + 1 => j \in DOMAIN links /\ links'[j] = links[j]
<1>1. links \in Seq(Link) /\ Len(links) \in Nat
  BY LinksTyped
<1>2. /\ links' \in Seq(Link) /\ Len(links') = Len(links) + 1
      /\ DOMAIN links' = 1 .. Len(links) + 1
      /\ links'[Len(links) + 1] = new
      /\ \A j \in 1 .. Len(links) : links'[j] = links[j]
  BY <1>1, SeqAppended
<1> QED
  BY <1>1, <1>2, LinksTyped DEF Ids

\* A link that is cut, by terminate or by a failed send, stays in its slot.
LEMMA CutLinkTyped ==
    ASSUME TypeInv, NEW k \in DOMAIN links,
           links' = [links EXCEPT ![k] = DeadEnd] \/ links' = [links EXCEPT ![k].alive = FALSE]
    PROVE  /\ links' \in Seq(Link) /\ Len(links') <= MAX_WORKERS
           /\ DOMAIN links' = DOMAIN links
           /\ ~links'[k].alive
           /\ links' = [links EXCEPT ![k] = DeadEnd] => links'[k].inc = None
           /\ links' = [links EXCEPT ![k].alive = FALSE] => links'[k].inc = links[k].inc
           /\ \A j \in DOMAIN links : j # k => links'[j] = links[j]
<1>1. links \in Seq(Link) /\ links[k] \in Link
  BY LinksTyped
<1>2. CASE links' = [links EXCEPT ![k] = DeadEnd]
  <2>1. DeadEnd \in Link /\ DeadEnd.alive = FALSE /\ DeadEnd.inc = None
    BY DEF DeadEnd, Link
  <2>2. /\ links' \in Seq(Link) /\ Len(links') = Len(links) /\ DOMAIN links' = DOMAIN links
        /\ links'[k] = DeadEnd
        /\ \A j \in DOMAIN links : j # k => links'[j] = links[j]
    BY <1>1, <1>2, <2>1, SeqReplaced
  <2>3. links' = [links EXCEPT ![k].alive = FALSE] => links[k].inc = None
    BY <1>1, <1>2, <2>1, <2>2 DEF Link
  <2> QED
    BY <2>1, <2>2, <2>3, LinksTyped
<1>3. CASE links' = [links EXCEPT ![k].alive = FALSE]
  <2> DEFINE cut == [links[k] EXCEPT !.alive = FALSE]
  <2>1. cut \in Link /\ cut.alive = FALSE /\ cut.inc = links[k].inc
    BY <1>1 DEF Link
  <2>2. links' = [links EXCEPT ![k] = cut]
    BY <1>3
  <2> HIDE DEF cut
  <2>3. /\ links' \in Seq(Link) /\ Len(links') = Len(links) /\ DOMAIN links' = DOMAIN links
        /\ links'[k] = cut
        /\ \A j \in DOMAIN links : j # k => links'[j] = links[j]
    BY <1>1, <2>1, <2>2, SeqReplaced
  <2>4. links' = [links EXCEPT ![k] = DeadEnd] => cut.inc = None
    BY <2>3, <1>1 DEF DeadEnd
  <2> QED
    BY <2>1, <2>3, <2>4, LinksTyped
<1> QED
  BY <1>2, <1>3

\* A started thread that moves on stays one that was started.
LEMMA ThreadMoves ==
    ASSUME TypeInv, NEW i \in Incs, pc[i] # "unborn",
           NEW to \in {"recv", "dispatch", "died", "retiring", "gone", "vanished"},
           Goto(i, to), UNCHANGED <<links, id>>
    PROVE  /\ pc' \in [Incs -> {"unborn", "boot", "recv", "dispatch", "died",
                                "retiring", "gone", "vanished"}]
           /\ \A x \in Incs : pc'[x] = IF x = i THEN to ELSE pc[x]
           /\ StartedHaveId' /\ LinksLead'
<1>1. pc \in [Incs -> {"unborn", "boot", "recv", "dispatch", "died",
                       "retiring", "gone", "vanished"}]
  BY DEF TypeInv, TypeOK
<1>2. \A x \in Incs : pc'[x] = IF x = i THEN to ELSE pc[x]
  BY <1>1 DEF Goto
<1>3. StartedHaveId'
  BY <1>2 DEF TypeInv, StartedHaveId
<1>4. LinksLead'
  BY <1>2, LinksTyped DEF TypeInv, LinksLead
<1> QED
  BY <1>1, <1>2, <1>3, <1>4 DEF Goto

\* Every step keeps the types, and a link leads only to threads that were started.
LEMMA TypeStep ==
    ASSUME TypeInv, [Next]_vars
    PROVE  TypeInv'
<1> USE DEF TypeInv
<1>0. TypeOK /\ StartedHaveId /\ LinksLead /\ InboxTypeOK
  BY DEF TypeOK
<1>1. ASSUME NEW i \in Incs, Spawn(i) PROVE TypeInv'
  <2>1. PICK k \in Ids : /\ FreeSlot(k) /\ links' = PutLink(k, LinkTo(i))
                         /\ id' = [id EXCEPT ![i] = k]
    BY <1>1 DEF Spawn
  <2>2. LinkTo(i) \in Link /\ LinkTo(i).inc = i
    BY DEF LinkTo, Link
  <2>3. /\ links' \in Seq(Link) /\ Len(links') <= MAX_WORKERS
        /\ k \in DOMAIN links' /\ links'[k] = LinkTo(i)
        /\ \A j \in DOMAIN links' : j # k => j \in DOMAIN links /\ links'[j] = links[j]
    BY <2>1, <2>2, PutLinkTyped
  <2>4. InboxTypeOK'
    BY <1>0, <1>1, RouterUntouched DEF Spawn
  <2>5. TypeOK'
    BY <1>0, <1>1, <2>1, <2>3, <2>4 DEF Spawn, TypeOK, replyVars, ghostVars, Ids
  <2>6. StartedHaveId'
    BY <1>0, <1>1, <2>1 DEF Spawn, TypeOK, StartedHaveId
  <2>7. LinksLead'
    <3>1. \A x \in Incs : pc'[x] = IF x = i THEN "boot" ELSE pc[x]
      BY <1>0, <1>1 DEF Spawn, TypeOK
    <3>2. ASSUME NEW j \in DOMAIN links', j # k
          PROVE  /\ links'[j].alive => links'[j].inc # None
                 /\ links'[j].inc # None => pc'[links'[j].inc] # "unborn"
      BY <1>0, <2>3, <3>1, <3>2, LinksTyped DEF LinksLead
    <3>3. links'[k].inc = i /\ pc'[i] # "unborn"
      BY <2>2, <2>3, <3>1
    <3> QED
      BY <3>2, <3>3 DEF LinksLead
  <2> QED
    BY <2>5, <2>6, <2>7
<1>2. ASSUME NEW i \in Incs, RegisterHosted(i) PROVE TypeInv'
  <2>1. LinkTo(i) \in Link /\ LinkTo(i).inc = i
    BY DEF LinkTo, Link
  <2>2. /\ links' \in Seq(Link) /\ Len(links') <= MAX_WORKERS /\ Len(links) + 1 \in Ids
        /\ Len(links) + 1 \in DOMAIN links' /\ links'[Len(links) + 1] = LinkTo(i)
        /\ \A j \in DOMAIN links' : j # Len(links) + 1 => j \in DOMAIN links /\ links'[j] = links[j]
    BY <1>2, <2>1, AppendLinkTyped DEF RegisterHosted
  <2>3. InboxTypeOK'
    BY <1>0, <1>2, RouterUntouched DEF RegisterHosted
  <2>4. TypeOK'
    BY <1>0, <1>2, <2>2, <2>3, SMTT(30) DEF RegisterHosted, TypeOK, replyVars, ghostVars, Ids
  <2>5. StartedHaveId'
    BY <1>0, <1>2, <2>2 DEF RegisterHosted, TypeOK, StartedHaveId
  <2>6. LinksLead'
    BY <1>0, <1>2, <2>1, <2>2, LinksTyped DEF RegisterHosted, TypeOK, LinksLead
  <2> QED
    BY <2>4, <2>5, <2>6
<1>3. ASSUME NEW k \in Ids, SendAccepted(k) PROVE TypeInv'
  <2>1. links[k].inc \in Incs
    BY <1>3, LiveLink DEF SendAccepted
  <2>2. /\ nextCorr' = nextCorr + 1 /\ nextCorr + 1 \in Corrs
        /\ pending' \subseteq Nat \X Corrs /\ fired' = fired
    BY <1>3, RegisterTyped DEF SendAccepted
  <2>3. InboxTypeOK'
    BY <1>0, <1>3, RouterUntouched DEF SendAccepted
  <2>4. mail' \in [Incs -> Seq(Corrs)] /\ target' \in [Corrs -> Incs \cup {None}]
    BY <1>0, <1>3, <2>1, <2>2 DEF SendAccepted, TypeOK
  <2>5. UNCHANGED <<links, pc, id, hosted, staged, erred, noticed, terminated>>
    BY <1>3 DEF SendAccepted, threadVars, ghostVars
  <2>6. nextCorr' \in 0 .. MaxCorr
    BY <2>2 DEF Corrs
  <2>7. TypeOK'
    BY <1>0, <2>2, <2>3, <2>4, <2>5, <2>6 DEF TypeOK
  <2> QED
    BY <1>0, <2>5, <2>7 DEF StartedHaveId, LinksLead
<1>4. ASSUME NEW k \in Ids, SendRefused(k) PROVE TypeInv'
  <2>1. /\ nextCorr' = nextCorr + 1 /\ nextCorr + 1 \in Corrs
        /\ pending' \subseteq Nat \X Corrs /\ fired' = fired
    BY <1>4, RegisterTyped DEF SendRefused
  <2>2. InboxTypeOK'
    BY <1>0, <1>4, RouterUntouched DEF SendRefused
  <2>a. UNCHANGED <<links, mail, pc, id, hosted, staged, target, erred, noticed, terminated>>
    BY <1>4 DEF SendRefused, threadVars, ghostVars
  <2>b. nextCorr' \in 0 .. MaxCorr
    BY <2>1 DEF Corrs
  <2>3. TypeOK'
    BY <1>0, <2>1, <2>2, <2>a, <2>b DEF TypeOK
  <2> QED
    BY <1>0, <1>4, <2>3 DEF SendRefused, StartedHaveId, LinksLead, threadVars
<1>5. ASSUME NEW k \in Ids, SendFailed(k) PROVE TypeInv'
  <2>1. k \in DOMAIN links /\ links[k].inc \in Incs /\ pc[links[k].inc] # "unborn"
    BY <1>5, LiveLink DEF SendFailed
  <2>2. /\ nextCorr' = nextCorr + 1 /\ nextCorr + 1 \in Corrs
        /\ pending' \subseteq Nat \X Corrs /\ fired' = fired
    BY <1>5, RegisterTyped DEF SendFailed
  <2>3. InboxTypeOK'
    BY <1>0, <1>5, <2>1, EnvelopesTyped, EnqueueTyped DEF SendFailed, Primary
  <2>4. /\ links' \in Seq(Link) /\ Len(links') <= MAX_WORKERS /\ DOMAIN links' = DOMAIN links
        /\ ~links'[k].alive /\ links'[k].inc = links[k].inc
        /\ \A j \in DOMAIN links : j # k => links'[j] = links[j]
    BY <1>5, <2>1, CutLinkTyped DEF SendFailed
  <2>a. UNCHANGED <<mail, pc, id, hosted, staged, target, erred, noticed, terminated>>
    BY <1>5 DEF SendFailed, threadVars, ghostVars
  <2>b. nextCorr' \in 0 .. MaxCorr
    BY <2>2 DEF Corrs
  <2>5. TypeOK'
    BY <1>0, <2>2, <2>3, <2>4, <2>a, <2>b DEF TypeOK
  <2>6. LinksLead'
    BY <1>0, <1>5, <2>1, <2>4 DEF SendFailed, LinksLead, threadVars
  <2> QED
    BY <1>0, <1>5, <2>5, <2>6 DEF SendFailed, StartedHaveId, threadVars
<1>6. ASSUME NEW k \in Ids, Terminate(k) PROVE TypeInv'
  <2>1. k \in DOMAIN links /\ links[k].inc \in Incs \cup {None}
    BY <1>6, LinksTyped DEF Terminate
  <2>2. /\ links' \in Seq(Link) /\ Len(links') <= MAX_WORKERS /\ DOMAIN links' = DOMAIN links
        /\ ~links'[k].alive /\ links'[k].inc = None
        /\ \A j \in DOMAIN links : j # k => links'[j] = links[j]
    BY <1>6, <2>1, CutLinkTyped DEF Terminate
  <2>3. InboxTypeOK'
    BY <1>0, <1>6, RouterUntouched DEF Terminate
  <2>4. TypeOK'
    BY <1>0, <1>6, <2>1, <2>2, <2>3 DEF Terminate, TypeOK, threadVars, replyVars
  <2>5. LinksLead'
    BY <1>0, <1>6, <2>2 DEF Terminate, LinksLead, threadVars
  <2> QED
    BY <1>0, <1>6, <2>4, <2>5 DEF Terminate, StartedHaveId, threadVars
<1>7. ASSUME NEW i \in Incs, Start(i) \/ StartFails(i) \/ Closed(i) \/ FatalExit(i) PROVE TypeInv'
  <2>1. InboxTypeOK'
    BY <1>0, <1>7, RouterUntouched DEF Start, StartFails, Closed, FatalExit
  <2>2. PICK to \in {"recv", "died", "gone", "vanished"} : Goto(i, to) /\ pc[i] # "unborn"
    BY <1>7 DEF Start, StartFails, Closed, FatalExit
  <2>3. UNCHANGED <<links, id, hosted, mail, staged, replyVars, noticed, terminated>>
    BY <1>7 DEF Start, StartFails, Closed, FatalExit, ghostVars
  <2>4. erred' \subseteq Incs
    BY <1>0, <1>7 DEF Start, StartFails, Closed, FatalExit, TypeOK, ghostVars
  <2>5. /\ StartedHaveId' /\ LinksLead'
        /\ pc' \in [Incs -> {"unborn", "boot", "recv", "dispatch", "died",
                             "retiring", "gone", "vanished"}]
    BY <2>2, <2>3, ThreadMoves
  <2> QED
    BY <1>0, <2>1, <2>3, <2>4, <2>5 DEF TypeOK, replyVars
<1>8. ASSUME NEW i \in Incs, Take(i) PROVE TypeInv'
  <2>1. InboxTypeOK'
    BY <1>0, <1>8, RouterUntouched DEF Take
  <2>2. mail[i] \in Seq(Corrs) /\ mail[i] # << >>
    BY <1>0, <1>8 DEF Take, TypeOK
  <2>3. Head(mail[i]) \in Corrs /\ Tail(mail[i]) \in Seq(Corrs)
    BY <2>2, SeqTaken
  <2>4. mail' \in [Incs -> Seq(Corrs)] /\ staged' \in [Incs -> 0 .. MaxCorr]
    <3>1. mail' \in [Incs -> Seq(Corrs)]
      BY <1>0, <1>8, <2>3 DEF Take, TypeOK
    <3>2. Head(mail[i]) \in 0 .. MaxCorr
      BY <2>3 DEF Corrs
    <3>3. staged' \in [Incs -> 0 .. MaxCorr]
      BY <1>0, <1>8, <3>2 DEF Take, TypeOK
    <3> QED
      BY <3>1, <3>3
  <2>5. /\ StartedHaveId' /\ LinksLead'
        /\ pc' \in [Incs -> {"unborn", "boot", "recv", "dispatch", "died",
                             "retiring", "gone", "vanished"}]
    BY <1>8, ThreadMoves DEF Take
  <2> QED
    BY <1>0, <1>8, <2>1, <2>4, <2>5 DEF Take, TypeOK, replyVars, ghostVars
<1>9. ASSUME NEW i \in Incs, EndDispatch(i) \/ DispatchError(i) \/ Retire(i) PROVE TypeInv'
  <2>1. InboxTypeOK'
    BY <1>0, <1>9, RouterUntouched DEF EndDispatch, DispatchError, Retire
  <2>2. PICK to \in {"recv", "died", "gone"} : Goto(i, to) /\ pc[i] # "unborn"
    BY <1>9 DEF EndDispatch, DispatchError, Retire
  <2>3. UNCHANGED <<links, id, hosted, replyVars, noticed, terminated>>
    BY <1>9 DEF EndDispatch, DispatchError, Retire, ghostVars
  <2>4. mail' \in [Incs -> Seq(Corrs)] /\ staged' \in [Incs -> 0 .. MaxCorr]
    <3>1. CASE EndDispatch(i) \/ DispatchError(i)
      <4>1. mail' = mail /\ staged' = [staged EXCEPT ![i] = 0]
        BY <3>1 DEF EndDispatch, DispatchError
      <4> QED
        BY <1>0, <4>1 DEF TypeOK
    <3>2. CASE Retire(i)
      BY <1>0, <3>2 DEF Retire, TypeOK
    <3> QED
      BY <1>9, <3>1, <3>2
  <2>5. erred' \subseteq Incs
    BY <1>0, <1>9 DEF EndDispatch, DispatchError, Retire, TypeOK, ghostVars
  <2>6. /\ StartedHaveId' /\ LinksLead'
        /\ pc' \in [Incs -> {"unborn", "boot", "recv", "dispatch", "died",
                             "retiring", "gone", "vanished"}]
    BY <2>2, <2>3, ThreadMoves
  <2> QED
    BY <1>0, <2>1, <2>3, <2>4, <2>5, <2>6 DEF TypeOK, replyVars
<1>10. ASSUME NEW i \in Incs, Transcript(i) \/ Reply(i) PROVE TypeInv'
  <2>1. pc[i] # "unborn"
    BY <1>10 DEF Transcript, Reply
  <2>2. InboxTypeOK'
    BY <1>0, <1>10, <2>1, EnvelopesTyped, EnqueueTyped DEF Transcript, Reply
  <2>3. UNCHANGED <<links, mail, threadVars, replyVars, ghostVars>>
    BY <1>10 DEF Transcript, Reply
  <2> QED
    BY <1>0, <2>2, <2>3 DEF TypeOK, StartedHaveId, LinksLead, threadVars, replyVars, ghostVars
<1>11. ASSUME NEW i \in Incs, SendDied(i) PROVE TypeInv'
  <2>1. InboxTypeOK'
    BY <1>0, <1>11, EnvelopesTyped, EnqueueTyped DEF SendDied
  <2>2. /\ StartedHaveId' /\ LinksLead'
        /\ pc' \in [Incs -> {"unborn", "boot", "recv", "dispatch", "died",
                             "retiring", "gone", "vanished"}]
    BY <1>11, ThreadMoves DEF SendDied
  <2> QED
    BY <1>0, <1>11, <2>1, <2>2 DEF SendDied, TypeOK, replyVars, ghostVars
<1>12. CASE Receive
  <2>1. InboxTypeOK'
    BY <1>0, <1>12, DrainStepTyped DEF Receive, DrainStep
  <2>2. /\ pending' \subseteq Nat \X Corrs /\ nextCorr' = nextCorr /\ target' = target
        /\ fired' \in [Corrs -> Seq(Incs)]
        /\ erred' = erred /\ terminated' = terminated /\ noticed' \subseteq Incs
    <3>1. CASE queue = << >>
      BY <1>0, <1>12, <3>1 DEF Receive, TypeOK, replyVars, ghostVars
    <3>2. CASE queue # << >>
      <4> DEFINE env == Head(queue)
      <4>1. env \in Envelope
        BY <1>0, <3>2, SeqTaken DEF InboxTypeOK
      <4>2. env.inc \in Incs
        BY <4>1 DEF Envelope
      <4>3. Route(env)
        BY <1>12, <3>2 DEF Receive
      <4> HIDE DEF env
      <4>4. \A c \in Corrs : fired[c] \in Seq(Incs) /\ Append(fired[c], env.inc) \in Seq(Incs)
        BY <1>0, <4>2, SeqAppended DEF TypeOK
      <4>5. fired' \in [Corrs -> Seq(Incs)]
        BY <1>0, <4>3, <4>4 DEF Route, TypeOK
      <4>6. pending' \subseteq pending
        BY <4>3 DEF Route
      <4>7. noticed' \subseteq Incs
        BY <1>0, <4>2, <4>3 DEF Route, TypeOK
      <4> QED
        BY <1>0, <4>3, <4>5, <4>6, <4>7 DEF Route, TypeOK
    <3> QED
      BY <3>1, <3>2
  <2> QED
    BY <1>0, <1>12, <2>1, <2>2 DEF Receive, TypeOK, StartedHaveId, LinksLead, threadVars
<1>13. CASE RouterStep
  <2>1. InboxTypeOK'
    BY <1>0, <1>13, DrainStepTyped, SendStepTyped DEF RouterStep, DrainStep
  <2> QED
    BY <1>0, <1>13, <2>1 DEF RouterStep, TypeOK, StartedHaveId, LinksLead,
                             threadVars, replyVars, ghostVars
<1>14. CASE UNCHANGED vars
  <2>1. InboxTypeOK'
    BY <1>0, <1>14, RouterUntouched DEF vars
  <2> QED
    BY <1>0, <1>14, <2>1 DEF vars, TypeOK, StartedHaveId, LinksLead,
                             threadVars, replyVars, ghostVars
<1> QED
  BY <1>1, <1>2, <1>3, <1>4, <1>5, <1>6, <1>7, <1>8, <1>9, <1>10, <1>11, <1>12, <1>13, <1>14
     DEF Next, PrimaryOp, ThreadStep

\* The initial state has the types.
LEMMA TypeInit == Init => TypeInv
<1> SUFFICES ASSUME Init PROVE TypeInv
  OBVIOUS
<1>1. InboxTypeOK
  BY InitTyped DEF Init
<1>2. TypeOK
  BY <1>1 DEF Init, TypeOK, Corrs
<1> QED
  BY <1>2 DEF Init, TypeInv, StartedHaveId, LinksLead

\* The type invariant with its strengthening holds always.
LEMMA TypeInvariant == Spec => []TypeInv
BY TypeInit, TypeStep, PTL DEF Spec

\* The registry, the threads and the reply table keep their types, the registry never
\* grows past the cap, and every envelope carries the id of a worker.
THEOREM WorkersTypeCorrect == Spec => []TypeOK
BY TypeInvariant, PTL DEF TypeInv

-----------------------------------------------------------------------------
(* The registry: no orphan, and every end of a thread accounted for.       *)

\* A new link: the slot it takes, if it is an old one, led to no running thread.
LEMMA NewLinkKeeps ==
    ASSUME TypeInv, RegInv, NEW i \in Incs, pc[i] = "unborn", NEW to \in {"boot", "recv"},
           pc' = [pc EXCEPT ![i] = to], NEW k,
           DOMAIN links \subseteq DOMAIN links', k \in DOMAIN links', links'[k] = LinkTo(i),
           \A j \in DOMAIN links' : j # k => j \in DOMAIN links /\ links'[j] = links[j],
           k \in DOMAIN links => ~links[k].alive,
           UNCHANGED <<terminated, erred>>
    PROVE  RegInv'
<1>1. \A x \in Incs : pc'[x] = IF x = i THEN to ELSE pc[x]
  BY DEF TypeInv, TypeOK
<1>2. links'[k].alive = TRUE /\ links'[k].inc = i
  BY DEF LinkTo
<1>3. DeadLinksEnded'
  <2> SUFFICES ASSUME NEW j \in DOMAIN links', ~links'[j].alive, links'[j].inc # None
               PROVE  pc'[links'[j].inc] = "gone"
    BY DEF DeadLinksEnded
  <2>1. j # k /\ j \in DOMAIN links /\ links'[j] = links[j]
    BY <1>2
  <2>2. links[j].inc \in Incs /\ pc[links[j].inc] = "gone"
    BY <2>1, LinksTyped DEF RegInv, LinkInv, DeadLinksEnded
  <2> QED
    BY <1>1, <2>1, <2>2
<1>4. \A x \in Incs : x # i /\ Disconnected(x)' =>
          Disconnected(x) \/ (k \in DOMAIN links /\ links[k].inc = x)
  BY DEF Disconnected
<1>5. NoOrphan'
  <2> SUFFICES ASSUME NEW x \in Incs, pc'[x] \notin {"unborn", "gone"}, Disconnected(x)'
               PROVE  x \in terminated'
    BY DEF NoOrphan
  <2>1. x # i
    BY <1>2 DEF Disconnected
  <2>2. CASE Disconnected(x)
    BY <1>1, <2>1, <2>2 DEF RegInv, LinkInv, NoOrphan
  <2>3. CASE k \in DOMAIN links /\ links[k].inc = x
    BY <1>1, <2>1, <2>3 DEF RegInv, LinkInv, DeadLinksEnded
  <2> QED
    BY <1>4, <2>1, <2>2, <2>3
<1>6. EndsAreReal'
  <2> SUFFICES ASSUME NEW x \in Incs
               PROVE  /\ pc'[x] \in {"died", "retiring"} => x \in erred'
                      /\ pc'[x] = "gone" => x \in erred' \/ Disconnected(x)'
    BY DEF EndsAreReal
  <2>1. CASE x = i
    BY <1>1, <2>1
  <2>2. CASE x # i
    <3>1. Disconnected(x) => Disconnected(x)'
      BY <1>2, <2>2 DEF Disconnected
    <3> QED
      BY <1>1, <2>2, <3>1 DEF RegInv, EndsAreReal
  <2> QED
    BY <2>1, <2>2
<1> QED
  BY <1>3, <1>5, <1>6 DEF RegInv, LinkInv

\* A running thread that moves on: it ends only by a failure of its own, or when no
\* link leads to it.
LEMMA ThreadMoveKeeps ==
    ASSUME TypeInv, RegInv, NEW i \in Incs, pc[i] \notin {"unborn", "gone"},
           NEW to \in {"recv", "dispatch", "died", "retiring", "gone", "vanished"},
           Goto(i, to), UNCHANGED <<links, id, terminated>>, erred \subseteq erred',
           to \in {"died", "retiring"} => i \in erred',
           to = "gone" => i \in erred' \/ Disconnected(i)
    PROVE  RegInv'
<1>1. \A x \in Incs : pc'[x] = IF x = i THEN to ELSE pc[x]
  BY ThreadMoves
<1>2. \A x : Disconnected(x)' <=> Disconnected(x)
  BY DEF Disconnected
<1>3. DeadLinksEnded'
  BY <1>1, LinksTyped DEF RegInv, LinkInv, DeadLinksEnded
<1>4. NoOrphan'
  BY <1>1, <1>2 DEF RegInv, LinkInv, NoOrphan
<1>5. EndsAreReal'
  BY <1>1, <1>2 DEF RegInv, EndsAreReal
<1> QED
  BY <1>3, <1>4, <1>5 DEF RegInv, LinkInv

\* Every step keeps the registry invariant.
LEMMA RegStep ==
    ASSUME TypeInv, RegInv, [Next]_vars
    PROVE  RegInv'
<1>1. ASSUME NEW i \in Incs, Spawn(i) PROVE RegInv'
  <2>1. PICK k \in Ids : FreeSlot(k) /\ links' = PutLink(k, LinkTo(i))
    BY <1>1 DEF Spawn
  <2>2. LinkTo(i) \in Link
    BY DEF LinkTo, Link
  <2>3. /\ DOMAIN links \subseteq DOMAIN links' /\ k \in DOMAIN links' /\ links'[k] = LinkTo(i)
        /\ \A j \in DOMAIN links' : j # k => j \in DOMAIN links /\ links'[j] = links[j]
        /\ k \in DOMAIN links => ~links[k].alive
    BY <2>1, <2>2, PutLinkTyped
  <2>4. pc[i] = "unborn" /\ pc' = [pc EXCEPT ![i] = "boot"] /\ UNCHANGED <<terminated, erred>>
    BY <1>1 DEF Spawn, ghostVars
  <2> QED
    BY <2>3, <2>4, NewLinkKeeps
<1>2. ASSUME NEW i \in Incs, RegisterHosted(i) PROVE RegInv'
  <2>1. LinkTo(i) \in Link
    BY DEF LinkTo, Link
  <2> DEFINE k == Len(links) + 1
  <2>2. /\ DOMAIN links \subseteq DOMAIN links' /\ k \in DOMAIN links' /\ links'[k] = LinkTo(i)
        /\ \A j \in DOMAIN links' : j # k => j \in DOMAIN links /\ links'[j] = links[j]
    BY <1>2, <2>1, AppendLinkTyped DEF RegisterHosted
  <2>3. k \notin DOMAIN links
    BY LinksTyped
  <2>4. pc[i] = "unborn" /\ pc' = [pc EXCEPT ![i] = "recv"] /\ UNCHANGED <<terminated, erred>>
    BY <1>2 DEF RegisterHosted, ghostVars
  <2> HIDE DEF k
  <2> QED
    BY <2>2, <2>3, <2>4, NewLinkKeeps
<1>3. ASSUME NEW k \in Ids, SendFailed(k) PROVE RegInv'
  <2>1. k \in DOMAIN links /\ links[k].inc \in Incs /\ pc[links[k].inc] = "gone"
    BY <1>3, LiveLink DEF SendFailed
  <2>2. /\ DOMAIN links' = DOMAIN links /\ links'[k].inc = links[k].inc
        /\ \A j \in DOMAIN links : j # k => links'[j] = links[j]
    BY <1>3, <2>1, CutLinkTyped DEF SendFailed
  <2>3. \A x : Disconnected(x)' <=> Disconnected(x)
    BY <2>1, <2>2 DEF Disconnected
  <2>4. pc' = pc /\ UNCHANGED <<terminated, erred>>
    BY <1>3 DEF SendFailed, threadVars, ghostVars
  <2>5. DeadLinksEnded'
    BY <2>1, <2>2, <2>4 DEF RegInv, LinkInv, DeadLinksEnded
  <2> QED
    BY <2>3, <2>4, <2>5 DEF RegInv, LinkInv, NoOrphan, EndsAreReal
<1>4. ASSUME NEW k \in Ids, Terminate(k) PROVE RegInv'
  <2>1. k \in DOMAIN links
    BY <1>4 DEF Terminate
  <2>2. /\ DOMAIN links' = DOMAIN links /\ links'[k].inc = None
        /\ \A j \in DOMAIN links : j # k => links'[j] = links[j]
    BY <1>4, <2>1, CutLinkTyped DEF Terminate
  <2>3. \A x \in Incs : Disconnected(x) => Disconnected(x)'
    BY <2>2 DEF Disconnected
  <2>4. \A x \in Incs : Disconnected(x)' => Disconnected(x) \/ links[k].inc = x
    BY <2>1, <2>2 DEF Disconnected
  <2>5. pc' = pc /\ erred' = erred /\ terminated' = terminated \cup ({links[k].inc} \ {None})
    BY <1>4 DEF Terminate, threadVars
  <2>6. DeadLinksEnded'
    BY <2>1, <2>2, <2>5 DEF RegInv, LinkInv, DeadLinksEnded
  <2>7. NoOrphan'
    BY <2>4, <2>5 DEF RegInv, LinkInv, NoOrphan
  <2>8. EndsAreReal'
    BY <2>3, <2>5 DEF RegInv, EndsAreReal
  <2> QED
    BY <2>6, <2>7, <2>8 DEF RegInv, LinkInv
<1>5. ASSUME NEW i \in Incs, Start(i) \/ Take(i) \/ EndDispatch(i) \/ FatalExit(i) PROVE RegInv'
  <2>1. UNCHANGED <<links, id, terminated, erred>> /\ pc[i] \notin {"unborn", "gone"}
    BY <1>5 DEF Start, Take, EndDispatch, FatalExit, ghostVars
  <2>2. \E to \in {"recv", "dispatch", "vanished"} : Goto(i, to)
    BY <1>5 DEF Start, Take, EndDispatch, FatalExit
  <2> QED
    BY <2>1, <2>2, ThreadMoveKeeps
<1>6. ASSUME NEW i \in Incs, StartFails(i) \/ DispatchError(i) PROVE RegInv'
  <2>1. UNCHANGED <<links, id, terminated>> /\ pc[i] \notin {"unborn", "gone"}
    BY <1>6 DEF StartFails, DispatchError
  <2>2. \/ Goto(i, "recv") /\ erred' = erred
        \/ Goto(i, "died") /\ erred' = erred \cup {i}
    BY <1>6 DEF StartFails, DispatchError
  <2> QED
    BY <2>1, <2>2, ThreadMoveKeeps
<1>7. ASSUME NEW i \in Incs, SendDied(i) \/ Retire(i) \/ Closed(i) PROVE RegInv'
  <2>1. UNCHANGED <<links, id, terminated, erred>> /\ pc[i] \notin {"unborn", "gone"}
    BY <1>7 DEF SendDied, Retire, Closed, ghostVars
  <2>2. \/ Goto(i, "retiring") /\ i \in erred
        \/ Goto(i, "gone") /\ (i \in erred \/ Disconnected(i))
    BY <1>7 DEF SendDied, Retire, Closed, RegInv, EndsAreReal
  <2> QED
    BY <2>1, <2>2, ThreadMoveKeeps
<1>8. CASE UNCHANGED <<links, pc, erred, terminated>>
  BY <1>8 DEF RegInv, LinkInv, DeadLinksEnded, NoOrphan, EndsAreReal, Disconnected
<1>9. ASSUME NEW k \in Ids, SendAccepted(k) \/ SendRefused(k) PROVE RegInv'
  BY <1>8, <1>9 DEF SendAccepted, SendRefused, threadVars, ghostVars
<1>10. ASSUME NEW i \in Incs, Transcript(i) \/ Reply(i) PROVE RegInv'
  BY <1>8, <1>10 DEF Transcript, Reply, threadVars, ghostVars
<1>11. CASE Receive \/ RouterStep \/ UNCHANGED vars
  BY <1>8, <1>11 DEF Receive, Route, RouterStep, vars, threadVars, ghostVars
<1> QED
  BY <1>1, <1>2, <1>3, <1>4, <1>5, <1>6, <1>7, <1>9, <1>10, <1>11
     DEF Next, PrimaryOp, ThreadStep

\* The registry invariant holds always.
LEMMA RegInvariant == Spec => []RegInv
<1>1. Init => RegInv
  BY DEF Init, RegInv, LinkInv, DeadLinksEnded, NoOrphan, EndsAreReal
<1> QED
  BY <1>1, RegStep, TypeInvariant, PTL DEF Spec

\* The registry never loses a running worker: a thread that no link leads to was
\* terminated by the primary, or has ended, or was never started.
THEOREM NoWorkerIsLost == Spec => []NoOrphan
BY RegInvariant, PTL DEF RegInv, LinkInv

-----------------------------------------------------------------------------
(* The death notices.                                                      *)

\* What a send leaves in the channel.
LEMMA QueueAfterSend ==
    ASSUME TypeInv, NEW s \in Senders, NEW e \in Envelopes, Enqueue(s, e)
    PROVE  /\ Len(queue) \in Nat /\ Len(queue') = Len(queue) + 1
           /\ queue'[Len(queue) + 1] = e
           /\ \A n \in 1 .. Len(queue) : queue'[n] = queue[n]
<1>1. queue \in Seq(Envelopes) /\ queue' = Append(queue, e)
  BY DEF TypeInv, TypeOK, InboxTypeOK, Enqueue
<1> QED
  BY <1>1, SeqAppended, SeqElements

\* What a receive leaves in the channel, and what it takes.
LEMMA QueueAfterReceive ==
    ASSUME TypeInv, Receive, queue # << >>
    PROVE  /\ Len(queue) \in Nat /\ Len(queue) >= 1 /\ Len(queue') = Len(queue) - 1
           /\ \A n \in 1 .. Len(queue') : queue'[n] = queue[n + 1]
           /\ Head(queue) = queue[1] /\ Head(queue) \in Envelope
           /\ Route(Head(queue))
<1>1. queue \in Seq(Envelopes) /\ queue' = Tail(queue) /\ Route(Head(queue))
  BY DEF TypeInv, TypeOK, InboxTypeOK, Receive, Recv
<1> QED
  BY <1>1, SeqTaken, SeqElements

\* Only these steps change what is queued or noticed.
LEMMA NoticeKept ==
    ASSUME TypeInv, NoticesAreReal, erred \subseteq erred', noticed' = noticed,
           \/ queue' = queue
           \/ \E s \in Senders, e \in Envelopes :
                 Enqueue(s, e) /\ (e.kind = "died" => e.inc \in erred)
    PROVE  NoticesAreReal'
<1>1. CASE queue' = queue
  BY <1>1 DEF NoticesAreReal
<1>2. CASE \E s \in Senders, e \in Envelopes :
               Enqueue(s, e) /\ (e.kind = "died" => e.inc \in erred)
  <2>1. PICK s \in Senders, e \in Envelopes :
                 Enqueue(s, e) /\ (e.kind = "died" => e.inc \in erred)
    BY <1>2
  <2>2. /\ Len(queue) \in Nat /\ Len(queue') = Len(queue) + 1
        /\ queue'[Len(queue) + 1] = e
        /\ \A n \in 1 .. Len(queue) : queue'[n] = queue[n]
    BY <2>1, QueueAfterSend
  <2>3. \A n \in 1 .. Len(queue') : n \in 1 .. Len(queue) \/ n = Len(queue) + 1
    BY <2>2
  <2> QED
    BY <2>1, <2>2, <2>3 DEF NoticesAreReal
<1> QED
  BY <1>1, <1>2

\* Every step keeps the notices real.
LEMMA NoticeStep ==
    ASSUME TypeInv, RegInv, NoticesAreReal, [Next]_vars
    PROVE  NoticesAreReal'
<1>1. ASSUME NEW k \in Ids, SendFailed(k) PROVE NoticesAreReal'
  <2> DEFINE i == links[k].inc
  <2>1. k \in DOMAIN links /\ i \in Incs /\ pc[i] = "gone"
    BY <1>1, LiveLink DEF SendFailed
  <2>2. i \in erred
    BY <2>1 DEF RegInv, EndsAreReal, Disconnected
  <2> HIDE DEF i
  <2>3. Died(i) \in Envelopes /\ Died(i).inc = i
    BY <2>1, EnvelopesTyped DEF Died
  <2>4. Enqueue(Primary, Died(i)) /\ UNCHANGED <<erred, noticed>> /\ Primary \in Senders
    BY <1>1 DEF SendFailed, ghostVars, i, Primary
  <2> QED
    BY <2>2, <2>3, <2>4, NoticeKept
<1>2. ASSUME NEW i \in Incs, SendDied(i) PROVE NoticesAreReal'
  <2>1. Enqueue(i, Died(i)) /\ UNCHANGED <<erred, noticed>> /\ i \in erred /\ i \in Senders
    BY <1>2 DEF SendDied, ghostVars, RegInv, EndsAreReal
  <2>2. Died(i) \in Envelopes /\ Died(i).inc = i
    BY <1>2, EnvelopesTyped DEF SendDied, Died
  <2> QED
    BY <2>1, <2>2, NoticeKept
<1>3. ASSUME NEW i \in Incs, Transcript(i) \/ Reply(i) PROVE NoticesAreReal'
  <2>1. Line(i) \in Envelopes /\ Answer(i) \in Envelopes
    BY <1>3, EnvelopesTyped DEF Transcript, Reply
  <2>2. Line(i).kind # "died" /\ Answer(i).kind # "died"
    BY DEF Line, Answer
  <2>3. UNCHANGED <<erred, noticed>> /\ (Enqueue(i, Line(i)) \/ Enqueue(i, Answer(i)))
    BY <1>3 DEF Transcript, Reply, ghostVars
  <2> QED
    BY <2>1, <2>2, <2>3, NoticeKept
<1>4. CASE Receive
  <2>1. CASE queue = << >>
    BY <1>4, <2>1, NoticeKept DEF Receive, Recv, ghostVars
  <2>2. CASE queue # << >>
    <3>1. erred' = erred
      BY <1>4, <2>2, QueueAfterReceive DEF Route
    <3>2. Head(queue).kind = "died" => Head(queue).inc \in erred
      BY <1>4, <2>2, QueueAfterReceive DEF NoticesAreReal
    <3>3. noticed' \subseteq erred
      BY <1>4, <2>2, <3>2, QueueAfterReceive DEF Route, NoticesAreReal
    <3>4. \A n \in 1 .. Len(queue') : n + 1 \in 1 .. Len(queue) /\ queue'[n] = queue[n + 1]
      BY <1>4, <2>2, QueueAfterReceive
    <3> QED
      BY <3>1, <3>3, <3>4 DEF NoticesAreReal
  <2> QED
    BY <2>1, <2>2
<1>5. ASSUME NEW i \in Incs, \/ Spawn(i) \/ RegisterHosted(i) \/ Start(i) \/ StartFails(i)
                             \/ Take(i) \/ EndDispatch(i) \/ DispatchError(i) \/ Retire(i)
                             \/ Closed(i) \/ FatalExit(i)
      PROVE NoticesAreReal'
  <2>1. UNCHANGED <<queue, noticed>> /\ erred \subseteq erred'
    BY <1>5 DEF Spawn, RegisterHosted, Start, StartFails, Take, EndDispatch, DispatchError,
                Retire, Closed, FatalExit, inboxVars, ghostVars
  <2> QED
    BY <2>1, NoticeKept
<1>6. ASSUME NEW k \in Ids, SendAccepted(k) \/ SendRefused(k) \/ Terminate(k) PROVE NoticesAreReal'
  <2>1. UNCHANGED <<queue, noticed, erred>>
    BY <1>6 DEF SendAccepted, SendRefused, Terminate, inboxVars, ghostVars
  <2> QED
    BY <2>1, NoticeKept
<1>7. CASE RouterStep \/ UNCHANGED vars
  <2>1. UNCHANGED <<queue, noticed, erred>>
    BY <1>7 DEF RouterStep, Wake, Clear, Dispatched, DispatchFailed, SendStep, Swap, FireHook,
                vars, inboxVars, ghostVars
  <2> QED
    BY <2>1, NoticeKept
<1> QED
  BY <1>1, <1>2, <1>3, <1>4, <1>5, <1>6, <1>7 DEF Next, PrimaryOp, ThreadStep

\* A #workerDied, queued or dispatched, is always about a thread that failed: neither
\* a clean end after terminate nor a failed send invents one.
THEOREM NoticesAlwaysReal == Spec => []NoticesAreReal
<1>1. Init => NoticesAreReal
  BY DEF Init, InboxInit, NoticesAreReal
<1> QED
  BY <1>1, NoticeStep, RegInvariant, TypeInvariant, PTL DEF Spec

-----------------------------------------------------------------------------
(* The correlated replies.                                                 *)

\* replyKeyFor:corr: is injective, because a worker id stays below 32.
LEMMA ReplyKeyInjective ==
    ASSUME NEW k \in Ids, NEW j \in Ids, NEW c \in Nat, NEW d \in Nat,
           ReplyKey(k, c) = ReplyKey(j, d)
    PROVE  c = d /\ k = j
BY DEF ReplyKey, Ids

\* A new continuation is registered under a key of its own.
LEMMA RegisterKeeps ==
    ASSUME TypeInv, PendingInv, NEW k \in Ids, RegisterReply(k)
    PROVE  PendingInv'
<1> DEFINE c == nextCorr + 1
           new == <<ReplyKey(k, c), c>>
<1>1. /\ nextCorr' = c /\ c \in Corrs /\ nextCorr \in Nat /\ c > nextCorr /\ fired' = fired
  BY RegisterTyped DEF TypeInv, TypeOK
<1>2. \A p \in pending' : p \in pending \/ p = new
  BY DEF RegisterReply
<1>3. \A p \in pending : p[2] \in Corrs /\ p[2] <= nextCorr
  BY DEF PendingInv, TypeInv, TypeOK
<1>4. new[2] = c /\ new[1] = ReplyKey(k, c)
  OBVIOUS
<1> HIDE DEF new
<1>5. fired[c] = << >>
  BY <1>1 DEF PendingInv
<1>6. ASSUME NEW p \in pending'
      PROVE  p[2] <= c /\ fired[p[2]] = << >> /\ \E j \in Ids : p[1] = ReplyKey(j, p[2])
  <2>1. CASE p \in pending
    BY <1>1, <1>3, <2>1 DEF PendingInv, Corrs
  <2>2. CASE p = new
    BY <1>1, <1>4, <1>5, <2>2
  <2> QED
    BY <1>2, <2>1, <2>2
<1>7. ASSUME NEW p \in pending', NEW q \in pending', p[2] = q[2] PROVE p = q
  <2>1. CASE p \in pending /\ q \in pending
    BY <1>7, <2>1 DEF PendingInv
  <2>2. CASE p = new /\ q = new
    BY <2>2
  <2>3. CASE (p = new /\ q \in pending) \/ (p \in pending /\ q = new)
    BY <1>1, <1>3, <1>4, <1>7, <2>3 DEF Corrs
  <2> QED
    BY <1>2, <2>1, <2>2, <2>3
<1>8. \A d \in Corrs : d > nextCorr' => fired'[d] = << >>
  BY <1>1 DEF PendingInv, Corrs
<1>9. /\ \A p \in pending' : /\ p[2] <= nextCorr' /\ fired'[p[2]] = << >>
                             /\ \E j \in Ids : p[1] = ReplyKey(j, p[2])
      /\ \A p, q \in pending' : p[2] = q[2] => p = q
  BY <1>1, <1>6, <1>7
<1> QED
  BY <1>8, <1>9 DEF PendingInv

\* An envelope is routed to the continuation of its own correlation id, which then
\* leaves the table.
LEMMA RouteKeeps ==
    ASSUME TypeInv, PendingInv, AnsweredByTarget, NEW env \in Envelope, Route(env),
           env.corr # 0 => Travels(env.corr, env.inc)
    PROVE  PendingInv' /\ AnsweredByTarget'
<1> DEFINE key == ReplyKey(env.from, env.corr)
           conts == {p \in pending : p[1] = key}
<1>1. env.from \in Ids /\ env.corr \in 0 .. MaxCorr /\ env.inc \in Incs
  BY DEF Envelope
<1>2. \A p \in pending : p[2] \in Corrs /\ p = <<p[1], p[2]>>
  BY DEF TypeInv, TypeOK
<1>3. \A p \in conts : p[2] = env.corr
  <2> SUFFICES ASSUME NEW p \in conts PROVE p[2] = env.corr
    OBVIOUS
  <2>1. PICK j \in Ids : p[1] = ReplyKey(j, p[2])
    BY DEF PendingInv
  <2>2. p[2] \in Nat /\ env.corr \in Nat
    BY <1>1, <1>2 DEF Corrs
  <2> QED
    BY <1>1, <2>1, <2>2, ReplyKeyInjective
<1>4. nextCorr' = nextCorr /\ target' = target
  BY DEF Route
<1>5. CASE UNCHANGED <<pending, fired>>
  BY <1>4, <1>5 DEF PendingInv, AnsweredByTarget
<1>6. CASE /\ env.corr # 0 /\ conts # {} /\ pending' = pending \ conts
           /\ fired' = [c \in Corrs |-> IF <<key, c>> \in conts
                                        THEN Append(fired[c], env.inc) ELSE fired[c]]
  <2> DEFINE e == env.corr
  <2>1. e \in Corrs /\ Travels(e, env.inc)
    BY <1>1, <1>6 DEF Corrs
  <2>2. <<key, e>> \in conts
    BY <1>2, <1>3, <1>6
  <2>3. fired[e] = << >>
    BY <2>2 DEF PendingInv
  <2>4. fired'[e] = <<env.inc>>
    <3>1. fired'[e] = Append(fired[e], env.inc)
      BY <1>6, <2>1, <2>2
    <3> QED
      BY <2>3, <3>1
  <2>5. \A c \in Corrs : c # e => fired'[c] = fired[c]
    <3>1. \A c \in Corrs : c # e => <<key, c>> \notin conts
      BY <1>3
    <3> QED
      BY <1>6, <3>1
  <2>6. \A p \in pending' : p \in pending /\ p[2] # e
    <3>1. \A p \in pending : p[2] = e => p = <<key, e>>
      BY <2>2 DEF PendingInv
    <3> QED
      BY <1>6, <2>2, <3>1
  <2>7. PendingInv'
    <3>1. \A p \in pending' : /\ p[2] <= nextCorr' /\ fired'[p[2]] = << >>
                              /\ \E j \in Ids : p[1] = ReplyKey(j, p[2])
      BY <1>2, <1>4, <2>5, <2>6 DEF PendingInv
    <3>2. \A p, q \in pending' : p[2] = q[2] => p = q
      BY <2>6 DEF PendingInv
    <3>3. \A c \in Corrs : c > nextCorr' => fired'[c] = << >>
      <4>1. nextCorr \in Nat /\ e <= nextCorr
        BY <2>1 DEF Travels, TypeInv, TypeOK
      <4>2. \A c \in Corrs : c > nextCorr => c # e
        BY <2>1, <4>1 DEF Corrs
      <4> QED
        BY <1>4, <2>5, <4>2 DEF PendingInv
    <3> QED
      BY <3>1, <3>2, <3>3 DEF PendingInv
  <2>8. AnsweredByTarget'
    <3>1. fired'[e] = <<target'[e]>> /\ target'[e] # None
      BY <1>1, <1>4, <2>1, <2>4 DEF Travels
    <3>2. \A c \in Corrs : c # e => fired'[c] \in {<< >>, <<target'[c]>>} \ {<<None>>}
      BY <1>4, <2>5 DEF AnsweredByTarget
    <3>3. fired'[e] \in {<< >>, <<target'[e]>>} \ {<<None>>}
      BY <3>1
    <3> QED
      BY <3>2, <3>3 DEF AnsweredByTarget
  <2> QED
    BY <2>7, <2>8
<1> QED
  BY <1>5, <1>6 DEF Route

\* What travels with a thread goes on doing so: a request is assigned to a thread
\* once, when its correlation id is new.
LEMMA TravelsOn ==
    ASSUME TypeInv,
           \/ UNCHANGED <<nextCorr, target>>
           \/ /\ nextCorr' = nextCorr + 1
              /\ \/ target' = target
                 \/ \E i \in Incs : target' = [target EXCEPT ![nextCorr + 1] = i]
    PROVE  \A c \in Corrs, i \in Incs : Travels(c, i) => Travels(c, i)'
<1>1. nextCorr \in Nat /\ target \in [Corrs -> Incs \cup {None}]
  BY DEF TypeInv, TypeOK
<1>2. \A c \in Corrs : c <= nextCorr => c <= nextCorr' /\ c # nextCorr + 1
  BY <1>1 DEF Corrs
<1>3. \A c \in Corrs : c # nextCorr + 1 => target'[c] = target[c]
  BY <1>1, <1>2
<1> QED
  BY <1>1, <1>2, <1>3 DEF Travels

\* Positions and staged requests are correlation ids.
LEMMA CorrTyped ==
    ASSUME TypeInv
    PROVE  /\ \A i \in Incs : /\ mail[i] \in Seq(Corrs) /\ Len(mail[i]) \in Nat
                              /\ \A n \in 1 .. Len(mail[i]) : mail[i][n] \in Corrs
                              /\ staged[i] # 0 => staged[i] \in Corrs
           /\ Len(queue) \in Nat
           /\ \A n \in 1 .. Len(queue) : /\ queue[n].corr # 0 => queue[n].corr \in Corrs
                                         /\ queue[n].inc \in Incs
<1>1. \A i \in Incs : mail[i] \in Seq(Corrs) /\ staged[i] \in 0 .. MaxCorr
  BY DEF TypeInv, TypeOK
<1>2. \A i \in Incs : Len(mail[i]) \in Nat /\ \A n \in 1 .. Len(mail[i]) : mail[i][n] \in Corrs
  BY <1>1, SeqElements
<1>3. \A i \in Incs : staged[i] # 0 => staged[i] \in Corrs
  BY <1>1 DEF Corrs
<1>4. queue \in Seq(Envelope)
  BY DEF TypeInv, TypeOK, InboxTypeOK
<1>5. Len(queue) \in Nat /\ \A n \in 1 .. Len(queue) : queue[n] \in Envelope
  BY <1>4, SeqElements
<1>6. \A e \in Envelope : (e.corr # 0 => e.corr \in Corrs) /\ e.inc \in Incs
  BY DEF Envelope, Corrs
<1> QED
  BY <1>1, <1>2, <1>3, <1>5, <1>6

\* The parts of the invariant that a step leaves alone stay true.
LEMMA CorrKept ==
    ASSUME TypeInv, CorrInv,
           \A c \in Corrs, i \in Incs : Travels(c, i) => Travels(c, i)'
    PROVE  /\ mail' = mail => MailTravels'
           /\ staged' = staged => StagedTravels'
           /\ queue' = queue => QueueTravels'
           /\ \A s \in Senders, e \in Envelopes :
                 Enqueue(s, e) /\ (e.corr # 0 => Travels(e.corr, e.inc)') => QueueTravels'
<1>1. mail' = mail => MailTravels'
  BY CorrTyped DEF CorrInv, MailTravels
<1>2. staged' = staged => StagedTravels'
  BY CorrTyped DEF CorrInv, StagedTravels
<1>3. queue' = queue => QueueTravels'
  BY CorrTyped DEF CorrInv, QueueTravels
<1>4. ASSUME NEW s \in Senders, NEW e \in Envelopes, Enqueue(s, e),
             e.corr # 0 => Travels(e.corr, e.inc)'
      PROVE  QueueTravels'
  <2>1. /\ Len(queue) \in Nat /\ Len(queue') = Len(queue) + 1
        /\ queue'[Len(queue) + 1] = e
        /\ \A n \in 1 .. Len(queue) : queue'[n] = queue[n]
    BY <1>4, QueueAfterSend
  <2>2. \A n \in 1 .. Len(queue') : n \in 1 .. Len(queue) \/ n = Len(queue) + 1
    BY <2>1
  <2>3. ASSUME NEW n \in 1 .. Len(queue), queue[n].corr # 0
        PROVE  Travels(queue[n].corr, queue[n].inc)'
    <3>1. Travels(queue[n].corr, queue[n].inc) /\ queue[n].corr \in Corrs /\ queue[n].inc \in Incs
      BY <2>3, CorrTyped DEF CorrInv, QueueTravels
    <3>2. queue'[n] = queue[n]
      BY <2>1
    <3> QED
      BY <3>1, <3>2
  <2> QED
    BY <1>4, <2>1, <2>2, <2>3 DEF QueueTravels
<1> QED
  BY <1>1, <1>2, <1>3, <1>4

\* Every step keeps the invariant of the reply table.
LEMMA ReplyStep ==
    ASSUME TypeInv, ReplyInv, [Next]_vars
    PROVE  ReplyInv'
<1> USE DEF ReplyInv
<1>1. ASSUME NEW k \in Ids, SendAccepted(k) \/ SendRefused(k) \/ SendFailed(k) PROVE ReplyInv'
  <2>1. RegisterReply(k) /\ staged' = staged
    BY <1>1 DEF SendAccepted, SendRefused, SendFailed, threadVars
  <2>2. PICK c \in Corrs : c = nextCorr + 1
    BY <2>1, RegisterTyped
  <2>3. /\ nextCorr' = c /\ nextCorr \in Nat /\ fired' = fired /\ PendingInv'
        /\ target \in [Corrs -> Incs \cup {None}]
    <3>1. nextCorr' = c /\ fired' = fired
      BY <2>1, <2>2, RegisterTyped
    <3>2. PendingInv'
      BY <2>1, RegisterKeeps
    <3>3. nextCorr \in Nat /\ target \in [Corrs -> Incs \cup {None}]
      BY DEF TypeInv, TypeOK
    <3> QED
      BY <3>1, <3>2, <3>3
  <2>4. fired[c] = << >>
    BY <2>2, <2>3 DEF PendingInv
  <2>5. Live(k) => \E i \in Incs : i = links[k].inc /\ pc[i] # "unborn"
    BY LiveLink
  <2>6. target' = target \/ \E i \in Incs : target' = [target EXCEPT ![c] = i]
    BY <1>1, <2>2, <2>5 DEF SendAccepted, SendRefused, SendFailed
  <2>7. \A d \in Corrs, j \in Incs : Travels(d, j) => Travels(d, j)'
    BY <2>2, <2>3, <2>6, TravelsOn
  <2>8. AnsweredByTarget'
    <3>1. \A d \in Corrs : d # c => target'[d] = target[d]
      BY <2>3, <2>6
    <3>2. \A d \in Corrs : d # c => fired'[d] \in {<< >>, <<target'[d]>>} \ {<<None>>}
      BY <2>3, <3>1 DEF AnsweredByTarget
    <3>3. fired'[c] \in {<< >>, <<target'[c]>>} \ {<<None>>}
      BY <2>3, <2>4
    <3> QED
      BY <3>2, <3>3 DEF AnsweredByTarget
  <2>9. MailTravels' /\ QueueTravels'
    <3>1. CASE SendAccepted(k)
      <4>1. queue' = queue /\ Live(k)
        BY <3>1 DEF SendAccepted, inboxVars
      <4>2. PICK i \in Incs : i = links[k].inc
        BY <2>5, <4>1
      <4>3. mail' = [mail EXCEPT ![i] = Append(@, c)] /\ target' = [target EXCEPT ![c] = i]
        BY <2>2, <3>1, <4>2 DEF SendAccepted
      <4>4. \A j \in Incs : j # i => mail'[j] = mail[j]
        BY <4>3 DEF TypeInv, TypeOK
      <4>5. mail'[i] = Append(mail[i], c) /\ Travels(c, i)'
        BY <2>3, <4>3 DEF TypeInv, TypeOK, Travels, Corrs
      <4>6. mail[i] \in Seq(Corrs)
        BY CorrTyped
      <4>7. /\ Len(mail'[i]) = Len(mail[i]) + 1 /\ mail'[i][Len(mail[i]) + 1] = c
            /\ Len(mail[i]) \in Nat
            /\ \A n \in 1 .. Len(mail[i]) : mail'[i][n] = mail[i][n]
        BY <4>5, <4>6, SeqAppended, SeqElements
      <4>8. ASSUME NEW j \in Incs, NEW n \in 1 .. Len(mail'[j]) PROVE Travels(mail[j][n], j)'
        <5>1. CASE j # i
          BY <2>7, <4>4, <4>8, <5>1, CorrTyped DEF CorrInv, MailTravels
        <5>2. CASE j = i /\ n = Len(mail[i]) + 1
          BY <4>5, <4>7, <5>2
        <5>3. CASE j = i /\ n \in 1 .. Len(mail[i])
          BY <2>7, <4>7, <5>3, CorrTyped DEF CorrInv, MailTravels
        <5> QED
          BY <4>7, <4>8, <5>1, <5>2, <5>3
      <4>9. MailTravels'
        BY <4>8 DEF MailTravels
      <4> QED
        BY <2>7, <4>1, <4>9, CorrKept
    <3>2. CASE SendRefused(k)
      BY <2>7, <3>2, CorrKept DEF SendRefused, inboxVars
    <3>3. CASE SendFailed(k)
      <4>1. PICK i \in Incs : i = links[k].inc /\ pc[i] # "unborn"
        BY <2>5, <3>3 DEF SendFailed
      <4>2. Died(i) \in Envelopes /\ Died(i).corr = 0 /\ Primary \in Senders
        BY <4>1, EnvelopesTyped DEF Died, Primary
      <4>3. Enqueue(Primary, Died(i)) /\ mail' = mail
        BY <3>3, <4>1 DEF SendFailed
      <4> QED
        BY <2>7, <4>2, <4>3, CorrKept
    <3> QED
      BY <1>1, <3>1, <3>2, <3>3
  <2> QED
    BY <2>1, <2>3, <2>7, <2>8, <2>9, CorrKept DEF CorrInv
<1>2. ASSUME NEW i \in Incs, Take(i) PROVE ReplyInv'
  <2>1. UNCHANGED <<pending, nextCorr, target, fired, queue>>
    BY <1>2 DEF Take, replyVars, inboxVars
  <2>2. \A d \in Corrs, j \in Incs : Travels(d, j) => Travels(d, j)'
    BY <2>1, TravelsOn
  <2>3. /\ mail[i] \in Seq(Corrs) /\ mail[i] # << >>
        /\ mail' = [mail EXCEPT ![i] = Tail(mail[i])]
        /\ staged' = [staged EXCEPT ![i] = Head(mail[i])]
    BY <1>2, CorrTyped DEF Take
  <2>4. /\ mail'[i] = Tail(mail[i]) /\ staged'[i] = Head(mail[i])
        /\ \A j \in Incs : j # i => mail'[j] = mail[j] /\ staged'[j] = staged[j]
    BY <2>3 DEF TypeInv, TypeOK
  <2>5. /\ Len(mail'[i]) = Len(mail[i]) - 1 /\ Len(mail[i]) \in Nat /\ Len(mail[i]) >= 1
        /\ \A n \in 1 .. Len(mail'[i]) : mail'[i][n] = mail[i][n + 1]
        /\ Head(mail[i]) = mail[i][1]
    <3> DEFINE box == mail[i]
               rest == mail'[i]
    <3>1. box \in Seq(Corrs) /\ box # << >> /\ rest = Tail(box)
      BY <2>3, <2>4
    <3> HIDE DEF box, rest
    <3>2. /\ Len(rest) = Len(box) - 1 /\ DOMAIN rest = 1 .. Len(box) - 1
          /\ \A n \in DOMAIN rest : rest[n] = box[n + 1]
          /\ Head(box) = box[1] /\ Len(box) >= 1 /\ Len(box) \in Nat
      BY <3>1, SeqTaken, SeqElements
    <3> QED
      BY <3>2 DEF box, rest
  <2>6. MailTravels'
    <3> SUFFICES ASSUME NEW j \in Incs, NEW n \in 1 .. Len(mail'[j]) PROVE Travels(mail[j][n], j)'
      BY DEF MailTravels
    <3>1. CASE j # i
      BY <2>2, <2>4, <3>1, CorrTyped DEF CorrInv, MailTravels
    <3>2. CASE j = i
      <4>1. n + 1 \in 1 .. Len(mail[i]) /\ mail'[i][n] = mail[i][n + 1]
        BY <2>5, <3>2
      <4> QED
        BY <2>2, <3>2, <4>1, CorrTyped DEF CorrInv, MailTravels
    <3> QED
      BY <3>1, <3>2
  <2>7. StagedTravels'
    <3>1. Travels(mail[i][1], i) /\ mail[i][1] \in Corrs
      BY <2>5, CorrTyped DEF CorrInv, MailTravels
    <3>2. Travels(staged[i], i)'
      BY <2>2, <2>4, <2>5, <3>1
    <3>3. \A j \in Incs : j # i /\ staged'[j] # 0 => Travels(staged[j], j)'
      BY <2>2, <2>4, CorrTyped DEF CorrInv, StagedTravels
    <3> QED
      BY <3>2, <3>3 DEF StagedTravels
  <2> QED
    BY <2>1, <2>2, <2>6, <2>7, CorrKept DEF CorrInv, PendingInv, AnsweredByTarget
<1>3. ASSUME NEW i \in Incs, EndDispatch(i) \/ DispatchError(i) \/ Retire(i) PROVE ReplyInv'
  <2>1. UNCHANGED <<pending, nextCorr, target, fired, queue>>
    BY <1>3 DEF EndDispatch, DispatchError, Retire, replyVars, inboxVars
  <2>2. \A d \in Corrs, j \in Incs : Travels(d, j) => Travels(d, j)'
    BY <2>1, TravelsOn
  <2>3. /\ mail' = mail \/ mail' = [mail EXCEPT ![i] = << >>]
        /\ staged' = staged \/ staged' = [staged EXCEPT ![i] = 0]
    BY <1>3 DEF EndDispatch, DispatchError, Retire
  <2>4. \A j \in Incs : mail'[j] = mail[j] \/ Len(mail'[j]) = 0
    BY <2>3 DEF TypeInv, TypeOK
  <2>5. MailTravels'
    BY <2>2, <2>4, CorrTyped DEF CorrInv, MailTravels
  <2>6. \A j \in Incs : staged'[j] = staged[j] \/ staged'[j] = 0
    BY <2>3 DEF TypeInv, TypeOK
  <2>7. StagedTravels'
    BY <2>2, <2>6, CorrTyped DEF CorrInv, StagedTravels
  <2> QED
    BY <2>1, <2>2, <2>5, <2>7, CorrKept DEF CorrInv, PendingInv, AnsweredByTarget
<1>4. ASSUME NEW i \in Incs, Transcript(i) \/ Reply(i) \/ SendDied(i) PROVE ReplyInv'
  <2>1. UNCHANGED <<pending, nextCorr, target, fired, mail, staged>>
    BY <1>4 DEF Transcript, Reply, SendDied, replyVars, threadVars
  <2>2. \A d \in Corrs, j \in Incs : Travels(d, j) => Travels(d, j)'
    BY <2>1, TravelsOn
  <2>3. /\ Died(i) \in Envelopes /\ Line(i) \in Envelopes /\ Answer(i) \in Envelopes
    BY <1>4, EnvelopesTyped DEF Transcript, Reply, SendDied
  <2>4. /\ Died(i).corr = 0 /\ Line(i).corr = 0
        /\ Answer(i).corr = staged[i] /\ Answer(i).inc = i
    BY DEF Died, Line, Answer
  <2>5. Answer(i).corr # 0 => Travels(staged[i], i)'
    BY <2>1, <2>2, <2>4, CorrTyped DEF CorrInv, StagedTravels
  <2>6. i \in Senders /\ (Enqueue(i, Died(i)) \/ Enqueue(i, Line(i)) \/ Enqueue(i, Answer(i)))
    BY <1>4 DEF Transcript, Reply, SendDied
  <2>7. PICK e \in Envelopes : Enqueue(i, e) /\ (e.corr # 0 => Travels(e.corr, e.inc)')
    BY <2>1, <2>3, <2>4, <2>5, <2>6
  <2> QED
    BY <2>1, <2>2, <2>6, <2>7, CorrKept DEF CorrInv, PendingInv, AnsweredByTarget
<1>5. CASE Receive
  <2>1. CASE queue = << >>
    <3>1. UNCHANGED <<pending, nextCorr, target, fired, mail, staged, queue>>
      BY <1>5, <2>1 DEF Receive, Recv, replyVars, threadVars
    <3>2. \A d \in Corrs, j \in Incs : Travels(d, j) => Travels(d, j)'
      BY <3>1, TravelsOn
    <3> QED
      BY <3>1, <3>2, CorrKept DEF CorrInv, PendingInv, AnsweredByTarget
  <2>2. CASE queue # << >>
    <3>1. /\ Len(queue) \in Nat /\ Len(queue) >= 1 /\ Len(queue') = Len(queue) - 1
          /\ \A n \in 1 .. Len(queue') : queue'[n] = queue[n + 1]
          /\ Head(queue) = queue[1] /\ Head(queue) \in Envelope /\ Route(Head(queue))
      BY <1>5, <2>2, QueueAfterReceive
    <3>2. UNCHANGED <<nextCorr, target, mail, staged>>
      BY <1>5, <3>1 DEF Receive, Route, threadVars
    <3>3. \A d \in Corrs, j \in Incs : Travels(d, j) => Travels(d, j)'
      BY <3>2, TravelsOn
    <3>4. Head(queue).corr # 0 => Travels(Head(queue).corr, Head(queue).inc)
      BY <3>1 DEF CorrInv, QueueTravels
    <3>5. PendingInv' /\ AnsweredByTarget'
      BY <3>1, <3>4, RouteKeeps
    <3>6. QueueTravels'
      <4>1. \A n \in 1 .. Len(queue') : n + 1 \in 1 .. Len(queue)
        BY <3>1
      <4> QED
        BY <3>1, <3>3, <4>1, CorrTyped DEF CorrInv, QueueTravels
    <3> QED
      BY <3>2, <3>3, <3>5, <3>6, CorrKept DEF CorrInv
  <2> QED
    BY <2>1, <2>2
<1>6. CASE UNCHANGED <<pending, nextCorr, target, fired, mail, staged, queue>>
  <2>1. \A d \in Corrs, j \in Incs : Travels(d, j) => Travels(d, j)'
    BY <1>6, TravelsOn
  <2> QED
    BY <1>6, <2>1, CorrKept DEF CorrInv, PendingInv, AnsweredByTarget
<1>7. ASSUME NEW i \in Incs, \/ Spawn(i) \/ RegisterHosted(i) \/ Start(i) \/ StartFails(i)
                             \/ Closed(i) \/ FatalExit(i)
      PROVE ReplyInv'
  BY <1>6, <1>7 DEF Spawn, RegisterHosted, Start, StartFails, Closed, FatalExit,
                    inboxVars, replyVars
<1>8. ASSUME NEW k \in Ids, Terminate(k) PROVE ReplyInv'
  BY <1>6, <1>8 DEF Terminate, inboxVars, replyVars, threadVars
<1>9. CASE RouterStep \/ UNCHANGED vars
  <2>1. UNCHANGED queue
    BY <1>9 DEF RouterStep, Wake, Clear, Dispatched, DispatchFailed, SendStep, Swap, FireHook,
                vars, inboxVars
  <2>2. UNCHANGED <<mail, threadVars, replyVars>>
    BY <1>9 DEF RouterStep, vars
  <2> QED
    BY <1>6, <2>1, <2>2 DEF threadVars, replyVars
<1> QED
  BY <1>1, <1>2, <1>3, <1>4, <1>5, <1>7, <1>8, <1>9 DEF Next, PrimaryOp, ThreadStep

\* The invariant of the reply table holds always.
LEMMA ReplyInvariant == Spec => []ReplyInv
<1>1. Init => ReplyInv
  BY DEF Init, InboxInit, ReplyInv, PendingInv, CorrInv, MailTravels, StagedTravels,
         QueueTravels, AnsweredByTarget
<1> QED
  BY <1>1, ReplyStep, TypeInvariant, PTL DEF Spec

\* A send:onReply: continuation runs at most once, and only on a reply of the thread
\* that accepted its request, whatever workers came and went under the same id.
THEOREM AnswersComeFromTarget == Spec => []AnsweredByTarget
BY ReplyInvariant, PTL DEF ReplyInv

-----------------------------------------------------------------------------
(* The composed system implements the event router.                        *)

\* Ended threads are finitely many, and at most all of them.
LEMMA EndedFinite ==
    /\ IsFiniteSet(Ended) /\ Cardinality(Ended) \in Nat
    /\ Cardinality(Incs) \in Nat /\ Cardinality(Ended) <= Cardinality(Incs)
<1>1. IsFiniteSet(Incs) /\ Ended \in SUBSET Incs
  BY SendsAssumption DEF Ended
<1>2. IsFiniteSet(Ended) /\ Cardinality(Ended) <= Cardinality(Incs)
  BY <1>1, FS_Subset
<1> QED
  BY <1>1, <1>2, FS_CardinalityType

\* The notice of a thread that fails is its last message: it counts once.
LEMMA EndedGrows ==
    ASSUME TypeInv, NEW i \in Incs, SendDied(i)
    PROVE  /\ Cardinality(Ended') = Cardinality(Ended) + 1
           /\ Cardinality(Ended) + 1 <= Cardinality(Incs)
<1>1. \A x \in Incs : pc'[x] = IF x = i THEN "retiring" ELSE pc[x]
  BY ThreadMoves DEF SendDied
<1>2. i \notin Ended /\ Ended' = Ended \cup {i}
  BY <1>1 DEF SendDied, Ended
<1>3. Ended \cup {i} \in SUBSET Incs /\ IsFiniteSet(Incs)
  BY SendsAssumption DEF Ended
<1>4. Cardinality(Ended \cup {i}) = Cardinality(Ended) + 1
  BY <1>2, EndedFinite, FS_AddElement
<1>5. Cardinality(Ended \cup {i}) <= Cardinality(Incs)
  BY <1>3, FS_Subset
<1> QED
  BY <1>2, <1>4, <1>5

\* A thread that has left its loop does not come back.
LEMMA EndedStays ==
    ASSUME TypeInv, [Next]_vars
    PROVE  Ended \subseteq Ended'
<1>1. ASSUME NEW i \in Incs, pc[i] \notin {"retiring", "gone"}, NEW to, Goto(i, to)
      PROVE  Ended \subseteq Ended'
  BY <1>1 DEF Ended, Goto, TypeInv, TypeOK
<1>2. ASSUME NEW i \in Incs, Retire(i) PROVE Ended \subseteq Ended'
  BY <1>2 DEF Retire, Ended, Goto, TypeInv, TypeOK
<1>3. CASE UNCHANGED pc
  BY <1>3 DEF Ended
<1>4. ASSUME NEW i \in Incs, Spawn(i) \/ RegisterHosted(i) PROVE Ended \subseteq Ended'
  BY <1>1, <1>4 DEF Spawn, RegisterHosted, Goto
<1>5. ASSUME NEW i \in Incs, ThreadStep(i) \/ FatalExit(i) PROVE Ended \subseteq Ended'
  BY <1>1, <1>2, <1>5 DEF ThreadStep, FatalExit, Start, StartFails, Take, EndDispatch,
                          DispatchError, SendDied, Closed
<1>6. ASSUME NEW k \in Ids, PrimaryOp(k) PROVE Ended \subseteq Ended'
  BY <1>3, <1>6 DEF PrimaryOp, SendAccepted, SendRefused, SendFailed, Terminate, threadVars
<1>7. ASSUME NEW i \in Incs, Transcript(i) \/ Reply(i) PROVE Ended \subseteq Ended'
  BY <1>3, <1>7 DEF Transcript, Reply, threadVars
<1>8. CASE Receive \/ RouterStep \/ UNCHANGED vars
  BY <1>3, <1>8 DEF Receive, RouterStep, vars, threadVars
<1> QED
  BY <1>4, <1>5, <1>6, <1>7, <1>8 DEF Next

\* Every step keeps the count of envelopes.
LEMMA SentStep ==
    ASSUME TypeInv, SentInv, [Next]_vars
    PROVE  SentInv'
<1> DEFINE a == Cardinality(Ended)
           b == Cardinality(Ended')
<1>1. Ended \in SUBSET Ended' /\ IsFiniteSet(Ended')
  <2>1. Ended' \in SUBSET Incs /\ IsFiniteSet(Incs)
    BY SendsAssumption DEF Ended
  <2> QED
    BY <2>1, EndedStays, FS_Subset
<1>2. a \in Nat /\ b \in Nat /\ a <= b
  BY <1>1, EndedFinite, FS_Subset, FS_CardinalityType
<1>3. sent \in Nat /\ nextCorr \in Nat /\ MaxTraffic \in Nat /\ sent <= MaxTraffic + nextCorr + a
  BY DEF TypeInv, TypeOK, InboxTypeOK, SentInv
<1> HIDE DEF a, b
<1>5. ASSUME NEW i \in Incs, SendDied(i) PROVE sent' <= MaxTraffic + nextCorr' + b
  <2>1. b = a + 1
    BY <1>5, EndedGrows DEF a, b
  <2>2. sent' = sent + 1 /\ nextCorr' = nextCorr
    BY <1>5 DEF SendDied, Enqueue, replyVars
  <2> QED
    BY <1>2, <1>3, <2>1, <2>2
<1>6. ASSUME NEW k \in Ids, SendFailed(k) PROVE sent' <= MaxTraffic + nextCorr' + b
  <2>1. sent' = sent + 1 /\ nextCorr' = nextCorr + 1
    BY <1>6, RegisterTyped DEF SendFailed, Enqueue
  <2> QED
    BY <1>2, <1>3, <2>1
<1>7. ASSUME NEW i \in Incs, Transcript(i) \/ Reply(i) PROVE sent' <= MaxTraffic + nextCorr' + b
  <2>1. sent' = sent + 1 /\ nextCorr' = nextCorr /\ sent < MaxTraffic
    BY <1>7 DEF Transcript, Reply, Enqueue, replyVars
  <2> QED
    BY <1>2, <1>3, <2>1
<1>8. CASE sent' = sent /\ (nextCorr' = nextCorr \/ nextCorr' = nextCorr + 1)
  BY <1>2, <1>3, <1>8 DEF SentInv, b
<1>9. ASSUME NEW k \in Ids, SendAccepted(k) \/ SendRefused(k) \/ Terminate(k) PROVE SentInv'
  BY <1>8, <1>9, RegisterTyped DEF SendAccepted, SendRefused, Terminate, inboxVars, replyVars
<1>10. ASSUME NEW i \in Incs, \/ Spawn(i) \/ RegisterHosted(i) \/ Start(i) \/ StartFails(i)
                              \/ Take(i) \/ EndDispatch(i) \/ DispatchError(i) \/ Retire(i)
                              \/ Closed(i) \/ FatalExit(i)
       PROVE SentInv'
  BY <1>8, <1>10 DEF Spawn, RegisterHosted, Start, StartFails, Take, EndDispatch, DispatchError,
                Retire, Closed, FatalExit, inboxVars, replyVars
<1>11. CASE Receive
  BY <1>8, <1>11 DEF Receive, Recv, Route, replyVars
<1>12. CASE RouterStep \/ UNCHANGED vars
  <2>1. sent' = sent
    BY <1>12 DEF RouterStep, Wake, Clear, Dispatched, DispatchFailed, SendStep, Swap, FireHook,
                vars, inboxVars
  <2> QED
    BY <1>8, <1>12, <2>1 DEF RouterStep, vars, replyVars
<1>13. sent' <= MaxTraffic + nextCorr' + b => SentInv'
  BY DEF SentInv, b
<1> QED
  BY <1>5, <1>6, <1>7, <1>9, <1>10, <1>11, <1>12, <1>13 DEF Next, PrimaryOp, ThreadStep

\* The bound on the envelopes holds always.
LEMMA SentInvariant == Spec => []SentInv
<1>1. Init => SentInv
  BY EndedFinite DEF Init, InboxInit, SentInv
<1> QED
  BY <1>1, SentStep, TypeInvariant, PTL DEF Spec

\* Every step of the registry, of a worker thread and of the primary is a step of the
\* event router, or leaves it alone.
LEMMA RouterSimulation ==
    ASSUME TypeInv, SentInv, [Next]_vars
    PROVE  [InboxNext]_inboxVars
<1>1. /\ sent \in Nat /\ nextCorr \in Nat /\ MaxSends \in Nat
      /\ sent <= MaxTraffic + nextCorr + Cardinality(Ended)
      /\ MaxSends >= MaxTraffic + MaxCorr + Cardinality(Incs)
  BY SendsAssumption, MaxSendsAssumption DEF TypeInv, TypeOK, InboxTypeOK, SentInv
<1>2. ASSUME NEW k \in Ids, SendFailed(k) PROVE InboxNext
  <2>1. nextCorr + 1 <= MaxCorr
    BY <1>2, RegisterTyped DEF SendFailed, Corrs
  <2>2. sent < MaxSends
    BY <1>1, <2>1, EndedFinite
  <2>3. Died(links[k].inc) \in Envelopes
    BY <1>2, LiveLink, EnvelopesTyped DEF SendFailed
  <2>4. MaySend(Primary) /\ Primary \in Senders /\ Enqueue(Primary, Died(links[k].inc))
    BY <1>2 DEF SendFailed, PrimaryRuns, MaySend, Primary
  <2> QED
    BY <2>2, <2>3, <2>4 DEF InboxNext
<1>3. ASSUME NEW i \in Incs, SendDied(i) PROVE InboxNext
  <2>1. nextCorr <= MaxCorr
    BY DEF TypeInv, TypeOK
  <2>2. sent < MaxSends
    BY <1>1, <1>3, <2>1, EndedFinite, EndedGrows
  <2>3. Died(i) \in Envelopes /\ MaySend(i) /\ i \in Senders /\ Enqueue(i, Died(i))
    BY <1>3, EnvelopesTyped DEF SendDied, MaySend
  <2> QED
    BY <2>2, <2>3 DEF InboxNext
<1>4. ASSUME NEW i \in Incs, Transcript(i) \/ Reply(i) PROVE InboxNext
  <2>1. sent < MaxTraffic
    BY <1>4 DEF Transcript, Reply
  <2>2. sent < MaxSends
    BY <1>1, <2>1, EndedFinite
  <2>3. Line(i) \in Envelopes /\ Answer(i) \in Envelopes /\ MaySend(i) /\ i \in Senders
    BY <1>4, EnvelopesTyped DEF Transcript, Reply, MaySend
  <2>4. Enqueue(i, Line(i)) \/ Enqueue(i, Answer(i))
    BY <1>4 DEF Transcript, Reply
  <2> QED
    BY <2>2, <2>3, <2>4 DEF InboxNext
<1>5. CASE Receive \/ RouterStep
  BY <1>5 DEF Receive, RouterStep, InboxNext, DrainStep
<1>6. ASSUME NEW k \in Ids, SendAccepted(k) \/ SendRefused(k) \/ Terminate(k)
      PROVE UNCHANGED inboxVars
  BY <1>6 DEF SendAccepted, SendRefused, Terminate
<1>7. ASSUME NEW i \in Incs, \/ Spawn(i) \/ RegisterHosted(i) \/ Start(i) \/ StartFails(i)
                             \/ Take(i) \/ EndDispatch(i) \/ DispatchError(i) \/ Retire(i)
                             \/ Closed(i) \/ FatalExit(i)
      PROVE UNCHANGED inboxVars
  BY <1>7 DEF Spawn, RegisterHosted, Start, StartFails, Take, EndDispatch, DispatchError,
              Retire, Closed, FatalExit
<1>8. CASE UNCHANGED vars
  BY <1>8 DEF vars
<1> QED
  BY <1>2, <1>3, <1>4, <1>5, <1>6, <1>7, <1>8 DEF Next, PrimaryOp, ThreadStep

\* The workers and their primary implement the event router: what is proved of the
\* router holds of the composed system.
THEOREM WorkersImplementRouter == Spec => InboxSpec
<1>1. Init => InboxInit
  BY DEF Init
<1> QED
  BY <1>1, RouterSimulation, SentInvariant, TypeInvariant, PTL DEF Spec, InboxSpec

\* In particular no death notice, reply or transcript line waits in the inbox of a
\* sleeping primary with no wake on its way.
THEOREM NoWorkerWakeupIsLost == Spec => []NoLostWakeup
BY WorkersImplementRouter, NoWakeupIsLost, PTL

=============================================================================
