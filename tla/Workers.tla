------------------------------ MODULE Workers ------------------------------
(***************************************************************************)
(* The primary/worker registry of src/src/runtime/workers.rs, with the     *)
(* worker thread body (worker_main), primitives 220-225 and the            *)
(* correlated request/reply layer of src/world/47_worker.mst, composed     *)
(* with the event router of module Inbox: the primary is its Drainer and   *)
(* every worker thread one of its Senders.                                 *)
(*                                                                         *)
(* A worker id is a position in `links` and is given again to a new worker *)
(* once the slot is dead, so the model tells the threads themselves apart: *)
(* each element of Incs is one thread, one incarnation of a worker id.     *)
(* Every envelope carries the incarnation that sent it as a ghost field.   *)
(***************************************************************************)
EXTENDS Inbox, FiniteSets, Functions

CONSTANTS
    MAX_WORKERS,   \* the cap on the registry (16 in the code)
    Incs,          \* bound: the worker threads ever started
    None,          \* the dead-ended sender `terminate` leaves in a link
    MaxCorr,       \* bound: requests the primary ever sends
    MaxTraffic,    \* bound: replies and transcript lines, counted with all envelopes
    FatalExits     \* may a VM-fatal condition end a worker thread (fatal_exit)?

Primary == Drainer
Corrs == 1 .. MaxCorr
Ids == 1 .. MAX_WORKERS

ASSUME IncsAssumption == Senders = Incs \cup {Drainer} /\ Drainer \notin Incs
ASSUME NoneAssumption == None \notin Incs
ASSUME CapAssumption == MAX_WORKERS \in 1 .. 16
ASSUME CorrAssumption == MaxCorr \in Nat /\ MaxTraffic \in Nat
ASSUME SendsAssumption == IsFiniteSet(Incs) /\ MaxSends >= MaxTraffic + MaxCorr + Cardinality(Incs)
ASSUME FatalAssumption == FatalExits \in BOOLEAN

(* Envelope { from, corr, bytes }: `kind` is what dispatchOne: tells apart. *)
Envelope == [from : Ids, corr : 0 .. MaxCorr,
             kind : {"reply", "died", "transcript"}, inc : Incs]

ASSUME EnvelopeAssumption == Envelopes = Envelope

(* WorkerLink { tx, alive }: the sender as the thread it leads to. *)
Link == [alive : BOOLEAN, inc : Incs \cup {None}]

VARIABLES
    links,      \* Vec<WorkerLink>: what the primary believes
    pc,         \* where each worker thread is in worker_main
    id,         \* the worker id each thread was started with
    hosted,     \* the incarnations registered by register_hosted_worker
    mail,       \* each worker's inbound channel: correlation ids of requests
    staged,     \* the staging slot of each worker (0 = empty)
    pending,    \* PendingReplies: <<key, continuation>>, the continuation named by its corr
    nextCorr,   \* NextCorr
    target,     \* ghost: the incarnation that accepted each request
    fired,      \* ghost: the incarnations whose replies ran each continuation
    erred,      \* ghost: incarnations that failed in boot, init or dispatch
    noticed,    \* ghost: incarnations whose #workerDied the primary has dispatched
    terminated  \* ghost: incarnations the primary terminated

threadVars == <<pc, id, hosted, staged>>
replyVars == <<pending, nextCorr, target, fired>>
ghostVars == <<erred, noticed, terminated>>
vars == <<inboxVars, links, mail, threadVars, replyVars, ghostVars>>

Init ==
    /\ InboxInit
    /\ links = << >>
    /\ pc = [i \in Incs |-> "unborn"]
    /\ id = [i \in Incs |-> 0]
    /\ hosted = {}
    /\ mail = [i \in Incs |-> << >>]
    /\ staged = [i \in Incs |-> 0]
    /\ pending = {}
    /\ nextCorr = 0
    /\ target = [c \in Corrs |-> None]
    /\ fired = [c \in Corrs |-> << >>]
    /\ erred = {}
    /\ noticed = {}
    /\ terminated = {}

-----------------------------------------------------------------------------
(* The primary's operations: they run in a doit or in a handler. *)

PrimaryRuns == drain \in {"asleep", "dispatch"} /\ sender[Primary] = "idle"

Live(k) == k \in DOMAIN links /\ links[k].alive
DeadSlots == {k \in DOMAIN links : ~links[k].alive}

\* A link with its sender, and the one that terminate leaves.
LinkTo(i) == [alive |-> TRUE, inc |-> i]
DeadEnd == [alive |-> FALSE, inc |-> None]

\* A scan that takes the last slot whatever its state.
LastSlot(k) == IF links # << >> THEN k = Len(links) ELSE k = 1

\* spawn's slot: the first dead one, else a new one below the cap.
FreeSlot(k) ==
    IF DeadSlots # {}
    THEN k \in DeadSlots /\ \A j \in DeadSlots : k <= j
    ELSE Len(links) < MAX_WORKERS /\ k = Len(links) + 1

PutLink(k, link) ==
    IF k \in DOMAIN links THEN [links EXCEPT ![k] = link] ELSE Append(links, link)

\* primSpawn: the thread is detached, the link is believed alive at once.
Spawn(i) ==
    /\ PrimaryRuns
    /\ pc[i] = "unborn"
    /\ \E k \in Ids :
          /\ FreeSlot(k)
          /\ links' = PutLink(k, LinkTo(i))
          /\ id' = [id EXCEPT ![i] = k]
    /\ pc' = [pc EXCEPT ![i] = "boot"]
    /\ UNCHANGED <<inboxVars, hosted, mail, staged, replyVars, ghostVars>>

\* A registration that does not look at the cap.
RegisterHostedUncapped(i) ==
    /\ PrimaryRuns
    /\ pc[i] = "unborn"
    /\ links' = Append(links, LinkTo(i))
    /\ id' = [id EXCEPT ![i] = Len(links) + 1]
    /\ pc' = [pc EXCEPT ![i] = "recv"]
    /\ hosted' = hosted \cup {i}
    /\ UNCHANGED <<inboxVars, mail, staged, replyVars, ghostVars>>

\* register_hosted_worker: always a new slot, on a thread that already runs.
RegisterHosted(i) ==
    /\ PrimaryRuns
    /\ pc[i] = "unborn"
    /\ Len(links) < MAX_WORKERS
    /\ links' = Append(links, LinkTo(i))
    /\ id' = [id EXCEPT ![i] = Len(links) + 1]
    /\ pc' = [pc EXCEPT ![i] = "recv"]
    /\ hosted' = hosted \cup {i}
    /\ UNCHANGED <<inboxVars, mail, staged, replyVars, ghostVars>>

\* replyKeyFor:corr: without the correlation id.
PeerKey(peer, corr) == peer

\* replyKeyFor:corr:, (corr bitShift: 5) + peer.
ReplyKey(peer, corr) == corr * 32 + peer

\* nextCorr and registerReply:fromPeer:corr:, before the send is tried.
RegisterReply(k) ==
    LET c == nextCorr + 1
        key == ReplyKey(k, c)
    IN  /\ c \in Corrs
        /\ nextCorr' = c
        /\ pending' = {p \in pending : p[1] # key} \cup {<<key, c>>}
        /\ UNCHANGED fired

\* `w send: x onReply: [...]` on a live link whose receiver exists: accepted.
SendAccepted(k) ==
    /\ PrimaryRuns
    /\ Live(k)
    /\ pc[links[k].inc] # "gone"
    /\ RegisterReply(k)
    /\ mail' = [mail EXCEPT ![links[k].inc] = Append(@, nextCorr + 1)]
    /\ target' = [target EXCEPT ![nextCorr + 1] = links[k].inc]
    /\ UNCHANGED <<inboxVars, links, threadVars, ghostVars>>

\* The same on an unknown or dead id: the primitive fails, the continuation stays.
SendRefused(k) ==
    /\ PrimaryRuns
    /\ ~Live(k)
    /\ RegisterReply(k)
    /\ UNCHANGED <<inboxVars, links, mail, threadVars, target, ghostVars>>

Died(i) == [from |-> id[i], corr |-> 0, kind |-> "died", inc |-> i]

\* A failed send that pushes the notice without going through InboxSender::send.
SendFailedBare(k) ==
    /\ PrimaryRuns
    /\ Live(k)
    /\ pc[links[k].inc] = "gone"
    /\ RegisterReply(k)
    /\ queue' = Append(queue, Died(links[k].inc))
    /\ links' = [links EXCEPT ![k].alive = FALSE]
    /\ UNCHANGED <<host, wake_pending, sender, wakes, drain, sent, stranded,
                   mail, threadVars, target, ghostVars>>

\* The same when the receiver is gone: the link dies and the primary synthesizes
\* the death notice into its own inbox.
SendFailed(k) ==
    /\ PrimaryRuns
    /\ Live(k)
    /\ pc[links[k].inc] = "gone"
    /\ RegisterReply(k)
    /\ Enqueue(Primary, Died(links[k].inc))
    /\ links' = [links EXCEPT ![k].alive = FALSE]
    /\ UNCHANGED <<mail, threadVars, target, ghostVars>>

\* A terminate that marks the link dead and keeps its sender.
TerminateKeepsSender(k) ==
    /\ PrimaryRuns
    /\ k \in DOMAIN links
    /\ links' = [links EXCEPT ![k].alive = FALSE]
    /\ terminated' = terminated \cup ({links[k].inc} \ {None})
    /\ UNCHANGED <<inboxVars, mail, threadVars, replyVars, erred, noticed>>

\* primTerminate: mark the link dead and replace its sender by a dead-ended one.
\* What is already in the channel is still received.  Idempotent.
Terminate(k) ==
    /\ PrimaryRuns
    /\ k \in DOMAIN links
    /\ links' = [links EXCEPT ![k] = DeadEnd]
    /\ terminated' = terminated \cup ({links[k].inc} \ {None})
    /\ UNCHANGED <<inboxVars, mail, threadVars, replyVars, erred, noticed>>

\* dispatchOne:, the routing of one envelope.  A transcript line is matched by its
\* shape; otherwise a pending continuation of the envelope's (peer, corr) runs,
\* once; otherwise the general reply handler gets it, #workerDied included.
Route(env) ==
    LET key == ReplyKey(env.from, env.corr)
        conts == {p \in pending : p[1] = key}
        fires == env.kind # "transcript" /\ env.corr # 0
    IN  /\ IF fires /\ conts # {}
           THEN /\ pending' = pending \ conts
                /\ fired' = [c \in Corrs |-> IF <<key, c>> \in conts
                                             THEN Append(fired[c], env.inc) ELSE fired[c]]
           ELSE UNCHANGED <<pending, fired>>
        /\ noticed' = IF env.kind = "died" THEN noticed \cup {env.inc} ELSE noticed
        /\ UNCHANGED <<nextCorr, target, erred, terminated>>

\* primPoll's receive and, when there is an envelope, its routing.
Receive ==
    /\ Recv
    /\ IF queue = << >> THEN UNCHANGED <<replyVars, ghostVars>> ELSE Route(Head(queue))
    /\ UNCHANGED <<links, mail, threadVars>>

\* The router's other steps, of the primary and of the sending threads.
RouterStep ==
    /\ \/ Wake \/ Clear \/ Dispatched \/ DispatchFailed
       \/ \E s \in Senders : SendStep(s)
    /\ UNCHANGED <<links, mail, threadVars, replyVars, ghostVars>>

-----------------------------------------------------------------------------
(* worker_main, on the thread of incarnation i. *)

Goto(i, to) == pc' = [pc EXCEPT ![i] = to]

\* boot(), install_worker_role, the transcript sink, and the init doit.
Start(i) ==
    /\ pc[i] = "boot" /\ sender[i] = "idle"
    /\ Goto(i, "recv")
    /\ UNCHANGED <<inboxVars, links, mail, id, hosted, staged, replyVars, ghostVars>>

\* Either of boot and init fails: a death like any other.
StartFails(i) ==
    /\ pc[i] = "boot" /\ sender[i] = "idle"
    /\ Goto(i, "died")
    /\ erred' = erred \cup {i}
    /\ UNCHANGED <<inboxVars, links, mail, id, hosted, staged, replyVars,
                   noticed, terminated>>

\* recv() answers an envelope: stage_pending and start `Worker dispatchPending.`.
Take(i) ==
    /\ pc[i] = "recv" /\ mail[i] # << >>
    /\ staged' = [staged EXCEPT ![i] = Head(mail[i])]
    /\ mail' = [mail EXCEPT ![i] = Tail(@)]
    /\ Goto(i, "dispatch")
    /\ UNCHANGED <<inboxVars, links, id, hosted, replyVars, ghostVars>>

Line(i) == [from |-> id[i], corr |-> 0, kind |-> "transcript", inc |-> i]
Answer(i) == [from |-> id[i], corr |-> staged[i], kind |-> "reply", inc |-> i]

\* ForwardTranscript::show, from the init doit or from a handler.
Transcript(i) ==
    /\ pc[i] \in {"boot", "dispatch"}
    /\ sent < MaxTraffic
    /\ Enqueue(i, Line(i))
    /\ UNCHANGED <<links, mail, threadVars, replyVars, ghostVars>>

\* Worker reply:, which echoes the correlation id; a handler may call it again.
Reply(i) ==
    /\ pc[i] = "dispatch"
    /\ sent < MaxTraffic
    /\ Enqueue(i, Answer(i))
    /\ UNCHANGED <<links, mail, threadVars, replyVars, ghostVars>>

EndDispatch(i) ==
    /\ pc[i] = "dispatch" /\ sender[i] = "idle"
    /\ Goto(i, "recv")
    /\ staged' = [staged EXCEPT ![i] = 0]
    /\ UNCHANGED <<inboxVars, links, mail, id, hosted, replyVars, ghostVars>>

\* A guest error retires a spawned worker; a hosted one only reports it.
DispatchError(i) ==
    /\ pc[i] = "dispatch" /\ sender[i] = "idle"
    /\ staged' = [staged EXCEPT ![i] = 0]
    /\ IF i \in hosted
       THEN Goto(i, "recv") /\ UNCHANGED erred
       ELSE Goto(i, "died") /\ erred' = erred \cup {i}
    /\ UNCHANGED <<inboxVars, links, mail, id, hosted, replyVars, noticed, terminated>>

\* A worker that unwinds without reporting.
NoNotice(i) ==
    /\ pc[i] = "died"
    /\ Goto(i, "retiring")
    /\ UNCHANGED <<inboxVars, links, mail, id, hosted, staged, replyVars, ghostVars>>

\* to_primary.send(died_envelope(id)) ...
SendDied(i) ==
    /\ pc[i] = "died"
    /\ Enqueue(i, Died(i))
    /\ Goto(i, "retiring")
    /\ UNCHANGED <<links, mail, id, hosted, staged, replyVars, ghostVars>>

\* ... and return: the Receiver is dropped with what it still holds.
Retire(i) ==
    /\ pc[i] = "retiring" /\ sender[i] = "idle"
    /\ Goto(i, "gone")
    /\ mail' = [mail EXCEPT ![i] = << >>]
    /\ UNCHANGED <<inboxVars, links, id, hosted, staged, replyVars, ghostVars>>

\* The channel of i has no sender left.
Disconnected(i) == \A k \in DOMAIN links : links[k].inc # i

\* A closed channel reported as a death.
ClosedAsDeath(i) ==
    /\ pc[i] = "recv" /\ mail[i] = << >> /\ Disconnected(i) /\ i \notin hosted
    /\ Goto(i, "died")
    /\ UNCHANGED <<inboxVars, links, mail, id, hosted, staged, replyVars, ghostVars>>

\* A closed channel that loses what is still queued in it.
ClosedAtOnce(i) ==
    /\ pc[i] = "recv" /\ Disconnected(i) /\ i \notin hosted
    /\ Goto(i, "gone")
    /\ mail' = [mail EXCEPT ![i] = << >>]
    /\ UNCHANGED <<inboxVars, links, id, hosted, staged, replyVars, ghostVars>>

\* recv() fails: the closed channel ends the thread silently.
Closed(i) ==
    /\ pc[i] = "recv" /\ mail[i] = << >> /\ Disconnected(i) /\ i \notin hosted
    /\ Goto(i, "gone")
    /\ UNCHANGED <<inboxVars, links, mail, id, hosted, staged, replyVars, ghostVars>>

\* fatal_exit under FatalMode::ExitThread: the thread ends and nothing is dropped.
FatalExit(i) ==
    /\ FatalExits
    /\ pc[i] \in {"boot", "dispatch"} /\ sender[i] = "idle" /\ i \notin hosted
    /\ Goto(i, "vanished")
    /\ UNCHANGED <<inboxVars, links, mail, id, hosted, staged, replyVars, ghostVars>>

-----------------------------------------------------------------------------
PrimaryOp(k) == SendAccepted(k) \/ SendRefused(k) \/ SendFailed(k) \/ Terminate(k)

\* What a worker thread does of its own accord once it has work.
ThreadStep(i) ==
    \/ Start(i) \/ StartFails(i) \/ Take(i) \/ EndDispatch(i)
    \/ DispatchError(i) \/ SendDied(i) \/ Retire(i) \/ Closed(i)

Next ==
    \/ \E i \in Incs : Spawn(i) \/ RegisterHosted(i)
    \/ \E k \in Ids : PrimaryOp(k)
    \/ \E i \in Incs : ThreadStep(i) \/ Transcript(i) \/ Reply(i) \/ FatalExit(i)
    \/ Receive
    \/ RouterStep

Spec == Init /\ [][Next]_vars

(***************************************************************************)
(* Fairness: every thread that can go on does (a handler that never ends,  *)
(* a documented leak, is outside the liveness claims), a thread inside     *)
(* `send` finishes it, and the primary's loop takes queued wakes, polls    *)
(* and ends its handlers, normally or by an error.  Spawning, sending and  *)
(* terminating are never fair.                                             *)
(***************************************************************************)
Fairness ==
    /\ \A i \in Incs : WF_vars(ThreadStep(i))
    /\ \A s \in Senders : WF_vars(SendStep(s) /\ UNCHANGED <<links, mail, threadVars, replyVars, ghostVars>>)
    /\ WF_vars(Receive \/ RouterStep)

FairSpec == Spec /\ Fairness

-----------------------------------------------------------------------------
(* Properties *)

\* The type of the registry, of the threads and of the reply table.
TypeOK ==
    /\ InboxTypeOK
    /\ links \in Seq(Link) /\ Len(links) <= MAX_WORKERS
    /\ pc \in [Incs -> {"unborn", "boot", "recv", "dispatch", "died",
                        "retiring", "gone", "vanished"}]
    /\ id \in [Incs -> 0 .. MAX_WORKERS]
    /\ hosted \subseteq Incs
    /\ mail \in [Incs -> Seq(Corrs)]
    /\ staged \in [Incs -> 0 .. MaxCorr]
    /\ pending \subseteq Nat \X Corrs
    /\ nextCorr \in 0 .. MaxCorr
    /\ target \in [Corrs -> Incs \cup {None}]
    /\ fired \in [Corrs -> Seq(Incs)]
    /\ erred \subseteq Incs /\ noticed \subseteq Incs /\ terminated \subseteq Incs

\* A send:onReply: continuation runs at most once, and only on a reply of the very
\* worker thread that accepted its request: not of an older or newer worker with
\* the same id, not of another worker whose correlation id coincides, and not on a
\* second reply: of the same handler (47_worker.mst, replyKeyFor:corr:).
AnsweredByTarget == \A c \in Corrs : fired[c] \in {<< >>, <<target[c]>>} \ {<<None>>}

\* The registry never loses a running worker: the only threads no link leads to
\* are those the primary itself terminated, or that have already ended (spawn's
\* reuse of a slot never overwrites the link of a live worker).
NoOrphan ==
    \A i \in Incs : pc[i] \notin {"unborn", "gone"} /\ Disconnected(i) => i \in terminated

\* Death notices are real: a #workerDied, queued or dispatched, is about a thread
\* that failed in its boot, its init doit or a dispatch; a terminated worker that
\* ends cleanly produces none, and no failed send invents one.
NoticesAreReal ==
    /\ \A n \in 1 .. Len(queue) : queue[n].kind = "died" => queue[n].inc \in erred
    /\ noticed \subseteq erred

\* Every worker that fails is reported: its #workerDied reaches the primary's
\* dispatch, unless a handler's error aborts the drain.
DeathReported == \A i \in Incs : i \in erred ~> (i \in noticed \/ stranded)

\* No accepted request is lost without a signal: the worker it was queued for starts
\* to dispatch it, even when it is terminated meanwhile, or its death is reported.
RequestServedOrDeathReported ==
    \A c \in Corrs, i \in Incs :
        c \in Range(mail[i]) ~> (staged[i] = c \/ i \in noticed \/ stranded)

\* terminate takes effect: the thread ends, whatever was queued for it.
TerminatedThreadEnds ==
    \A i \in Incs : i \in terminated /\ i \notin hosted ~> pc[i] = "gone"

=============================================================================
