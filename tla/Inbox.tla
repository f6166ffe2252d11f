------------------------------- MODULE Inbox -------------------------------
(***************************************************************************)
(* The event router of src/src/runtime/workers.rs: one mpsc channel, its   *)
(* coalescing flag `wake_pending`, and the wake hook.  Any number of       *)
(* threads run InboxSender::send; one thread, the Drainer, sleeps until it *)
(* is woken and then drains the channel with `poll`.                       *)
(*                                                                         *)
(* Three embeddings drain an inbox, and `host` says which one this is:     *)
(*   "gui"     gui/src/vm_host.rs: the hook queues a WorkerInbox request,  *)
(*             served by the doit `Worker dispatchInbox.`;  a guest error  *)
(*             in a handler aborts the doit, and the drain with it         *)
(*   "hosted"  cocoa_gui main.rs: the hook signals a run-loop source; the  *)
(*             drain is a Rust loop and goes on after a handler's error    *)
(*   "pump"    cocoa_gui supervisor.rs and headless programs: no hook; the *)
(*             owner beats `Worker pumpInbox:` again and again             *)
(***************************************************************************)
EXTENDS Naturals, Sequences

CONSTANTS
    Senders,      \* the threads holding a clone of the InboxSender
    Drainer,      \* the thread that owns the Receiver; it also sends (to itself)
    Envelopes,    \* what can be sent
    Hosts,        \* the embeddings considered
    MaxSends      \* bound: envelopes ever sent

ASSUME SenderAssumption == Drainer \in Senders
ASSUME HostAssumption == Hosts \subseteq {"gui", "hosted", "pump"}
ASSUME MaxSendsAssumption == MaxSends \in Nat

VARIABLES
    host,          \* the embedding
    queue,         \* the mpsc channel
    wake_pending,  \* the coalescing flag (AtomicBool)
    sender,        \* how far each thread is inside InboxSender::send
    wakes,         \* wakes the hook has queued and the host has not taken
    drain,         \* where the Drainer is
    sent,          \* number of envelopes sent so far
    stranded       \* ghost: a handler error aborted a drain, and no drain has begun since

inboxVars == <<host, queue, wake_pending, sender, wakes, drain, sent, stranded>>

InboxInit ==
    /\ host \in Hosts
    /\ queue = << >>
    /\ wake_pending = FALSE
    /\ sender = [s \in Senders |-> "idle"]
    /\ wakes = 0
    /\ drain = "asleep"
    /\ sent = 0
    /\ stranded = FALSE

-----------------------------------------------------------------------------
(* InboxSender::send, in its three atomic pieces.                          *)

\* self.tx.send(env): the channel is unbounded, so it never blocks.
Enqueue(s, e) ==
    /\ sender[s] = "idle"
    /\ queue' = Append(queue, e)
    /\ sender' = [sender EXCEPT ![s] = "enqueued"]
    /\ sent' = sent + 1
    /\ UNCHANGED <<host, wake_pending, wakes, drain, stranded>>

\* wake_pending.swap(true): only the thread that finds it clear fires the hook.
Swap(s) ==
    /\ sender[s] = "enqueued"
    /\ wake_pending' = TRUE
    /\ sender' = [sender EXCEPT ![s] = IF wake_pending THEN "idle" ELSE "swapped"]
    /\ UNCHANGED <<host, queue, wakes, drain, sent, stranded>>

\* A coalescing flag that is set but whose hook is never called.
DropHook(s) ==
    /\ sender[s] = "swapped"
    /\ sender' = [sender EXCEPT ![s] = "idle"]
    /\ UNCHANGED <<host, queue, wake_pending, wakes, drain, sent, stranded>>

\* The hook: a request queued (gui), a source signalled (hosted), no hook (pump).
FireHook(s) ==
    /\ sender[s] = "swapped"
    /\ sender' = [sender EXCEPT ![s] = "idle"]
    /\ wakes' = CASE host = "gui" -> wakes + 1
                  [] host = "hosted" -> 1
                  [] host = "pump" -> wakes
    /\ UNCHANGED <<host, queue, wake_pending, drain, sent, stranded>>

-----------------------------------------------------------------------------
(* The Drainer.  It is one thread, so it does nothing else while it is     *)
(* inside a send of its own.                                               *)

\* The host takes a wake (or a pump beat begins) and starts a drain.
Wake ==
    /\ drain = "asleep"
    /\ sender[Drainer] = "idle"
    /\ \/ host # "pump" /\ wakes > 0 /\ wakes' = wakes - 1
       \/ host = "pump" /\ wakes' = wakes
    /\ drain' = "clear"
    /\ stranded' = FALSE
    /\ UNCHANGED <<host, queue, wake_pending, sender, sent>>

\* A poll that forgets to clear the coalescing flag.
ClearForgotten ==
    /\ drain = "clear"
    /\ drain' = "recv"
    /\ UNCHANGED <<host, queue, wake_pending, sender, wakes, sent, stranded>>

\* poll, first half: wake_pending.store(false).
Clear ==
    /\ drain = "clear"
    /\ wake_pending' = FALSE
    /\ drain' = "recv"
    /\ UNCHANGED <<host, queue, sender, wakes, sent, stranded>>

\* poll, second half: try_recv.  An empty channel ends the drain.
Recv ==
    /\ drain = "recv"
    /\ IF queue = << >>
       THEN /\ drain' = "asleep"
            /\ queue' = queue
       ELSE /\ drain' = "dispatch"
            /\ queue' = Tail(queue)
    /\ UNCHANGED <<host, wake_pending, sender, wakes, sent, stranded>>

\* The handler returns: poll again.
Dispatched ==
    /\ drain = "dispatch"
    /\ sender[Drainer] = "idle"
    /\ drain' = "clear"
    /\ UNCHANGED <<host, queue, wake_pending, sender, wakes, sent, stranded>>

\* The handler raises.  The hosted loop reports and polls again; elsewhere the
\* doit is aborted, which ends the drain wherever it was.
DispatchFailed ==
    /\ drain = "dispatch"
    /\ sender[Drainer] = "idle"
    /\ drain' = IF host = "hosted" THEN "clear" ELSE "asleep"
    /\ stranded' = (host = "gui")
    /\ UNCHANGED <<host, queue, wake_pending, sender, wakes, sent>>

DrainStep == Wake \/ Clear \/ Recv \/ Dispatched \/ DispatchFailed

\* The Drainer's own sends happen in a doit or in a handler, never inside poll.
MaySend(s) == s = Drainer => drain \in {"asleep", "dispatch"}

SendStep(s) == Swap(s) \/ FireHook(s)

InboxNext ==
    \/ \E s \in Senders, e \in Envelopes :
          sent < MaxSends /\ MaySend(s) /\ Enqueue(s, e)
    \/ \E s \in Senders : SendStep(s)
    \/ DrainStep

InboxSpec == InboxInit /\ [][InboxNext]_inboxVars

-----------------------------------------------------------------------------
(* Properties *)

\* The type of the router's state.
InboxTypeOK ==
    /\ host \in Hosts
    /\ queue \in Seq(Envelopes)
    /\ wake_pending \in BOOLEAN
    /\ sender \in [Senders -> {"idle", "enqueued", "swapped"}]
    /\ wakes \in Nat
    /\ drain \in {"asleep", "clear", "recv", "dispatch"}
    /\ sent \in Nat
    /\ stranded \in BOOLEAN

Enqueued == {s \in Senders : sender[s] = "enqueued"}
Swapped == {s \in Senders : sender[s] = "swapped"}

\* A wake is on its way to a sleeping Drainer: queued, or about to be queued.
WakeComing == wakes > 0 \/ Swapped # {} \/ Enqueued # {}

\* No lost wakeup (workers.rs, module comment): an envelope never sits in the
\* channel of a sleeping host with no wake on its way, unless a handler's error
\* aborted the drain that would have taken it.
NoLostWakeup ==
    host # "pump" /\ queue # << >> /\ drain = "asleep" /\ ~stranded => WakeComing

\* The coalescing invariant behind it: while the flag is set, and the Drainer is
\* not just about to clear it, some wake is queued or the thread that set the
\* flag is still about to call the hook.  A later sender may rely on it.
FlagMeansWake ==
    host # "pump" /\ wake_pending /\ drain # "clear" => wakes > 0 \/ Swapped # {}

\* A queued envelope is eventually taken: the channel of a host is drained, or a
\* handler's error has aborted the drain.
Drained == queue # << >> ~> (queue = << >> \/ stranded)

=============================================================================
