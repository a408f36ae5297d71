--------------------------- MODULE RequestPipeline ---------------------------
(***************************************************************************)
(* The path of a request through the server: client worker threads put    *)
(* Tune, Untune and Retune messages on the RequestQueue (class            *)
(* RequestQueue, an OrderedQueue ordered by priority and, within a         *)
(* priority, by enqueue time); the single consumer thread takes the first  *)
(* message and dispatches it to the CocoTable; each request's expiry timer *)
(* fires on the timer thread and puts a synthetic Untune on the same queue *)
(* (spec sections 4.1, 4.2 and 5).                                         *)
(*                                                                         *)
(* Admission (rate limiter, client data) is left to the ClientLifecycle    *)
(* module; here every submission the queue accepts is admitted.  A handle  *)
(* is issued once, in increasing order, and never reused.                  *)
(***************************************************************************)
EXTENDS Naturals, Sequences, SequencesExt, FiniteSets

CONSTANTS
    Slots, NumPriorities, Policy, Low, High, Default,   \* as in CocoTable
    Clients,        \* client threads (TIDs)
    Values,         \* values a Tune may request
    MaxHandle,      \* number of Tune requests issued in a behaviour
    MaxRetunes,     \* number of Retune messages clients send in a behaviour
    QueueCapacity   \* capacity of the RequestQueue

VARIABLES coco, appliedPriority, written, timers   \* the CocoTable's state

Coco == INSTANCE CocoTable
cocoVars == <<coco, appliedPriority, written, timers>>
Priorities == Coco!Priorities

VARIABLES
    queue,      \* the RequestQueue, head first
    stamp,      \* enqueue counter: the queue's FIFO tie-break
    requests,   \* every Tune issued so far: [handle, client, priority, res]
    retunes,    \* Retune messages sent so far
    untuneSent  \* handles whose owner has sent its explicit Untune

pipeVars == <<queue, stamp, requests, retunes, untuneSent>>
vars == <<cocoVars, pipeVars>>

ResChoices == UNION {[D -> Values] : D \in SUBSET Slots \ {{}}}
Kinds == {"Tune", "Untune", "Retune"}

Issued == {r.handle : r \in requests}
Request(h) == CHOOSE r \in requests : r.handle = h

Init ==
    /\ Coco!Init
    /\ queue = <<>>
    /\ stamp = 0
    /\ requests = {}
    /\ retunes = 0
    /\ untuneSent = {}

-----------------------------------------------------------------------------
(* The ordered queue.  A message goes behind every message of the same or  *)
(* a higher priority and ahead of every lower-priority one.                *)

Full == Len(queue) >= QueueCapacity

Enqueued(m) ==
    LET i == SelectInSeq(queue, LAMBDA x : x.priority > m.priority)
    IN  IF i = 0 THEN Append(queue, m) ELSE InsertAt(queue, i, m)

Message(kind, h, p) ==
    [kind |-> kind, handle |-> h, client |-> Request(h).client, priority |-> p, stamp |-> stamp]

\* A producer's addRequest: fails with QueueFull (nothing changes) when the
\* queue is at capacity.
Enqueue(kind, h, p) ==
    /\ ~Full
    /\ queue' = Enqueued(Message(kind, h, p))
    /\ stamp' = stamp + 1

-----------------------------------------------------------------------------
(* Client worker threads.                                                  *)

SubmitTune(c) ==
    LET h == Cardinality(requests) + 1
    IN  /\ h <= MaxHandle
        /\ \E p \in Priorities, res \in ResChoices :
              /\ ~Full
              /\ queue' = Enqueued([kind |-> "Tune", handle |-> h, client |-> c,
                                    priority |-> p, stamp |-> stamp])
              /\ stamp' = stamp + 1
              /\ requests' = requests \cup
                     {[handle |-> h, client |-> c, priority |-> p, res |-> res]}
        /\ UNCHANGED <<cocoVars, retunes, untuneSent>>

\* An Untune carries a priority of its own (spec section 6: every message
\* has a priority field); the client may pick any of its levels.
SubmitUntune(c) ==
    \E h \in Issued \ untuneSent, p \in Priorities :
        /\ Request(h).client = c
        /\ Enqueue("Untune", h, p)
        /\ untuneSent' = untuneSent \cup {h}
        /\ UNCHANGED <<cocoVars, requests, retunes>>

SubmitRetune(c) ==
    \E h \in Issued :
        /\ Request(h).client = c
        /\ retunes < MaxRetunes
        /\ Enqueue("Retune", h, Request(h).priority)
        /\ retunes' = retunes + 1
        /\ UNCHANGED <<cocoVars, requests, untuneSent>>

-----------------------------------------------------------------------------
(* Timer thread: the single-shot timer of request h expires and submits a  *)
(* synthetic Untune at the request's priority.  When the queue is full the *)
(* submission fails like any other producer's and the Untune is lost.      *)

\* Mutant: the expired timer submits nothing.
TimerFireSilent(h) ==
    /\ h \in timers
    /\ timers' = timers \ {h}
    /\ UNCHANGED <<coco, appliedPriority, written, pipeVars>>

TimerFire(h) ==
    /\ h \in timers
    /\ timers' = timers \ {h}
    /\ IF Full THEN UNCHANGED <<queue, stamp>>
               ELSE Enqueue("Untune", h, Request(h).priority)
    /\ UNCHANGED <<coco, appliedPriority, written, requests, retunes, untuneSent>>

-----------------------------------------------------------------------------
(* Consumer thread: take the first message and process it end to end.  An  *)
(* Untune or Retune of a handle no longer in the table is a no-op.         *)

Dispatch(m) ==
    CASE m.kind = "Tune"   -> Coco!InsertRequest(Request(m.handle))
      [] m.kind = "Untune" -> IF Coco!InTable(m.handle) THEN Coco!RemoveRequest(m.handle)
                              ELSE UNCHANGED cocoVars
      [] m.kind = "Retune" -> IF Coco!InTable(m.handle) THEN Coco!UpdateRequest(m.handle)
                              ELSE UNCHANGED cocoVars

orderedQueueConsumerHook ==
    /\ queue # <<>>
    /\ queue' = Tail(queue)
    /\ Dispatch(Head(queue))
    /\ UNCHANGED <<stamp, requests, retunes, untuneSent>>

-----------------------------------------------------------------------------

Next ==
    \/ \E c \in Clients : SubmitTune(c) \/ SubmitUntune(c) \/ SubmitRetune(c)
    \/ \E h \in timers : TimerFire(h)
    \/ orderedQueueConsumerHook

\* The consumer and the timer thread are never starved: the consumer blocks
\* only on an empty queue, and a running timer expires after its duration.
\* Clients are under no obligation to send anything.
Fairness ==
    /\ WF_vars(orderedQueueConsumerHook)
    /\ \A h \in 1..MaxHandle : WF_vars(h \in timers /\ TimerFire(h))

Spec == Init /\ [][Next]_vars /\ Fairness

-----------------------------------------------------------------------------

Messages == [kind : Kinds, handle : 1..MaxHandle, client : Clients,
             priority : Priorities, stamp : Nat]

TypeOK ==
    /\ Coco!CocoTypeOK
    /\ queue \in Seq(Messages)
    /\ Len(queue) <= QueueCapacity
    /\ requests \subseteq [handle : 1..MaxHandle, client : Clients,
                           priority : Priorities, res : ResChoices]
    /\ retunes \in 0..MaxRetunes
    /\ untuneSent \subseteq Issued
    /\ timers \subseteq Issued

UntunePending(h) == \E i \in DOMAIN queue : queue[i].kind = "Untune" /\ queue[i].handle = h

\* Spec sections 4.2 (step 6) and 8 (invariant 3): a request in the table is
\* always on its way out: its expiry timer is running or an Untune for it is
\* waiting in the queue.  Broken by any interleaving of expiry, Retune and
\* Untune in which a timer is killed or lost while the request stays.
NoImmortalRequest ==
    \A h \in Issued : Coco!InTable(h) => h \in timers \/ UntunePending(h)

\* Spec section 8, invariant 3 as a liveness property: every request that
\* enters the table eventually leaves it, by its timer or by an Untune,
\* however clients interleave Retunes.
EventuallyRemoved ==
    \A h \in 1..MaxHandle : Coco!InTable(h) ~> ~Coco!InTable(h)

=============================================================================
