--------------------------- MODULE ClientLifecycle ---------------------------
(***************************************************************************)
(* Client tracking, admission and clean-up of dead clients:                *)
(*   ClientDataManager (ClientDataManager.h): mClientRepo, the threads of  *)
(*     each PID; mClientTidRepo, per TID the request handles and health;   *)
(*   RateLimiter (src/unnamed/part_001): reward / punish on every request; *)
(*   PulseMonitor (PulseMonitor.h): the periodic /proc check of tracked    *)
(*     PIDs, handing dead ones to the garbage collector;                   *)
(*   ClientGarbageCollector (ClientGarbageCollector.h): a bounded batch of *)
(*     mGcQueue per tick, synthetic Untunes, then the CDM entries cleared. *)
(* The request queue is a bounded FIFO (every message here has the same   *)
(* priority) and CocoTable is reduced to the set of handles it holds.      *)
(* A Tune that enters the table starts its expiry timer, whose synthetic  *)
(* Untune (refused by a full queue) races the client's own Untune and the  *)
(* GC's; the timer is killed when an Untune removes the request.           *)
(*                                                                         *)
(* Client processes are actors: a thread of a live process sends requests, *)
(* the process dies whenever it likes, and the kernel may give its PID to  *)
(* a new process (instance gen[p] + 1).  A sent request waits in "inbox"   *)
(* until a RequestReceiver worker takes it, possibly after its sender died.*)
(* A request id doubles as the handle of an accepted Tune.                 *)
(***************************************************************************)
EXTENDS Naturals, Integers, Sequences, SequencesExt, FiniteSets, FiniteSetsExt

CONSTANTS
    Pids,         \* client process IDs
    Tids,         \* client thread IDs
    ThreadsOf,    \* [Pids -> SUBSET Tids], disjoint: the threads of a PID
    TidCap,       \* PER_CLIENT_TID_CAP
    MaxRequests,  \* requests the clients may send in one behaviour
    QueueCap,     \* capacity of the request queue
    BatchCap,     \* garbage_collection.batch.cap
    MaxHealth,    \* initial and largest health (100)
    Penalty,      \* penalty.factor
    Reward,       \* reward.factor
    MaxGen        \* process instances that may hold one PID in turn

ASSUME /\ \A p, q \in Pids : p # q => ThreadsOf[p] \cap ThreadsOf[q] = {}
       /\ UNION {ThreadsOf[p] : p \in Pids} = Tids
       /\ {TidCap, BatchCap, QueueCap, MaxHealth, Penalty, Reward} \subseteq Nat \ {0}

PidOf(t) == CHOOSE p \in Pids : t \in ThreadsOf[p]

Ids == 1..MaxRequests

Message == [id : Ids, tid : Tids, gen : 1..MaxGen, kind : {"Tune", "Untune"}, target : Ids]

VARIABLES
    alive,       \* alive[p]: /proc/<pid> exists
    gen,         \* gen[p]: the instance holding (or last holding) PID p
    sent,        \* requests sent so far
    inbox,       \* requests sent and not yet taken by a worker
    tracked,     \* PIDs with an mClientRepo entry
    clientRepo,  \* clientRepo[p]: mClientTIDs of PID p
    tidRepo,     \* TIDs with an mClientTidRepo entry
    handles,     \* handles[t]: mClientHandles
    health,      \* health[t]: mHealth (MaxHealth for a TID without an entry)
    reqs,        \* accepted Tunes: [id, tid, gen] of their sender
    queue,       \* the request queue: [kind, h]
    table,       \* handles of the requests in CocoTable
    gcQueue,     \* mGcQueue
    timers       \* handles whose expiry timer is running

vars == <<alive, gen, sent, inbox, tracked, clientRepo, tidRepo, handles,
          health, reqs, queue, table, gcQueue, timers>>

Init ==
    /\ alive = [p \in Pids |-> FALSE]
    /\ gen = [p \in Pids |-> 0]
    /\ sent = 0
    /\ inbox = {}
    /\ tracked = {}
    /\ clientRepo = [p \in Pids |-> {}]
    /\ tidRepo = {}
    /\ handles = [t \in Tids |-> {}]
    /\ health = [t \in Tids |-> MaxHealth]
    /\ reqs = {}
    /\ queue = <<>>
    /\ table = {}
    /\ gcQueue = <<>>
    /\ timers = {}

-----------------------------------------------------------------------------
(* Client processes and the kernel.                                        *)

Spawn(p) ==
    /\ ~alive[p]
    /\ gen[p] < MaxGen
    /\ alive' = [alive EXCEPT ![p] = TRUE]
    /\ gen' = [gen EXCEPT ![p] = @ + 1]
    /\ UNCHANGED <<sent, inbox, tracked, clientRepo, tidRepo, handles, health,
                   reqs, queue, table, gcQueue, timers>>

Die(p) ==
    /\ alive[p]
    /\ alive' = [alive EXCEPT ![p] = FALSE]
    /\ UNCHANGED <<gen, sent, inbox, tracked, clientRepo, tidRepo, handles,
                   health, reqs, queue, table, gcQueue, timers>>

\* A thread of a live process sends a Tune, or an Untune of a handle its
\* own process instance was given.
Send(t, kind, target) ==
    LET p == PidOf(t) IN
    /\ alive[p]
    /\ sent < MaxRequests
    /\ kind = "Untune" => \E r \in reqs : r.id = target /\ r.tid = t /\ r.gen = gen[p]
    /\ inbox' = inbox \cup {[id |-> sent + 1, tid |-> t, gen |-> gen[p], kind |-> kind,
                             target |-> IF kind = "Tune" THEN sent + 1 ELSE target]}
    /\ sent' = sent + 1
    /\ UNCHANGED <<alive, gen, tracked, clientRepo, tidRepo, handles, health,
                   reqs, queue, table, gcQueue, timers>>

-----------------------------------------------------------------------------
(* A RequestReceiver worker admits one request: clientExists, or           *)
(* createNewClient (refused at the thread cap: TooManyThreads); the rate   *)
(* limiter; then the queue (QueueFull).  An accepted Tune's handle is      *)
(* recorded in the CDM (insertRequestByClientId) as it is enqueued.        *)

clientExists(p, t) == t \in tidRepo

\* createNewClient succeeds while the PID has fewer than TidCap threads.
createNewClient(p, t) == Cardinality(clientRepo[p]) < TidCap

\* shouldBeProcessed / isRateLimitHonored: the health after this request,
\* punished when it follows the previous one within delta, else rewarded
\* up to MaxHealth.  The time between requests is a free choice.
\* Mutant: the reward is not capped at the maximum health.
RateLimitedHealthUncapped(h) == {h - Penalty, h + Reward}

RateLimitedHealth(h) == {h - Penalty, Min({MaxHealth, h + Reward})}

TooManyThreads(m) ==
    LET p == PidOf(m.tid) IN
    /\ ~clientExists(p, m.tid)
    /\ ~createNewClient(p, m.tid)
    /\ UNCHANGED <<tracked, clientRepo, tidRepo, handles, health, reqs, queue>>

\* The client is tracked from now on, whatever the rate limiter says.
Track(m) ==
    LET p == PidOf(m.tid) IN
    /\ clientExists(p, m.tid) \/ createNewClient(p, m.tid)
    /\ tracked' = tracked \cup {p}
    /\ clientRepo' = [clientRepo EXCEPT ![p] = @ \cup {m.tid}]
    /\ tidRepo' = tidRepo \cup {m.tid}

\* Health at or below zero: the request is dropped without processing.
Dropped(m) ==
    /\ health[m.tid] <= 0
    /\ UNCHANGED <<handles, health, reqs, queue>>

Enqueue(m) ==
    /\ queue' = Append(queue, [kind |-> m.kind, h |-> m.target])
    /\ IF m.kind = "Tune"
       THEN /\ handles' = [handles EXCEPT ![m.tid] = @ \cup {m.id}]
            /\ reqs' = reqs \cup {[id |-> m.id, tid |-> m.tid, gen |-> m.gen]}
       ELSE UNCHANGED <<handles, reqs>>

RateLimited(m) ==
    /\ health[m.tid] > 0
    /\ \E h \in RateLimitedHealth(health[m.tid]) :
          /\ health' = [health EXCEPT ![m.tid] = h]
          /\ IF h > 0 /\ Len(queue) < QueueCap
             THEN Enqueue(m)
             ELSE UNCHANGED <<handles, reqs, queue>>

Admit(m) ==
    /\ m \in inbox
    /\ inbox' = inbox \ {m}
    /\ \/ TooManyThreads(m)
       \/ Track(m) /\ (Dropped(m) \/ RateLimited(m))
    /\ UNCHANGED <<alive, gen, sent, table, gcQueue, timers>>

-----------------------------------------------------------------------------
(* The consumer: a Tune enters the table and its timer starts; an Untune   *)
(* of a handle in the table removes it, kills its timer and deletes the    *)
(* handle from its client's CDM entry (deleteRequestByClientId); an Untune *)
(* of anything else is a no-op.                                            *)

SenderTid(h) == (CHOOSE r \in reqs : r.id = h).tid

\* Mutant: deleteRequestByClientId is not called.
RemoveHandleKept(h) == handles

RemoveHandle(h) == [handles EXCEPT ![SenderTid(h)] = @ \ {h}]

Consume ==
    /\ queue # <<>>
    /\ queue' = Tail(queue)
    /\ LET msg == Head(queue) IN
       CASE msg.kind = "Tune" ->
               /\ table' = table \cup {msg.h}
               /\ timers' = timers \cup {msg.h}
               /\ UNCHANGED handles
         [] msg.h \in table ->
               /\ table' = table \ {msg.h}
               /\ timers' = timers \ {msg.h}
               /\ handles' = RemoveHandle(msg.h)
         [] OTHER -> UNCHANGED <<table, handles, timers>>
    /\ UNCHANGED <<alive, gen, sent, inbox, tracked, clientRepo, tidRepo, health,
                   reqs, gcQueue>>

-----------------------------------------------------------------------------
(* PulseMonitor::checkForDeadClients: every tracked PID whose /proc entry  *)
(* is absent is submitted for clean-up; the GC queue holds a PID once.     *)

getActiveClientList == tracked

\* The PIDs are appended to mGcQueue, under mGcQueueMutex.
submitClientForCleanup(ps) == gcQueue' = gcQueue \o SetToSeq(ps)

PulseTick ==
    LET dead == {p \in getActiveClientList : ~alive[p]} \ Range(gcQueue) IN
    /\ dead # {}
    /\ submitClientForCleanup(dead)
    /\ UNCHANGED <<alive, gen, sent, inbox, tracked, clientRepo, tidRepo, handles,
                   health, reqs, queue, table, timers>>

(* ClientGarbageCollector::performCleanup: the first BatchCap PIDs of the  *)
(* queue.  A PID whose threads hold no handle has its PID and TID entries  *)
(* deleted; otherwise an Untune is submitted for each handle (refused when *)
(* the queue is full) and the PID goes back to the tail of mGcQueue.       *)

getThreadsByClientId(p) == clientRepo[p]

\* getRequestsByClientID of every thread of the PID.
PidHandles(p) == UNION {handles[t] : t \in getThreadsByClientId(p)}

deleteClientPID(ps) ==
    /\ tracked' = tracked \ ps
    /\ clientRepo' = [p \in Pids |-> IF p \in ps THEN {} ELSE clientRepo[p]]

\* A TID created again later starts from the initial health.
deleteClientTID(ts) ==
    /\ tidRepo' = tidRepo \ ts
    /\ health' = [t \in Tids |-> IF t \in ts THEN MaxHealth ELSE health[t]]

\* Mutant: the CDM entries are cleared without waiting for the Untunes.
FinishedAll(batch) == batch

\* The PIDs of the batch whose clean-up is complete.
Finished(batch) == {p \in batch : PidHandles(p) = {}}

GcTick ==
    LET k       == Min({BatchCap, Len(gcQueue)})
        batch   == Range(SubSeq(gcQueue, 1, k))
        done    == Finished(batch)
        pending == batch \ done
        hs      == SetToSeq(UNION {PidHandles(p) : p \in pending})
        untunes == [i \in DOMAIN hs |-> [kind |-> "Untune", h |-> hs[i]]]
        room    == QueueCap - Len(queue)
        doneTids == UNION {getThreadsByClientId(p) : p \in done}
    IN
    /\ gcQueue # <<>>
    /\ gcQueue' = SubSeq(gcQueue, k + 1, Len(gcQueue))
                    \o SelectSeq(SubSeq(gcQueue, 1, k), LAMBDA p : p \in pending)
    /\ queue' = queue \o SubSeq(untunes, 1, Min({room, Len(untunes)}))
    /\ deleteClientTID(doneTids)
    /\ deleteClientPID(done)
    /\ UNCHANGED <<alive, gen, sent, inbox, handles, reqs, table, timers>>

-----------------------------------------------------------------------------
(* The timer thread: the expiry timer of request h fires and submits a     *)
(* synthetic Untune, which a full queue refuses.                           *)

Expire(h) ==
    /\ h \in timers
    /\ timers' = timers \ {h}
    /\ IF Len(queue) < QueueCap THEN queue' = Append(queue, [kind |-> "Untune", h |-> h])
                                ELSE UNCHANGED queue
    /\ UNCHANGED <<alive, gen, sent, inbox, tracked, clientRepo, tidRepo, handles,
                   health, reqs, table, gcQueue>>

-----------------------------------------------------------------------------

Next ==
    \/ \E p \in Pids : Spawn(p) \/ Die(p)
    \/ \E t \in Tids : Send(t, "Tune", 1)
    \/ \E t \in Tids, h \in Ids : Send(t, "Untune", h)
    \/ \E m \in inbox : Admit(m)
    \/ Consume
    \/ PulseTick
    \/ GcTick
    \/ \E h \in timers : Expire(h)

\* The workers, the consumer, the two daemon timers and every running
\* expiry timer always get to run; the clients and the kernel are under no
\* obligation.
Fairness ==
    /\ WF_vars(\E m \in inbox : Admit(m))
    /\ WF_vars(Consume)
    /\ WF_vars(PulseTick)
    /\ WF_vars(GcTick)
    /\ \A h \in Ids : WF_vars(Expire(h))

Spec == Init /\ [][Next]_vars /\ Fairness

-----------------------------------------------------------------------------

TypeOK ==
    /\ alive \in [Pids -> BOOLEAN]
    /\ gen \in [Pids -> 0..MaxGen]
    /\ sent \in 0..MaxRequests
    /\ inbox \subseteq Message
    /\ tracked \subseteq Pids
    /\ clientRepo \in [Pids -> SUBSET Tids]
    /\ \A p \in Pids : clientRepo[p] \subseteq ThreadsOf[p]
                       /\ Cardinality(clientRepo[p]) <= TidCap
    /\ tidRepo \subseteq Tids
    /\ handles \in [Tids -> SUBSET Ids]
    /\ health \in [Tids -> (1 - Penalty)..MaxHealth]
    /\ reqs \subseteq [id : Ids, tid : Tids, gen : 1..MaxGen]
    /\ queue \in Seq([kind : {"Tune", "Untune"}, h : Ids])
    /\ Len(queue) <= QueueCap
    /\ table \subseteq Ids
    /\ gcQueue \in Seq(Pids)
    /\ timers \subseteq table

\* Handles of accepted Tunes still queued or in the table.
LiveHandles ==
    table \cup {queue[i].h : i \in {j \in 1..Len(queue) : queue[j].kind = "Tune"}}

\* Spec 8.4 and the GC's reach: a handle is in its TID's mClientHandles, and
\* that TID among the threads mClientRepo lists for a tracked PID (the only
\* way performCleanup finds it), exactly while the request is queued or in
\* the table.  A worker racing the clean-up of its client, an Untune no-op
\* and the deletion of CDM entries are what could break it.
HandlesTracked ==
    \A r \in reqs :
        r.id \in LiveHandles
            <=> /\ PidOf(r.tid) \in tracked
                /\ r.id \in PidHandles(PidOf(r.tid))

\* Spec 8.6, without the bound: a tracked client whose process is dead is
\* eventually erased from the CDM, after every handle it held has been torn
\* down (by HandlesTracked).  The Pulse Monitor, the GC's re-queueing and
\* the consumer together are needed for it.
DeadClientCleaned ==
    \A p \in Pids : (p \in tracked /\ ~alive[p]) ~> (p \notin tracked)

\* The request's sender is alive: the instance that sent it still holds
\* the PID.
LiveSender(h) ==
    LET r == CHOOSE x \in reqs : x.id = h
    IN  alive[PidOf(r.tid)] /\ gen[PidOf(r.tid)] = r.gen

\* ClientGarbageCollector's purpose: a synthetic Untune is only submitted
\* for a request of a client that has died.
GcUntunesOnlyDead ==
    [][GcTick => \A i \in Len(queue) + 1..Len(queue') : ~LiveSender(queue'[i].h)]_vars

=============================================================================
