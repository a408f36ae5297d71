------------------------------ MODULE Singleton ------------------------------
(***************************************************************************)
(* The getInstance accessors of the daemon's process-wide singletons.      *)
(* Two patterns occur in src/resource-tuner:                               *)
(*   double-checked locking: test the static shared_ptr, take              *)
(*     instanceProtectionLock, test again, construct and assign, unlock    *)
(*     (ClientDataManager, RequestQueue, RateLimiter); a bad_alloc unlocks *)
(*     and returns nullptr;                                                *)
(*   unlocked: test the static shared_ptr, construct and assign            *)
(*     (ClientGarbageCollector, PulseMonitor, ResourceRegistry,            *)
(*     ExtFeaturesRegistry, RequestReceiver, PropertiesRegistry), some of  *)
(*     them returning nullptr on bad_alloc (SignalRegistry, AppConfigs).   *)
(* Every thread of Threads calls getInstance once for every class of       *)
(* Classes, one step per access to shared state.                           *)
(*                                                                         *)
(* The first test reads the pointer outside the lock while another thread  *)
(* may be writing it: a data race.  What the build can produce is          *)
(* modelled by Reorder: when TRUE, the stores of the constructor need not  *)
(* be visible to another thread before the store of the pointer is (a     *)
(* weakly ordered CPU, or the compiler, moving them); unlocking the mutex  *)
(* publishes every store made before it.                                   *)
(***************************************************************************)
EXTENDS Naturals, FiniteSets, TLC

CONSTANTS
    Threads,   \* threads calling getInstance
    Classes,   \* the singleton classes whose accessor is called
    Reorder,   \* the constructor's stores may become visible after the pointer's
    NoThread   \* the owner of a free mutex

ASSUME NoThread \notin Threads

nullptr == 0

-----------------------------------------------------------------------------
(* The accessor of each class: whether it takes instanceProtectionLock     *)
(* around a second test, and whether it catches bad_alloc and returns      *)
(* nullptr.                                                                *)

ClientDataManager_getInstance      == [locked |-> TRUE,  catches |-> TRUE]
RequestQueue_getInstance           == [locked |-> TRUE,  catches |-> TRUE]
RateLimiter_getInstance            == [locked |-> TRUE,  catches |-> TRUE]
ClientGarbageCollector_getInstance == [locked |-> FALSE, catches |-> FALSE]
PulseMonitor_getInstance           == [locked |-> FALSE, catches |-> FALSE]
ResourceRegistry_getInstance       == [locked |-> FALSE, catches |-> FALSE]
ExtFeaturesRegistry_getInstance    == [locked |-> FALSE, catches |-> FALSE]
SignalRegistry_getInstance         == [locked |-> FALSE, catches |-> TRUE]
AppConfigs_getInstance             == [locked |-> FALSE, catches |-> TRUE]
RequestReceiver_getInstance        == [locked |-> FALSE, catches |-> FALSE]
\* The new object is built in a local shared_ptr and swapped into place.
PropertiesRegistry_getInstance     == [locked |-> FALSE, catches |-> FALSE]

Accessor ==
    ("ClientDataManager" :> ClientDataManager_getInstance)
    @@ ("RequestQueue" :> RequestQueue_getInstance)
    @@ ("RateLimiter" :> RateLimiter_getInstance)
    @@ ("ClientGarbageCollector" :> ClientGarbageCollector_getInstance)
    @@ ("PulseMonitor" :> PulseMonitor_getInstance)
    @@ ("ResourceRegistry" :> ResourceRegistry_getInstance)
    @@ ("ExtFeaturesRegistry" :> ExtFeaturesRegistry_getInstance)
    @@ ("SignalRegistry" :> SignalRegistry_getInstance)
    @@ ("AppConfigs" :> AppConfigs_getInstance)
    @@ ("RequestReceiver" :> RequestReceiver_getInstance)
    @@ ("PropertiesRegistry" :> PropertiesRegistry_getInstance)

ASSUME Classes \subseteq DOMAIN Accessor /\ Reorder \in BOOLEAN

Locked(c) == Accessor[c].locked

-----------------------------------------------------------------------------

VARIABLES
    instance,  \* instance[c]: the static shared_ptr (an object number, or nullptr)
    made,      \* made[c]: objects of class c constructed so far, numbered 1..made[c]
    visible,   \* visible[c]: objects whose construction other threads can see
    lock,      \* lock[c]: the holder of instanceProtectionLock, or NoThread
    pc,        \* pc[t][c]: where thread t is in getInstance of class c
    mine,      \* mine[t][c]: the object thread t constructed, or nullptr
    got        \* got[t][c]: the pointer getInstance returned to thread t

vars == <<instance, made, visible, lock, pc, mine, got>>

PCs == {"check", "lock", "recheck", "new", "unlock", "unlockNull", "return", "done"}

Init ==
    /\ instance = [c \in Classes |-> nullptr]
    /\ made = [c \in Classes |-> 0]
    /\ visible = [c \in Classes |-> {}]
    /\ lock = [c \in Classes |-> NoThread]
    /\ pc = [t \in Threads |-> [c \in Classes |-> "check"]]
    /\ mine = [t \in Threads |-> [c \in Classes |-> nullptr]]
    /\ got = [t \in Threads |-> [c \in Classes |-> nullptr]]

Goto(t, c, l) == pc' = [pc EXCEPT ![t][c] = l]

\* if (instance == nullptr): the racy first test.
Check(t, c) ==
    /\ pc[t][c] = "check"
    /\ Goto(t, c, IF instance[c] # nullptr THEN "return"
                  ELSE IF Locked(c) THEN "lock" ELSE "new")
    /\ UNCHANGED <<instance, made, visible, lock, mine, got>>

\* instanceProtectionLock.lock()
Lock(t, c) ==
    /\ pc[t][c] = "lock"
    /\ lock[c] = NoThread
    /\ lock' = [lock EXCEPT ![c] = t]
    /\ Goto(t, c, "recheck")
    /\ UNCHANGED <<instance, made, visible, mine, got>>

\* Mutant: the second test is left out.
RecheckSkipped(t, c) ==
    /\ pc[t][c] = "recheck"
    /\ Goto(t, c, "new")
    /\ UNCHANGED <<instance, made, visible, lock, mine, got>>

\* The second test, under the lock.
Recheck(t, c) ==
    /\ pc[t][c] = "recheck"
    /\ Goto(t, c, IF instance[c] # nullptr THEN "unlock" ELSE "new")
    /\ UNCHANGED <<instance, made, visible, lock, mine, got>>

\* instance = std::shared_ptr<C>(new C()): the object is built, then the
\* pointer stored; unless Reorder, the object's stores are visible first.
Construct(t, c) ==
    LET o == made[c] + 1 IN
    /\ pc[t][c] = "new"
    /\ made' = [made EXCEPT ![c] = o]
    /\ mine' = [mine EXCEPT ![t][c] = o]
    /\ instance' = [instance EXCEPT ![c] = o]
    /\ visible' = IF Reorder THEN visible ELSE [visible EXCEPT ![c] = @ \cup {o}]
    /\ Goto(t, c, IF Locked(c) THEN "unlock" ELSE "return")
    /\ UNCHANGED <<lock, got>>

\* new throws bad_alloc: caught by the accessors that catch it, which
\* return nullptr (after unlocking, under double-checked locking).
AllocFails(t, c) ==
    /\ pc[t][c] = "new"
    /\ Accessor[c].catches
    /\ Goto(t, c, IF Locked(c) THEN "unlockNull" ELSE "done")
    /\ got' = [got EXCEPT ![t][c] = nullptr]
    /\ UNCHANGED <<instance, made, visible, lock, mine>>

\* instanceProtectionLock.unlock(): a release, publishing the thread's stores.
Release(t, c) ==
    /\ lock' = [lock EXCEPT ![c] = NoThread]
    /\ visible' = [visible EXCEPT ![c] = @ \cup ({mine[t][c]} \ {nullptr})]

Unlock(t, c) ==
    /\ pc[t][c] = "unlock"
    /\ Release(t, c)
    /\ Goto(t, c, "return")
    /\ UNCHANGED <<instance, made, mine, got>>

UnlockNull(t, c) ==
    /\ pc[t][c] = "unlockNull"
    /\ Release(t, c)
    /\ Goto(t, c, "done")
    /\ got' = [got EXCEPT ![t][c] = nullptr]
    /\ UNCHANGED <<instance, made, mine>>

\* return instance: the pointer is read once more.
Return(t, c) ==
    /\ pc[t][c] = "return"
    /\ got' = [got EXCEPT ![t][c] = instance[c]]
    /\ Goto(t, c, "done")
    /\ UNCHANGED <<instance, made, visible, lock, mine>>

\* The hardware makes the late stores of a constructor visible.
Propagate(c) ==
    /\ \E o \in (1..made[c]) \ visible[c] : visible' = [visible EXCEPT ![c] = @ \cup {o}]
    /\ UNCHANGED <<instance, made, lock, pc, mine, got>>

Next ==
    \/ \E t \in Threads, c \in Classes :
          \/ Check(t, c) \/ Lock(t, c) \/ Recheck(t, c) \/ Construct(t, c)
          \/ AllocFails(t, c) \/ Unlock(t, c) \/ UnlockNull(t, c) \/ Return(t, c)
    \/ \E c \in Classes : Propagate(c)

Spec == Init /\ [][Next]_vars

-----------------------------------------------------------------------------

TypeOK ==
    /\ instance \in [Classes -> Nat]
    /\ made \in [Classes -> Nat]
    /\ \A c \in Classes : instance[c] <= made[c] /\ visible[c] \subseteq 1..made[c]
    /\ lock \in [Classes -> Threads \cup {NoThread}]
    /\ pc \in [Threads -> [Classes -> PCs]]
    /\ mine \in [Threads -> [Classes -> Nat]]
    /\ got \in [Threads -> [Classes -> Nat]]

\* A singleton: every thread whose getInstance returned an object got the
\* same one, so there is one ClientDataManager table, one request queue,
\* one GC queue.  Two threads making the first call at once is what could
\* break it.
SameInstance ==
    \A c \in Classes, t, u \in Threads :
        (/\ pc[t][c] = "done" /\ got[t][c] # nullptr
         /\ pc[u][c] = "done" /\ got[u][c] # nullptr) => got[t][c] = got[u][c]

\* getInstance returns nullptr or an object whose construction the caller
\* sees: its own, or one another thread's constructor has published.  The
\* racy first test, reading a pointer stored by another thread, is what
\* could break it.
ReturnedConstructed ==
    \A c \in Classes, t \in Threads :
        (pc[t][c] = "done" /\ got[t][c] # nullptr) => got[t][c] \in visible[c] \cup {mine[t][c]}

=============================================================================
