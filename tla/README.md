# TLA+ models of the Resource Tuner (userspace-resource-manager)

This directory holds TLA+ models of the Resource Tuner daemon and the TLC
configurations that check them. The daemon arbitrates concurrent client
requests that tune system resources. `PROJECT.json` lists:

- every component, and whether it is modelled;
- every run, what it checks and its expected result;
- the mutant that shows each checked property can fail;
- the source lines behind every definition;
- the findings;
- the hazards of the code.

Each module's `map` entry names the lines it translates. Most of the core
is present in `src/` only as headers (`src/unnamed/part_000` is
`CocoTable.h`, `part_001` is `RateLimiter.h`). Its behaviour is taken from
the header documentation, the inline accessors (`getInstance`) and from
`spec.md`. Definitions with no header text behind them are marked
`spec_modelled` in the map. The contextual classifier (`part_002`,
`FeatureExtractor.cpp`) is the only component whose implementation is in
`src/`.

## 1. Inventory

### Components and how they interact

Requests flow like this:

listener → RequestReceiver worker → (RateLimiter, ClientDataManager) →
RequestQueue → consumer thread → CocoTable → applier / tear callbacks

Expiry timers fire back into the RequestQueue. The PulseMonitor feeds the
ClientGarbageCollector, which feeds the RequestQueue with synthetic Untunes.

| Component | State | Operations | Threads |
|---|---|---|---|
| CocoTable (`part_000`) | For each resource slot and priority, a list of CocoNodes (`mCocoTable`). The applied priority of each slot (`mCurrentlyAppliedPriority`). The value on each node. | insertRequest, removeRequest, updateRequest, applyAction, removeAction, timerExpired | consumer only |
| Request timers | One single-shot timer per request | start (on insert), kill (on remove), restart (on Retune), fire | timer thread |
| RequestQueue (`RequestQueue.h`) | Queue ordered by priority, then by enqueue time. Bounded: fails with QueueFull (spec 4.1). | addRequest from many producers; orderedQueueConsumerHook | workers, timer, GC → consumer |
| RequestReceiver | none | forwardMessage | worker thread pool |
| ClientDataManager (`ClientDataManager.h`) | Per PID: type and up to 32 TIDs. Per TID: handles, health, last timestamp. | create, insert/delete handle, health get/set, active clients, delete PID/TID | workers, consumer, pulse, GC (RW lock) |
| RateLimiter (`part_001`) | Health in CDM; the global active-request count | isRateLimitHonored, isGlobalRateLimitHonored | workers |
| PulseMonitor (`PulseMonitor.h`) | none | checkForDeadClients, every 60 s | pulse timer |
| ClientGarbageCollector (`ClientGarbageCollector.h`) | `mGcQueue` of dead PIDs | submitClientForCleanup, performCleanup (bounded batch, re-queue) | pulse → GC timer |
| Registries and parsers | Immutable after init | parse at start-up | main thread |
| Singleton accessors (every `getInstance`) | the static `shared_ptr`, and `instanceProtectionLock` for some | first call constructs | any thread making a first call |
| MLInference / FeatureExtractor (`part_002`, `FeatureExtractor.cpp`) | Features collected from `/proc/<pid>` | Classify, predict, CollectAndStoreData | classifier thread, racing the classified process |

### Hard behaviours, and the properties each needs

- CocoTable: inserts and removals of different priorities interleave.
  - The applied value must always be the head of the highest non-empty list
    (spec 8.1).
  - Each request has exactly one node in each list it tunes (spec 3, 8.2).
  - Overall, the table must implement the policy semantics (an abstract
    specification).
- Timers and the queue:
  - Every request must eventually leave the table (spec 8.3), through expiry,
    Retune and Untune races, and a full queue.
  - A client's messages about one request are consumed by priority, not in
    the order sent (no run asks it; see the hazards).
- Client lifecycle:
  - A dead client must be cleaned eventually (spec 8.6), through batch caps,
    re-queueing and Untunes refused by a full queue.
  - Every live handle belongs to a tracked TID (spec 8.4), while workers race
    the clean-up.
  - The GC must untune only dead clients' requests, under PID reuse.
- Singletons: concurrent first calls of a double-checked `getInstance`, on
  a CPU that may reorder stores.
- Classifier:
  - The `/proc` checks race the process's exit and PID reuse.
  - Features can mix two processes.
  - The tokenisers must keep the last piece of their input, and the CSV
    dump must read back as its columns.
  - The directory parsers must list each cleaned token once.
  - The logs column must keep the whole message of every journal line that
    names the process, through fgets's chunking and the regex.
  - Every proc event must eventually be handled. In the model each path of
    Classify is a bounded sequence of steps; what could stall the queue is
    the blocking `popen` of journalctl, which is outside TLC's reach.

## 2. Modules and runs

| Module | Models | Main state, its actions |
|---|---|---|
| `CocoTable` | CocoTable.h | `coco[s][p]` (a sequence, head first), `appliedPriority`, `written`, `timers`. Actions: `InsertRequest`, `RemoveRequest`, `UpdateRequest`. |
| `CocoSpec` | the promise of CocoTable.h's policy and priority paragraphs | `pending[s]` (active requests in arrival order), `written`. Actions: `Tune`, `Untune`. |
| `MC_CocoTable` | the consumer driving the table alone | Tune / Untune / Retune over fresh handles. History variable `arrivals` for the refinement mapping. |
| `RequestPipeline` | RequestQueue, timers, worker threads, consumer (instantiates `CocoTable`) | `queue`, `stamp`, `requests`, `retunes`, `untuneSent`. Actions: `SubmitTune`, `SubmitUntune`, `SubmitRetune`, `TimerFire`, `orderedQueueConsumerHook`. |
| `MC_RequestPipeline` | constants for the pipeline | |
| `MLInference` | `MLInference::Classify`, `predict` (`part_002`) and `FeatureExtractor::CollectAndStoreData` | `pidOwner` (the process instance holding the PID, 0 if none), `events`, `pc`, `col`, `raw` (per column: empty, or the instance it was read from), `checkedGen`. Actions: `Spawn`, `Exit` (the process and kernel); `StartClassify`, `ValidatePid`, `ParseColumn`, `CheckAfterCollect`, `CheckAndPredict` (the classifier thread). |
| `MC_MLInference` | the nine `text_cols_` and labels for each arm of the label map | |
| `ClientLifecycle` | ClientDataManager.h, RateLimiter (`part_001`), PulseMonitor.h, ClientGarbageCollector.h, with the request queue as a FIFO and the table as a set of handles | `alive`, `gen` (the process actor), `inbox` (sent, not yet admitted), `tracked`, `clientRepo`, `tidRepo`, `handles`, `health` (the CDM), `reqs`, `queue`, `table`, `gcQueue`, `timers`. Actions: `Spawn`, `Die`, `Send` (the clients and kernel); `Admit` (a worker: `clientExists`/`createNewClient`, the rate limiter, `insertRequestByClientId`), `Consume`, `Expire` (the timer thread), `PulseTick`, `GcTick`. |
| `MC_ClientLifecycle` | two PIDs, one with two threads | |
| `Singleton` | every `getInstance` | `instance`, `made`, `visible`, `lock`, and per thread and class `pc`, `mine`, `got`. Actions: `Check`, `Lock`, `Recheck`, `Construct`, `AllocFails`, `Unlock`, `UnlockNull`, `Return`; `Propagate` (the hardware). |
| `MC_Singleton` | three threads; the locked classes `ClientDataManager` and `RequestQueue` | |
| `FeatureTokens` | `ParseLog`, `ParseCmdline`, `ParseEnviron`, `ParseCgroup`, `ParseAttrCurrent`, `ParseComm`, `ParseExe`, `ParseMapFiles`, `ParseFd`, and the logs column: `ReadJournalForPid`'s fgets loop and `ExtractProcessNameAndMessage` | `input`: any text, fixed by `Init`. Each parser is a fold over the characters, as the code loops; `Runs` is the declarative reference. |
| `FeatureCsv` | the CSV dump of `CollectAndStoreData` (lines 198-319), extending `FeatureTokens` | no state of its own: the row is written from the nine columns `Columns(input)`, in the header's order. Writers `write_csv_field`, `WriteEnvironField`, their filtered twins, and a reference CSV reader `ReadCsv`. |
| `MC_FeatureCsv` | one model value per character class, a one-digit PID, texts of up to 5 characters, an fgets buffer of 5; FeaturePruner's token clean-up as the removal of digits | |

### Correspondence to the code

- Each CocoTable operation is one step, because the consumer thread is the
  only caller (spec 5).
- `InsertRequest` does the following in one step:
  - places a node in each (slot, priority) list, where the policy says;
  - runs applyAction when the node is the new head and its priority is at
    least the applied one;
  - starts the timer.
- `RemoveRequest` does the following in one step:
  - unlinks every node;
  - when the node owned the value, applies the next head at the same or a
    lower priority, or restores the default;
  - kills the timer.
- Priorities are levels `1..NumPriorities`, with 1 the highest. The header
  and the spec list the four levels in different orders, and only their
  ranking matters here.
- In `MLInference`, each access to `/proc` is a step of its own, so the
  process can exit, or its PID can pass to a new process, between any two of
  them:
  - `ValidatePid` is `IsValidPidViaProc` (FeatureExtractor.cpp:56).
  - `ParseColumn` is one parser.
  - `CheckAfterCollect` is lines 77-97 of Classify: the return code, the
    first `fileExists`, and the sufficiency scan.
  - `CheckAndPredict` is lines 97-150: the second `fileExists`, `predict`
    (its text building included), and the label map.
  - The fastText model itself is a nondeterministic choice: no prediction,
    or any label.
- `TimerFire` is the timer thread's callback: it submits a synthetic Untune,
  which is refused when the queue is full.
- The consumer takes the head of the queue and dispatches it. An Untune or
  Retune of a handle no longer in the table is a no-op (spec 7).
- In `ClientLifecycle`:
  - `Admit` is one worker handling one request: `clientExists`, or
    `createNewClient` (refused at the thread cap); the client is tracked
    whatever follows; health <= 0 drops the request untouched; otherwise
    the health is punished or rewarded (a free choice standing for the time
    since the last request) and the request accepted when the new health is
    positive and the queue has room. An accepted Tune's handle is recorded
    with `insertRequestByClientId` as it is enqueued.
  - `Consume` puts a Tune's handle in the table and starts its timer; it
    removes an Untune's handle from the table and from its TID's handles
    (`deleteRequestByClientId`) and kills the timer.
  - `Expire` is the timer thread: a running timer fires and queues a
    synthetic Untune, refused when the queue is full. A handle can thus be
    untuned by its client, its timer and the GC, in any order.
  - `PulseTick` submits every tracked PID whose process is dead and which
    is not already queued (spec 3: the GC queue holds a PID once).
  - `GcTick` takes `BatchCap` PIDs. A PID with no handle left has its PID
    and TID entries deleted. Otherwise an Untune is queued for each handle,
    as far as the queue has room, and the PID goes back to the tail.
- In `Singleton`, each access to shared state is a step: the first test,
  the lock, the second test, the construction and assignment, the unlock,
  the final read of the pointer. `Reorder` lets the constructor's stores
  reach other threads after the pointer's; an unlock publishes them.
- `FeatureTokens` and `FeatureCsv` are pure functions over bounded inputs.
  The one variable is the text read, chosen by `Init` and never changed; the
  properties are invariants comparing the code's function with a reference.
  `FeatureCsv` writes its row from the tokens the parsers yield for that
  text, so the CSV writers are checked on what the code really feeds them.
- Characters are abstracted to the classes the code tells apart: a letter,
  a digit, a delimiter of the parser at hand, the quote `"` and NUL (which
  stands for the newline in the cgroup file); the comma is the CSV
  separator. The quote is a delimiter of ParseCgroup (`":\"/"`, line 71),
  and punctuation that `removePunctuation` strips in ParseLog. It is kept by
  ParseCmdline and ParseEnviron, whose delimiters lack it. The text has no
  whitespace or brackets, so `trim` and ParseLog's bracketed-tag regex leave
  it as it is.
- `ParseMapFiles` and `ParseFd` walk a directory of links. The targets are
  the NUL-free stretches of the text; an entry the code skips (a name
  starting with `.`, a failed readlink) adds nothing and is left out. The
  FeaturePruner clean-up of a piece (`normalizeLibraryName`,
  `removeDatesAndTimesFromToken`) is not in `src/`, so it is a constant
  operator; `MC_FeatureCsv` makes it strip digits, so two pieces can clean
  to one token and the `std::find` de-duplication is exercised.
- `ParseAttrCurrent`, `ParseComm` and `ParseExe` read one line (or one
  link target, cut at its first NUL by `std::string(buf)`).
- The CSV rows hold all nine columns. The lower-casing of the unfiltered
  file and the ignore-list pruning of the filtered one are left out: the
  alphabet has one letter, and the ignore lists are configuration.
- The logs column is built as the code builds it. The text is the output of
  journalctl. `fgetsLines` cuts it the way `fgets(buffer, 4096, pipe)`
  does: a chunk ends after a newline (NUL) or after `BufSize - 1`
  characters. The character class `Header` stands for the ` name[pid]: `
  that journalctl writes. A chunk holding one matches the regex
  `.*? (\S+)\[(\d+)\]: (.*)`. Its entry is the process name, `": "` and
  what follows the first header, up to the newline. `ParseLog` cuts each
  entry. The failures of `/proc/<pid>/comm` and `popen` give no lines, and
  are left out.

### Runs

| Run | Checks | Bounds | Result |
|---|---|---|---|
| `coco_higher_instant` | `TypeOK`, `AppliedIsHighestHead`, `NodesLinkedOnce`, `CocoRefinement` | two slots (HigherIsBetter, InstantApply), 2 priorities, 3 handles, values {1, 3} with bounds [0, 2] | pass |
| `coco_lower_lazy` | `AppliedIsHighestHead`, `CocoRefinement` | the same with LowerIsBetter and LazyApply | pass |
| `pipeline_lifecycle` | `TypeOK`, `NoImmortalRequest`, `EventuallyRemoved` | one slot, 1 client thread, 2 handles, 1 Retune, queue capacity 7 (never full) | pass |
| `pipeline_queue_full_drops_expiry` | `NoImmortalRequest` | queue capacity 2 | violation (finding) |
| `mlinference_no_reuse` | `TypeOK` | 9 columns, 5 labels, one process that may exit | pass: drives every path of Classify; with no PID reuse, `InferenceOnCheckedProcess` would only restate the `fileExists` guard, so it is asked in the next run |
| `mlinference_pid_reuse` | `InferenceOnCheckedProcess` | two process instances on one PID | violation (finding) |
| `lifecycle_cleanup` | `TypeOK`, `HandlesTracked`, `DeadClientCleaned` | 2 PIDs, 3 TIDs, thread cap 1, 3 requests, queue 2, batch cap 1, health 3, penalty 2, reward 1 | pass |
| `lifecycle_gc_pid_reuse` | `GcUntunesOnlyDead` | 2 process instances per PID, 2 requests | violation (finding) |
| `singleton_dcl_one_instance` | `SameInstance` | 3 threads, ClientDataManager and RequestQueue, stores reordered | pass |
| `singleton_dcl_weak_memory` | `ReturnedConstructed` | the same | violation (finding) |
| `feature_parsers_csv` | `LogTokensAreRuns`, `EnvironKeepsEveryEntry`, `CgroupKeepsEveryLine`, `EnvironFieldRoundTrip`, `DirTokensDistinct`, `CmdlineKeepsTerminatedArguments`, `JournalLinesKept` | every text of up to 5 characters, an fgets buffer of 5 | pass |
| `csv_unescaped_quote` | `CsvRowRoundTrip` | the same | violation (finding) |

### Why these bounds are enough

For MLInference, one process instance covers every exit point. Two
instances are all that PID reuse needs.

Three handles on two priorities reach every case the table distinguishes:

- a request above, below or at the applied priority;
- the owner removed while others wait at the same or a lower level;
- ties of equal values after clamping.

Values 1 and 3 against bounds [0, 2] keep the default (0) distinct from
every requested value, and make 3 clamp to 2.

In the pipeline, capacity 7 exceeds the most messages a run can send:

- two Tunes;
- two client Untunes;
- one Retune;
- two expiry Untunes.

So `pipeline_lifecycle` checks the protocol without refusals, while the
queue still holds messages of both priorities at once.
Capacity 2 makes the queue fill.

In `ClientLifecycle`:

- a thread cap of 1 with a two-thread PID makes `createNewClient` refuse;
- a batch cap of 1 with two PIDs makes the GC re-queue;
- a queue of 2 fills with a client's requests, expiry Untunes and the
  GC's Untunes, so an expiry or a GC Untune is refused;
- health 3, penalty 2 and reward 1 reach the cap, a drop and a recovery.

Three requests let a client tune, untune and tune again. A second process
instance per PID is only given to the PID-reuse run, where it is the point.

In `Singleton`, three threads are enough for one to construct, one to wait
on the lock and one to take the racy first test. Two classes check that the
per-class locks and pointers do not interfere.

Texts of up to 5 characters cover the cases the parsers and the writers
tell apart: a separator at either end, two in a row, a token made only of a
quote or of a delimiter, two entries or lines, a token with a quote inside
it, and a text ending in a separator or not. With a buffer of 5, fgets
splits a line of 5 characters. A line of 3 can hold two headers, which
tells the lazy `.*?` of the regex from a greedy one.

### Fairness

- The consumer thread blocks only on an empty queue, so it is weakly fair.
- MLInference checks safety only, so it assumes no fairness. The runs set
  `CHECK_DEADLOCK FALSE`, because once every event is handled the classifier
  thread blocks on its empty event queue.
- A running timer always expires, so each timer is weakly fair, in
  `RequestPipeline` and in `ClientLifecycle` alike.
- Clients are not obliged to send anything, so they are not fair.
- In `ClientLifecycle`, the worker pool (`Admit`), the consumer, and the
  Pulse Monitor and GC timers are weakly fair: the workers and the consumer
  block only on empty input, and the two daemons are recurring timers
  (`startPulseMonitorDaemon`, `startClientGarbageCollectorDaemon`). Clients
  and the kernel (`Spawn`, `Die`, `Send`) are not fair. The runs set
  `CHECK_DEADLOCK FALSE`, because once every client is dead and erased
  only the idle timers remain.
- `Singleton` checks safety only; its runs stop when every call has
  returned, so deadlock is not checked. `FeatureTokens` and `FeatureCsv`
  have no steps besides the choice of input.

### Findings

1. **An expiry Untune refused by a full queue is lost.** The request then
   stays in the table with no timer, until its client happens to untune it
   (a client that never does leaves it applied for good). Trace:
   - one request is applied;
   - a client's Tune and Untune fill a queue of capacity 2;
   - the request's timer fires.
2. **Classify can label features from a process that has exited.** The
   `/proc/<pid>` checks in Classify only test that some process holds the
   PID. When the classified process exits during feature collection and its
   PID is reused, the checks pass. The model then classifies features read
   partly from the old process, and the result is returned for the new one.
3. **The GC untunes a live process after PID reuse.** A dead client's PID
   is submitted; before the GC tick a new process gets the PID and TID and
   sends a Tune, which joins the stale CDM entry. The GC untunes it.
4. **The CSV dump escapes quotes only in the environ column.** A cmdline
   argument with a quote yields a token, through ParseCmdline, that
   `write_csv_field` writes unescaped, and the row does not read back.
5. **Double-checked locking returns an object not visibly constructed** when
   the constructor's stores are reordered after the pointer's (a data race
   on the first test).

Other behaviours met while modelling, which no run checks (see the hazards
in `PROJECT.json`):

- The queue orders by priority first, so a client's Untune sent at a
  higher priority than its Tune is consumed first, as the no-op of an
  unknown handle.
- Punishment has no floor, so health can go below the [0, 100] of spec 8.5.
- ParseCmdline emits an argument only at a following NUL: a cmdline
  rewritten without its final NUL loses its last argument
  (`CmdlineKeepsTerminatedArguments` checks the NUL-terminated case).
- A client at health <= 0 is dropped without processing, so its health
  never rises again; spec 8.5 expects the next reward to readmit it.
- Within one worker, GC tick or rate-limit decision, the CDM is called
  several times, each call under its own lock (check-then-create, read
  then update of health, a handle set read by pointer). The callers are
  not in `src/`; the model makes each operation one step.
- The unlocked singletons rely on start-up order not shown in `src/`.
- fgets cuts a journal line of 4096 characters or more. Its continuation
  has no header and is dropped by the regex, so the tail of the message is
  lost (`JournalLinesKept` checks the lines that fit).

## 3. Plan

Modules are added in this order, each composed with the ones before it:

1. `CocoTable`, `CocoSpec` and the refinement (done).
2. `RequestPipeline`: queue, timers, consumer (done).
3. `MLInference`: the control flow of Classify, predict and
   CollectAndStoreData, against a process that exits and whose PID is reused
   (done).
4. `ClientLifecycle` (done): the CDM, the rate limiter, the Pulse Monitor
   and the GC against dying clients and PID reuse.
5. `Singleton`, `FeatureCsv`, `FeatureTokens` (done).
6. `ClientLifecycle` composed with the expiry timers, so that expiry, client
   and GC Untunes race (done); every FeatureExtractor parser (done).
   The logs column through fgets and the journal regex (done).
7. Next: the two-tick bound of spec 8.6 as a counted property; the
   shutdown drain (a poison value, and tear of every node).

### Not modelled

- The applier's failure path (spec 7: a `SysfsWriteFailed` or
  `CallbackFailed` write removes the node and reverts the priority). The
  applier and its callbacks are not in `src/`; in `CocoTable` every
  `applyAction` succeeds.

- Configuration parsing and the registries: string processing at
  start-up, on one thread. `RestuneParser.h` holds only key names and
  declarations. Only their `getInstance` accessors are modelled.
- The global rate limit: the active-request count lives in RequestManager,
  which is not in `src/`.
- The client's permission level (`getClientLevelByID`) and type.
- Socket framing.
- In `ReadJournalForPid`, the `popen` of journalctl and the read of
  `/proc/<pid>/comm`: the text is the pipe's output. A long-line split is
  modelled, but `JournalLinesKept` states only lines that fit the buffer.
  The tail of a longer line is dropped, and neither the spec nor a test
  says what it should give.
- The registries (`ResourceRegistry.h`, `ExtFeaturesRegistry.h`,
  `PropertiesRegistry` in `RequestQueue.h`, `AppConfigs.h`) and
  `RestuneParser.h`: `src/` holds only their declarations, builders and
  key names; the bodies that fill them from YAML at start-up are not
  there. Only their `getInstance` accessors, which have bodies, are
  modelled.
- The steps inside one CDM-using operation: the worker's `clientExists` /
  `createNewClient` pair, the rate limiter's get-then-update of health,
  and the GC's read of a handle set by pointer. Their callers are not in
  `src/`, so each operation is one step; the hazards list records the
  interleavings this leaves out.
- The classifier's event loop: only its header is in `src/`, and the spec
  puts it out of scope.
