# A TLA+ model of the agent core of OpenXVibeRay

OpenXVibeRay is a fork of OpenXRay. What it adds is an *agentic Zone*: language
models decide what squads, mutant packs and the Zone itself want, and a thin C++
core (`xrSim`) validates those intents and applies them to a coarse world, driven
from outside through a socket (the *agent bridge*). These modules model that core,
and the two schedulers of the engine under it: the one that runs tasks on threads
and the one that updates game objects once a frame. The several hundred thousand
inherited lines around them (renderers, physics, sound, game logic) are listed
below and left out.

Paths are relative to the repository; `xrSim/x` stands for
`src/xrEngine/xrSim/x`.

## 1. The system

### Components, their state and operations

| Component | State | Operations | Model |
|---|---|---|---|
| Actor provider queue (`xrSim/xrSimActorProvider.cpp`) | deque of jobs, map of requests, shutdown flag, one worker thread | `Submit`, `Poll`, `Shutdown`, the worker loop | `ActorQueue`, abstract `WakeRequests`, `ActorQueueProofs` |
| HTTP transport (`xrSim/xrSimAnthropicTransport.cpp`) | the cancel flag | `Send`, `Cancel` | as `ActorQueue` sees it |
| World state (`xrSim/xrSimWorldState.cpp`) | regions, species, cohorts, tool log | create, set, adjust, digest, snapshot, restore, replay | `WorldState` (operators), `WorldHistory` (a world over its life), `WorldStateProofs`, `WorldHistoryProofs` |
| Actor runtime, actuator, actor records (`xrSimActorRuntime.cpp`, `xrSimActuator.cpp`, `xrSimActors.cpp`) | commands per agent, last commands, last intent | apply the result of a wake | `ActorRuntime`, `XrSimBridgeProofs` |
| Zone agent (`xrSimNullAgent.cpp`) | a wake counter | apply a list of intents | `ActorRuntime!NullAgentWake`, `XrSimBridgeProofs` |
| Session packs (`xrSimPackSpawn.cpp`) | packs, the next pack id | register, wake, apply a result, reset | `XrSimBridge`, `XrSimBridgeProofs` |
| Session verbs (`xrSimBridge.cpp`) | the globals: world, runtime, two debug actors, live queue, bindings of the wakes in flight, next record number | the `ai.*` and `agent.*` verbs | `XrSimBridge`, `XrSimBridgeProofs` |
| Agent bridge (`src/xrEngine/AgentBridge.cpp`, client `tools/agentctl.py`) | two deques, the connection, a socket thread | accept, read, write, drain once a frame, destroy | `AgentBridge`, `AgentBridgeProofs` |
| Reply parsers, JSON, configuration (`xrSimActorIntent.cpp`, `xrSimAgentProvider.cpp`) | none | text to plan, coast or error | outcomes enumerated |
| Task scheduler (`src/xrCore/Threading/TaskManager.cpp`, `Task.hpp`) | a ring of tasks for each worker, counts of unfinished jobs, the list of workers, pause and stop flags, an event | push, pop, steal, wait, pause, register, unregister, tear down | `TaskRing`, `RingAndLoopProofs`, `TaskScheduler`, `TaskSchedulerProofs` |
| Events, parallel loops (`Event.cpp`, `ParallelFor.hpp`) | one flag; a range of indices | set, wait; split, run | `TaskRange`, `ParallelLoop`, `RingAndLoopProofs`, `TaskScheduler`, `TaskSchedulerProofs` |
| Scheduler of game objects (`src/xrEngine/xrSheduler.cpp`, `ISheduled.cpp`) | the realtime list, the heap, the items of this frame, the calls put off | register, unregister, one frame, destroy | `ObjectScheduler`, abstract `ScheduledSet`, `ObjectSchedulerProofs` |
| Engine frame (`device.cpp`) | — | calls `OnFrame` of the bridge, the object scheduler and the task scheduler; pauses it | the main threads of these modules |
| Spawning for `agent.pack.spawn` (`src/xrGame/Level_network_spawn.cpp`) | level objects | spawn near the player | not modelled |
| Deferred events, renderers, sound, physics, particles, UI, editors, file system, scripting, network base, game and ALife | — | — | not modelled |

### How they interact

A client writes request lines to the socket. The **socket thread** puts them into
`m_requests`; once a frame the **engine thread** drains the deque, runs each verb
to its end and puts a response into `m_responses`, which the socket thread writes
out. A verb runs on the session's globals. A *live* wake is submitted to the queue,
whose **worker thread** runs the provider (an HTTP request of up to
`timeoutMs`); a later `agent.actor.poll` takes the result and applies it to the
session as it is by then. `ai.reset` shuts the queue down, cancels the transfer,
joins the worker and starts over.

In the same frame the engine thread lets the object scheduler update game objects,
each of which may register and take off objects while it is being updated, and
starts parallel loops, whose pieces it and the **task workers** push, pop and steal.

### What is hard

* threads, and calls that release a mutex before they notify, cancel or join;
* a queue read by several threads without a lock, whose owner may go away;
* sleeping on an event that remembers one signal, however often it is set;
* lists that are changed by the calls made while they are walked through, or by
  calls that are put off until they are not;
* results applied long after the state they were computed from has changed;
* two records of one thing (bindings and requests) and numbers that start again
  after a reset, on both sides of the socket;
* clients that leave at any moment, or stay and do not read;
* plans and snapshots that fail half-way; limits and clamps that must make a log
  replayable; `int32_t` sums before the clamp.

The list with lines, and the properties meant to catch each, is `hazards` in
`PROJECT.json`.

## 2. The modules

```
WakeRequests  <--implements--  ActorQueue  <--  ActorQueueProofs, MCActorQueue
     ^
     | INSTANCE (the live queue)
XrSimBridge -> ActorRuntime -> WorldState <- WorldHistory <- MCWorldHistory
     ^                              ^              ^
MCXrSimBridge,               WorldStateProofs <- WorldHistoryProofs
XrSimBridgeProofs (which extends WorldStateProofs)

AgentBridge <- MCAgentBridge, AgentBridgeProofs

TaskRange <- ParallelLoop <--implements-- TaskScheduler <- MCTaskScheduler,
                  ^                                        TaskSchedulerProofs
          RingAndLoopProofs -> TaskRing <- MCTaskRing

ScheduledSet  <--implements--  ObjectScheduler <- MCObjectScheduler, ObjectSchedulerProofs
```

**ActorQueue.** A critical section of `Impl::mutex` is one action. What a call does
after releasing the mutex is an action of its own: `NotifyOne`, `CancelProvider`,
`NotifyAll`, `Join`, tracked by `callerPc`. The worker's `wake.wait` is
`WorkerSleep`, `SpuriousWakeup` and the re-evaluation in `checking`; a notify wakes
only a sleeping worker and is lost otherwise. `Wake` is `WakeGated` (disabled,
unsupported, keyless or unlinked providers coast at once) or `SendBegin` followed by
`SendReturn` or, once the flag is set, `SendAborted`. A context is a model value, a
result keeps its context and whether it is a plan, a coast or an error.

**WakeRequests.** What the queue promises, without threads: in order, once only,
settled by `Close`. `ActorQueue` implements it under the mapping `StatusOf`, and
`XrSimBridge` uses it in place of the queue. Shutdown and the destruction of the
queue object are one step there (`NewQueue`), because `ResetLiveActorQueue` runs
them without a verb in between.

**WorldState / WorldHistory.** The methods as operators on a record. Indices start
at 1; a handle is an index with a generation;
`int32_t` is scaled down to `-IntMax-1..IntMax` and a sum wraps (signed overflow
is undefined in C++; wrapping is what the build does). A snapshot is the sequence of
tokens, words or numbers, that `SaveSnapshot` prints, and `LoadSnapshot` reads it
place by place, as `>>` does, wherever the lines end. A name is therefore the words it
is printed as: none if it is empty, several if it has white space inside, and `padded`
if there is white space at its ends, which `>>` skips; a word of a name never looks
like a number. A handle is one number, with `IndexSpan` (256) for the 2^24 of the code.
`WorldHistory` sets a world up, then adjusts, saves, and restores what was saved or a
damaged copy of it: another version, a region out of place, or a text that ends too
soon.

**ActorRuntime.** `ExecuteActorIntent` works on a copy (`Staged`) and commits only
if every action succeeded; `ApplyProviderResult` clears, repeats or replaces the
commands of one agent; `NullAgentWake` applies intents to the world itself.

**XrSimBridge.** One action per verb, each from beginning to end on the engine
thread, with `EnsureDebugWorld` first where the code calls it; `Observe` stands for
the verbs that set the world up and then only show something. The worker is visible
as `WorkerFinishes`. Which plan a finished wake carries is chosen when it is polled,
which is the first time anybody can tell.

**AgentBridge.** The socket thread's loop by program counter (`top`, `flush`,
`write`, `read`, `queue`), the engine thread's `OnFrame` and the destructor, and
clients that connect, pipeline numbered requests, read, and close whenever they
like. A message is the client and the number of its request. `PipeFatal = TRUE` is
the build as it is: nothing handles `SIGPIPE`, and a client that leaves at the wrong
moment ends the process (`AgentBridge.cpp:102`). `FALSE` leaves the error branch
after `write`.

**TaskRing.** The `TaskQueue` of one worker, one access to an atomic or a slot at a
time: `push` claims a position (`PushClaim`) before it stores (`PushStore`); `pop`
reads the head (`PopBegin`), reads the slot there (`PopLook`, `PopEmpty`), moves the
head (`PopSwap`, `PopFail`) and clears the slot (`PopClear`). The task pushed at a
position is named by it. `crowded` is history, and no guard reads it: it remembers
whether as many positions as there are slots were ever in use at once, those that a
`pop` has still to clear among them (`SlotToSpare`). The real ring, of 4096 slots,
relies on that never happening. The assertion in `push` (line 97, debug builds only) is
weaker: it admits one position more, and does not count pops that have still to clear.
The properties are about rings that were never crowded, and fail in others.

**TaskScheduler.** All workers and the main thread. A queue is the sequence of its
untaken tasks, because that is what `TaskRing` is as long as it is not crowded; `pop`
still looks first and takes later, and may lose the race in between. `thread[t].pc`
is the line a thread is at, `stage` which of the three queues `ExecuteOneTask` is at.
`TryToSteal` chooses a victim at random; its five attempts are one, as a failed one
leaves no trace. The tasks are the pieces of parallel loops, since those split, have
parents and are what `Wait` waits for. The destructor and the workers' way out
share `Unregister`, `SeeQuiet`/`GiveUp`, `Erase`, `Resume`: the lock is held, the
others are asked to pause, and after five seconds they are given up on, which can only
happen while a task on a worker does not return (`SomeTaskHangs`).

**TaskRange, ParallelLoop.** `TaskRange` has the ranges and their splitting;
`ParallelLoop` is what a loop promises whoever runs its pieces, and `TaskScheduler`
implements it for each loop.

**ObjectScheduler.** `Update` from the call of one object to the next: `BeginUpdate`
carries out the calls put off since the last frame, the loop over `ItemsRT` goes by
slots of the vector's memory (`AtSlot`), as the code's iterators do, so that an
object that takes itself off shifts the rest under the loop and leaves the last slot
as it was (`pastEnd`); then `ProcessStep` takes the most overdue item from the heap
until none is left or the load is too high, and puts what it updated aside until the
frame ends. `InternalRegistration` is a recursive function over the calls put off, with
the pairing of a registration and a later taking-off. An object's update is `UpdateRT`/`UpdateItem`,
whatever the game does meanwhile, and `ReturnRT`/`ReturnItem`/`ReturnTakenOff`.
Times are frames from now. A thing is an address, and may be constructed again where
another was destroyed, finding the old `b_RT` there (the constructor leaves the bit
uninitialised).

The game, of which this scheduler knows nothing, is assumed to destroy objects only
between frames (`CObjectList::Update` does so, after `setDestroy`), and while the
loop over `ItemsRT` runs no realtime object is taken off but by its own update, once
a frame (`configs_dumper::shedule_Update` is the one that does).

**ScheduledSet.** What the owners of objects may rely on: one update at a time, of an
object that is registered and that nobody is about to destroy.

Definitions under a comment `MUTANT` are wrong on purpose and used by nothing: each
is a plausible bug next to the definition it would replace, and `PROJECT.json` says
which property finds it.

## 3. What is checked

| Run | Question | Result | States |
|---|---|---|---|
| `actor_queue` | all interleavings of engine thread and worker, three requests, two contexts: safety, every request resolves, `Shutdown` returns, refinement of `WakeRequests` (safety) | holds | 103,015 |
| `world_history` | log, replay, restores over two tool calls; limits where sums fit; names that are empty, spaced or padded and calls that are rejected: which snapshots bring their world back, is one that was cut off ever accepted | holds | 25,934 |
| `world_history_roundtrip` | can every snapshot be loaded | **violated** | |
| `bridge_session` | two live wakes in flight, injected calls, zone wakes, a pack, restores, resets: bindings, commands, replay | holds | 112,486 |
| `agent_bridge` | two clients, two requests each | holds | 23,369 |
| `agent_bridge_stale` | is every answer the client's own | **violated** | |
| `agent_bridge_hang` | does the destructor return if a client does not read | **violated** | |
| `task_ring` | one ring access by access: each task handed out once, in order, none lost, all taken in the end | holds | 94,602 |
| `task_scheduler` | main thread and two workers from their start to the destructor, two loops, one of which splits: safety, refinement of `ParallelLoop` | holds | 801,288 |
| `task_scheduler_live` | a loop that splits and a pause at any moment: does `Wait` return if the tasks do, and the destructor even if one does not | holds | 253,347 |
| `task_scheduler_drain` | does the destructor finish all pending tasks | **violated** | |
| `object_scheduler` | three objects, realtime or not, with the game calling in between frames and in updates: lists, starvation, refinement of `ScheduledSet` | holds | 237,011 |

A property is there for a hazard. The type invariants of `WorldHistory`,
`XrSimBridge`, `AgentBridge`, `TaskRing` and `TaskScheduler` document the variables
and hold, but are not among the properties of the runs; those of `WorldHistory`,
`AgentBridge` and `TaskRing` are proved.

### Findings

1. **A rejected call makes the snapshot unreadable.** Its reason is printed as two
   tokens (`xrSimWorldState.cpp:204`), of which the reader takes one. A name that is
   empty or has a space does the same without any rejection: it is printed as it is
   (lines 185 and 192) and read as one token (230 and 249). `RoundTripOfReadable` is the
   exact condition; `LoadOfSaved` proves it for worlds with names of one word, whose
   snapshot can be loaded exactly if no call in the log was rejected.
2. **An answer can reach the wrong client**: the response to a request that was being
   handled when its client left goes to the next client, whose numbers start at 1
   again (`AgentBridge.cpp:159`). `OneStaleResponse` shows, and
   `AtMostOneStaleResponse` proves, that it is at most one.
3. **The join of the bridge is not bounded** when a client does not read
   (`AgentBridge.cpp:71`).
4. **The destructor of the task manager may leave tasks** in its queue: it runs what
   `pop` returns until that is `nullptr`, which is also what `pop` returns when it
   lost a race against a thief (`TaskManager.cpp:179`).

Each is quoted with the text it contradicts in `PROJECT.json`.

Seen while reading and modelling, and without a run of their own:

* one call can take away all of a species that is left in a region, if that is no more
  than a tenth of the capacity, or one (`xrSimWorldState.cpp:127`), where the design
  says that it cannot "wipe a species in one call"
  (`docs/superpowers/specs/2026-07-05-agentic-zone-design.md:155`). `CallsAreLimited`
  speaks of the capacity, as the code does;
* `count + applied` overflows before it is clamped, if the capacity is near `INT32_MAX`
  (`xrSimWorldState.cpp:134`), and one call empties the region (`FullRegionIsWiped`). No
  world the repository sets up has such a capacity; an edited snapshot could;
* a ring filled to its last slot, which the assertion in `push` admits, hands a task out
  twice: the head moves before the slot is cleared (`TaskManager.cpp:111`), and the next
  `pop` that comes round to the slot finds the old task there. With two slots and two
  tasks TLC finds the trace as soon as `OnceAndInOrder` does without `~crowded`;
* when the first of three realtime objects takes itself off in its own update, `erase`
  moves the others under the loop, the second has no update in this frame and the
  last one has two (`xrSheduler.cpp:144` and `:442`), which a debug build takes for
  a mistake of the object (`ISheduled.cpp:41`). The `movedNow` in `ServedOnceAFrame`
  excuses this; without it TLC finds the trace;
* nothing handles `SIGPIPE`: a client that leaves between `poll` and `write` ends the
  process (`AgentBridge.cpp:102`). The model has it as `PipeFatal`;
* `ai.restore` as the first verb sets `g_debugInitialized` and leaves the debug actors
  unset (`xrSimBridge.cpp:514`). `AiRestore` does the same;
* invalid provider output clears the commands (`xrSimActorRuntime.cpp:82`) where
  `src/README.md` says that the actor coasts on its last valid intent;
* `VERIFY(Registered(...))` in `Unregister` (`xrSheduler.cpp:269`) fails for an object
  that was dropped because `shedule_Needed` said no and is then unregistered by its
  owner. It is there in debug builds only and not in the model;
* `dwMax - dwMin` underflows when `t_min` is more than half of `1000 + t_max`
  (`xrSheduler.cpp:366`), and there is an object like that (`autosave_manager.cpp:36`);
* a paused worker consumes a signal and goes back to sleep; `Pause(false)` sets none
  (`device.cpp:585`), so that a task pushed during the pause waits for the next one or
  for a `Wait`. `NobodyOversleeps` is about runs without a pause for that reason;
* nor does it speak of the time after a loop has finished: two loops are started, the
  first one wakes a worker, and `Wait` takes its task before the worker gets there; the
  worker then chooses the queue of another sleeper to steal from, and goes to sleep
  with the second loop still waiting, until somebody waits for that one too. With one
  loop TLC does not see this; the attempt to prove the property for more loops did;
* a thief that loses a race takes the other queues for empty as well; when all
  workers sleep the task stays where it is until its owner waits. `WaitReturns` shows
  that `Wait` gets there;
* a lone worker would look for somebody to steal from for ever. `VictimsAreThere`
  shows that none gets there while others are registered or nobody was given up on.

### Bounds, and why they are enough

* *`actor_queue`: three requests* let one be in the worker's hands, one in the deque
  and one still to be submitted; *two contexts* let a result be told from another's.
  Nothing in the queue depends on more, and the proofs remove the bound for safety.
* *`world_history`: one region, two species, two tool calls, capacities -1 and 24,
  deltas -4 and 1*: 24 has a tenth of 2, so that -4 is cut down and 1 is not; -1 counts
  as 0, whose limit is 1; the counts 1 and 23 are next to both clamps. Two calls
  suffice for one to hide what the other did, and bad handles are always tried.
* *`IntMax = 127`* leaves `world_history` far from overflow, and `CallsAreLimited` is
  about sums that fit: `LimitHolds` proves it wherever they do, and `FullRegionIsWiped`
  what happens at the largest capacity, for any `IntMax`.
* *Four names of species, two of the region* (`MCNames`, `MCRegionNames`): each kind of
  name is tried in first and in last place, where the reader gets out of step with and
  without a record behind it, and next to a rejected call. A world with such a name has
  one capacity, one population and one call (`MCOddNamesOneWay`, a constraint), since
  amounts and names have nothing to do with each other. Cuts are between tokens: within
  one, the token that is cut off is the last and there is no `end`. The `VIEW` `Life`
  leaves out `last`, of which the action property only reads the new value.
* *`bridge_session`: two live wakes, one pack, one snapshot, two log records* let two
  bindings of different kinds be in flight across a reset, a restore and a
  registration, and a log hold a call of a plan and one that was injected. `MaxLog` and
  `MaxSaved` only refuse verbs that would outgrow the model. The run has the `VIEW`
  `Session`, which leaves out `last` and `answer`: no guard and no invariant of it
  reads them, and the action properties only read their new values, which TLC has for
  every step it generates.
* *`agent_bridge`: two clients with two requests and a buffer of one response* let the
  second come while the first's work is in every place it can be; more requests only
  make the deques longer.
* *`task_ring`: four slots, six tasks, two thieves* let positions wrap around, two pops
  be on their way to clear while a third is won, and the ring be crowded. The proofs
  remove the bounds for safety.
* *`task_scheduler`: two workers, a loop of two indices and one of a single index*: with
  three threads the first loop splits once, its halves run on different threads while
  the third steals, leaves or works on the other loop, and there is a thread to erase
  before the victim. The pause is left to the liveness run, which has the first loop
  only, starts with both workers asleep (`Settled`), a state the first run passes
  through, and has no symmetry. The proofs remove all of these bounds for safety.
* *`object_scheduler`: three things, three calls put off, delays of 0 and 1*: a realtime
  object can leave with two behind it; a registration, a taking-off and another
  registration of the same address can be put off together; an object can come back
  in the frame after or in the next but one. Symmetry is sound, as things are
  only compared and there is no liveness property.

Deadlock is checked except in the `AgentBridge` runs, where the process may be gone.
In `TaskScheduler` the process stutters after the destructor (`Ended`).

### Fairness, and why the code justifies it

* `ActorQueue!ThreadFairness`: each thread, once it can take a step inside a call or
  in its loop, takes it (two OS threads, one mutex held for short sections). Nobody
  is obliged to call anything, and no spurious wakeup is promised.
* `ActorQueue!TransportFairness`: `Send` returns, because `CURLOPT_TIMEOUT_MS` is set
  and `BuildAgentProviderConfig` keeps it positive. It is a premise of
  `EveryRequestResolves` only; `ShutdownReturns` does without.
* `AgentBridge!ThreadFairness`: the socket thread loops, frames go on, a verb returns
  and a destructor that began goes on. `ReadingSpec` adds that a connected client
  reads. That is an assumption about clients, not the code; `agent_bridge_hang` shows
  what happens without it.
* `TaskRing!Fairness`: a thread inside `push` or `pop` goes on; thieves look for work
  again and again, as `TaskWorkerStart` does while nothing tells it to sleep; a weak
  exchange does not fail spuriously for ever.
* `TaskScheduler!ThreadFairness`: every thread runs, and the choice of a victim, which
  is random, leaves no queue out for ever. What a task does on a worker is not the
  scheduler's: that it returns (`BodiesFinish`) is a premise of `WaitReturns` and not
  needed for `DestroyReturns`.
* `ObjectScheduler` has none: the game calls `Update` or does not. `NobodyStarves`
  says by a bound on the delay what liveness would say.

## 4. What is proved

Eight modules of proofs. The assumptions are the `ASSUME`s of the modules, which TLC
evaluates in the runs.

**`ActorQueueProofs`**, for every set of contexts and every number of requests:

* `InductiveInvariant`: `Spec => []IInv`, and `TypeCorrect`;
* `QueueIsSafe`, `ResultsBelong`, `NoWakeupIsLost`, `WorkerIsGone`: no request is
  orphaned, they are served in order, an answer is that of its own context, the
  worker never sleeps through a job, and is gone when `Shutdown` has returned;
* `AnswersStayFinal`: the action property `AnswersAreFinal`;
* `QueueKeepsPromise`: the queue implements `WakeRequests` (its safety part).

The safety properties are not inductive by themselves. That a pending request is in
the deque or in the worker's hands says nothing of what happens when the worker
stores a result, unless the job it holds is one that was submitted, with the context
submitted under its id (`HeldJobIsCurrent`), and every job in the deque is still
pending (`JobsAreCurrent`). That ids come in order needs the fact that ids not yet
given out are unused (`FreshIds`). That no wakeup is lost and the worker is gone
after a shutdown needs to know which thread has to move next (`ThreadsAgree`).
There is a lemma for each action that touches the deque, the map or the job, and one
for those that only move a thread; `NextIInv` puts them together. The refinement maps
the same steps to `Ask`, `Close`, `Take`, `Finish`, `Inquire`, `Refuse` or a stutter.

**`AgentBridgeProofs`**, for any clients, any number of requests and any size of the
connections, under the hypothesis `PipeFatal = TRUE` (the build as it is):

* `BridgeInvariant`: `Spec => []IInv`, and `BridgeTypeCorrect`;
* `NoStaleRequest`: `RequestsAreCurrent`, no request outlives its client;
* `AtMostOneStaleResponse`: of the response being written, those queued and the one
  being made, only the first in line can belong to a client that has gone.

That requests are the connected client's needs that of the lines read and not yet
queued (`ReadIsCurrent`) and those on the wire (`WireIsOwn`); that only the first
response is stale needs the requests to be current, and each thread to hold one
message at most (`HandsHoldOne`). Accepting a client is the interesting step: with
nobody connected, a queue of which every message is the connected client's is empty,
and a line of which all but the first are is one message long. Without the
hypothesis the theorems are false: the error branch after `write` keeps both deques.

Under the same hypothesis, `QueuesKeepOrder` and `ResponsesKeepOrder`
(`ResponsesInOrder`): a message passes eight queues: the wire,
the lines read, the requests, the verb being run, the responses, the one being
written, the connection back, and what the client has taken. `Line(c)` lists them,
the last one first; the messages of a client stand in it by rising number, and none
has a number above what the client has sent. Each step of either thread moves the
first message of a queue to the end of the next (`Moved`), moves several (`MovedMany`),
or drops some (`Dropped`), and none of these breaks the order; a client that sends
adds the highest number so far at the end of the line (`Joined`).

**`RingAndLoopProofs`**, for a ring of any size, any number of thieves and of tasks:
`RingInvariant` (`Spec => []IInv`), `TasksAreTakenOnce`, `NoTaskIsLost` and
`OldestIsTaken` (the action property `TakesTheOldest`). `IInv` says what the threads in
the middle of a `pop` know: one about to move the head has the task of that position
in hand if the head is still there (`SwapsAreCurrent`), each one that has moved it
clears the slot of its own position, which still holds its task (`ClearsAreOwn`),
whatever is in a slot belongs there (`SlotsAreCurrent`), and the owner stores into an
empty slot (`StoreIsClaimed`). The arithmetic is a lemma: two positions less than
`Size` apart have different slots.

And for a loop of any size, grain and order of its pieces:
`LoopInvariant`, `LoopRunsEachIndexOnce`, `LoopPiecesAreWorthATask`. As `TaskScheduler`
implements `ParallelLoop` (`LoopsAreRun`), they are about what the scheduler does.

**`TaskSchedulerProofs`**, for any finite set of workers, any loops of any size and any
number of pauses: `SchedulerInvariant` (`Spec => []IInv`) and `ThievesFindVictims`
(`VictimsAreThere`). A thread that leaves waits until `activeWorkersCount` is 0, but the
count may rise again before the list changes: a worker that has been woken, or has just
registered, goes on while another thread erases itself. What makes it harmless is not
the pause but the stop flag. Threads only leave when `shouldStop` is set
(`Fine`); the count is the number of workers between their two `SetThreadStatus`
(`CountInv`), so at 0 nobody looks for a task; and a worker that becomes active
afterwards is at the top of its loop, where it reads `shouldStop` and leaves
(`CalmInv`). `shouldPause` and `workersLock` do not occur in the invariant: no thread
may unregister for another reason than the end of the program, as none does. That the
main thread never steals alone is another argument (`AloneInv`): as long as no worker
has registered, loops are not split, so that what it waits for is in its own queue.

In the same module, about the tasks: `JobsInvariant` (`Spec => []JobsInv`), `JobsAreCounted`
(`JobsCountUnfinished`), `TaskAssertionsHold` (what `Task.hpp` asserts at lines 151 and
205, in debug builds only), `LoopsAreRun` (the refinement `RunsLoops`),
`FinishedLoopsAreOver` (`FinishedIsOver`) and `NoSignalIsLost` (`NobodyOversleeps`). A
piece of a loop is at one place of four: in a slot of a queue, among the tasks a body
has still to add, in the hands of the thread that runs it, or split by a body that has
not returned (`Places`). No two places hold the same piece, those not split do not
overlap, and there is no task yet for a part of what is not split, which is why a piece
that is split makes two new tasks (`PlacesInv`, `ApartInv`, `AddingInv`). Tasks form a
tree under the task of their loop, and the count of a task is its own body, its
unfinished children and the threads on their way up to take one off; the counts being
cardinalities, each action is one of a few lemmas about a set that gains or loses an
element. That a finished loop is over follows backwards: if anything of it were left,
the largest of its unfinished tasks would have a finished parent, or be the loop's own
task, by the least-number principle, which needs no induction in the prover.
`NobodyOversleeps` is not inductive: `WakeInv` adds that, while a task lies with nobody
near it, either the signal is set or a worker is still on its way to the queues
(`Fresh`), which finished loops and the place of the main thread at the head of the
list keep true.

**`XrSimBridgeProofs`**, for any number of wakes and packs, any plans, snapshots and
worlds, about agents: `SessionInvariant`, `WakesStayBound` and `ResultsReachTheirActor`, and
`AgentsInvariant`, `CommandsAreIntents`, `WakesSpeakForOne` and `RefusalsLeaveNothing`
about the properties `CommandsFollowIntent`, `OthersUntouched` and
`RefusedPlansChangeNothing`. The first invariant
adds to the two properties that a session that was not set up has nothing in flight
(setting it up drops the bindings) and that the records of agents are records: a
result may change what an actor intends, never who it is (`ResultKeepsActor`). The
world plays no part, so the verbs fall into those that keep the agents and the
bindings (`SameAgentsKeepInv`), a submission (`WakeLiveStep`), a poll
(`UnboundKeepsInv`) and the reset. `AgentsInv` has what commands need: ids differ
between agents that were made, the runtime keeps commands for agents only, and so has
none under the id of a pack about to be registered. Then a result, whatever it says,
touches its own id and its own record (`ApplyIs`), and the world only if it is accepted.

**`ObjectSchedulerProofs`**, for any finite set of things and any number of calls put
off: all the properties of the run, `TypeCorrect`, `BooksAreAlwaysKept` (`BooksAreKept`),
`NothingEverDangles` (`NothingDangles`), `NobodyWaitsLong` (`NobodyStarves`),
`UpdatesOnceAFrame` (`ServedOnceAFrame`) and `Refinement` (`ImplementsScheduledSet`). What
`internal_Registration` does to a list of calls is an induction over that list, which
the prover cannot be told; it is done by looking at the first call that would break
the claim, which the least-number principle provides (`AllCalls`). The claim is that
only the last call for an object counts (`After`), provided that nobody registers an
object twice (`Alternate`) and that the first call for each finds it where it may be
(`Fit`): a registration on no list, a taking-off on the one it will look through. The
invariant says the same of the calls that are waiting (`CallsAgree`): the last one for
an object agrees with its owner, the first one with the lists; and that an object
without calls is where its owner wants it (`ListsAgree`). That is all that is needed
of the owners, and the one thing the code relies on without saying so: an object that
is on a list in a frame has no calls waiting, so that it can be taken off at once.
`LoopAgrees` follows the loop over `ItemsRT` when an object erases itself: what the
vector's memory holds behind its end is its last element, which is still registered.
`NobodyStarves` is not inductive: `LateOnes` counts how many are late by `k` frames, one
less for each frame, since a frame updates one of them at least.

**`WorldStateProofs`** has what the methods of a world do, for worlds of any size: what
shape they keep (`IsWorld`: at most one cohort for a pair, of a region and a species that
exist, its count within the capacity; a record has a reason exactly if it was rejected),
what a call changes and logs, when a replay reproduces a world (`Reproduces`), and what
a snapshot brings back. The text is read at computed places: `RegionBlock` to
`ToolBlock` are sequences of lines of one width each as long as names are single words,
so that each field is where the reader looks for it. From there follow `LoadOfSaved`,
which says that the world comes back exactly if no call was rejected, and
`CutOffTextsAreRefused`, as the reader's last place is that of `end`. They are about
worlds with names of one word and fewer than `IndexSpan` regions and species, as a
handle has no room for more.

**`WorldHistoryProofs`**, for any names of one word (`NamesAreWords`, a hypothesis of the
theorems), any capacities, populations, requests and number of calls, and fewer than
`IndexSpan` regions and species: every property of the run `world_history`.
`TypeCorrect`
(`TypeOK`), `LogAccounts` (`LogAccountsForPopulation`), `ReplayIsFaithful`
(`ReplayReproduces`), `DivergenceIsDetected` (`ReplayDetectsDivergence`), `RoundTrips`
(`RoundTripOfReadable`), `CutOffsAreRefused` (`CutOffIsRefused`), and `LimitHolds`
(`CallsAreLimited`) under a hypothesis, below. Without the hypothesis on names a restored
world may have names that nobody gave: `ReplayReproduces` is about names of one word for
that reason, and of the rest only the run speaks. What a log says of a world is a recursion
over the log. The prover knows no induction over data, but it can be given the sequence
of intermediate results (`IsReplay`, `IsTotal`): one exists for every length, by the
least-number principle, and the recursive function is its last element
(`ReplayExists`, `ReplayedIs`). From then on a call is one step: replaying a log with one
record more is replaying the log and then the record (`ReplayOfOneMore`). `HistoryInv`
says of a running world, and of the one in the snapshot kept, that it was `Lived`: it is
what its log makes of the baseline, the applied changes of the log add up to what became
of every population (`Accounts`), and every baseline that differs in one count has been
told apart or still differs (`Separates`). The last is what `ReplayDetectsDivergence`
needs and does not say: a limit or a clamp can bring two populations together only by
applying different amounts to them, which `ReplayStep` compares, so that as long as all
applied amounts were equal the difference is what it was (`AdjustKeepsApart`).

`LimitHolds` assumes that each capacity a region is set up with leaves room for its own
tenth in an `int32_t` (`HasRoom`), as those in the repository (100) do. It is needed:
`FullRegionIsWiped` proves that in a full region of the largest capacity any call that
asks for more takes everyone away.

**`XrSimBridgeProofs`**, about worlds: `WorldInvariant` and `ReplaysWork` (`ReplayWorks`).
`WorldInv` says that a session's world is `Genuine`, which is what its log makes of the
debug baseline, and so is that of every snapshot the client has. Plans
and lists of intents are recursions as well (`IsStaging`, `IsZoneRun`): wherever one
stops, the world it leaves is one that calls made (`StagedIsGenuine`,
`ZoneWakeIsGenuine`), which is why a zone wake that fails half-way does not break
`ai.replay`. The hypothesis is that the snapshots of earlier processes are genuine: the
invariant grants it of all snapshots a session hands out, so it holds of every chain of
processes that began without one. `AmountsAssumption` says that the amounts in plans and
replies are numbers.

Model-checked only: liveness (`EveryRequestResolves`, `ShutdownReturns`,
`ConnectedIsAnswered`, `DestroyReturns`, `WaitReturns` and `EveryTaskIsTaken`), which is
out of the prover's reach, and what `world_history` says of names that are not one
word. Every other property that holds in a run is stated by a theorem.

## 5. What is not modelled

* Text: prompts, observations, digests as strings, response lines, JSON. The parsers
  of provider replies are enumerated by what they return.
* The bridge verbs that reach into the engine (`cmd`, `lua`, `key`, `mouse`, `state`,
  `shot`, `agent.pack.spawn`), and the verbs' effect inside `AgentBridge`, where a
  verb is one `Respond`.
* `game_day`, stances, goals, memories: stored and shown, never decided on. A plan
  keeps whether it sets a stance, because that is a command.
* File descriptors: a closed listening socket stays closed, a number is not reused.
* Weak memory: all atomics are sequentially consistent. The code has acquire, release
  and relaxed accesses; the one where it may matter is a worker on its way to work,
  which raises `activeWorkersCount` (relaxed, `TaskManager.cpp:259`) and then reads
  `shouldStop`. On a machine with weaker ordering than x86 it might read the old value
  after another thread has seen the count at 0, and find the list changing.
* Of the task scheduler: `Wait` from inside a task, which may run unrelated tasks on
  the same stack; the recycling of task slots (`TaskManager.cpp:79`), which relies on
  no thread having 4096 tasks alive at once; `xr_parallel_for_each`; `Event::Wait` with a
  limit, whose nanoseconds are carried once at most (`Event.cpp:65`).
* Of the object scheduler: milliseconds, priorities and the length of an interval,
  `EnsureOrder`, which nobody calls, and statistics.
* `CEventAPI` (deferred events), the `MessageRegistry` of `pure.h`, `CObjectList` and
  the creation of objects: the game's side of the object scheduler.
* Inherited engine code, see the table: renderers, physics, sound, editors and game
  logic have no protocol of their own, and are what the few thousand lines modelled
  here are small against.

## 6. What could come next

1. `CObjectList` and `CGameObject` under `ObjectScheduler`: creation, the destroy queue
   and the relcase callbacks, in place of the assumption about the game.
2. `ActorIntent` and `ZoneReply`: the line parsers as folds over lines drawn from a
   small set, checked against a reference definition of the grammar.
3. `BridgeSession`: `AgentBridge` with the verbs of `XrSimBridge` behind it, so that a
   response that reaches the wrong client is seen with its effect; `agent.pack.spawn`
   with a failing spawn.
4. Proofs: `XrSimBridge!TypeOK`, whose bounds need one on the length of plans, and the
   parsers above once they are there.
