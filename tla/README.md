# bteng: a TLA+ specification of the behaviour-tree engine

bteng runs behaviour trees: a tree of nodes is *ticked* again and again; each
tick walks part of the tree, each node answers `SUCCESS`, `FAILURE` or `RUNNING`,
and what a node keeps between two ticks (a cursor, an attempt counter, a cached
status, a subscription, a future) decides what the next one does. This directory
holds TLA+ modules of the engine, the TLC configurations that check them on small
instances, and proofs checked by TLAPS. Paths below are relative to `src/`;
`PROJECT.json` maps every definition that models code to its lines.

## 1. The system

### Components

| component | state it keeps | operations | modules |
|---|---|---|---|
| `TreeNode` (`bteng/core/node.py`) | `_status`, `_parent`, feedback | `execute_tick`, `halt`, `reset_node`, hooks `_on_halt`, `_on_reset` | `NodeTree`, `TickMachine` |
| `SequenceNode`, `FallbackNode` (`nodes/control/`) | `_current_idx` | `tick`, `halt` | `TickMachine` |
| `ParallelNode` (`nodes/control/parallel.py`) | none of its own: its children's statuses | `tick`, `halt`, `_finish`, `_reset_children_status` | `NodeTree`, `TickMachine` |
| `ReactiveSequenceNode`, `ReactiveFallbackNode` | `_running_child_idx`, `_dirty`, `_subs` | `tick` = `_full_eval` or `_fast_tick`, `halt` | `NodeTree`, `TickMachine` |
| decorators (`nodes/decorators/`, `nodes/subtree.py`) | `_attempt` (Retry), `_start` (Timeout), `_last_tick`, `_last_status` (RateController) | `tick`, hooks | `NodeTree`, `TickMachine` |
| synchronous leaves (`nodes/leaf/action.py`, `condition.py`, `stateful_action.py`) | whether a goal is live | `tick`, `on_start`, `on_running`, `on_halted` | `TickMachine` |
| `Tree` (`core/tree.py`) | the root, queued modifications, one lock | `tick_once`, `halt_all`, `reset_all`, `queue_modification`, `hot_swap_subtree` | `TickMachine`, `TreeEdits` |
| `TreeBuilder` (`core/tree_builder.py`) | the stack of open scopes, the root | openers, leaves, `end`, `build` | `TreeBuilder` |
| `ThreadPool` (`concurrency/thread_pool.py`) | `_pending_count`, `_stopped`, one `settled` flag per submission | `submit`, `wait_all`, `shutdown` | `ThreadPool` |
| `AsyncActionNode`, `CancellationToken` | `_future` or `_thread`, `_result`, `_cancel_token` | `tick`, `_thread_body`, `_on_halt` | `AsyncAction` |
| `AsyncioBridge` (`concurrency/asyncio_bridge.py`) | the loop, its thread, `_pending_count`, `_stopped`, a `_TaskHolder` per submission | `submit`, `cancel_task`, `discard`, `task_done`, `shutdown` | `AsyncioBridge` |
| `CoroActionNode` (`nodes/leaf/coro_action.py`) | `_future`, `_orphan`, its bridge; the default bridge of the class | `tick`, `_on_halt`, `set_bridge`, `set_default_bridge` | `CoroAction` |
| `TreeExecutor` (`core/executor.py`) | `_loop_running`, `_paused`, `_loop_thread`, `_nodes_setup`, `_setup_uids`, `_thread_pool` and its owner | `tick_once`, `tick_until_result`, `start/stop_event_loop`, `shutdown`, `set_*` | `Executor`, `NodeLifecycle` |
| `Blackboard` (`blackboard/blackboard.py`) | entries, parent, remappings, callbacks, the dispatch list, one reentrant lock per scope | `set`, `get`, `entry`, `remove`, `clear`, `reset`, `subscribe`, `unsubscribe` | `Blackboard` |
| `Inspector` (`introspection/inspector.py`) | running nodes, active path, subscribers, bounded history | `on_node_tick`, `on_node_halt`, `reset`, `subscribe` | `TreeEdits`, `EventStream` |
| `ZmqPublisher` (`introspection/zmq_publisher.py`) | a bounded queue, a stop event, a thread | `attach`, `start`, `stop`, `_on_record`, `_run` | `EventStream` |
| `Logger`, `ExecutionTracer` | sinks, ring buffers | event callbacks | not modelled |
| factory, XML parser, validation | the registry, the document | `register`, `create`, `parse`, `validate` | not modelled |
| engine facade, renderer, CLI, plugin loader, test helpers, built-in leaves, clocks | - | pure I/O, formatting, forwarding, or leaves within `Outcome` | not modelled |

### How they interact

- A tick is a call stack: `Tree.tick_once()` calls the root's `execute_tick()`,
  which calls `tick()`, which calls `execute_tick()` of children, one at a time.
  There is one tick thread. `halt()` and `reset_node()` are recursive calls down
  the same tree, from inside a tick (a Parallel that decides, a Timeout that
  expires, a reactive node whose guard turned) or between two ticks.
- Blackboard writes come from any thread at any moment; a reactive node learns of
  them by a subscription callback that sets its `_dirty` flag.
- `AsyncActionNode` hands work to a `ThreadPool` (or a daemon thread) and polls it;
  a halt cancels the token and joins the work for at most `JOIN_TIMEOUT`.
- `CoroActionNode` hands a coroutine to an event loop through a bridge. The bridge owns
  the loop, or the host lends it one that it may stop and run again; the tick may itself
  come from that loop's thread, where nothing can be waited for.
- A write on a scope whose key is remapped goes to the parent scope with the child's lock held, and so
  does a read of a key the child has not; callbacks run on the writing thread and may read scopes themselves.
- Modifications of the tree are queued by any thread and applied by the next `tick_once()`, under the tree's lock.
- Every tick and halt tells the Inspector, which calls its subscribers on the ticking
  thread; the publisher's callback only puts the record on a queue for its own thread.
- The executor drives ticks by hand or in a loop thread, builds the pool lazily,
  injects it, sets nodes up before their first tick and shuts them down.

### Which behaviours are hard

1. *State that outlives its activation.* Six node classes keep state outside
   `_status`, each cleared in a different hook, and `halt()` of a node that has
   already completed calls no hook at all.
2. *Who halts whom.* A child left `RUNNING` under a parent that settled is an
   orphan: it works on, unticked. Every early exit of every `tick()` must halt
   exactly the unfinished children.
3. *Missed writes.* The reactive fast path is right only if every relevant write
   sets the dirty flag, whenever it comes.
4. *Exceptions.* One leaves every node on the call path with the status of the
   previous tick and with cursors already moved.
5. *Threads.* Work that outlasts its halt, a submission that races `shutdown()`,
   a future settled by a wrapper, a callback and a cancel.
6. *Loops that go away.* An event loop may die, stop or pause with a coroutine in it, at
   any step of the handshake that hands its asyncio Task to the holder.
7. *Nested locks.* Scopes lock each other on the way to the parent, and callbacks run under
   the locks of the scopes a remapped key went through.
8. *A tree under the knife.* A child list changes under a cursor, what is cut off keeps
   state, what is put in takes the place of something that had passed.
9. *Bounded queues.* Producer and stopper both put, both the callback and the thread take.

What makes each part correct is stated as properties, section 4; the list of
hazards with their lines is in `PROJECT.json`.

## 2. Modules

| module | contents |
|---|---|
| `NodeTree` | CONSTANTS of a tree (`Nodes`, `Root`, `Env`, `Kind`, `Kids`, `Parent`, `Under`) with their assumptions; what `halt()` and `reset_node()` do to a subtree, as sets of nodes and functions on a node's memory |
| `TickMachine` | the tick as a call stack, one action per step of a `tick()` between two calls; the caller between ticks; properties |
| `TickMachineProofs` | theorems about `TickMachine`: types, the path of suspended ticks, goals |
| `TickSafetyProofs` | the other safety properties of `TickMachine`, each as a theorem |
| `MCTickMachine` | the trees, policies and leaf outcomes of the runs |
| `ThreadPool` | the pool on its own: its actions, what `wait_all()` tells |
| `AsyncAction` | EXTENDS `ThreadPool`; the leaves, the tick thread, the daemon threads |
| `AsyncActionProofs` | theorems about `ThreadPool` and `AsyncAction` |
| `MCAsyncAction` | the instance for the run |
| `AsyncioBridge` | bridges, their loops and the submissions on them |
| `CoroAction` | EXTENDS `AsyncioBridge`; the leaves, the tick thread, the program that pins, swaps and shuts bridges down |
| `CoroActionProofs` | theorems about `AsyncioBridge` and `CoroAction` |
| `MCCoroAction` | the instance for the run |
| `NodeLifecycle` | abstract: what `node.py` promises of `setup()` and `shutdown()`, whoever calls them |
| `Executor` | the event loop against the program's thread; implements `NodeLifecycle` |
| `ExecutorProofs` | theorems about `Executor` |
| `MCExecutor` | a tree of two nodes, and what may be installed in it |
| `Blackboard` | scopes, their locks and their subscribers |
| `BlackboardProofs` | theorems about `Blackboard` |
| `MCBlackboard` | four scopes, three levels deep |
| `TreeBuilder` | the builder's stack, as part of a tree's life |
| `TreeEdits` | EXTENDS `TreeBuilder`; the built tree ticked, halted, written to, modified and inspected |
| `TreeEditsProofs` | theorems about `TreeEdits` |
| `MCTreeEdits` | the nodes of the runs |
| `EventStream` | the inspector's dispatch, the publisher's queue, its thread and the program's calls |
| `EventStreamProofs` | theorems about `EventStream` |

TLC keeps the value of a definition without parameters, but not of one that a cfg puts in the place of a constant: an
MC module therefore defines a table and then the name the cfg uses for it.

### `TickMachine` and the code

| TLA+ | code |
|---|---|
| `status[n]` | `TreeNode._status` |
| `mem[n]` | everything else a node keeps: `cursor` = `_current_idx` + 1, `running` = `_running_child_idx` + 1 (0 for None), `dirty`, `subs` (subscribed), `attempts` (Retry), `stamped` and `last` (RateController's `_last_tick` and `_last_status`); `Memory(n)` gives a node the values its class can have |
| `frame[n]`, `cur`, `ret` | the Python stack: where the suspended `tick()` of `n` is, which node runs, what was just called or returned |
| `ticked`, `fresh`, `unseen` | history: guards called in this tick; nodes that gave a result in their parent's present activation; skippable children without a result since a write that their parent was subscribed to |
| `live`, `notified` | goals of `StatefulActionNode`s between `on_start` and their end; whom the last step told `on_halted` (history) |

`Call`, `Return` and `Raise` are `execute_tick()`: a call enters `tick()`, a return
stores the status, an exception unwinds every frame and leaves the statuses as
they were. `Return(n, own, s, H, R)` is "the node's own memory becomes `own`, the
nodes of `H` are halted, the statuses below `R` are reset, status `s` is
returned": the body of a `tick()` between two calls is one such step, because the
nodes it touches are touched by the tick thread only. The one exception is a
subscription's dirty flag, which a write on another thread may set between any
two steps: the action `Write`.

`HaltSet(C)` and `ResetSet(C)` are the recursion of `halt()` and of
`_reset_subtree()` in closed form: `Turned(n, m)` says which nodes on the way from
`n` down to `m` let a halt through (a control node always does; a Parallel only to
children that are not settled; a decorator whatever its own status). They need no
recursive operator, so the module can be proved about.

Abstractions: a clock is a choice between elapsed and not elapsed (`Expire`,
`EnterRate`); a port value is read from a set of integers at each decision (the
code reads ports again on every tick); a leaf's result comes from `Outcome[n]`,
which may hold `"RAISE"`. Feedback messages, the inspector and the tracer are
left out: no decision of a tick depends on them.

### `ThreadPool`, `AsyncAction` and the code

`task[t]` follows a submission through `submit()` (`checked`, `counted`), the
executor's queue (`queued`), a worker (`running`, `ran`) to its end (`done`,
`cancelled`), or to `refused` when the executor was closed between the pool's own
test and the submission. Each access to `_pending_count` under `_pending_cond` is a
step of its own, and so is each test of `_stopped`. `waiting` is the answer of the last `wait_all()`. `Take`, `Resolve`, `Callback` and
`CancelQueued` stand for `ThreadPoolExecutor` and `Future`, which are not in this
repository; they are modelled from what the pool relies on.

`at` is where the one tick thread is: idle, inside `submit()`, or joining work in
`_on_halt()`. Jobs are named by members of `Tasks` and `Threads`; a name is used
again once nobody holds it. `answer` is what `execute_async()` came back with,
`owner` the leaf it works for. The leaves in `Stubborn` may outlast `JOIN_TIMEOUT` (`JoinTimedOut`).

### `Executor` and the code

`pc[t]` says where each thread is: the program's thread is `idle` between two calls, a
loop thread is at the `test` of its `while`, and either may be inside `_do_tick()`
(`check`, `setup` or `resetup` with a `walk` over the nodes, `ready`, `ticking`, `ticked`) or inside
`shutdown()` (`shutdown`, `closing` with a walk, `disown`). A walk visits one node per step, so that two
threads may interleave in it. `running`, `paused`, `thread`, `setup`, `uids`, `pool`, `owns`
are the attributes of the same names; `held` is the pool each node was given; `opened`, `late`
and `alive` are history. A tick is two steps, under the tree's lock; what it does inside
the tree is `TickMachine`'s business and appears here as its result: RUNNING, settled or raised.

The tree is the order of a walk over it, with the depth at which each node stands (`Depth`), so that a subtree is a stretch of the walk. A
modification replaces a subtree, inserts one as the first child of a control node (`Bearing`) or removes one; the node it installs comes with all
that is below it (`Brings`), and a replaced root takes its children with it. Decorators, which an insertion would wrap, other
places for an insertion and `hot_swap_subtree()` are in `TreeEdits`. At most `MaxMods` modifications wait at one time.

`Tree.tick_once()` applies modifications itself. Nodes it installed that way are
`late` until the next injection; the contract is checked without them, section 6 says what becomes of them.

Two constants describe the program. A `Hasty` one takes the loop for over when `is_running()` says so; the
loop clears that flag before it shuts the nodes down, so a hasty program that restarts or shuts down then works next to it
(`OneInTheNodes` fails in 13 steps). A tick with `LongTicks` outlasts the 5 s join of
`stop_event_loop()`, which goes on to shut down nodes under a running tick. Both are FALSE in the passing run and the
theorem: the program takes the loop for over when its thread has ended, as it has when
`stop_event_loop()` returns. Ticking by hand and `set_thread_pool()` are for when no loop runs; stopping, pausing and
queueing modifications are possible at any time. The tree wants a pool; `setup()` and `shutdown()` of nodes count as done when they raise, as in the code.

### `AsyncioBridge`, `CoroAction` and the code

`loop[b]` is the event loop of a bridge: `absent` before the bridge makes its own, `running`, `paused` (a lent
loop that the host has stopped and may run again, if `Resumes`) or `dead`. `task[t]` follows a submission: `queued` for the
loop; `checked` when `_runner()` has read `holder.cancelled` and not yet put its Task into
the holder, the window that `cancel_task()` may fall into; `running`; `unwinding` after a `CancelledError`
it has yet to finish with; `over`, or `stillborn` when it ended before the holder had it. `flagged`, `settled` are the
holder's flags, `resolved` the Future's. The steps of one loop exclude each other, those of other threads do not.

`at` is where the tick thread is: between `_ensure_bridge()` and the use of the bridge (it may die in between),
in the grace wait of `_on_halt()`, or in the join of the old coroutine. `ticker` is the bridge whose loop thread
ticks, `None` for a thread of its own. `owner` and `dropped` are history: whose coroutine it is, and whether its leaf gave up
the only handle to it. asyncio's Task and the loop are not in this repository; they are modelled from what the bridge relies on.
The cancellation token is left out: a coroutine may end at any step. The program may shut any bridge down at any time, and clear or replace the
default once no leaf uses one that still accepts work, which is what `shutdown_default_bridge()` does (`SetDefault`). Only with `Swaps` does it
change a default that is in use, or in the middle of a tick.

### `Blackboard` and the code

A call is a walk through scopes: `at[t]` says which scope thread `t` has come to, for which key, and which callbacks it
has yet to run. What a call does under one scope's lock is one step, since nothing of it shows before the lock is
released; `lock` is held across steps where the code holds it (a remapped write into the parent, an
inherited or remapped read). Callbacks run one per step, with those locks held through which the write came; `Looks[c]` is a scope the callback reads,
for which it waits like any other reader.
`Weak` subscriptions are bound methods: their owner may be collected at any time (`Collect`), after which the next
dispatch reaps them. History records, the port schema and the snapshot flag are left out: no modelled call reads them.

### `TreeBuilder`, `TreeEdits` and the code

`stack` is `_stack`, `kids` every node's children, with the placeholder child of a new decorator as `Hole`. A caller may
go on after a call that raised, which is when the stack and the tree can come apart. Once `build()` has returned, `TreeEdits` takes
over: one step is one hold of the tree's lock. A tick is one step in which each leaf, action or condition, gives any of the three statuses and none raises; `TickMachine` takes the tick apart, exceptions
included, on a tree that stays.
`Results` is what each node would answer if it were ticked, from the leaves up; `Stop` is the child at which a node's loop ends, and with it go
the children it ticks (`Ticks`), those it halts (`Drops`) and where it is afterwards (`PlaceAfter`). Since no node is ticked twice in a
tick, and none is ticked after it was halted, `Ticked` may take all the answers first and all the halts last.

`place` is a node's cursor, `shown` the Inspector's `_running_nodes`, which are also the keys of its `_active_path`. Queued modifications are applied by
`Apply`, the first half of `tick_once()`, in order, each with its halts. `passed` and `heirs` are history: which children
passed in the activation, which were put in the place of one that had. `Below`, `Results` and `Edited` are recursive functions, not
operators, so that the module can be proved about. The nodes that a caller made without the builder are trees already (`PreparedAssumption`), as
their constructors see to, unless the caller puts one node in two places.

### `EventStream` and the code

A record is its number. `ticker` is where `on_node_tick()` is in the publisher's callback (`put`, `drop`, `again` are the three
accesses of the queue in `_on_record()`), `thread` where `_run()` is, `caller` where the program is in `stop()`. The callback list is
copied under the inspector's lock, so a record whose dispatch has begun arrives after `unsubscribe()`. A bind may fail; a send may be
refused, or end the thread (any other error of the socket, or a record that `json.dumps()` does not take). The join in `stop()` is taken to last until the thread has ended: bind and a send that does not block take far less than its
three seconds.

## 3. Runs

All bounds are in the `.cfg` files. Runs check for deadlock but for those whose program may
rightly stop: `CoroBridge` (every bridge is shut down), `EventStream` and `DocStopReturns` (the calls and ticks are used up).

| run | instance | what it shows |
|---|---|---|
| `TickControl` | `ControlTree`, 18 nodes: a Fallback of a Sequence (Retry over Timeout, ForceFailure) and a waiting-for-all Parallel (Sequence with a RateController, inner Parallel that goes by its thresholds over a SubTree with a ReactiveSequence and a ForceSuccess); the caller may halt between ticks, keys are written at any step | sequencing, orphans, cleaning after a decision, halts that reach exactly the live goals, policies and thresholds, and no write forgotten by the fast path |
| `TickDecides` | `LiveTree` under fairness, no caller but the tick loop | the tree leaves `RUNNING` |
| `TickFaults` | `FaultTree`: a ReactiveFallback over a ReactiveSequence with two guards and a Parallel; leaves may raise, halts, resets, writes, a budget of zero | guards run in every tick; statuses, goals and subscriptions survive exceptions |
| `AsyncPool` | one pooled leaf whose work may outlast its halt, one leaf with a thread; one worker, two submissions | results, what `wait_all()` tells, what is called off and what is joined, shutdown, and every leaf settles (fair) |
| `ExecutorLoop` | a root and a child; a node, or a root with that node below it, may come, and children may be removed; one modification waits at a time; two loop threads, two pools of its own and one of the caller's | setup and shutdown contract (as a refinement of `NodeLifecycle`), one thread in the nodes, no pool leaked or used after its end, `stop_event_loop()` returns (fair) |
| `CoroBridge` | one leaf, pinned to its own bridge or on the default, a bridge with a loop of its own and a lent loop that may pause, ticks from a thread or from that loop, two submissions | the count against the work, no coroutine lost from view, no second copy, no foreign answer, and the leaf settles whatever becomes of the loops (fair) |
| `Scopes` | a root, a scope that writes through to it, one that writes through both, and one that only inherits; two threads, two values; a subscriber held strongly that reads the inheriting scope, one held weakly that reads the root | calls act at one moment, dispatch is the table, nobody misses a write, no deadlock with two locks held while callbacks run and reads waiting both ways |
| `LiveTree` | every tree a caller can build from a Sequence, a ReactiveFallback, an Inverter and an action; a condition to install; two modifications | it stays a tree, results are honest, what is cut off is at rest, the Inspector sees what runs |
| `EventStream` | a queue of three, eight records, two calls of `stop()` | order, the newest record's place, and `stop()` ends the thread (fair) |
| `Doc*` | small instances | disagreements with the documentation, section 6 |

*Why these bounds.* A property of the control nodes relates a node, two of its
children and what is below them; the parent-child pairs of kinds that keep
state occur in some tree, and each node is activated again and again, so that an
activation meets what any earlier one left. Thresholds range over -1 (the
default: all), 0, in-range, and 9 (above the number of children); budgets over 0, 1
and 2 (the first attempt, the last, and one between). With one worker and two submissions a
submission can be queued behind abandoned work, which is the interesting case
for a halt; the thread leaf is kept out of `Stubborn`, where `OwnAnswer` holds (section 6 says what happens otherwise). Two coroutines
are the old one and its replacement; one leaf has all its own state, and leaves share only the bridges. Two threads and
three levels of scopes give every order of two lock holds and every mixture of a climbing read with a
write and a removal; the key has the same name in all scopes. A circle needs locks that are held while something else is waited for: in `Scopes` a write holds two, a read one, and
callbacks wait under both; a circle does form where a callback reads a scope that
another write comes through (`DocCallbackDeadlock`, on the same scopes). `MaxMods` is 1 in `ExecutorLoop`: two at a time make the run
five times as long; several in one tick are in `LiveTree`, and the proofs are for any number. In `LiveTree` two modifications are a change and one that meets what it left; `Indices` has a valid
place and, in lists of one child, one beyond the end. A queue of three can be full, refilled while the thread sends, and hold
what an earlier `stop()` left behind.

*Fairness.* `TickMachine!Fairness`: the tick loop goes on (the executor's loop or
`tick_until_result()`), a `tick()` that was entered returns, and of the choices that a clock
or a callable makes, those that end a wait are taken if they are possible again
and again (a leaf that is polled for ever settles, a rate period elapses). These
are what the engine is told to rely on: it has no other way to finish.
`Decides` is checked without writes: a key written in every tick can make a reactive node
re-evaluate, and halt, for ever, which the design accepts.
`AsyncAction!Fairness`: workers take queued work, `execute_async()` ends, calls
return, and a leaf that stays RUNNING is polled again and again, whatever other
leaves the same thread serves in between (strong fairness). Nobody is obliged to call
`halt()`, `wait_all()` or `shutdown()`.
`Executor!Fairness`: a thread that is inside a call goes on, and a tick ends. The program need not call anything.
`CoroAction!Fairness`: a leaf is polled as long as ticks come, a call in progress goes on, and the loops make progress on some
coroutine if they can again and again (strong, for all coroutines together: a host may pause a lent loop in between). Hosts
need not resume a loop; `CoroSettles` excepts a leaf whose ticks come from a loop that stays paused.
`EventStream!FairSpec`: each of the three threads goes on unless its queue or its join makes it wait.

*Constants that describe the program.* `Hasty`, `LongTicks` and `Swaps`, as said in section 2. All are FALSE in the passing
runs; with `Swaps` a RUNNING leaf may ask the wrong bridge about its Future and `CoroSettles` fails (section 6).

## 4. Properties

Of the tick (`TickMachine`):

- `NoOrphan`: whenever a node's `tick()` is not on the stack, a RUNNING child has a RUNNING parent:
  nothing works on under a parent that has settled or was halted.
- `PassedByAll`: a Sequence that answers SUCCESS (a Fallback FAILURE) passed each child in
  this activation: none is IDLE or has another result.
- `LeavesNothing`: below an IDLE node, and below a Parallel that has decided, every node is IDLE and keeps no
  cursor and no subscription.
- `NoLeakedSubscription`, `GuardsEveryTick`, `WriteReEvaluates`: the reactive nodes' contract: no subscription outlives the
  activation, guards run in each tick, a write that finds the node subscribed is never forgotten (of one that comes earlier nothing is said, section 6).
- `GoalsTracked`, `HaltedWasRunning`: `on_start` and `on_halted` pair up with the status.
- `SettledOnce`: a child that settled is not ticked again in its parent's activation.
- `PolicyKept`: a Parallel succeeds with the number of successes that its policy and port ask for and not without; it fails without them, once the failures are
  fatal or nothing is left to wait for; it is RUNNING only while a child is. Under wait-for-all it decides when all have settled, and not before. What is asked for is taken from
  the port's documentation and not from `_effective_thresholds()`, whose clamping the property is there to judge.
- `Decides`: a RUNNING tree eventually is not.

Of the pool and the asynchronous leaves:

- `WaitAllTells`: `wait_all()` answers True only when no work is still to come or under way, and False only when some is, or when the
  executor has refused a submission that was counted. That exception is a fault of the code, section 6.
- `NoneForTheHalted`: no worker starts work whose leaf was halted since it was submitted.
- `NothingLeftBehind`: a leaf at rest has no work in the queue, and none that nobody will join but for what outlasted its halt.
- `OwnAnswer`, `Settles`: a leaf settles, with the answer of the work that this activation started.

Of the executor: `OneInTheNodes` (no two threads set up, tick or shut down nodes), `PoolIsAlive`, `NoPoolLeaks`, `AllClosed`,
`KeepsLifecycle` (the refinement), `StopReturns`.

Of coroutine leaves:

- `BridgeCounts`: `pending_tasks()` is no less than the work the loop has yet to do, but for what a tick gave up when it found the loop stopped; and no more than the Futures
  that are not done, so that no count is kept for work that is over. On a loop that died, what a tick gave up is not counted either. That a tick gives up work that goes on, and that a halt on a dying loop leaves its
  count behind, are faults of the code, section 6.
- `NothingUnseen`: a coroutine that has begun is polled by its leaf, is the orphan that keeps the leaf from starting another, or its loop went down.
- `OneCopy`: no two coroutines of a leaf have begun and not ended.
- `OwnCoroutine`: a RUNNING leaf polls the Future of this activation, and succeeds only with its answer.
- `CoroSettles`: a leaf does not stay RUNNING for ever, whatever becomes of its loop.

Of the blackboard:

- `ActsAtOnce`: a call acts at one moment, on the key that remapping and inheritance make of the one it was asked for.
- `CacheIsTable`, `NobodyMissed`: the cached dispatch list is the table; who has not heard of a write is about to.
- `NoDeadlock`: threads do not wait for each other's scopes in a circle, those that run a callback included; and no thread that is outside of the blackboard holds a lock.

Of the tree that is built and modified: `OneTree`, `AllPassed`, `DetachedAtRest`, `LiveView`, and `EditsTypeOK`, which
says that no cursor is left beyond the children.

Of the stream: `SentInOrder`, `NewestKept`, `ThreadEnds`.

Each is stated in words above its definition, and each has a mutant in `PROJECT.json`: a plausible slip in the code that breaks it.
`AsyncTypeOK`, `CoroTypeOK`, `BoardTypeOK`, `StreamTypeOK` and the executor's `TypeOK` give the types of the variables to the reader; all are parts of proved invariants.

## 5. What is proved

`TickMachineProofs` holds for every finite tree of every shape, all policies,
thresholds, budgets and leaf outcomes, exceptions included. It assumes only the
tree's shape: `NodeTree`'s assumption on its constants, which TLC evaluates for the
trees of the runs.

- `TypeCorrect`: `Spec => []TypeInv`. `TypeOK` alone is not inductive: that a returned status is
  handled by a node's parent needs to know that the parent is suspended on the stack, at a child
  it really has. `TypeInv` adds that: the nodes whose `tick()` is suspended form one path from
  the root to the parent of the node in control, every frame inside its node's list of children.
- `TypeOKHolds`: `Spec => []TypeOK`, from it.
- `GoalsTrackedHolds`: `Spec => []GoalsTracked`: the live goals are exactly the RUNNING
  `StatefulActionNode`s. The step that matters is a halt: `HaltSet` and `ResetSet` reach the status and the goal of
  the same nodes.

The argument has one lemma per group of actions, each saying that the step is a
call, a return or a raise with arguments of the right type, and one lemma for each of those.

`TickSafetyProofs` proves every other safety property of the tick, for the same trees. Three rest on the shape of the tree alone, so exceptions,
halts, resets and budgets of zero are included: `GuardsEveryTickHolds`, `PolicyKeptHolds` (for every set of integers that the two threshold ports may
hold, any policy and any number of children), `NoLeakedSubscriptionHolds`. The others need what section 6 says they need:
`HaltedWasRunningHolds` a caller that does not `reset_all()`; `NoOrphanHolds`, `SettledOnceHolds` and `WriteReEvaluatesHolds` `Calm` leaves, which do not raise,
under `Retry` nodes with positive budgets (and `WriteReEvaluatesHolds` is about writes that find the node subscribed); `LeavesNothingHolds` and `PassedByAllHolds` both. `TickControl`, the run that checks these, is such an instance.

The argument has three layers.

1. `PathCorrect`: the nodes on the stack are the ancestors of the one in control, each suspended node is at the child that it called, and its memory agrees with the place
   in its `tick()`. From it follow the *situations* a step can start from (a call of a child, its answer, an expired clock, a step of the caller), and what each class
   of nodes does in each: one lemma per class and situation says whom it halts, whom it resets, what it remembers and what it answers.
2. One invariant per property, over nodes off the path and over each suspended node: `RunInv` (a RUNNING node has a RUNNING or suspended parent, at most one child of a node
   that is not a Parallel works, and it is the one remembered), `OwedInv` (no child that settled in this activation is ahead of the cursor), `SeenInv` (while a node is
   subscribed and not dirty, everything before the child it waits for has answered since the last write), `QuietInv` (below an IDLE node nothing is left), `DoneInv` (what is
   behind the cursor passed). Each is preserved by the situations of layer 1, class by class.
3. What is true of every child of a node is true of all below it. Induction over an operator is out of the provers' reach, so it is done on sets: among the nodes
   of a finite tree where a claim fails there is a topmost one (`Topmost`, from the well-foundedness of the naturals), and its parent refutes it (`DownToAll`).

`AsyncActionProofs` holds for any number of leaves, submissions and workers:

- `AsyncInvariant`: `Spec => []IInv`. `IInv` has the count of the pool (a submission is counted from `submit()` to the first of its three ends, and the `settled` flag says that one of them took it back),
  and for each leaf which work is its own, when a token is cancelled, and what the tick thread is about to do. A count can only be kept for a finite set of submissions: one is taken at a time.
- `WaitAllTellsHolds`, `NoneForTheHaltedHolds` and `NothingLeftBehindHolds`, from it, with no further assumption. The first needs the counts: the number is zero exactly when no submission is
  counted, and those that are counted are still to come, under way, about to be settled or refused.
- `OwnAnswerHolds`, when `Stubborn` leaves (whose work outlasts the join of their halt) run it in the pool: a thread that was given up answers for the next activation, section 6.

`CoroActionProofs` holds for any number of bridges, own and lent, leaves and submissions:

- `BaseInvariant` and `OwnCoroutineHolds`, whatever the program does with its bridges.
- `CoroInvariant`, `BridgeCountsHolds`, `NothingUnseenHolds`, `OneCopyHolds` and `CoroTypes`, without `Swaps`. The strengthening says that a Future that is not done is on the bridge its leaf
  will ask about it, and follows each submission through the window in which `cancel_task()` finds no Task. `BridgeCounts` needs two parts that speak of loops: only an own one dies and only a lent one
  pauses (`LoopInv`), and what is no longer counted has resolved or was given up (`GivenUpInv`).

`ExecutorProofs` holds for any tree, any number of loop threads and pools:

- `ShapeHolds` and `TypeOKHolds`: types, for every program, `Hasty` and `LongTicks` included, any number of modifications and whatever they bring: no replacement, insertion or removal of a subtree leaves
  the tree empty or with anything but nodes in it, or leads a walk out of it (`Spliced`, `ModifiedIsTree`, `AppliedIsTree`).
- `NoPoolLeaksHolds`: `Spec => []NoPoolLeaks`, for the same programs. It becomes inductive with one more conjunct: without a pool there is none to own.
- `OneInTheNodesHolds`: for a `Patient` program (neither `Hasty` nor `LongTicks`), `Spec => []OneInTheNodes`. The strengthening, `ThreadInv`, is that a loop
  thread that is not over is the one `_loop_thread` names, and that the program is then between two calls or in the
  join: so the program alone is inside a tick or `shutdown()` only when no loop thread is left.
- `PatientInvariant`: for a `Patient` program, `ThreadInv` together with which pool a tick in progress has given to the nodes, and how far each node is between `setup()` and `shutdown()`. From it
  `PoolIsAliveHolds`, `AllClosedHolds` and `KeepsLifecycleHolds`: the executor implements `NodeLifecycle`, by one lemma for the steps of a tick and one for those of `shutdown()`; all others
  stutter.

`EventStreamProofs` holds for a queue of any length, any number of records and of stops:

- `StreamInvariant`: `Spec => []IInv`. The order of what is sent is not inductive by itself: `IInv` says that the queue, sentinels
  apart, is in the order of the ticks, after the record the thread holds and the last one sent, and before the one the callback holds.
  One lemma for each thing a step does to the queue (nothing, `Tail`, `Append`), and one case per action.
- `NewestIsKept`: `Spec => []NewestKept`, and `SentAscending`: `Spec => SentInOrder`, from it.

`BlackboardProofs` holds for every tree of scopes, every remapping and any number of threads, subscribers and values; it assumes
`ScopeAssumption` and `SubAssumption`, the shape of the constants:

- `BoardInvariant`: `Spec => []IInv`. `CacheIsTable` and `NobodyMissed` become inductive together with the types and with `InCall`: a call in
  progress is at a key of a scope, and only a `set()` that has written has callbacks left to run. Without the latter a `set()` about to write could
  replace callbacks that it still owes to a subscriber.
- `CacheIsTableHolds` and `NobodyMissedHolds`, from it. A callback list is taken from the cache, so the second needs the first.
- `ActsAtOnceHolds`, in every forest of scopes (a `Depth` that a parent has less of; the code builds scopes only under existing ones). The invariant, `OnTheWay`: behind a call that has not acted yet there is a set of
  keys that leads from the one asked for to the one it has come to, each locked by the thread, each still redirected or still unset. A lock holder's store is its own (`LockKeeps`), so nobody can
  take that back. `Home` and `ValueOf` are recursive functions: that they exist in a forest (`ClimberExists`) is a proof of its own, by least depth.
- `NoDeadlockHolds`, in every forest of scopes, for callbacks that read a scope at least as high as the one they listen to, or one a level below it which remaps no key. A thread in a call
  is strictly above every scope it has locked (`LocksBelow`), and only a `get()` locks a scope that remaps nothing (`LocksByRemap`). So a thread that waits is further from the end of its call
  than the one it waits for, where running callbacks counts as half a level: of the threads of a circle, the one nearest to its end would wait for one nearer still. Section 6 has the callbacks that are
  excluded, and the circle they make.

`TreeEditsProofs` holds for any set of nodes of the modelled kinds, any program of the builder's caller, any prepared subtrees, and any number
of modifications, queued together or one by one; it assumes the shape of the constants (`BuilderAssumption`, `PreparedAssumption`, `EditsAssumption`). All five
invariants that `LiveTree` checks are parts of one inductive invariant, `EditsInv` (`EditsInvHolds`), and become the theorems `EditsTypeOKHolds`, `OneTreeHolds`,
`AllPassedHolds`, `DetachedAtRestHolds` and `LiveViewHolds`. None of them is inductive alone, and each needs the next:

- *Shape* (`KidsOK`, `RootOK`, `IsNew`): the children of all nodes, in the tree or not, form a forest, and what waits in the queue to be installed is the
  root of a whole tree of its own, installed by one modification only. Without the latter the second of two modifications could put a node in two places. While the tree is built, the
  same is said of the open scopes and of the nodes not yet added (`BuilderOK`): a scope without its placeholder filled is nobody's child.
- *Rest* (`PlaceOK`, `RestOK`, `IdleOutside`): only a RUNNING node remembers a child, and nothing outside the tree is RUNNING.
- *Waiting* (`WaitBut`): what is RUNNING below a node is the child that it waits for. So a tick, which visits that child, leaves nothing RUNNING where it does
  not come (`RunningWasTicked`), and a halt of what it drops reaches the rest.
- *Honesty* (`DoneOK`): what a node has behind its cursor, or all its children once it has its passing answer, passed or took the place of what passed. An
  insertion or a removal would shift this, which is why the code halts the parent there.
- *View* (`ViewOK`, `ViewFull`): what is shown is RUNNING, and all that is RUNNING is shown unless the Inspector was reset since the last tick.

The lemmas follow the code: what is below a node (`UnderLeast`, `UnderStep`, by least closed sets), what a halt does (`HaltedOK`), one lemma per modification
(`SwappedRoot`, `SwappedInside`, `InsertedControl`, `InsertedDecorator`, `RemovedOK`), all of them in a row (`EditedOK`, by the least number of them that fails), a
tick (`TickedOK`) and one per action. `Results` and `Below` are recursive functions on a forest: that they exist is proved (`AnswersExist`, `BelowEquation`), by a minimal node
where they would not.

*Only model-checked*, on the instances of the runs: the liveness properties `Decides`, `Settles`, `StopReturns`, `CoroSettles` and `ThreadEnds`, which are beyond the prover.

Some definitions changed on the way, none in what TLC finds: alternatives of a `CASE` in `TickMachine!Wrapped` overlapped, which leaves the choice open in TLA+ although TLC takes the first;
`SUBSET Threads \ {{}}` in `NoDeadlock` needed parentheses to mean one thing to every tool; `NodeTree` now says that a tree is finite; `TreeEdits` walked its tree with a recursive
operator that did ticks and halts as it went, and now takes the answers first. That what a caller prepares without the builder is a tree used to be so in the run only; it is an assumption now.

## 6. Where the code and its documentation disagree

Each `Doc*` run finds a behaviour of the code that a comment or a document rules out.

- `DocCallbackDeadlock`: callbacks of the parent scope run under the locks of the scopes that the write came through. One that reads another scope below waits for a thread that writes through
  it, and that thread waits for a lock which the first write holds (`blackboard.py:219`, against `:404` "Callbacks are invoked after the write lock is released"). Two callbacks that read each
  other's sibling scope do the same.
- `DocReplaceHalts`: `_replace_in_subtree()` does not halt the parent, whose cursor then counts the new child as passed: a Sequence
  answers SUCCESS for a child that was never ticked (`tree.py:271`, `:278`). `AllPassed` takes such heirs at their word.
- `DocStopReturns`: `stop()` of a publisher waits for ever when its thread saw the stop event with the queue full: the thread leaves
  without draining it and the sentinel never finds room (`zmq_publisher.py:75`). The same happens when the thread was never started or could not bind, once the queue is full.

More were met while modelling. They are left out of the passing runs by the constant, guard or exception named.

*Tick.*
- A write between the evaluation of a child and the subscription sets no flag, and the fast path misses it (`reactive_sequence.py:92`, against `:55`
  "A blackboard write sets the dirty flag and the next tick re-evaluates"); `WriteReEvaluates` speaks of writes under a subscription.
- `_full_eval()` clears the dirty flag before it ticks the children (`reactive_sequence.py:79`): after an exception the node is still subscribed, the flag is gone, and
  the write is forgotten. `WriteReEvaluates` fails in `TickFaults`' instance, so it is checked with leaves that do not raise.
- Only scopes of the subtree are subscribed (`reactive_sequence.py:176`): a write to an inherited or remapped key in the parent scope does not dirty the node.
- `reset_node()` leaves a Sequence's cursor where it was (`node.py:228` "from scratch"), and calls `on_halted` on actions that are not
  RUNNING (`stateful_action.py:44` "was RUNNING"), so `HaltedWasRunning` is checked without `reset_all()`.
- After an exception `halt_all()` can miss a RUNNING leaf below an IDLE child of a Parallel (`tree.py:212`).
- A RateController that completed replays its cache into the next activation (`rate_controller.py:73`), or answers IDLE, a TypeError, after an exception.
- `Retry.tick()` leaves its child RUNNING when the budget read on this tick is not positive
  (`retry.py:64`; `node.py:461` says a settled branch has no tip), so `NoOrphan` is checked with
  positive budgets, and, since an exception also leaves RUNNING siblings behind, with leaves that do not raise.

*Asynchronous leaves.*
- A `submit()` that has been counted when `shutdown()` closes the executor is refused there, and nobody takes the count back: `wait_all()` answers False for ever, with nothing left
  to wait for (`thread_pool.py:69`, against `:89` "Returns True if all tasks completed, False if timeout expired"). Without the words about it `WaitAllTells` fails.
- A thread that outlived its halt answers for the next activation (`async_action.py:55`), which also resets the token that the abandoned work still polls
  (`async_action.py:58`; `docs/recipes/async-action.md:51`). An `execute_async()` that returns `RUNNING` leaves its node
  RUNNING for ever (`async_action.py:183` "never stays RUNNING"): `Raw` leaves that value out.
- A lent loop that stops for a moment makes the leaf give its Future up without an orphan (`coro_action.py:91`); when the loop runs again the coroutine
  resumes next to its replacement, against `coro_action.py:85` "never run two copies". `OneCopy` excepts coroutines that were dropped so.
- A halt during which the loop dies drops the Future without `discard()`, and the count of that bridge stays up (`coro_action.py:178`, against
  `asyncio_bridge.py:252` "Without this the pending counter would stay high forever"). `BridgeCounts` asks only that what a tick gave up is not counted.
- A tick that finds its bridge unusable settles the submission, although a lent loop goes on with the coroutine: `wait_all()` does not wait for it (`coro_action.py:98`, against
  `asyncio_bridge.py:280` "Block until all currently-submitted coroutines complete"). `BridgeCounts` excepts what was given up so.
- `tick()` asks twice whether its bridge is alive. If the default is shut down and cleared between the two, the leaf goes on with the old Future and asks the new bridge about it: when the
  old loop stops, it is RUNNING for ever (`coro_action.py:81`, against `:91` "fail instead of ticking RUNNING forever"). So does `set_default_bridge()` under a RUNNING leaf, at any time, and `discard()` then
  counts down on the wrong bridge. `Swaps` is FALSE.

*Executor and tree.*
- A node queued before the first tick is installed after `_setup_nodes()` and ticked without `setup()` (`executor.py:342`, against `:348` "that promise has to hold for hot-swapped subtrees too");
  so is one that is queued between the executor's look at the queue and `tree.tick_once()`. `NodeLifecycle` sees such a node from the next injection on.
- Nodes replaced at run time or by `set_tree()` never get `shutdown()` (`executor.py:434`; `node.py:254` "Pair with shutdown()"); `NodeLifecycle` speaks of
  the nodes of the tree.
- An exception in a `halt()` while modifications are applied loses the remaining ones (`tree.py:180`).
- `docs/advanced/runtime-modification.md` lists types `ADD_CHILD` and `REMOVE_NODE` that do not exist.
- The builder lets a decorator be given two children and keeps the last (`tree_builder.py:247`), lets a second top-level node replace the root, and `end()` on a decorator
  without a child takes its scope off before it raises.

*Blackboard.*
- `remove()` and `clear()` do not mark the scope as written since the last snapshot (`blackboard.py:385`).

*Observers.*
- `active_path()` is in the order in which nodes became RUNNING, which is leaf first, not root to leaf (`inspector.py:68`, `:201`); `reset_node()` tells no inspector.
- `set_inspector()` with a second inspector unsubscribes the logger's old id from the *new* inspector (`executor.py:486` "Remove previous subscription"): the old subscription stays,
  so that switching back logs twice, and the id may be another subscriber's on the new one.
- A `stop()` whose thread left on the event leaves its sentinel in the queue; the next `start()` takes it and its thread ends at once. Records left in the queue are sent then.
- `docs/advanced/zmq-streaming.md` describes fields, options and multipart messages that the publisher does not have.

## 7. Not modelled, and why

- *Factory, XML parser, validation, engine facade*: they turn a document into a tree before the first tick, sequentially, by conversions of text; what they build is within
  the trees that `NodeTree`'s assumption and `TreeBuilder` admit.
- *Logger sinks, execution tracer, renderer, command line, plugin loader*: formatting and I/O. As subscribers the first two are callbacks
  that the Inspector calls as it calls the publisher's.
- *Clocks, built-in leaves, test helpers*: `Expire`, `EnterRate`, `ReplayRate` and `Outcome` stand for them.
- *In modelled components*: metrics, ports and their conversions, feedback, the ring buffers and statistics of the Inspector, the blackboard's history and port schema, the EventBus,
  `set_tree()` while a loop runs, `halt_tree()` and `reset_tree()` of the executor.

Left to do: a subscription of `TickMachine` to
several scopes of `Blackboard` would compose the two; `AsyncAction` is a leaf of `TickMachine` whose outcome is RUNNING until its job ends.
