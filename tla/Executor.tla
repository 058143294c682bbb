------------------------------ MODULE Executor ------------------------------
(***************************************************************************)
(* TreeExecutor of src/bteng/core/executor.py: the event loop in threads   *)
(* of its own, against the thread of the program that starts, stops and    *)
(* shuts down, ticks by hand, and queues modifications of the tree.  What  *)
(* a tick does inside the tree is left to its result.                      *)
(***************************************************************************)
EXTENDS Naturals, Sequences, SequencesExt, FiniteSets

CONSTANTS
    Nodes,      \* nodes of the tree, or that may be installed in it
    Planted,    \* the nodes of the tree that set_tree() gave, root first
    Depth,      \* how far below the root each node stands, or would
    Brings,     \* the walk over the subtree a node is installed with
    Bearing,    \* the control nodes: those that take children
    MaxMods,    \* modifications that may wait at one time
    Loops,      \* loop threads that may exist at one time
    User,       \* the program's thread
    OwnPools,   \* ThreadPools the executor may have at one time
    GivenPools, \* ThreadPools of the caller
    None,
    LongTicks,  \* a tick may outlast stop_event_loop()'s join
    Hasty       \* the program goes by is_running() alone

ASSUME ExecutorAssumption ==
    /\ Planted \in Seq(Nodes) /\ Planted # <<>> /\ IsInjective(Planted)
    /\ Depth \in [Nodes -> Nat] /\ Bearing \subseteq Nodes /\ MaxMods \in Nat
    /\ Brings \in [Nodes -> Seq(Nodes)] /\ \A n \in Nodes : Brings[n] # <<>>
    /\ User \notin Loops
    /\ OwnPools # {} /\ OwnPools \cap GivenPools = {}
    /\ None \notin OwnPools \cup GivenPools
    /\ None \notin Loops /\ None \notin Nodes
    /\ LongTicks \in BOOLEAN /\ Hasty \in BOOLEAN

Threads == {User} \cup Loops

VARIABLES
    running,    \* _loop_running
    paused,     \* _paused
    thread,     \* _loop_thread
    tree,       \* the nodes of _tree, in the order of a walk
    mods,       \* _tree._pending_mods
    late,       \* history: nodes Tree.tick_once() installed, not injected since
    setup,      \* _nodes_setup
    uids,       \* _setup_uids
    opened,     \* history: calls of a node's setup() since its last shutdown()
    pool,       \* _thread_pool
    owns,       \* _owns_thread_pool
    held,       \* the pool each node was given
    alive,      \* the executor's own pools that are not shut down
    final,      \* _final_status is set
    pc,         \* where each thread is
    walk,       \* the nodes its walk has yet to visit
    result      \* what its tick gave

treeVars == <<tree, mods, late>>
nodeVars == <<setup, uids, opened>>
poolVars == <<pool, owns, held, alive>>
loopVars == <<running, paused, thread, final>>
vars == <<treeVars, nodeVars, poolVars, loopVars, pc, walk, result>>

Places == {"idle", "join", "check", "setup", "resetup", "ready", "ticking", "ticked",
           "shutdown", "closing", "disown", "test", "callback", "ended"}

Kinds  == {"replace", "insert", "remove"}

InTree == ToSet(tree)
Go(t, where) == pc' = [pc EXCEPT ![t] = where]
Walk(t, where, nodes) == Go(t, where) /\ walk' = [walk EXCEPT ![t] = nodes]

\* The status of a tick is local to the call that asked for it.
Forget(t) == result' = [result EXCEPT ![t] = "None"]

\* _inject_thread_pool() over the nodes of a tree.
Inject(nodes, p) == held' = [n \in Nodes |-> IF n \in nodes THEN p ELSE held[n]]

Init ==
    /\ running = FALSE /\ paused = FALSE /\ thread = None /\ final = FALSE
    /\ tree = Planted /\ mods = <<>> /\ late = {}
    /\ setup = FALSE /\ uids = {} /\ opened = [n \in Nodes |-> 0]
    /\ pool = None /\ owns = FALSE /\ alive = {}
    /\ held = [n \in Nodes |-> None]
    /\ pc = [t \in Threads |-> IF t = User THEN "idle" ELSE "ended"]
    /\ walk = [t \in Threads |-> <<>>]
    /\ result = [t \in Threads |-> "None"]

(***************************************************************************)
(* _do_tick(), in any thread.                                              *)
(***************************************************************************)
\* The threads that hold the tree's lock.
Ticking == {t \in Threads : pc[t] = "ticking"}

\* A pool that is not in use stands for the one built now.
NewPool == CHOOSE p \in OwnPools : p # pool

\* The first tick: _ensure_thread_pool(), then _setup_nodes().
FirstTick(t) ==
    /\ pc[t] = "check" /\ ~setup
    /\ IF pool = None
       THEN /\ pool' = NewPool /\ owns' = TRUE
            /\ Inject(InTree, NewPool)
            /\ alive' = alive \cup {NewPool}
            /\ late' = {}
       ELSE UNCHANGED <<poolVars, late>>
    /\ Walk(t, "setup", tree)
    /\ UNCHANGED <<tree, mods, nodeVars, loopVars, result>>

\* The last place of the subtree at place i of a walk: none further down is deeper.
SubtreeEnd(nodes, i) ==
    LET S == {j \in i..Len(nodes) : j = Len(nodes) \/ Depth[nodes[j + 1]] <= Depth[nodes[i]]}
    IN  CHOOSE j \in S : \A k \in S : j <= k

\* The walk with subtree in the place of the one at i, if any goes.
Replaced(nodes, i, subtree) ==
    SubSeq(nodes, 1, i - 1) \o subtree \o SubSeq(nodes, SubtreeEnd(nodes, i) + 1, Len(nodes))

\* The walk with subtree as the first child of the node at i.
Inserted(nodes, i, subtree) ==
    SubSeq(nodes, 1, i) \o subtree \o SubSeq(nodes, i + 1, Len(nodes))

\* _apply_modification(): one whose target is not in the tree is ignored, and so
\* are an insertion into a leaf and the removal of the root.
Modified(nodes, mod) ==
    IF \E i \in DOMAIN nodes : nodes[i] = mod.at
    THEN LET i == CHOOSE i \in DOMAIN nodes : nodes[i] = mod.at
         IN  CASE mod.kind = "replace" -> Replaced(nodes, i, Brings[mod.new])
               [] mod.kind = "insert" /\ mod.at \in Bearing -> Inserted(nodes, i, Brings[mod.new])
               [] mod.kind = "remove" /\ i > 1 -> Replaced(nodes, i, <<>>)
               [] OTHER -> nodes
    ELSE nodes

\* The tree after the pending modifications, in the order they were queued.
Applied ==
    LET after[k \in 0..Len(mods)] ==
          IF k = 0 THEN tree ELSE Modified(after[k - 1], mods[k])
    IN  after[Len(mods)]

\* A later tick with modifications: apply, _reinject_all(), _setup_nodes().
TickWithMods(t) ==
    /\ pc[t] = "check" /\ setup /\ mods # <<>> /\ Ticking = {}
    /\ tree' = Applied /\ mods' = <<>>
    /\ late' = late \ ToSet(Applied)
    /\ IF pool = None THEN UNCHANGED held ELSE Inject(ToSet(Applied), pool)
    /\ Walk(t, "resetup", Applied)
    /\ UNCHANGED <<nodeVars, pool, owns, alive, loopVars, result>>

PlainTick(t) ==
    /\ pc[t] = "check" /\ setup /\ mods = <<>>
    /\ Go(t, "ready")
    /\ UNCHANGED <<treeVars, nodeVars, poolVars, loopVars, walk, result>>

\* Mutant of SetupNode: without _setup_uids.
SetupNodeAgain(t) ==
    /\ pc[t] \in {"setup", "resetup"} /\ walk[t] # <<>>
    /\ LET n == Head(walk[t]) IN
       uids' = uids \cup {n} /\ opened' = [opened EXCEPT ![n] = @ + 1]
    /\ walk' = [walk EXCEPT ![t] = Tail(@)]
    /\ UNCHANGED <<treeVars, setup, poolVars, loopVars, pc, result>>

\* One step of the walk: setup() of a node that does not have it.
SetupNode(t) ==
    /\ pc[t] \in {"setup", "resetup"} /\ walk[t] # <<>>
    /\ LET n == Head(walk[t]) IN
       IF n \in uids THEN UNCHANGED <<uids, opened>>
                     ELSE uids' = uids \cup {n} /\ opened' = [opened EXCEPT ![n] = @ + 1]
    /\ walk' = [walk EXCEPT ![t] = Tail(@)]
    /\ UNCHANGED <<treeVars, setup, poolVars, loopVars, pc, result>>

\* Mutant of SetupEnds: a walk after a modification clears _nodes_setup.
SetupEndsForgetting(t) ==
    /\ pc[t] \in {"setup", "resetup"} /\ walk[t] = <<>>
    /\ setup' = (pc[t] = "setup")
    /\ Go(t, "ready")
    /\ UNCHANGED <<treeVars, uids, opened, poolVars, loopVars, walk, result>>

SetupEnds(t) ==
    /\ pc[t] \in {"setup", "resetup"} /\ walk[t] = <<>>
    /\ setup' = (setup \/ pc[t] = "setup")
    /\ Go(t, "ready")
    /\ UNCHANGED <<treeVars, uids, opened, poolVars, loopVars, walk, result>>

\* Tree.tick_once(): modifications queued since are applied here, and the tick
\* takes the tree's lock.
TickStarts(t) ==
    /\ pc[t] = "ready" /\ Ticking = {}
    /\ tree' = Applied /\ mods' = <<>>
    /\ late' = late \cup (ToSet(Applied) \ InTree)
    /\ Go(t, "ticking")
    /\ UNCHANGED <<nodeVars, poolVars, loopVars, walk, result>>

TickEnds(t) ==
    /\ pc[t] = "ticking"
    /\ \E r \in {"RUNNING", "settled", "raised"} : result' = [result EXCEPT ![t] = r]
    /\ Go(t, "ticked")
    /\ UNCHANGED <<treeVars, nodeVars, poolVars, loopVars, walk>>

(***************************************************************************)
(* shutdown(), in any thread; what follows it depends on the thread.       *)
(***************************************************************************)
ShutdownStarts(t) ==
    /\ pc[t] = "shutdown"
    /\ IF setup THEN Walk(t, "closing", tree)
                ELSE Go(t, "disown") /\ UNCHANGED walk
    /\ UNCHANGED <<treeVars, nodeVars, poolVars, loopVars, result>>

\* One step of _shutdown_nodes().
ShutdownNode(t) ==
    /\ pc[t] = "closing" /\ walk[t] # <<>>
    /\ uids' = uids \ {Head(walk[t])}
    /\ opened' = [opened EXCEPT ![Head(walk[t])] = 0]
    /\ walk' = [walk EXCEPT ![t] = Tail(@)]
    /\ UNCHANGED <<treeVars, setup, poolVars, loopVars, pc, result>>

NodesAreShutDown(t) ==
    /\ pc[t] = "closing" /\ walk[t] = <<>>
    /\ setup' = FALSE
    /\ Go(t, "disown")
    /\ UNCHANGED <<treeVars, uids, opened, poolVars, loopVars, walk, result>>

After(t) == IF t = User THEN "idle" ELSE "callback"

\* Mutant of DisposePool: _thread_pool is not cleared.
DisposePoolKept(t) ==
    /\ pc[t] = "disown"
    /\ alive' = IF owns THEN alive \ {pool} ELSE alive
    /\ Go(t, After(t))
    /\ UNCHANGED <<treeVars, nodeVars, pool, owns, held, loopVars, walk, result>>

\* Only a pool of the executor's own.
DisposePool(t) ==
    /\ pc[t] = "disown"
    /\ IF owns
       THEN /\ alive' = alive \ {pool}
            /\ pool' = None /\ owns' = FALSE
            /\ Inject(InTree, None)
       ELSE UNCHANGED poolVars
    /\ Go(t, After(t))
    /\ UNCHANGED <<treeVars, nodeVars, loopVars, walk, result>>

(***************************************************************************)
(* _event_loop_body().                                                     *)
(***************************************************************************)
\* Mutant of LoopTests: a pause is waited for before the flag is read.
LoopTestsPauseFirst(l) ==
    /\ pc[l] = "test" /\ ~paused
    /\ Go(l, IF running THEN "check" ELSE "ended")
    /\ UNCHANGED <<treeVars, nodeVars, poolVars, loopVars, walk, result>>

LoopTests(l) ==
    /\ pc[l] = "test" /\ (running => ~paused)
    /\ Go(l, IF running THEN "check" ELSE "ended")
    /\ UNCHANGED <<treeVars, nodeVars, poolVars, loopVars, walk, result>>

LoopGoesOn(l) ==
    /\ pc[l] = "ticked" /\ result[l] = "RUNNING"
    /\ Go(l, "test") /\ Forget(l)
    /\ UNCHANGED <<treeVars, nodeVars, poolVars, loopVars, walk>>

\* An exception out of the tick: _loop_running stays set.
LoopFails(l) ==
    /\ pc[l] = "ticked" /\ result[l] = "raised"
    /\ final' = TRUE
    /\ Go(l, "callback")
    /\ UNCHANGED <<treeVars, nodeVars, poolVars, running, paused, thread, walk, result>>

\* The tree has settled: the status is kept, the flag cleared, then shutdown().
LoopCompletes(l) ==
    /\ pc[l] = "ticked" /\ result[l] = "settled"
    /\ final' = TRUE
    /\ running' = FALSE
    /\ Go(l, "shutdown")
    /\ UNCHANGED <<treeVars, nodeVars, poolVars, paused, thread, walk, result>>

\* The completion callback, and the end of the thread.
LoopCalls(l) ==
    /\ pc[l] = "callback"
    /\ Go(l, "ended") /\ Forget(l)
    /\ UNCHANGED <<treeVars, nodeVars, poolVars, loopVars, walk>>

(***************************************************************************)
(* The program: one call at a time, in one thread.                         *)
(***************************************************************************)
\* A program that is not hasty takes the loop for over when its thread is.
LoopIsOver == IF Hasty THEN ~running ELSE \A l \in Loops : pc[l] = "ended"

\* start_event_loop(); it does nothing while _loop_running is set.
Start(l) ==
    /\ pc[User] = "idle" /\ ~running
    /\ LoopIsOver
    /\ pc[l] = "ended" /\ l = CHOOSE k \in Loops : pc[k] = "ended"
    /\ running' = TRUE /\ paused' = FALSE /\ thread' = l
    /\ Go(l, "test")
    /\ UNCHANGED <<treeVars, nodeVars, poolVars, final, walk, result>>

\* stop_event_loop() up to the join.
Stop ==
    /\ pc[User] = "idle"
    /\ running' = FALSE /\ paused' = FALSE
    /\ Go(User, "join")
    /\ UNCHANGED <<treeVars, nodeVars, poolVars, thread, final, walk, result>>

\* Mutant of Joined: no join.
JoinedAtOnce ==
    /\ pc[User] = "join"
    /\ thread' = None
    /\ Go(User, "shutdown")
    /\ UNCHANGED <<treeVars, nodeVars, poolVars, running, paused, final, walk, result>>

Joined ==
    /\ pc[User] = "join"
    /\ thread # None => pc[thread] = "ended" \/ LongTicks
    /\ thread' = None
    /\ Go(User, "shutdown")
    /\ UNCHANGED <<treeVars, nodeVars, poolVars, running, paused, final, walk, result>>

\* shutdown() after ticking by hand.
CallShutdown ==
    /\ pc[User] = "idle" /\ LoopIsOver
    /\ Go(User, "shutdown")
    /\ UNCHANGED <<treeVars, nodeVars, poolVars, loopVars, walk, result>>

\* tick_once(), which keeps no status, and tick_until_result(), which goes on or
\* gives up.
TickByHand ==
    /\ pc[User] = "idle" /\ LoopIsOver /\ ~running
    /\ Go(User, "check")
    /\ UNCHANGED <<treeVars, nodeVars, poolVars, loopVars, walk, result>>

TickedByHand ==
    /\ pc[User] = "ticked"
    /\ \/ result[User] = "RUNNING" /\ Go(User, "check") /\ UNCHANGED final
       \/ /\ Go(User, "idle")
          /\ final' \in {final, final \/ result[User] = "settled"}
    /\ Forget(User)
    /\ UNCHANGED <<treeVars, nodeVars, poolVars, running, paused, thread, walk>>

\* pause() and resume(), from any thread.
Pause ==
    /\ ~paused /\ paused' = TRUE
    /\ UNCHANGED <<treeVars, nodeVars, poolVars, running, thread, final, pc, walk, result>>

Resume ==
    /\ paused /\ paused' = FALSE
    /\ UNCHANGED <<treeVars, nodeVars, poolVars, running, thread, final, pc, walk, result>>

\* Mutant of GivePool: the old pool is left to itself.
GivePoolLeaking(p) ==
    /\ pc[User] = "idle" /\ LoopIsOver /\ ~running
    /\ pool # p
    /\ pool' = p /\ owns' = FALSE
    /\ Inject(InTree, p)
    /\ UNCHANGED <<treeVars, nodeVars, alive, loopVars, pc, walk, result>>

\* set_thread_pool(), before the ticks: a pool of the executor's own is disposed.
GivePool(p) ==
    /\ pc[User] = "idle" /\ LoopIsOver /\ ~running
    /\ pool # p
    /\ alive' = IF owns THEN alive \ {pool} ELSE alive
    /\ pool' = p /\ owns' = FALSE
    /\ Inject(InTree, p)
    /\ UNCHANGED <<treeVars, nodeVars, loopVars, pc, walk, result>>

\* Tree.queue_modification(), from any thread.  A node that comes is new, with its
\* subtree, and stands where it is put; REMOVE_CHILD is queued for the child that
\* its index comes to mean.
Known == InTree \cup uids \cup ToSet(Planted) \cup UNION {ToSet(Brings[m.new]) : m \in ToSet(mods)}

Modification(kind, at, new) == [kind |-> kind, at |-> at, new |-> new]

Modifications ==
    LET known == Known
        fresh == {n \in Nodes : ToSet(Brings[n]) \cap known = {}}
    IN  {Modification("remove", n, n) : n \in known}
        \cup {m \in {Modification("replace", at, new) : at \in known, new \in fresh} :
                 Depth[m.new] = Depth[m.at]}
        \cup {m \in {Modification("insert", at, new) : at \in known, new \in fresh} :
                 Depth[m.new] = Depth[m.at] + 1}

QueueModification ==
    /\ Len(mods) < MaxMods
    /\ \E m \in Modifications : mods' = Append(mods, m)
    /\ UNCHANGED <<tree, late, nodeVars, poolVars, loopVars, pc, walk, result>>

DoTick(t) ==
    \/ FirstTick(t) \/ TickWithMods(t) \/ PlainTick(t)
    \/ SetupNode(t) \/ SetupEnds(t) \/ TickStarts(t) \/ TickEnds(t)

DoShutdown(t) ==
    \/ ShutdownStarts(t) \/ ShutdownNode(t) \/ NodesAreShutDown(t) \/ DisposePool(t)

LoopStep(l) ==
    \/ LoopTests(l) \/ LoopGoesOn(l) \/ LoopFails(l) \/ LoopCompletes(l) \/ LoopCalls(l)

Next ==
    \/ \E t \in Threads : DoTick(t) \/ DoShutdown(t)
    \/ \E l \in Loops : LoopStep(l) \/ Start(l)
    \/ Stop \/ Joined \/ CallShutdown
    \/ TickByHand \/ TickedByHand \/ Pause \/ Resume
    \/ \E p \in GivenPools : GivePool(p)
    \/ QueueModification

Spec == Init /\ [][Next]_vars

\* Threads that can go on do; nobody has to call anything, or to come back
\* from a tick_until_result().
Fairness ==
    /\ \A t \in Threads : WF_vars(DoTick(t)) /\ WF_vars(DoShutdown(t))
    /\ \A l \in Loops : WF_vars(LoopStep(l))
    /\ WF_vars(Joined)

FairSpec == Spec /\ Fairness

(***************************************************************************)
(* Properties.                                                             *)
(***************************************************************************)
\* Types of the variables.
TypeOK ==
    /\ {running, paused, final, setup, owns} \subseteq BOOLEAN
    /\ thread \in Loops \cup {None}
    /\ tree \in Seq(Nodes) /\ tree # <<>>
    /\ mods \in Seq([kind : Kinds, at : Nodes, new : Nodes])
    /\ late \subseteq Nodes /\ uids \subseteq Nodes /\ opened \in [Nodes -> Nat]
    /\ pool \in OwnPools \cup GivenPools \cup {None}
    /\ held \in [Nodes -> OwnPools \cup GivenPools \cup {None}]
    /\ owns => pool \in OwnPools
    /\ alive \subseteq OwnPools
    /\ pc \in [Threads -> Places]
    /\ \A t \in Threads : walk[t] \in Seq(Nodes)
    /\ result \in [Threads -> {"None", "RUNNING", "settled", "raised"}]

\* One tick at a time, and none while nodes are set up or shut down: whoever
\* starts, stops, ticks by hand or restarts after a tree has completed.
InTheNodes(t) == pc[t] \in {"setup", "resetup", "ready", "ticking", "closing"}

OneInTheNodes == Cardinality({t \in Threads : InTheNodes(t)}) <= 1

\* A node is ticked with the pool the executor has, and never with one that was
\* shut down: submit() would raise out of its tick().
PoolIsAlive ==
    Ticking # {} => /\ \A n \in InTree \ late : held[n] = pool
                    /\ pool \in GivenPools \cup alive

\* No pool of the executor's own is left running, whoever replaced or dropped it.
NoPoolLeaks == alive = IF owns THEN {pool} ELSE {}

Closed(n) == opened[n] = 0

\* When stop_event_loop() or shutdown() returns, no node of the tree is left open.
AllClosed ==
    [][pc[User] = "disown" /\ pc'[User] = "idle" =>
          ~setup /\ \A n \in InTree : Closed(n)]_vars

\* stop_event_loop() returns.
StopReturns == pc[User] = "join" ~> pc[User] = "idle"

\* The nodes' own contract.  Nodes that Tree.tick_once() installed itself are left
\* out: they tick without setup(), although executor.py:348 says that "that promise
\* has to hold for hot-swapped subtrees too".
Lifecycle == INSTANCE NodeLifecycle WITH
    present <- InTree \ late, ticking <- (Ticking # {})

KeepsLifecycle == Lifecycle!Spec
=============================================================================
