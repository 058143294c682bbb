--------------------------- MODULE ExecutorProofs ---------------------------
(***************************************************************************)
(* Theorems about Executor, for any tree, any number of loop threads, any  *)
(* pools and any modifications.                                            *)
(***************************************************************************)
EXTENDS Executor, FiniteSetTheorems, SequenceTheorems, WellFoundedInduction, TLAPS

(***************************************************************************)
(* Pools.  What NoPoolLeaks says is inductive once a pool that the executor *)
(* owns is known to be one.                                                *)
(***************************************************************************)
PoolInv == /\ NoPoolLeaks
           /\ owns \in BOOLEAN
           /\ pool = None => ~owns

LEMMA NewPoolIsAPool == ASSUME pool = None PROVE NewPool \in OwnPools
  BY ExecutorAssumption DEF NewPool

\* Every own pool is shut down by whoever replaces or drops it.
LEMMA PoolStep ==
    ASSUME PoolInv, [Next]_vars
    PROVE  PoolInv'
  <1> USE DEF PoolInv, NoPoolLeaks
  <1>1. CASE UNCHANGED poolVars
    BY <1>1 DEF poolVars
  <1>2. ASSUME NEW t \in Threads, FirstTick(t)
        PROVE  PoolInv'
    <2>1. CASE pool = None
      BY <1>2, <2>1, NewPoolIsAPool, ExecutorAssumption DEF FirstTick
    <2>2. CASE pool # None
      BY <1>2, <2>2 DEF FirstTick, poolVars
    <2> QED BY <2>1, <2>2
  <1>3. ASSUME NEW t \in Threads, DisposePool(t)
        PROVE  PoolInv'
    BY <1>3 DEF DisposePool, poolVars
  <1>4. ASSUME NEW p \in GivenPools, GivePool(p)
        PROVE  PoolInv'
    BY <1>4, ExecutorAssumption DEF GivePool
  <1>5. ASSUME NEW t \in Threads, TickWithMods(t)
        PROVE  PoolInv'
    BY <1>5 DEF TickWithMods
  <1>6. ASSUME NEW t \in Threads, DoTick(t), ~FirstTick(t), ~TickWithMods(t)
        PROVE  UNCHANGED poolVars
    BY <1>6 DEF DoTick, PlainTick, SetupNode, SetupEnds, TickStarts, TickEnds
  <1>7. ASSUME NEW t \in Threads, DoShutdown(t), ~DisposePool(t)
        PROVE  UNCHANGED poolVars
    BY <1>7 DEF DoShutdown, ShutdownStarts, ShutdownNode, NodesAreShutDown
  <1>8. ASSUME NEW l \in Loops, LoopStep(l) \/ Start(l)
        PROVE  UNCHANGED poolVars
    BY <1>8 DEF LoopStep, LoopTests, LoopGoesOn, LoopFails, LoopCompletes, LoopCalls, Start
  <1>9. ASSUME \/ Stop \/ Joined \/ CallShutdown \/ TickByHand \/ TickedByHand \/ Pause \/ Resume
               \/ QueueModification
        PROVE  UNCHANGED poolVars
    BY <1>9 DEF Stop, Joined, CallShutdown, TickByHand, TickedByHand, Pause, Resume,
                QueueModification
  <1>10. CASE UNCHANGED vars
    BY <1>10, <1>1 DEF vars
  <1> QED
    BY <1>1, <1>2, <1>3, <1>4, <1>5, <1>6, <1>7, <1>8, <1>9, <1>10 DEF Next

\* No pool of the executor's own is leaked by a stop, a restart or
\* set_thread_pool(), for every program, hasty or not, and ticks of any length.
THEOREM NoPoolLeaksHolds == Spec => []NoPoolLeaks
  <1>1. Init => PoolInv
    BY DEF Init, PoolInv, NoPoolLeaks
  <1>2. PoolInv /\ [Next]_vars => PoolInv'
    BY PoolStep
  <1>3. PoolInv => NoPoolLeaks
    BY DEF PoolInv
  <1> QED
    BY <1>1, <1>2, <1>3, PTL DEF Spec

(***************************************************************************)
(* Threads.  A loop thread that is not over is the one that _loop_thread   *)
(* names, and the program is then between two calls or joins it.           *)
(***************************************************************************)
ThreadInv == /\ pc \in [Threads -> Places]
             /\ \A l \in Loops : pc[l] # "ended" => thread = l /\ pc[User] \in {"idle", "join"}

\* A program that takes the loop for over when its thread has ended.
Patient == ~Hasty /\ ~LongTicks

\* A step that moves one thread, and no loop thread to life.
LEMMA OneMoves ==
    ASSUME ThreadInv, NEW t \in Threads, NEW where \in Places, Go(t, where),
           UNCHANGED thread,
           t \in Loops => pc[t] # "ended",
           t = User => where \in {"idle", "join"} \/ \A l \in Loops : pc[l] = "ended"
    PROVE  ThreadInv'
  BY ExecutorAssumption DEF ThreadInv, Go, Threads

\* Inside a tick or shutdown() of the program no loop thread is left.
LEMMA UserIsAlone ==
    ASSUME ThreadInv, pc[User] \notin {"idle", "join"}
    PROVE  \A l \in Loops : pc[l] = "ended"
  BY DEF ThreadInv

LEMMA ThreadStep ==
    ASSUME Patient, ThreadInv, [Next]_vars
    PROVE  ThreadInv'
  <1>1. ASSUME UNCHANGED <<pc, thread>>
        PROVE  ThreadInv'
    BY <1>1 DEF ThreadInv
  <1>2. ASSUME NEW t \in Threads, DoTick(t)
        PROVE  ThreadInv'
    <2>1. /\ pc[t] \in {"check", "setup", "resetup", "ready", "ticking"}
          /\ UNCHANGED thread
          /\ \/ UNCHANGED pc
             \/ \E where \in {"setup", "resetup", "ready", "ticking", "ticked"} : Go(t, where)
      BY <1>2 DEF DoTick, FirstTick, TickWithMods, PlainTick, SetupNode, SetupEnds, TickStarts,
                  TickEnds, Walk, loopVars
    <2>2. t = User => \A l \in Loops : pc[l] = "ended"
      BY <2>1, UserIsAlone
    <2>3. CASE UNCHANGED pc
      BY <1>1, <2>1, <2>3
    <2>4. ASSUME NEW where \in {"setup", "resetup", "ready", "ticking", "ticked"}, Go(t, where)
          PROVE  ThreadInv'
      <3>1. where \in Places /\ pc[t] # "ended"
        BY <2>1 DEF Places
      <3> QED BY <2>1, <2>2, <2>4, <3>1, OneMoves
    <2> QED BY <2>1, <2>3, <2>4
  <1>3. ASSUME NEW t \in Threads, DoShutdown(t)
        PROVE  ThreadInv'
    <2>1. /\ pc[t] \in {"shutdown", "closing", "disown"}
          /\ UNCHANGED thread
          /\ \/ UNCHANGED pc
             \/ \E where \in {"closing", "disown", "idle", "callback"} : Go(t, where)
      BY <1>3 DEF DoShutdown, ShutdownStarts, ShutdownNode, NodesAreShutDown, DisposePool,
                  After, Walk, loopVars
    <2>2. t = User => \A l \in Loops : pc[l] = "ended"
      BY <2>1, UserIsAlone
    <2>3. CASE UNCHANGED pc
      BY <1>1, <2>1, <2>3
    <2>4. ASSUME NEW where \in {"closing", "disown", "idle", "callback"}, Go(t, where)
          PROVE  ThreadInv'
      <3>1. where \in Places /\ pc[t] # "ended"
        BY <2>1 DEF Places
      <3> QED BY <2>1, <2>2, <2>4, <3>1, OneMoves
    <2> QED BY <2>1, <2>3, <2>4
  <1>4. ASSUME NEW l \in Loops, LoopStep(l)
        PROVE  ThreadInv'
    <2>1. /\ pc[l] \in {"test", "ticked", "callback"}
          /\ UNCHANGED thread
          /\ \E where \in {"check", "ended", "test", "callback", "shutdown"} : Go(l, where)
      BY <1>4 DEF LoopStep, LoopTests, LoopGoesOn, LoopFails, LoopCompletes, LoopCalls, loopVars
    <2> QED BY <2>1, OneMoves, ExecutorAssumption DEF Threads, Places
  <1>5. ASSUME NEW l \in Loops, Start(l)
        PROVE  ThreadInv'
    <2>1. \A k \in Loops : pc[k] = "ended"
      BY <1>5 DEF Start, LoopIsOver, Patient
    <2>2. pc[User] = "idle" /\ pc' = [pc EXCEPT ![l] = "test"] /\ thread' = l
      BY <1>5 DEF Start, Go
    <2> QED BY <2>1, <2>2, ExecutorAssumption DEF ThreadInv, Threads, Places
  <1>6. CASE Joined
    <2>1. \A l \in Loops : pc[l] = "ended"
      BY <1>6, ExecutorAssumption DEF Joined, Patient, ThreadInv
    <2>2. pc' = [pc EXCEPT ![User] = "shutdown"]
      BY <1>6 DEF Joined, Go
    <2> QED BY <2>1, <2>2, ExecutorAssumption DEF ThreadInv, Threads, Places
  <1>7. CASE Stop \/ CallShutdown \/ TickByHand \/ TickedByHand
    <2>1. /\ UNCHANGED thread
          /\ \E where \in {"join", "shutdown", "check", "idle"} :
                /\ Go(User, where)
                /\ where \in {"idle", "join"} \/ \A l \in Loops : pc[l] = "ended"
      BY <1>7, UserIsAlone DEF Stop, CallShutdown, TickByHand, TickedByHand, LoopIsOver, Patient,
                  loopVars
    <2> QED BY <2>1, OneMoves, ExecutorAssumption DEF Threads, Places
  <1>8. ASSUME \/ Pause \/ Resume
               \/ \E p \in GivenPools : GivePool(p)
               \/ QueueModification
               \/ UNCHANGED vars
        PROVE  UNCHANGED <<pc, thread>>
    BY <1>8 DEF Pause, Resume, GivePool, QueueModification, vars, loopVars
  <1> QED
    BY <1>1, <1>2, <1>3, <1>4, <1>5, <1>6, <1>7, <1>8 DEF Next

\* Two threads are never in the nodes at one time: a tick by hand, a loop, a
\* restarted loop and shutdown() keep out of each other's way.
THEOREM OneInTheNodesHolds ==
    ASSUME Patient
    PROVE  Spec => []OneInTheNodes
  <1>1. Init => ThreadInv
    BY ExecutorAssumption DEF Init, ThreadInv, Threads, Places
  <1>2. ThreadInv /\ [Next]_vars => ThreadInv'
    BY ThreadStep
  <1>3. ThreadInv => OneInTheNodes
    <2> SUFFICES ASSUME ThreadInv PROVE OneInTheNodes
      OBVIOUS
    <2> DEFINE S == {t \in Threads : InTheNodes(t)}
    <2>1. \A t, u \in S : t = u
      BY ExecutorAssumption DEF ThreadInv, Threads, InTheNodes
    <2>2. S = {} \/ \E t \in S : S = {t}
      BY <2>1
    <2>3. Cardinality({}) = 0 /\ \A t : Cardinality({t}) = 1
      BY FS_EmptySet, FS_Singleton
    <2> HIDE DEF S
    <2>4. ASSUME S = {} PROVE Cardinality(S) = 0
      BY <2>3, <2>4
    <2>5. ASSUME \E t \in S : S = {t} PROVE Cardinality(S) = 1
      <3>1. PICK t \in S : S = {t}
        BY <2>5
      <3>2. Cardinality(S) = 1
        BY <2>3, <3>1
      <3> QED BY <3>2
    <2>6. Cardinality(S) \in {0, 1}
      BY <2>2, <2>3, <2>4, <2>5
    <2> QED BY <2>6 DEF OneInTheNodes, S
  <1> QED
    BY <1>1, <1>2, <1>3, PTL DEF Spec

(***************************************************************************)
(* Types.                                                                  *)
(***************************************************************************)
\* A set of numbers that is not empty has a least one: what induction over the
\* queue of modifications rests on.
LEMMA Least ==
    ASSUME NEW S, S \subseteq Nat, S # {}
    PROVE  \E m \in S : \A k \in S : ~(k < m)
<1>1. PICK m \in S : \A k \in S : <<k, m>> \notin OpToRel(<, Nat)
  BY NatLessThanWellFounded, WFMin, Zenon
<1>2. \A k \in S : <<k, m>> \in Nat \X Nat
  BY <1>1
<1>3. \A k \in S : k < m => <<k, m>> \in OpToRel(<, Nat)
  BY <1>2, Zenon DEF OpToRel
<1> QED
  BY <1>1, <1>3

\* The tree after the first k modifications, for every k there is.
AfterAll(f, N) == f = [k \in 0..N |-> IF k = 0 THEN tree ELSE Modified(f[k - 1], mods[k])]

LEMMA AfterExists ==
    ASSUME NEW N \in Nat
    PROVE  \E f : AfterAll(f, N)
<1> DEFINE Bad == {k \in Nat : ~ \E f : AfterAll(f, k)}
<1> SUFFICES ASSUME Bad # {} PROVE FALSE
  OBVIOUS
<1>1. PICK m \in Bad : \A k \in Bad : ~(k < m)
  <2> HIDE DEF Bad
  <2>1. Bad \subseteq Nat
    BY DEF Bad
  <2> QED
    BY <2>1, Least
<1>2. CASE m = 0
  <2> DEFINE g == [k \in 0..0 |-> tree]
  <2>1. AfterAll(g, 0)
    BY DEF AfterAll
  <2> QED
    BY <1>1, <1>2, <2>1
<1>3. CASE m # 0
  <2>1. m - 1 \in Nat /\ m - 1 \notin Bad
    BY <1>1, <1>3
  <2>2. PICK f : AfterAll(f, m - 1)
    BY <2>1
  <2> DEFINE g == [k \in 0..m |-> IF k = 0 THEN tree
                                  ELSE Modified(f[k - 1], mods[k])]
  <2>3. \A k \in 0..(m - 1) : g[k] = f[k]
    BY <2>1, <2>2 DEF AfterAll
  <2>4. \A k \in 0..m : k # 0 => k - 1 \in 0..(m - 1)
    BY <2>1
  <2>5. \A k \in 0..m : g[k] = IF k = 0 THEN tree ELSE Modified(g[k - 1], mods[k])
    BY <2>3, <2>4
  <2>6. g = [k \in 0..m |-> g[k]]
    OBVIOUS
  <2>7. AfterAll(g, m)
    <3> HIDE DEF g
    <3> QED
      BY <2>5, <2>6 DEF AfterAll
  <2> QED
    BY <1>1, <2>7
<1> QED
  BY <1>2, <1>3

\* A subtree ends inside the walk.
LEMMA EndInside ==
    ASSUME NEW w \in Seq(Nodes), NEW i \in 1..Len(w)
    PROVE  SubtreeEnd(w, i) \in i..Len(w)
<1> DEFINE S == {j \in i..Len(w) : j = Len(w) \/ Depth[w[j + 1]] <= Depth[w[i]]}
<1>1. S \subseteq Nat /\ Len(w) \in S
  OBVIOUS
<1>2. PICK m \in S : \A k \in S : ~(k < m)
  <2> HIDE DEF S
  <2> QED
    BY <1>1, Least
<1>3. \E m1 \in S : \A k \in S : m1 <= k
  BY <1>1, <1>2
<1>4. SubtreeEnd(w, i) = CHOOSE j \in S : \A k \in S : j <= k
  BY DEF SubtreeEnd
<1>5. SubtreeEnd(w, i) \in S
  <2> HIDE DEF S
  <2> QED
    BY <1>3, <1>4
<1> QED
  BY <1>5

\* Walks without what is before a place, or from a place on, with nodes put between.
LEMMA Spliced ==
    ASSUME NEW w \in Seq(Nodes), NEW a \in 0..Len(w), NEW b \in 1..Len(w) + 1, NEW new \in Seq(Nodes)
    PROVE  /\ SubSeq(w, 1, a) \o new \o SubSeq(w, b, Len(w)) \in Seq(Nodes)
           /\ a > 0 \/ new # <<>> => SubSeq(w, 1, a) \o new \o SubSeq(w, b, Len(w)) # <<>>
<1>1. /\ SubSeq(w, 1, a) \in Seq(Nodes) /\ Len(SubSeq(w, 1, a)) = a
      /\ SubSeq(w, b, Len(w)) \in Seq(Nodes)
  BY SubSeqProperties
<1>2. PICK x \in Seq(Nodes) : x = SubSeq(w, 1, a)
  BY <1>1
<1>3. PICK y \in Seq(Nodes) : y = SubSeq(w, b, Len(w))
  BY <1>1
<1>4. /\ x \o new \in Seq(Nodes) /\ Len(x \o new) = Len(x) + Len(new)
      /\ (x \o new) \o y \in Seq(Nodes) /\ Len((x \o new) \o y) = Len(x) + Len(new) + Len(y)
  BY ConcatProperties
<1>5. Len(x) = a /\ Len(y) \in Nat /\ Len(new) \in Nat /\ (new # <<>> => Len(new) > 0)
  BY <1>1, <1>2, EmptySeq
<1>6. a > 0 \/ new # <<>> => (x \o new) \o y # <<>>
  BY <1>4, <1>5, EmptySeq
<1> QED
  BY <1>2, <1>3, <1>4, <1>6

\* One modification makes a tree of a tree, and takes its root only for another.
LEMMA ModifiedIsTree ==
    ASSUME NEW w \in Seq(Nodes), w # <<>>, NEW m \in [kind : Kinds, at : Nodes, new : Nodes]
    PROVE  Modified(w, m) \in Seq(Nodes) /\ Modified(w, m) # <<>>
<1>1. CASE \E i \in DOMAIN w : w[i] = m.at
  <2> DEFINE i == CHOOSE j \in DOMAIN w : w[j] = m.at
  <2>1. i \in 1..Len(w)
    BY <1>1
  <2>2. Brings[m.new] \in Seq(Nodes) /\ Brings[m.new] # <<>> /\ <<>> \in Seq(Nodes)
    BY ExecutorAssumption, EmptySeq
  <2>3. Modified(w, m) \in {Replaced(w, i, Brings[m.new]), Inserted(w, i, Brings[m.new]), w}
           \cup IF i > 1 THEN {Replaced(w, i, <<>>)} ELSE {}
    BY <1>1 DEF Modified, Kinds
  <2> HIDE DEF i
  <2>4. i - 1 \in 0..Len(w) /\ i \in 0..Len(w) /\ i + 1 \in 1..Len(w) + 1
        /\ SubtreeEnd(w, i) + 1 \in 1..Len(w) + 1
    BY <2>1, EndInside
  <2>5. Replaced(w, i, Brings[m.new]) \in Seq(Nodes) /\ Replaced(w, i, Brings[m.new]) # <<>>
    BY <2>2, <2>4, Spliced DEF Replaced
  <2>6. Inserted(w, i, Brings[m.new]) \in Seq(Nodes) /\ Inserted(w, i, Brings[m.new]) # <<>>
    BY <2>2, <2>4, Spliced DEF Inserted
  <2>7. i > 1 => Replaced(w, i, <<>>) \in Seq(Nodes) /\ Replaced(w, i, <<>>) # <<>>
    <3>1. i > 1 => i - 1 > 0
      BY <2>1
    <3> QED
      BY <2>2, <2>4, <3>1, Spliced DEF Replaced
  <2> QED
    BY <2>3, <2>5, <2>6, <2>7
<1>2. CASE ~ \E i \in DOMAIN w : w[i] = m.at
  BY <1>2 DEF Modified
<1> QED
  BY <1>1, <1>2

\* What the modifications make of a tree is a tree.
LEMMA AppliedIsTree ==
    ASSUME tree \in Seq(Nodes), tree # <<>>, mods \in Seq([kind : Kinds, at : Nodes, new : Nodes])
    PROVE  Applied \in Seq(Nodes) /\ Applied # <<>>
<1> DEFINE N == Len(mods)
           f == CHOOSE g : AfterAll(g, N)
           Trees == {w \in Seq(Nodes) : w # <<>>}
           Bad == {k \in 0..N : f[k] \notin Trees}
<1>1. N \in Nat /\ AfterAll(f, N) /\ tree \in Trees
  BY AfterExists
<1>2. Applied = f[N]
  BY DEF Applied, AfterAll
<1>3. \A k \in 0..N : f[k] = IF k = 0 THEN tree ELSE Modified(f[k - 1], mods[k])
  BY <1>1 DEF AfterAll
<1> HIDE DEF f
<1>4. Bad = {}
  <2> SUFFICES ASSUME Bad # {} PROVE FALSE
    OBVIOUS
  <2>1. PICK m \in Bad : \A k \in Bad : ~(k < m)
    <3>1. Bad \subseteq Nat
      OBVIOUS
    <3> HIDE DEF Bad
    <3> QED
      BY <3>1, Least
  <2>2. m \in 1..N /\ m - 1 \in 0..N
    BY <1>1, <1>3, <2>1
  <2>3. f[m - 1] \in Seq(Nodes) /\ f[m - 1] # <<>>
    BY <2>1, <2>2
  <2>4. mods[m] \in [kind : Kinds, at : Nodes, new : Nodes]
    BY <2>2, ElementOfSeq
  <2>5. Modified(f[m - 1], mods[m]) \in Trees
    BY <2>3, <2>4, ModifiedIsTree
  <2>6. f[m] = Modified(f[m - 1], mods[m])
    <3>1. m \in 0..N /\ m # 0
      BY <2>2
    <3> QED
      BY <1>3, <3>1
  <2> QED
    BY <2>1, <2>5, <2>6
<1>5. Applied \in Trees
  BY <1>1, <1>2, <1>4
<1> QED
  BY <1>5

\* The types, group by group; a node is open exactly while setup() is not due.
TreeShape ==
    /\ tree \in Seq(Nodes) /\ tree # <<>>
    /\ mods \in Seq([kind : Kinds, at : Nodes, new : Nodes]) /\ late \subseteq Nodes
NodeShape ==
    /\ setup \in BOOLEAN /\ uids \subseteq Nodes /\ opened \in [Nodes -> Nat]
    /\ \A n \in Nodes : opened[n] = IF n \in uids THEN 1 ELSE 0
PoolShape ==
    /\ pool \in OwnPools \cup GivenPools \cup {None} /\ owns \in BOOLEAN
    /\ held \in [Nodes -> OwnPools \cup GivenPools \cup {None}]
    /\ owns => pool \in OwnPools
    /\ alive \subseteq OwnPools
LoopShape ==
    /\ running \in BOOLEAN /\ paused \in BOOLEAN /\ final \in BOOLEAN
    /\ thread \in Loops \cup {None}
CallShape ==
    /\ pc \in [Threads -> Places]
    /\ walk \in [Threads -> Seq(Nodes)]
    /\ result \in [Threads -> {"None", "RUNNING", "settled", "raised"}]

Shape == TreeShape /\ NodeShape /\ PoolShape /\ LoopShape /\ CallShape

\* The nodes a walk has yet to visit.
LEMMA WalkOn ==
    ASSUME NEW w \in Seq(Nodes)
    PROVE  /\ ToSet(w) \subseteq Nodes
           /\ w = <<>> => ToSet(w) = {}
           /\ w # <<>> => /\ Head(w) \in Nodes /\ Tail(w) \in Seq(Nodes)
                         /\ ToSet(w) = {Head(w)} \cup ToSet(Tail(w))
<1>1. ToSet(w) \subseteq Nodes /\ (w = <<>> => ToSet(w) = {})
  BY DEF ToSet
<1>2. ASSUME w # <<>>
      PROVE  /\ Head(w) \in Nodes /\ Tail(w) \in Seq(Nodes)
             /\ ToSet(w) = {Head(w)} \cup ToSet(Tail(w))
  <2>1. /\ Len(w) \in Nat \ {0} /\ Head(w) = w[1] /\ Head(w) \in Nodes /\ Tail(w) \in Seq(Nodes)
        /\ Len(Tail(w)) = Len(w) - 1
        /\ \A i \in 1..Len(Tail(w)) : Tail(w)[i] = w[i + 1]
        /\ DOMAIN w = 1..Len(w) /\ DOMAIN Tail(w) = 1..Len(Tail(w))
    BY <1>2, HeadTailProperties
  <2>2. ToSet(w) \subseteq {Head(w)} \cup ToSet(Tail(w))
    <3> SUFFICES ASSUME NEW i \in DOMAIN w, i # 1 PROVE w[i] \in ToSet(Tail(w))
      BY <2>1 DEF ToSet
    <3>1. i - 1 \in DOMAIN Tail(w) /\ Tail(w)[i - 1] = w[i]
      BY <2>1
    <3> QED
      BY <3>1 DEF ToSet
  <2>3. ToSet(Tail(w)) \subseteq ToSet(w) /\ Head(w) \in ToSet(w)
    BY <2>1 DEF ToSet
  <2> QED
    BY <2>1, <2>2, <2>3
<1> QED
  BY <1>1, <1>2

LEMMA ShapeInit == Init => Shape
<1> SUFFICES ASSUME Init PROVE Shape
  OBVIOUS
<1>1. <<>> \in Seq(Nodes) /\ <<>> \in Seq([kind : Kinds, at : Nodes, new : Nodes])
  BY EmptySeq
<1>2. TreeShape /\ NodeShape /\ PoolShape
  BY <1>1, ExecutorAssumption DEF Init, TreeShape, NodeShape, PoolShape
<1>3. LoopShape /\ CallShape
  BY <1>1, ExecutorAssumption DEF Init, LoopShape, CallShape, Places
<1> QED
  BY <1>2, <1>3 DEF Shape

LEMMA SameShape ==
    /\ TreeShape /\ UNCHANGED treeVars => TreeShape'
    /\ NodeShape /\ UNCHANGED nodeVars => NodeShape'
    /\ PoolShape /\ UNCHANGED poolVars => PoolShape'
    /\ LoopShape /\ UNCHANGED loopVars => LoopShape'
BY DEF treeVars, nodeVars, poolVars, loopVars, TreeShape, NodeShape, PoolShape, LoopShape

LEMMA ShapeTick ==
    ASSUME Shape, NEW t \in Threads, DoTick(t)
    PROVE  Shape'
<1> USE DEF Shape
<1>1. {"setup", "resetup", "ready", "ticking", "ticked"} \subseteq Places
  BY DEF Places
<1>2. Applied \in Seq(Nodes) /\ Applied # <<>> /\ ToSet(Applied) \subseteq Nodes
  BY AppliedIsTree, WalkOn DEF TreeShape
<1>3. <<>> \in Seq([kind : Kinds, at : Nodes, new : Nodes])
  BY EmptySeq
<1>4. CallShape'
  <2>1. CASE FirstTick(t) \/ TickWithMods(t)
    BY <1>1, <1>2, <2>1 DEF FirstTick, TickWithMods, Walk, Go, CallShape, TreeShape
  <2>2. CASE PlainTick(t) \/ SetupEnds(t) \/ TickEnds(t) \/ TickStarts(t)
    BY <1>1, <2>2 DEF PlainTick, SetupEnds, TickEnds, TickStarts, Go, CallShape
  <2>3. CASE SetupNode(t)
    <3>1. Tail(walk[t]) \in Seq(Nodes)
      BY <2>3, WalkOn DEF SetupNode, CallShape
    <3> QED
      BY <2>3, <3>1 DEF SetupNode, CallShape
  <2> QED
    BY <2>1, <2>2, <2>3 DEF DoTick
<1>5. TreeShape'
  <2>1. CASE TickWithMods(t) \/ TickStarts(t)
    BY <1>2, <1>3, <2>1 DEF TickWithMods, TickStarts, TreeShape
  <2>2. CASE FirstTick(t)
    BY <2>2 DEF FirstTick, TreeShape
  <2> QED
    BY <2>1, <2>2, SameShape DEF DoTick, PlainTick, SetupNode, SetupEnds, TickEnds
<1>6. NodeShape'
  <2>1. CASE SetupNode(t)
    <3>1. Head(walk[t]) \in Nodes
      BY <2>1, WalkOn DEF SetupNode, CallShape
    <3> QED
      BY <2>1, <3>1 DEF SetupNode, NodeShape
  <2>2. CASE SetupEnds(t)
    BY <2>2 DEF SetupEnds, NodeShape
  <2> QED
    BY <2>1, <2>2, SameShape DEF DoTick, FirstTick, TickWithMods, PlainTick, TickStarts, TickEnds
<1>7. PoolShape'
  <2>1. CASE FirstTick(t)
    BY <2>1, NewPoolIsAPool DEF FirstTick, Inject, PoolShape, poolVars
  <2>2. CASE TickWithMods(t)
    BY <2>2 DEF TickWithMods, Inject, PoolShape
  <2> QED
    BY <2>1, <2>2, SameShape DEF DoTick, PlainTick, SetupNode, SetupEnds, TickStarts, TickEnds
<1>8. LoopShape'
  BY SameShape DEF DoTick, FirstTick, TickWithMods, PlainTick, SetupNode, SetupEnds, TickStarts, TickEnds
<1> QED
  BY <1>4, <1>5, <1>6, <1>7, <1>8

LEMMA ShapeShutdown ==
    ASSUME Shape, NEW t \in Threads, DoShutdown(t)
    PROVE  Shape'
<1> USE DEF Shape
<1>1. {"closing", "disown", "idle", "callback"} \subseteq Places
  BY DEF Places
<1>2. ASSUME walk[t] # <<>>
      PROVE  Head(walk[t]) \in Nodes /\ Tail(walk[t]) \in Seq(Nodes)
  BY <1>2, WalkOn DEF CallShape
<1>3. TreeShape' /\ LoopShape'
  BY SameShape DEF DoShutdown, ShutdownStarts, ShutdownNode, NodesAreShutDown, DisposePool
<1>4. NodeShape'
  <2>1. CASE ShutdownNode(t)
    BY <1>2, <2>1 DEF ShutdownNode, NodeShape
  <2>2. CASE NodesAreShutDown(t)
    BY <2>2 DEF NodesAreShutDown, NodeShape
  <2> QED
    BY <2>1, <2>2, SameShape DEF DoShutdown, ShutdownStarts, DisposePool
<1>5. PoolShape'
  <2>1. CASE DisposePool(t)
    BY <2>1 DEF DisposePool, Inject, PoolShape, poolVars
  <2> QED
    BY <2>1, SameShape DEF DoShutdown, ShutdownStarts, ShutdownNode, NodesAreShutDown
<1>6. CallShape'
  <2>1. CASE ShutdownStarts(t)
    BY <1>1, <2>1 DEF ShutdownStarts, Walk, Go, CallShape, TreeShape
  <2>2. CASE ShutdownNode(t)
    BY <1>2, <2>2 DEF ShutdownNode, CallShape
  <2>3. CASE NodesAreShutDown(t) \/ DisposePool(t)
    BY <1>1, <2>3 DEF NodesAreShutDown, DisposePool, After, Go, CallShape
  <2> QED
    BY <2>1, <2>2, <2>3 DEF DoShutdown
<1> QED
  BY <1>3, <1>4, <1>5, <1>6

LEMMA ShapeStep == Shape /\ [Next]_vars => Shape'
<1> SUFFICES ASSUME Shape, [Next]_vars PROVE Shape'
  OBVIOUS
<1> USE DEF Shape
<1>1. {"idle", "join", "check", "ready", "shutdown", "test", "callback", "ended"} \subseteq Places
  BY DEF Places
<1>2. ASSUME NEW t \in Threads, DoTick(t) \/ DoShutdown(t) PROVE Shape'
  BY <1>2, ShapeTick, ShapeShutdown
<1>3. ASSUME NEW l \in Loops, LoopStep(l) \/ Start(l) PROVE Shape'
  <2>1. UNCHANGED <<treeVars, nodeVars, poolVars, walk>> /\ l \in Threads
    BY <1>3 DEF LoopStep, LoopTests, LoopGoesOn, LoopFails, LoopCompletes, LoopCalls, Start, Threads
  <2>2. LoopShape'
    BY <1>3 DEF LoopStep, LoopTests, LoopGoesOn, LoopFails, LoopCompletes, LoopCalls, Start,
       loopVars, LoopShape
  <2>3. CallShape'
    BY <1>1, <1>3, <2>1 DEF LoopStep, LoopTests, LoopGoesOn, LoopFails, LoopCompletes, LoopCalls,
       Start, Go, Forget, CallShape
  <2> QED
    BY <2>1, <2>2, <2>3, SameShape
<1>4. CASE Stop \/ Joined \/ CallShutdown \/ TickByHand \/ TickedByHand \/ Pause \/ Resume
  <2>1. UNCHANGED <<treeVars, nodeVars, poolVars, walk>> /\ User \in Threads
    BY <1>4 DEF Stop, Joined, CallShutdown, TickByHand, TickedByHand, Pause, Resume, Threads
  <2>2. LoopShape'
    BY <1>4 DEF Stop, Joined, CallShutdown, TickByHand, TickedByHand, Pause, Resume, loopVars,
       LoopShape
  <2>3. CallShape'
    BY <1>1, <1>4, <2>1 DEF Stop, Joined, CallShutdown, TickByHand, TickedByHand, Pause, Resume,
       Go, Forget, CallShape
  <2> QED
    BY <2>1, <2>2, <2>3, SameShape
<1>5. ASSUME NEW p \in GivenPools, GivePool(p) PROVE Shape'
  <2>1. PoolShape'
    BY <1>5 DEF GivePool, Inject, PoolShape
  <2> QED
    BY <1>5, <2>1, SameShape DEF GivePool, CallShape
<1>6. ASSUME QueueModification PROVE Shape'
  <2>1. PICK m \in Modifications : mods' = Append(mods, m) /\ tree' = tree /\ late' = late
    BY <1>6 DEF QueueModification
  <2>2. Known \subseteq Nodes
    <3>1. ToSet(tree) \subseteq Nodes /\ ToSet(Planted) \subseteq Nodes /\ uids \subseteq Nodes
      BY WalkOn, ExecutorAssumption DEF TreeShape, NodeShape
    <3>2. \A n \in Nodes : ToSet(Brings[n]) \subseteq Nodes
      BY WalkOn, ExecutorAssumption
    <3>3. \A q \in ToSet(mods) : q.new \in Nodes
      <4>1. mods \in Seq([kind : Kinds, at : Nodes, new : Nodes]) /\ DOMAIN mods = 1..Len(mods)
        BY LenProperties DEF TreeShape
      <4>2. ASSUME NEW i \in DOMAIN mods PROVE mods[i] \in [kind : Kinds, at : Nodes, new : Nodes]
        BY <4>1, ElementOfSeq
      <4> QED
        BY <4>2 DEF ToSet
    <3> QED
      BY <3>1, <3>2, <3>3 DEF Known, InTree
  <2>3. m \in [kind : Kinds, at : Nodes, new : Nodes]
    BY <2>2 DEF Modifications, Modification, Kinds
  <2>4. TreeShape'
    BY <2>1, <2>3, AppendProperties DEF TreeShape
  <2> QED
    BY <1>6, <2>4, SameShape DEF QueueModification, CallShape
<1>7. CASE UNCHANGED vars
  BY <1>7, SameShape DEF vars, CallShape
<1> QED
  BY <1>2, <1>3, <1>4, <1>5, <1>6, <1>7 DEF Next

\* What the types say, group by group.
THEOREM ShapeHolds == Spec => []Shape
BY ShapeInit, ShapeStep, PTL DEF Spec

\* The tree stays a tree of nodes under any modifications, and walks stay inside
\* it, for every program, hasty or not, and ticks of any length.
THEOREM TypeOKHolds == Spec => []TypeOK
<1>1. Shape => TypeOK
  BY DEF Shape, TreeShape, NodeShape, PoolShape, LoopShape, CallShape, TypeOK
<1> QED
  BY <1>1, ShapeHolds, PTL

(***************************************************************************)
(* What a patient program may rely on, whatever its nodes do.              *)
(***************************************************************************)
\* A pool is the caller's or the executor's own, and a node that was there at
\* an injection has it.
HeldInv ==
    /\ pool # None => owns \/ pool \in GivenPools
    /\ pool # None => \A n \in InTree \ late : held[n] = pool

\* _nodes_setup, the places of the threads, and the nodes that are set up.
LifeInv ==
    /\ \A t \in Threads :
          /\ pc[t] \in {"resetup", "ready", "ticking", "closing"} => setup
          /\ pc[t] \in {"setup", "disown"} => ~setup
          /\ pc[t] = "setup" => pool # None
          /\ pc[t] \in {"setup", "resetup"} => InTree \ late \subseteq uids \cup ToSet(walk[t])
          /\ pc[t] = "closing" => uids \cap InTree \subseteq ToSet(walk[t])
    /\ setup => pool # None
    /\ setup /\ (\A t \in Threads : pc[t] \notin {"resetup", "closing"}) => InTree \ late \subseteq uids
    /\ ~setup /\ (\A t \in Threads : pc[t] # "setup") => uids \cap InTree = {}

USE DEF InTree

\* Injections reach the nodes that are in the tree at the time, and those that
\* Tree.tick_once() installs are late until the next one.
LEMMA HeldStep ==
    ASSUME Shape, HeldInv, [Next]_vars
    PROVE  HeldInv'
<1>1. ASSUME UNCHANGED poolVars, InTree' \ late' \subseteq InTree \ late PROVE HeldInv'
  BY <1>1 DEF HeldInv, poolVars
<1>2. InTree \subseteq Nodes /\ ToSet(Applied) \subseteq Nodes
  BY WalkOn, AppliedIsTree DEF Shape, TreeShape
<1>3. ASSUME NEW t \in Threads, DoTick(t) PROVE HeldInv'
  <2>1. CASE FirstTick(t)
    <3>1. CASE pool = None
      BY <1>2, <2>1, <3>1 DEF FirstTick, Inject, HeldInv
    <3>2. CASE pool # None
      BY <1>1, <2>1, <3>2 DEF FirstTick
    <3> QED
      BY <3>1, <3>2
  <2>2. CASE TickWithMods(t)
    <3>1. tree' = Applied /\ InTree' = ToSet(Applied) /\ late' = late \ ToSet(Applied)
          /\ UNCHANGED <<pool, owns>>
      BY <2>2 DEF TickWithMods
    <3>2. pool # None => held' = [n \in Nodes |-> IF n \in ToSet(Applied) THEN pool ELSE held[n]]
      BY <2>2 DEF TickWithMods, Inject
    <3> QED
      BY <1>2, <3>1, <3>2 DEF HeldInv
  <2>3. CASE TickStarts(t)
    <3>1. InTree' = ToSet(Applied)
      BY <2>3 DEF TickStarts
    <3> QED
      BY <1>1, <2>3, <3>1 DEF TickStarts
  <2> QED
    BY <1>1, <1>3, <2>1, <2>2, <2>3
       DEF DoTick, PlainTick, SetupNode, SetupEnds, TickEnds, treeVars
<1>4. ASSUME NEW t \in Threads, DoShutdown(t) PROVE HeldInv'
  <2>1. UNCHANGED <<tree, late>>
    BY <1>4 DEF DoShutdown, ShutdownStarts, ShutdownNode, NodesAreShutDown, DisposePool, treeVars
  <2>2. CASE DisposePool(t)
    BY <1>1, <2>1, <2>2 DEF DisposePool, HeldInv
  <2> QED
    BY <1>1, <1>4, <2>1, <2>2 DEF DoShutdown, ShutdownStarts, ShutdownNode, NodesAreShutDown
<1>5. ASSUME NEW p \in GivenPools, GivePool(p) PROVE HeldInv'
  BY <1>2, <1>5 DEF GivePool, Inject, HeldInv, treeVars
<1>6. ASSUME \/ \E l \in Loops : LoopStep(l) \/ Start(l)
             \/ Stop \/ Joined \/ CallShutdown \/ TickByHand \/ TickedByHand \/ Pause \/ Resume
             \/ QueueModification
             \/ UNCHANGED vars
      PROVE  HeldInv'
  <2>1. UNCHANGED <<poolVars, tree, late>>
    BY <1>6 DEF LoopStep, LoopTests, LoopGoesOn, LoopFails, LoopCompletes, LoopCalls, Start, Stop,
       Joined, CallShutdown, TickByHand, TickedByHand, Pause, Resume, QueueModification, vars, treeVars
  <2> QED
    BY <1>1, <2>1
<1> QED
  BY <1>3, <1>4, <1>5, <1>6 DEF Next

(***************************************************************************)
(* LifeInv, for the one thread that is inside a tick or shutdown().        *)
(***************************************************************************)
Quiet  == {"idle", "join", "ended"}
Inside == {"setup", "resetup", "ready", "ticking", "closing", "disown"}

LifeOf(t) ==
    /\ pc[t] \in {"resetup", "ready", "ticking", "closing"} => setup
    /\ pc[t] \in {"setup", "disown"} => ~setup
    /\ pc[t] = "setup" => pool # None
    /\ pc[t] \in {"setup", "resetup"} => InTree \ late \subseteq uids \cup ToSet(walk[t])
    /\ pc[t] = "closing" => uids \cap InTree \subseteq ToSet(walk[t])
    /\ setup => pool # None
    /\ setup /\ pc[t] \notin {"resetup", "closing"} => InTree \ late \subseteq uids
    /\ ~setup /\ pc[t] # "setup" => uids \cap InTree = {}

LEMMA Alone ==
    ASSUME ThreadInv, NEW t \in Threads, NEW u \in Threads, pc[t] \notin Quiet, u # t
    PROVE  pc[u] \in Quiet
BY DEF ThreadInv, Threads, Quiet

LEMMA LifeIsOfOne ==
    ASSUME NEW t \in Threads, \A u \in Threads : u # t => pc[u] \in Quiet
    PROVE  LifeInv <=> LifeOf(t)
BY DEF LifeInv, LifeOf, Quiet

\* Steps of threads outside ticks and shutdown().
LEMMA LifeRests ==
    ASSUME LifeInv, UNCHANGED <<tree, late, setup, uids, walk>>,
           pool # None => pool' # None,
           \A t \in Threads : pc'[t] = pc[t] \/ (pc[t] \notin Inside /\ pc'[t] \notin Inside)
    PROVE  LifeInv'
BY DEF LifeInv, Inside

LEMMA LifeTick ==
    ASSUME Shape, LifeInv, ThreadInv, NEW t \in Threads, DoTick(t)
    PROVE  LifeInv'
<1>1. pc[t] \notin Quiet /\ pc \in [Threads -> Places] /\ walk \in [Threads -> Seq(Nodes)]
  BY DEF DoTick, FirstTick, TickWithMods, PlainTick, SetupNode, SetupEnds, TickStarts, TickEnds,
     Quiet, Shape, CallShape
<1>2. \A u \in Threads : u # t => pc[u] \in Quiet
  BY <1>1, Alone
<1>3. LifeOf(t)
  BY <1>2, LifeIsOfOne
<1>4. \A u \in Threads : u # t => pc'[u] = pc[u]
  BY <1>1 DEF DoTick, FirstTick, TickWithMods, PlainTick, SetupNode, SetupEnds, TickStarts, TickEnds,
     Walk, Go
<1> SUFFICES LifeOf(t)'
  BY <1>2, <1>4 DEF LifeInv, LifeOf, Quiet
<1>5. CASE FirstTick(t)
  <2>1. pool' # None /\ UNCHANGED <<tree, setup, uids>> /\ ~setup /\ pc'[t] = "setup" /\ walk'[t] = tree
    BY <1>1, <1>5, NewPoolIsAPool, ExecutorAssumption DEF FirstTick, Walk, Go, poolVars, nodeVars
  <2> QED
    BY <2>1 DEF LifeOf
<1>6. CASE TickWithMods(t)
  <2>1. /\ setup /\ UNCHANGED <<setup, uids, pool>> /\ pc'[t] = "resetup"
        /\ tree' = Applied /\ walk'[t] = Applied
    BY <1>1, <1>6 DEF TickWithMods, Walk, Go, nodeVars
  <2>2. InTree' = ToSet(walk'[t])
    BY <2>1
  <2> QED
    BY <1>3, <2>1, <2>2 DEF LifeOf
<1>7. CASE PlainTick(t) \/ TickEnds(t)
  <2>1. /\ UNCHANGED <<tree, late, setup, uids, pool, walk>>
        /\ \/ pc[t] = "check" /\ setup /\ pc'[t] = "ready"
           \/ pc[t] = "ticking" /\ pc'[t] = "ticked"
    BY <1>1, <1>7 DEF PlainTick, TickEnds, Go, treeVars, nodeVars, poolVars
  <2> QED
    BY <1>3, <2>1 DEF LifeOf
<1>8. CASE SetupNode(t)
  <2>1. /\ UNCHANGED <<tree, late, setup, pool, pc>> /\ pc[t] \in {"setup", "resetup"}
        /\ uids' = uids \cup {Head(walk[t])} /\ walk'[t] = Tail(walk[t])
    BY <1>1, <1>8 DEF SetupNode, treeVars, poolVars
  <2>2. ToSet(walk[t]) = {Head(walk[t])} \cup ToSet(Tail(walk[t]))
    BY <1>1, <1>8, WalkOn DEF SetupNode
  <2>3. InTree' = InTree /\ ToSet(walk'[t]) = ToSet(Tail(walk[t]))
    BY <2>1
  <2> QED
    BY <1>3, <2>1, <2>2, <2>3 DEF LifeOf
<1>9. CASE SetupEnds(t)
  <2>1. /\ UNCHANGED <<tree, late, uids, pool>> /\ pc[t] \in {"setup", "resetup"}
        /\ pc'[t] = "ready" /\ setup' = (setup \/ pc[t] = "setup")
    BY <1>1, <1>9 DEF SetupEnds, Go, treeVars, poolVars
  <2>2. ToSet(walk[t]) = {}
    BY <1>1, <1>9, WalkOn DEF SetupEnds
  <2>3. setup'
    BY <1>3, <2>1 DEF LifeOf
  <2> QED
    BY <1>3, <2>1, <2>2, <2>3 DEF LifeOf
<1>10. CASE TickStarts(t)
  <2>1. /\ UNCHANGED <<setup, uids, pool>> /\ pc[t] = "ready" /\ pc'[t] = "ticking"
        /\ tree' = Applied /\ late' = late \cup (ToSet(Applied) \ InTree)
    BY <1>1, <1>10 DEF TickStarts, Go, nodeVars, poolVars
  <2>2. InTree' = ToSet(Applied)
    BY <2>1
  <2> QED
    BY <1>3, <2>1, <2>2 DEF LifeOf
<1> QED
  BY <1>5, <1>6, <1>7, <1>8, <1>9, <1>10 DEF DoTick

LEMMA LifeShutdown ==
    ASSUME Shape, LifeInv, ThreadInv, NEW t \in Threads, DoShutdown(t)
    PROVE  LifeInv'
<1>1. pc[t] \notin Quiet /\ pc \in [Threads -> Places] /\ walk \in [Threads -> Seq(Nodes)]
  BY DEF DoShutdown, ShutdownStarts, ShutdownNode, NodesAreShutDown, DisposePool, Quiet, Shape, CallShape
<1>2. \A u \in Threads : u # t => pc[u] \in Quiet
  BY <1>1, Alone
<1>3. LifeOf(t)
  BY <1>2, LifeIsOfOne
<1>4. UNCHANGED <<tree, late>> /\ \A u \in Threads : u # t => pc'[u] = pc[u]
  BY <1>1 DEF DoShutdown, ShutdownStarts, ShutdownNode, NodesAreShutDown, DisposePool, Walk, Go, treeVars
<1>5. InTree' = InTree
  BY <1>4
<1> SUFFICES LifeOf(t)'
  BY <1>2, <1>4 DEF LifeInv, LifeOf, Quiet
<1>6. CASE ShutdownStarts(t)
  BY <1>1, <1>3, <1>4, <1>5, <1>6 DEF ShutdownStarts, Walk, Go, nodeVars, poolVars, LifeOf
<1>7. CASE ShutdownNode(t)
  <2>1. /\ UNCHANGED <<setup, pool, pc>> /\ pc[t] = "closing"
        /\ uids' = uids \ {Head(walk[t])} /\ walk'[t] = Tail(walk[t])
    BY <1>1, <1>7 DEF ShutdownNode, poolVars
  <2>2. ToSet(walk[t]) = {Head(walk[t])} \cup ToSet(Tail(walk[t]))
    BY <1>1, <1>7, WalkOn DEF ShutdownNode
  <2>3. ToSet(walk'[t]) = ToSet(Tail(walk[t]))
    BY <2>1
  <2> QED
    BY <1>3, <1>5, <2>1, <2>2, <2>3 DEF LifeOf
<1>8. CASE NodesAreShutDown(t)
  <2>1. ToSet(walk[t]) = {}
    BY <1>1, <1>8, WalkOn DEF NodesAreShutDown
  <2> QED
    BY <1>1, <1>3, <1>5, <1>8, <2>1 DEF NodesAreShutDown, Go, poolVars, LifeOf
<1>9. CASE DisposePool(t)
  <2>1. /\ UNCHANGED <<setup, uids>> /\ pc[t] = "disown" /\ pc'[t] \in {"idle", "callback"}
    BY <1>1, <1>9 DEF DisposePool, After, Go, nodeVars
  <2> QED
    BY <1>3, <1>5, <2>1 DEF LifeOf
<1> QED
  BY <1>6, <1>7, <1>8, <1>9 DEF DoShutdown

LEMMA LifeStep ==
    ASSUME Shape, LifeInv, ThreadInv, [Next]_vars
    PROVE  LifeInv'
<1>1. ASSUME NEW t \in Threads, DoTick(t) \/ DoShutdown(t) PROVE LifeInv'
  BY <1>1, LifeTick, LifeShutdown
<1>2. ASSUME NEW l \in Loops, LoopStep(l) \/ Start(l) PROVE LifeInv'
  <2>1. UNCHANGED <<tree, late, setup, uids, walk, pool>>
    BY <1>2 DEF LoopStep, LoopTests, LoopGoesOn, LoopFails, LoopCompletes, LoopCalls, Start,
       treeVars, nodeVars, poolVars
  <2>2. \A t \in Threads : pc'[t] = pc[t] \/ (pc[t] \notin Inside /\ pc'[t] \notin Inside)
    BY <1>2 DEF LoopStep, LoopTests, LoopGoesOn, LoopFails, LoopCompletes, LoopCalls, Start, Go,
       Inside, Shape, CallShape, Threads
  <2> QED
    BY <2>1, <2>2, LifeRests
<1>3. CASE Stop \/ Joined \/ CallShutdown \/ TickByHand \/ TickedByHand \/ Pause \/ Resume
  <2>1. UNCHANGED <<tree, late, setup, uids, walk, pool>>
    BY <1>3 DEF Stop, Joined, CallShutdown, TickByHand, TickedByHand, Pause, Resume, treeVars,
       nodeVars, poolVars
  <2>2. \A t \in Threads : pc'[t] = pc[t] \/ (pc[t] \notin Inside /\ pc'[t] \notin Inside)
    BY <1>3 DEF Stop, Joined, CallShutdown, TickByHand, TickedByHand, Pause, Resume, Go, Inside,
       Shape, CallShape
  <2> QED
    BY <2>1, <2>2, LifeRests
<1>4. ASSUME NEW p \in GivenPools, GivePool(p) PROVE LifeInv'
  BY <1>4, ExecutorAssumption, LifeRests DEF GivePool, treeVars, nodeVars
<1>5. ASSUME (QueueModification) \/ UNCHANGED vars PROVE LifeInv'
  <2>1. UNCHANGED <<tree, late, setup, uids, walk, pool, pc>>
    BY <1>5 DEF QueueModification, vars, treeVars, nodeVars, poolVars
  <2> QED
    BY <2>1, LifeRests
<1> QED
  BY <1>1, <1>2, <1>3, <1>4, <1>5 DEF Next

\* The inductive invariant of a program that is patient.
Inv == Shape /\ PoolInv /\ ThreadInv /\ HeldInv /\ LifeInv

LEMMA InvInit == Init => Inv
<1> SUFFICES ASSUME Init PROVE Inv
  OBVIOUS
<1>1. Shape
  BY ShapeInit
<1>2. PoolInv
  BY DEF Init, PoolInv, NoPoolLeaks
<1>3. ThreadInv
  BY ExecutorAssumption DEF Init, ThreadInv, Threads, Places
<1>4. HeldInv
  BY DEF Init, HeldInv
<1>5. LifeInv
  BY DEF Init, LifeInv
<1> QED
  BY <1>1, <1>2, <1>3, <1>4, <1>5 DEF Inv

\* What holds at every step of a patient program.
THEOREM PatientInvariant ==
    ASSUME Patient
    PROVE  Spec => []Inv
<1>1. Inv /\ [Next]_vars => Inv'
  BY ShapeStep, PoolStep, ThreadStep, HeldStep, LifeStep DEF Inv
<1> QED
  BY <1>1, InvInit, PTL DEF Spec

\* A node is ticked with the pool the executor has now, and never with one that
\* was shut down: stops, restarts and shutdowns between two ticks leave no node
\* of the tree with a pool that is gone.
THEOREM PoolIsAliveHolds ==
    ASSUME Patient
    PROVE  Spec => []PoolIsAlive
<1>1. ASSUME Inv PROVE PoolIsAlive
  <2> SUFFICES ASSUME NEW t \in Threads, pc[t] = "ticking"
               PROVE  (\A n \in InTree \ late : held[n] = pool) /\ pool \in GivenPools \cup alive
    BY DEF PoolIsAlive, Ticking
  <2>1. pool # None
    BY <1>1 DEF Inv, LifeInv
  <2> QED
    BY <1>1, <2>1 DEF Inv, HeldInv, PoolInv, NoPoolLeaks
<1> QED
  BY <1>1, PatientInvariant, PTL

\* A stop or a shutdown() that returns has closed every node of the tree, those
\* that modifications brought in while the loop ran included.
THEOREM AllClosedHolds ==
    ASSUME Patient
    PROVE  Spec => AllClosed
<1>1. ASSUME Inv, pc[User] = "disown" PROVE ~setup /\ \A n \in InTree : Closed(n)
  <2>1. ~setup /\ \A t \in Threads : pc[t] # "setup"
    BY <1>1, UserIsAlone DEF Inv, LifeInv, Threads
  <2>2. uids \cap InTree = {} /\ InTree \subseteq Nodes
    BY <1>1, <2>1, WalkOn DEF Inv, LifeInv, Shape, TreeShape
  <2>3. \A n \in InTree : opened[n] = 0
    BY <1>1, <2>2 DEF Inv, Shape, NodeShape
  <2> QED
    BY <2>1, <2>3 DEF Closed
<1>2. Inv => [pc[User] = "disown" /\ pc'[User] = "idle" =>
                 ~setup /\ \A n \in InTree : Closed(n)]_vars
  BY <1>1
<1> QED
  BY <1>2, PatientInvariant, PTL DEF AllClosed

(***************************************************************************)
(* The executor keeps the contract of NodeLifecycle.                       *)
(***************************************************************************)
\* While a thread that is not quiet does not tick, nobody does.
LEMMA NobodyTicks ==
    ASSUME ThreadInv, NEW t \in Threads, pc[t] \notin Quiet, pc[t] # "ticking"
    PROVE  Ticking = {}
BY Alone DEF Ticking, Quiet

\* The threads that tick are the same when one thread moves elsewhere.
LEMMA TickingStays ==
    ASSUME \A u \in Threads : pc'[u] = "ticking" <=> pc[u] = "ticking"
    PROVE  Ticking' = Ticking
BY DEF Ticking

\* setup() of the nodes that do not have it, and injections, between two ticks.
LEMMA TickKeepsLifecycle ==
    ASSUME Inv, Inv', NEW t \in Threads, DoTick(t)
    PROVE  [Lifecycle!Next]_<<InTree \ late, opened, Ticking # {}>>
<1> USE DEF Lifecycle!Next
<1>1. ThreadInv /\ pc \in [Threads -> Places] /\ InTree' \subseteq Nodes
  BY WalkOn DEF Inv, ThreadInv, Shape, TreeShape
<1>2. CASE FirstTick(t) \/ TickWithMods(t)
  <2>1. pc[t] = "check" /\ pc' = [pc EXCEPT ![t] = pc'[t]] /\ pc'[t] # "ticking" /\ UNCHANGED opened
    BY <1>1, <1>2 DEF FirstTick, TickWithMods, Walk, Go, nodeVars
  <2>2. Ticking = {}
    BY <1>1, <2>1, NobodyTicks DEF Quiet
  <2>3. Ticking' = {}
    BY <1>1, <2>1, <2>2 DEF Ticking
  <2>4. Lifecycle!Modify
    BY <1>1, <2>1, <2>2, <2>3 DEF Lifecycle!Modify
  <2> QED
    BY <2>4
<1>3. CASE PlainTick(t) \/ SetupEnds(t)
  <2>1. UNCHANGED <<tree, late, opened>>
    BY <1>3 DEF PlainTick, SetupEnds, treeVars, nodeVars
  <2>2. Ticking' = Ticking
    BY <1>1, <1>3, TickingStays DEF PlainTick, SetupEnds, Go
  <2> QED
    BY <2>1, <2>2
<1>4. CASE SetupNode(t)
  <2>1. UNCHANGED <<tree, late, pc>> /\ pc[t] \in {"setup", "resetup"}
    BY <1>4 DEF SetupNode, treeVars
  <2>2. Ticking = {} /\ Ticking' = Ticking
    BY <1>1, <2>1, NobodyTicks, TickingStays DEF Quiet
  <2> DEFINE n == Head(walk[t])
  <2>3. n \in Nodes
    BY <1>4, WalkOn DEF SetupNode, Inv, Shape, CallShape
  <2>4. CASE n \in uids
    BY <1>4, <2>1, <2>2, <2>4 DEF SetupNode
  <2>5. CASE n \notin uids
    <3>1. opened[n] = 0 /\ opened' = [opened EXCEPT ![n] = 1]
      BY <1>4, <2>3, <2>5 DEF SetupNode, Inv, Shape, NodeShape
    <3>2. Lifecycle!Setup(n)
      BY <2>1, <2>2, <3>1 DEF Lifecycle!Setup
    <3> QED
      BY <2>3, <3>2
  <2> QED
    BY <2>4, <2>5
<1>5. CASE TickStarts(t)
  <2>1. /\ Ticking = {} /\ pc[t] = "ready" /\ pc'[t] = "ticking" /\ UNCHANGED opened
        /\ InTree' = ToSet(Applied) /\ late' = late \cup (ToSet(Applied) \ InTree)
    BY <1>1, <1>5 DEF TickStarts, Go, nodeVars
  <2>2. Ticking' # {}
    BY <2>1 DEF Ticking
  <2>3. InTree \ late \subseteq uids
    <3>1. setup /\ \A u \in Threads : pc[u] \notin {"resetup", "closing"}
      BY <1>1, <2>1, Alone DEF Inv, LifeInv, Quiet
    <3> QED
      BY <3>1 DEF Inv, LifeInv
  <2>4. \A n \in InTree \ late : opened[n] = 1
    BY <2>3, WalkOn DEF Inv, Shape, NodeShape, TreeShape
  <2>5. Lifecycle!TickStarts
    BY <2>1, <2>2, <2>4 DEF Lifecycle!TickStarts
  <2> QED
    BY <2>5
<1>6. CASE TickEnds(t)
  <2>1. pc[t] = "ticking" /\ pc' = [pc EXCEPT ![t] = "ticked"] /\ UNCHANGED <<tree, late, opened>>
    BY <1>6 DEF TickEnds, Go, treeVars, nodeVars
  <2>2. Ticking # {} /\ Ticking' = {}
    BY <1>1, <2>1, Alone DEF Ticking, Quiet
  <2>3. Lifecycle!TickEnds
    BY <2>1, <2>2 DEF Lifecycle!TickEnds
  <2> QED
    BY <2>3
<1> QED
  BY <1>2, <1>3, <1>4, <1>5, <1>6 DEF DoTick

\* shutdown() of the nodes, while nothing ticks them.
LEMMA ShutdownKeepsLifecycle ==
    ASSUME Inv, NEW t \in Threads, DoShutdown(t)
    PROVE  [Lifecycle!Next]_<<InTree \ late, opened, Ticking # {}>>
<1> USE DEF Lifecycle!Next
<1>1. ThreadInv /\ pc \in [Threads -> Places]
  BY DEF Inv, ThreadInv
<1>2. UNCHANGED <<tree, late>>
  BY DEF DoShutdown, ShutdownStarts, ShutdownNode, NodesAreShutDown, DisposePool, treeVars
<1>3. Ticking' = Ticking
  BY <1>1, TickingStays DEF DoShutdown, ShutdownStarts, ShutdownNode, NodesAreShutDown, DisposePool,
     After, Walk, Go
<1>4. CASE ShutdownNode(t)
  <2> DEFINE n == Head(walk[t])
  <2>1. n \in Nodes /\ opened \in [Nodes -> Nat] /\ opened[n] \in {0, 1}
    BY <1>4, WalkOn DEF ShutdownNode, Inv, Shape, CallShape, NodeShape
  <2>2. opened' = [opened EXCEPT ![n] = 0] /\ pc[t] = "closing"
    BY <1>4 DEF ShutdownNode
  <2>3. Ticking = {}
    BY <1>1, <2>2, NobodyTicks DEF Quiet
  <2>4. CASE opened[n] = 0
    BY <1>2, <1>3, <2>1, <2>2, <2>4
  <2>5. CASE opened[n] = 1
    <3>1. Lifecycle!Shutdown(n)
      BY <1>2, <1>3, <2>2, <2>3, <2>5 DEF Lifecycle!Shutdown
    <3> QED
      BY <2>1, <3>1
  <2> QED
    BY <2>1, <2>4, <2>5
<1>5. ASSUME ~ShutdownNode(t) PROVE UNCHANGED opened
  BY <1>5 DEF DoShutdown, ShutdownStarts, NodesAreShutDown, DisposePool, nodeVars
<1> QED
  BY <1>2, <1>3, <1>4, <1>5

\* A node is set up once before its first tick and after each shutdown(), closed
\* only between ticks, and never ticked closed, the nodes of modifications that
\* a tick itself applied left out: the executor refines NodeLifecycle.
THEOREM KeepsLifecycleHolds ==
    ASSUME Patient
    PROVE  Spec => KeepsLifecycle
<1>1. Init => Lifecycle!Init
  <2> SUFFICES ASSUME Init PROVE Lifecycle!Init
    OBVIOUS
  <2>1. Ticking = {}
    BY DEF Init, Ticking
  <2>2. InTree \subseteq Nodes
    BY ShapeInit, WalkOn DEF Shape, TreeShape
  <2> QED
    BY <2>1, <2>2 DEF Init, Lifecycle!Init
<1>2. Inv /\ Inv' /\ [Next]_vars => [Lifecycle!Next]_(Lifecycle!lifecycle)
  <2> SUFFICES ASSUME Inv, Inv', [Next]_vars
               PROVE  [Lifecycle!Next]_<<InTree \ late, opened, Ticking # {}>>
    BY DEF Lifecycle!lifecycle
  <2>1. ASSUME NEW t \in Threads, DoTick(t) \/ DoShutdown(t)
        PROVE  [Lifecycle!Next]_<<InTree \ late, opened, Ticking # {}>>
    BY <2>1, TickKeepsLifecycle, ShutdownKeepsLifecycle
  <2>2. ASSUME \/ \E l \in Loops : LoopStep(l) \/ Start(l)
               \/ Stop \/ Joined \/ CallShutdown \/ TickByHand \/ TickedByHand
        PROVE  UNCHANGED <<tree, late, opened>> /\ Ticking' = Ticking
    <3>1. UNCHANGED <<tree, late, opened>>
      BY <2>2 DEF LoopStep, LoopTests, LoopGoesOn, LoopFails, LoopCompletes, LoopCalls, Start,
         Stop, Joined, CallShutdown, TickByHand, TickedByHand, treeVars, nodeVars
    <3>2. Ticking' = Ticking
      BY <2>2, TickingStays DEF Inv, ThreadInv, Threads, LoopStep, LoopTests, LoopGoesOn, LoopFails,
         LoopCompletes, LoopCalls, Start, Stop, Joined, CallShutdown, TickByHand, TickedByHand, Go
    <3> QED
      BY <3>1, <3>2
  <2>3. ASSUME \/ Pause \/ Resume
               \/ \E p \in GivenPools : GivePool(p)
               \/ QueueModification
               \/ UNCHANGED vars
        PROVE  UNCHANGED <<tree, late, opened>> /\ Ticking' = Ticking
    <3>1. UNCHANGED <<tree, late, opened, pc>>
      BY <2>3 DEF Pause, Resume, GivePool, QueueModification, vars, treeVars, nodeVars
    <3> QED
      BY <3>1, TickingStays
  <2> QED
    BY <2>1, <2>2, <2>3 DEF Next
<1> QED
  BY <1>1, <1>2, PatientInvariant, PTL DEF Spec, KeepsLifecycle, Lifecycle!Spec
=============================================================================
