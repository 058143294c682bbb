-------------------------- MODULE TickMachineProofs --------------------------
(***************************************************************************)
(* Proofs about TickMachine for every tree and every value of its          *)
(* parameters.                                                             *)
(***************************************************************************)
EXTENDS TickMachine, TLAPS

(***************************************************************************)
(* Memories and frames keep their types.                                   *)
(***************************************************************************)
LEMMA KidInNodes ==
    ASSUME NEW n \in Nodes, NEW i \in 1..Len(Kids[n])
    PROVE  Kids[n][i] \in Nodes /\ Kids[n][i] \in KidSet(n)
BY KidsAssumption DEF KidSet

LEMMA KidsLength ==
    ASSUME NEW n \in Nodes
    PROVE  Len(Kids[n]) \in Nat /\ DOMAIN Kids[n] = 1..Len(Kids[n])
BY KidsAssumption

LEMMA KidSetInNodes ==
    ASSUME NEW n \in Nodes, NEW c \in KidSet(n)
    PROVE  c \in Nodes /\ Parent[c] = n /\ c # Root
BY KidsAssumption, KidsLength DEF KidSet

LEMMA FreshType == ASSUME NEW n \in Nodes PROVE Fresh \in Memory(n)
BY KidsLength DEF Fresh, Memory, Status, Results

LEMMA HooksType ==
    ASSUME NEW n \in Nodes, NEW x \in Memory(n)
    PROVE  /\ OnHalt(x) \in Memory(n)
           /\ OnReset(x) \in Memory(n)
           /\ ClearRunning(x) \in Memory(n)
           /\ [x EXCEPT !.cursor = 1] \in Memory(n)
           /\ [x EXCEPT !.dirty = FALSE] \in Memory(n)
           /\ Subscribe(n, x) \in Memory(n)
<1>1. 0 \in 0..Len(Kids[n])
  BY KidsLength
<1>2. OnHalt(x) \in Memory(n)
  BY <1>1 DEF OnHalt, Memory, Status
<1>3. OnReset(x) \in Memory(n)
  BY <1>1 DEF OnReset, Memory, Status
<1>4. ClearRunning(x) \in Memory(n)
  BY <1>1 DEF ClearRunning, Memory
<1>5. [x EXCEPT !.cursor = 1] \in Memory(n) /\ [x EXCEPT !.dirty = FALSE] \in Memory(n)
  BY <1>1 DEF Memory
<1>6. Subscribe(n, x) \in Memory(n)
  BY <1>1 DEF Subscribe, Memory
<1> QED
  BY <1>2, <1>3, <1>4, <1>5, <1>6

LEMMA ClearedType ==
    ASSUME TypeOK, NEW m \in Nodes, NEW H, NEW R
    PROVE  Cleared(H, R)[m] \in Memory(m)
<1>1. mem[m] \in Memory(m)
  BY DEF TypeOK
<1>2. OnHaltIfRunning(m) \in Memory(m)
  BY <1>1, HooksType DEF OnHaltIfRunning
<1>3. HaltNode(m) \in Memory(m) /\ ResetSubtreeNode(m) \in Memory(m)
  BY <1>2, HooksType DEF HaltNode, ResetSubtreeNode
<1> QED
  BY <1>1, <1>3 DEF Cleared

LEMMA CallType ==
    ASSUME TypeOK, NEW n \in Nodes, NEW c \in Nodes, NEW own \in Memory(n),
           NEW f \in Frames(n), Call(n, own, f, c)
    PROVE  TypeOK'
BY DEF TypeOK, Call, Results

LEMMA ReturnType ==
    ASSUME TypeOK, NEW n \in Nodes, NEW own \in Memory(n), NEW s \in Results,
           NEW H, NEW R, Return(n, own, s, H, R)
    PROVE  TypeOK'
<1>1. mem' = [Cleared(H, R) EXCEPT ![n] = own] /\ DOMAIN Cleared(H, R) = Nodes
  BY DEF Return, Cleared
<1>2. DOMAIN mem' = Nodes /\ \A m \in Nodes : mem'[m] \in Memory(m)
  BY <1>1, ClearedType
<1>3. status' \in [Nodes -> Status]
  BY DEF TypeOK, Return, Idled, Status, Results
<1>4. Off \in Frames(n)
  BY KidsLength DEF Off, Frames
<1>5. DOMAIN frame' = Nodes /\ \A m \in Nodes : frame'[m] \in Frames(m)
  BY <1>4 DEF TypeOK, Return
<1>6. cur' \in Nodes \cup {Env} /\ ret' \in Results
  BY KidsAssumption DEF Return
<1>7. live' \subseteq Nodes /\ notified' \subseteq Nodes
  BY DEF TypeOK, Return, Clear, Stopped, Of
<1>8. fresh' \subseteq Nodes /\ ticked' \subseteq Nodes /\ unseen' \subseteq Nodes
  BY DEF TypeOK, Return
<1> QED
  BY <1>2, <1>3, <1>5, <1>6, <1>7, <1>8 DEF TypeOK


(***************************************************************************)
(* The call stack.  A node is on it while its frame is not Off; the nodes  *)
(* on it are cur and nodes above cur, each with its parent.                *)
(***************************************************************************)
\* Frame f fits node n with memory x.
FrameOK(n, x, f) ==
    /\ f \in Frames(n)
    /\ f.at # "off"
    /\ Kind[n] \in ReactiveKinds =>
          /\ f.at # "loop" /\ f.i # 0
          /\ f.at = "guard" => f.i < x.running
          /\ f.at = "main"  => f.i = x.running
          /\ f.at = "rest"  => x.running = 0

Stack ==
    /\ \A n \in Nodes : OffStack(n) \/ FrameOK(n, mem[n], frame[n])
    /\ \A n \in Nodes : ~OffStack(n) /\ n # Root => ~OffStack(Parent[n])
    /\ \A n \in Nodes : ~OffStack(n) => cur \in Nodes /\ cur \in Under[n]
    /\ cur \in Nodes \ {Root} => ~OffStack(Parent[cur])
    /\ cur \in Nodes => IF ret = "CALL" THEN OffStack(cur)
                                        ELSE ~OffStack(cur) /\ ret \in Results

TypeInv == TypeOK /\ Stack

Below(n) == Under[n] \ {n}

LEMMA KidBelow ==
    ASSUME NEW n \in Nodes, NEW c \in KidSet(n)
    PROVE  /\ c \in Below(n)
           /\ Under[c] \subseteq Below(n)
BY KidSetInNodes, UnderAssumption DEF Below

LEMMA HaltBelow ==
    ASSUME NEW n \in Nodes, NEW C \in SUBSET KidSet(n)
    PROVE  HaltSet(C) \subseteq Below(n) /\ ResetSet(C) \subseteq Below(n)
BY KidBelow, KidSetInNodes DEF HaltSet, ResetSet

LEMMA FinishBelow ==
    ASSUME NEW n \in Nodes
    PROVE  FinishHalts(n) \subseteq Below(n) /\ ResetSet({n}) \subseteq Below(n)
BY UnderAssumption DEF FinishHalts, HaltSet, ResetSet, Turned, Below

LEMMA CallStack ==
    ASSUME TypeInv, NEW n \in Nodes, NEW c \in KidSet(n), NEW own \in Memory(n),
           NEW f, FrameOK(n, own, f), cur = n, Call(n, own, f, c)
    PROVE  TypeInv'
<1>1. c \in Nodes /\ Parent[c] = n /\ c # Root /\ c # n /\ c \in Under[n]
  BY KidSetInNodes, KidBelow DEF Below
<1>2. f \in Frames(n) /\ f # Off
  BY DEF FrameOK, Off
<1>3. TypeOK'
  BY <1>1, <1>2, CallType DEF TypeInv
<1>4. /\ cur' = c /\ ret' = "CALL"
      /\ frame' = [frame EXCEPT ![n] = f] /\ DOMAIN frame = Nodes
      /\ mem' = [mem EXCEPT ![n] = own] /\ DOMAIN mem = Nodes
  BY DEF Call, TypeInv, TypeOK
<1>5. OffStack(c) /\ OffStack(c)'
  <2>1. n \notin Under[c]
    BY <1>1, UnderAssumption
  <2> QED
    BY <1>1, <1>4, <2>1 DEF TypeInv, Stack, OffStack
<1>6. \A m \in Nodes : OffStack(m)' \/ FrameOK(m, mem[m], frame[m])'
  BY <1>4 DEF TypeInv, Stack, OffStack
<1>7. \A m \in Nodes : ~OffStack(m)' /\ m # Root => ~OffStack(Parent[m])'
  BY <1>2, <1>4, KidsAssumption DEF TypeInv, Stack, OffStack
<1>8. \A m \in Nodes : ~OffStack(m)' => cur' \in Nodes /\ cur' \in Under[m]
  BY <1>1, <1>4, UnderAssumption DEF TypeInv, Stack, OffStack
<1>9. ~OffStack(Parent[c])'
  BY <1>1, <1>2, <1>4 DEF OffStack
<1> QED
  BY <1>1, <1>3, <1>4, <1>5, <1>6, <1>7, <1>8, <1>9 DEF TypeInv, Stack

LEMMA ReturnStack ==
    ASSUME TypeInv, NEW n \in Nodes, NEW own \in Memory(n), NEW s \in Results,
           NEW H \in SUBSET Below(n), NEW R \in SUBSET Below(n),
           cur = n, Return(n, own, s, H, R)
    PROVE  TypeInv'
<1>1. TypeOK'
  BY ReturnType DEF TypeInv
<1>2. /\ cur' = Parent[n] /\ ret' = s
      /\ frame' = [frame EXCEPT ![n] = Off] /\ DOMAIN frame = Nodes
      /\ \A m \in Nodes \ (H \cup R \cup {n}) : mem'[m] = mem[m]
  BY DEF Return, Cleared, TypeInv, TypeOK
<1>3. \A m \in H \cup R : OffStack(m)
  BY UnderAssumption DEF TypeInv, Stack, Below
<1>4. \A m \in Nodes : OffStack(m)' <=> m = n \/ OffStack(m)
  BY <1>2 DEF OffStack
<1>5. \A m \in Nodes : OffStack(m)' \/ FrameOK(m, mem[m], frame[m])'
  BY <1>2, <1>3, <1>4 DEF TypeInv, Stack, OffStack
<1>6. \A m \in Nodes : ~OffStack(m)' => m # n /\ n \in Under[m]
  BY <1>4 DEF TypeInv, Stack
<1>7. \A m \in Nodes : ~OffStack(m)' => cur' \in Nodes /\ cur' \in Under[m]
  <2> TAKE m \in Nodes
  <2> HAVE ~OffStack(m)'
  <2>1. Parent[n] \in Under[m] /\ Under[m] \subseteq Nodes
    BY <1>6, UnderAssumption
  <2> QED
    BY <1>2, <2>1
<1>8. \A m \in Nodes : ~OffStack(m)' /\ m # Root => ~OffStack(Parent[m])'
  <2> TAKE m \in Nodes
  <2> HAVE ~OffStack(m)' /\ m # Root
  <2>1. ~OffStack(Parent[m]) /\ Parent[m] \in Nodes
    BY <1>4, KidsAssumption DEF TypeInv, Stack
  <2>2. Parent[m] # n
    BY <1>6, UnderAssumption
  <2> QED
    BY <1>4, <2>1, <2>2
<1>9. cur' \in Nodes => ~OffStack(cur)'
  <2> HAVE cur' \in Nodes
  <2>1. n # Root /\ ~OffStack(Parent[n]) /\ Parent[n] # n
    BY <1>2, KidsAssumption, UnderAssumption DEF TypeInv, Stack
  <2> QED
    BY <1>2, <1>4, <2>1
<1>10. cur' \in Nodes \ {Root} => ~OffStack(Parent[cur])'
  BY <1>8, <1>9
<1>11. ret' \in Results /\ ret' # "CALL"
  BY <1>2 DEF Results
<1> QED
  BY <1>1, <1>5, <1>7, <1>8, <1>9, <1>10, <1>11 DEF TypeInv, Stack

LEMMA RaiseStack ==
    ASSUME TypeInv, Raise
    PROVE  TypeInv'
<1>1. \A m \in Nodes : frame'[m] = Off /\ Off \in Frames(m)
  BY KidsLength DEF Raise, Off, Frames
<1>2. cur' = Env /\ ret' = "RAISE" /\ DOMAIN frame' = Nodes
  BY DEF Raise
<1>3. TypeOK'
  BY <1>1, <1>2 DEF TypeInv, TypeOK, Raise
<1>4. Stack'
  BY <1>1, <1>2, KidsAssumption DEF Stack, OffStack
<1> QED
  BY <1>3, <1>4 DEF TypeInv
(***************************************************************************)
(* Every step of a node that is not a leaf is a call of a child, a return  *)
(* to the parent, or an exception.                                         *)
(***************************************************************************)
\* A suspended node keeps the place of the child it waits for in its cursor or in
\* its frame.
Place(n, x, f) == IF Kind[n] \in OrderedKinds THEN x.cursor ELSE f.i

Calls(n) == \E own \in Memory(n), i \in 1..Len(Kids[n]) : \E f :
                /\ FrameOK(n, own, f) /\ Place(n, own, f) = i
                /\ Call(n, own, f, Kids[n][i])

Returns(n) == \E own \in Memory(n), s \in Results, H \in SUBSET Below(n), R \in SUBSET Below(n) :
                  Return(n, own, s, H, R)

LEMMA YieldReturns ==
    ASSUME NEW n \in Nodes, NEW own \in Memory(n), NEW s \in Results, Yield(n, own, s)
    PROVE  Returns(n)
BY DEF Yield, Returns

LEMMA HaltReturns ==
    ASSUME NEW n \in Nodes, NEW own \in Memory(n), NEW s \in Results,
           NEW C \in SUBSET KidSet(n), HaltAndReturn(n, own, s, C)
    PROVE  Returns(n)
BY HaltBelow DEF HaltAndReturn, Returns

LEMMA PassStop ==
    ASSUME NEW n \in Nodes
    PROVE  /\ Pass(n) \in Settled /\ Stop(n) \in Settled /\ Pass(n) # Stop(n)
           /\ Pass(n) \in Results /\ Stop(n) \in Results
BY DEF Pass, Stop, Settled, Results

LEMMA MemoryNow ==
    ASSUME TypeInv, NEW n \in Nodes
    PROVE  /\ mem[n] \in Memory(n) /\ frame[n] \in Frames(n)
           /\ Len(Kids[n]) \in Nat
           /\ frame[n].i \in 0..Len(Kids[n]) /\ frame[n].i + 1 \in Nat \ {0}
           /\ mem[n].running \in 0..Len(Kids[n])
           /\ mem[n].cursor \in Nat \ {0} /\ mem[n].cursor + 1 \in Nat \ {0}
BY KidsLength DEF TypeInv, TypeOK, Frames, Memory

LEMMA LoopFrame ==
    ASSUME NEW n \in Nodes, NEW own, NEW i \in 0..Len(Kids[n]),
           Kind[n] \notin ReactiveKinds
    PROVE  FrameOK(n, own, [at |-> "loop", i |-> i])
BY KidsLength DEF FrameOK, Frames

LEMMA OrderedShape ==
    ASSUME TypeInv, NEW n \in Nodes, EnterOrdered(n) \/ ResumeOrdered(n)
    PROVE  Calls(n) \/ Returns(n)
<1>1. Kind[n] \notin ReactiveKinds /\ Kind[n] \in OrderedKinds
  BY DEF EnterOrdered, ResumeOrdered, OrderedKinds, ReactiveKinds
<1>2. ASSUME NEW i \in Nat \ {0}, Advance(n, i) PROVE Calls(n) \/ Returns(n)
  <2>1. CASE i <= Len(Kids[n])
    <3>1. [mem[n] EXCEPT !.cursor = i] \in Memory(n)
      BY <2>1, MemoryNow DEF Memory
    <3>2. FrameOK(n, [mem[n] EXCEPT !.cursor = i], [at |-> "loop", i |-> 0])
      BY <1>1, MemoryNow, LoopFrame
    <3>3. [mem[n] EXCEPT !.cursor = i].cursor = i
      <4>1. \A x \in Memory(n) : [x EXCEPT !.cursor = i].cursor = i
        BY DEF Memory
      <4> QED
        BY <4>1, MemoryNow
    <3>4. Place(n, [mem[n] EXCEPT !.cursor = i], [at |-> "loop", i |-> 0]) = i
      BY <1>1, <3>3 DEF Place
    <3>5. i \in 1..Len(Kids[n])
      BY <2>1, MemoryNow
    <3>6. Call(n, [mem[n] EXCEPT !.cursor = i], [at |-> "loop", i |-> 0], Kids[n][i])
      BY <1>2, <2>1 DEF Advance
    <3> QED
      BY <3>1, <3>2, <3>4, <3>5, <3>6 DEF Calls
  <2>2. CASE ~(i <= Len(Kids[n]))
    BY <1>2, <2>2, MemoryNow, HooksType, PassStop, YieldReturns DEF Advance
  <2> QED
    BY <2>1, <2>2
<1>3. CASE EnterOrdered(n)
  BY <1>2, <1>3, MemoryNow DEF EnterOrdered
<1>4. CASE Yield(n, mem[n], "RUNNING")
  BY <1>4, MemoryNow, YieldReturns DEF Results
<1>5. CASE HaltAndReturn(n, [mem[n] EXCEPT !.cursor = 1], Stop(n), KidSet(n))
  BY <1>5, MemoryNow, HooksType, PassStop, HaltReturns
<1>6. CASE Advance(n, mem[n].cursor + 1)
  BY <1>2, <1>6, MemoryNow
<1> QED
  BY <1>3, <1>4, <1>5, <1>6 DEF ResumeOrdered

LEMMA VerdictType ==
    ASSUME NEW n \in Nodes, NEW t
    PROVE  Verdict(n, t) \in Results
BY DEF Verdict, Results

LEMMA ParallelShape ==
    ASSUME TypeInv, NEW n \in Nodes, EnterParallel(n) \/ ResumeParallel(n)
    PROVE  Calls(n) \/ Returns(n)
<1>1. Kind[n] \notin ReactiveKinds
  BY DEF EnterParallel, ResumeParallel, ReactiveKinds
<1>2. ASSUME NEW i \in Nat \ {0}, Parallel(n, i) PROVE Calls(n) \/ Returns(n)
  <2>1. ASSUME NEW j \in Pending(n, i),
               Call(n, mem[n], [at |-> "loop", i |-> j], Kids[n][j])
        PROVE  Calls(n)
    <3>1. j \in 1..Len(Kids[n])
      BY MemoryNow DEF Pending
    <3>2. FrameOK(n, mem[n], [at |-> "loop", i |-> j])
      BY <1>1, <3>1, MemoryNow, LoopFrame
    <3>3. Kind[n] \notin OrderedKinds
      BY DEF EnterParallel, ResumeParallel, OrderedKinds
    <3> QED
      BY <2>1, <3>1, <3>2, <3>3, MemoryNow DEF Calls, Place
  <2>2. ASSUME NEW v \in Results,
               \/ Yield(n, mem[n], v)
               \/ Return(n, mem[n], v, FinishHalts(n), ResetSet({n}))
        PROVE  Returns(n)
    BY <2>2, MemoryNow, FinishBelow, YieldReturns DEF Returns
  <2> QED
    BY <1>2, <2>1, <2>2, VerdictType DEF Parallel, Least
<1> QED
  BY <1>2, MemoryNow DEF EnterParallel, ResumeParallel

LEMMA ReactiveShape ==
    ASSUME TypeInv, NEW n \in Nodes, FullEval(n) \/ FastTick(n) \/ ResumeReactive(n)
    PROVE  Calls(n) \/ Returns(n)
<1> DEFINE f == frame[n]
           x == mem[n]
<1>1. ASSUME NEW own \in Memory(n), NEW at \in {"full", "guard", "main", "rest"},
             NEW i \in Nat \ {0}, OnWith(n, own, at, i),
             at = "guard" => i < own.running,
             at = "main"  => i = own.running,
             at = "rest"  => own.running = 0
      PROVE  Calls(n) \/ Returns(n)
  <2>1. CASE i <= Len(Kids[n])
    <3>1. FrameOK(n, own, [at |-> at, i |-> i])
      BY <1>1, <2>1, MemoryNow DEF FrameOK, Frames
    <3>2. Kind[n] \notin OrderedKinds
      BY DEF FullEval, FastTick, ResumeReactive, OrderedKinds, ReactiveKinds
    <3> QED
      BY <1>1, <2>1, <3>1, <3>2, MemoryNow DEF OnWith, Calls, Place
  <2>2. CASE ~(i <= Len(Kids[n]))
    BY <1>1, <2>2, MemoryNow, HooksType, PassStop, YieldReturns DEF OnWith
  <2> QED
    BY <2>1, <2>2
<1>2. ASSUME NEW i \in Nat \ {0}, Guarded(n, i), x.running # 0
      PROVE  Calls(n) \/ Returns(n)
  <2>1. ASSUME NEW g \in GuardsFrom(n, i), OnWith(n, x, "guard", g)
        PROVE  Calls(n) \/ Returns(n)
    <3>1. g \in Nat \ {0} /\ g < x.running
      BY <1>2, MemoryNow DEF GuardsFrom
    <3> QED
      BY <1>1, <2>1, <3>1, MemoryNow
  <2>2. CASE OnWith(n, x, "main", x.running)
    BY <1>1, <1>2, <2>2, MemoryNow
  <2> QED
    BY <1>2, <2>1, <2>2 DEF Guarded, Least
<1>3. CASE FullEval(n)
  <2>1. [x EXCEPT !.dirty = FALSE] \in Memory(n)
    BY MemoryNow, HooksType
  <2>2. OnWith(n, [x EXCEPT !.dirty = FALSE], "full", 1)
    BY <1>3 DEF FullEval
  <2> QED
    BY <1>1, <2>1, <2>2
<1>4. CASE FastTick(n)
  BY <1>2, <1>4 DEF FastTick, NeedsFullEval
<1>5. CASE ResumeReactive(n)
  <2>1. FrameOK(n, x, f) /\ Kind[n] \in ReactiveKinds
    BY <1>5 DEF ResumeReactive, Resumed, TypeInv, Stack, Results
  <2>2. /\ f.at \in {"full", "guard", "main", "rest"} /\ f.i \in 1..Len(Kids[n])
        /\ f.at = "guard" => x.running # 0
        /\ f.at = "rest" => x.running = 0
    BY <2>1, MemoryNow DEF FrameOK, Frames
  <2>3. CASE ReactivePass(n)
    <3>1. CASE f.at \in {"full", "rest"}
      BY <1>1, <2>2, <2>3, <3>1, MemoryNow DEF ReactivePass
    <3>2. CASE f.at = "guard"
      BY <1>2, <2>2, <2>3, <3>2, MemoryNow DEF ReactivePass
    <3>3. CASE f.at = "main"
      <4>1. ClearRunning(x) \in Memory(n) /\ ClearRunning(x).running = 0
        <5>1. ClearRunning(x) \in Memory(n)
          BY MemoryNow, HooksType
        <5>2. ClearRunning(x).running = 0
          BY MemoryNow DEF ClearRunning, Memory
        <5> QED
          BY <5>1, <5>2
      <4>2. OnWith(n, ClearRunning(x), "rest", f.i + 1)
        BY <2>3, <3>3 DEF ReactivePass
      <4> QED
        BY <1>1, <4>1, <4>2, MemoryNow
    <3> QED
      BY <2>2, <3>1, <3>2, <3>3
  <2>4. CASE ReactiveRunning(n)
    <3>1. PICK own \in {x, Subscribe(n, x)}, C \in SUBSET KidSet(n) :
             HaltAndReturn(n, [own EXCEPT !.running = f.i], "RUNNING", C)
      <4>1. KidsFrom(n, f.i + 1) \in SUBSET KidSet(n)
        BY <2>2, KidInNodes DEF KidsFrom
      <4> QED
        BY <2>4, <4>1 DEF ReactiveRunning
    <3>2. [own EXCEPT !.running = f.i] \in Memory(n)
      <4>1. own \in Memory(n)
        BY MemoryNow, HooksType
      <4>2. f.i \in 0..Len(Kids[n])
        BY MemoryNow
      <4> HIDE DEF f
      <4> QED
        BY <4>1, <4>2 DEF Memory
    <3> QED
      BY <3>1, <3>2, HaltReturns DEF Results
  <2>5. CASE HaltAndReturn(n, ClearRunning(x), Stop(n), KidsFrom(n, f.i + 1))
    <3>1. KidsFrom(n, f.i + 1) \in SUBSET KidSet(n)
      BY <2>2, KidInNodes DEF KidsFrom
    <3> QED
      BY <2>5, <3>1, MemoryNow, HooksType, PassStop, HaltReturns
  <2> QED
    BY <1>5, <2>3, <2>4, <2>5 DEF ResumeReactive
<1> QED
  BY <1>3, <1>4, <1>5
LEMMA DecoratorShape ==
    ASSUME TypeInv, NEW n \in Nodes,
           \/ EnterWrapper(n) \/ ResumeWrapper(n) \/ EnterRetry(n) \/ ResumeRetry(n)
           \/ EnterTimeout(n) \/ Expire(n) \/ EnterRate(n) \/ ReplayRate(n)
           \/ ResumeRate(n)
    PROVE  Calls(n) \/ Returns(n) \/ Raise
<1> DEFINE x == mem[n]
<1>1. /\ Kind[n] \notin ReactiveKinds /\ Kind[n] \notin OrderedKinds
      /\ Len(Kids[n]) = 1
      /\ Kid(n) \in KidSet(n)
  <2>1. Kind[n] \in DecoratorKinds
    BY DEF EnterWrapper, ResumeWrapper, EnterRetry, ResumeRetry, EnterTimeout, Expire,
           EnterRate, ReplayRate, ResumeRate, DecoratorKinds
  <2> QED
    BY <2>1, KindAssumption, KidInNodes
       DEF DecoratorKinds, WrapperKinds, ReactiveKinds, OrderedKinds, Kid
<1>2. x \in Memory(n)
  BY MemoryNow
<1>3. /\ [x EXCEPT !.attempts = 0] \in Memory(n)
      /\ [x EXCEPT !.attempts = @ + 1] \in Memory(n)
      /\ [x EXCEPT !.attempts = IF status[n] = "RUNNING" THEN @ ELSE 0] \in Memory(n)
      /\ [x EXCEPT !.stamped = TRUE] \in Memory(n)
      /\ \A s \in Results : [x EXCEPT !.last = s] \in Memory(n)
  <2>1. x.attempts \in Nat
    BY <1>2 DEF Memory
  <2>2. \A k \in Nat : [x EXCEPT !.attempts = k] \in Memory(n)
    BY <1>2 DEF Memory
  <2>3. \A s \in Results : [x EXCEPT !.last = s] \in Memory(n)
    BY <1>2 DEF Memory, Status
  <2>4. [x EXCEPT !.stamped = TRUE] \in Memory(n)
    BY <1>2 DEF Memory
  <2> HIDE DEF x
  <2> QED
    BY <2>1, <2>2, <2>3, <2>4
<1>4. ASSUME NEW own \in Memory(n), CallKid(n, own) PROVE Calls(n)
  <2>1. FrameOK(n, own, [at |-> "loop", i |-> 1])
    BY <1>1, LoopFrame
  <2> QED
    BY <1>1, <1>4, <2>1 DEF CallKid, Calls, Place, Kid
<1>5. \A s \in Results : Wrapped(n, s) \in Results
  BY DEF Wrapped, Results
<1>6. ASSUME NEW own \in Memory(n), NEW s \in Results, HaltAndReturn(n, own, s, {Kid(n)})
      PROVE  Returns(n)
  <2>1. {Kid(n)} \in SUBSET KidSet(n)
    BY <1>1
  <2> QED
    BY <1>6, <2>1, HaltReturns
<1>7. CASE EnterWrapper(n) \/ EnterTimeout(n) \/ EnterRate(n)
  BY <1>2, <1>3, <1>4, <1>7 DEF EnterWrapper, EnterTimeout, EnterRate
<1>8. CASE ResumeWrapper(n) \/ ResumeRate(n)
  BY <1>2, <1>3, <1>5, <1>8, YieldReturns DEF ResumeWrapper, ResumeRate
<1>9. CASE EnterRetry(n)
  BY <1>3, <1>4, <1>9, YieldReturns DEF EnterRetry, Results
<1>10. CASE ResumeRetry(n)
  BY <1>2, <1>3, <1>6, <1>10, YieldReturns DEF ResumeRetry, Results
<1>11. CASE Expire(n)
  BY <1>2, <1>6, <1>11 DEF Expire, Results
<1>12. CASE ReplayRate(n)
  <2>1. x.last \in Status
    BY <1>2 DEF Memory
  <2> QED
    BY <1>2, <1>12, <2>1, YieldReturns DEF ReplayRate, Status
<1> QED
  BY <1>7, <1>8, <1>9, <1>10, <1>11, <1>12

\* The steps of a node, sorted.
InnerStep(n) ==
    /\ Kind[n] \notin LeafKinds /\ cur = n
    /\ Calls(n) \/ Returns(n)

LEMMA StepShape ==
    ASSUME TypeInv, NEW n \in Nodes, NodeStep(n)
    PROVE  LeafReturn(n) \/ InnerStep(n) \/ Raise
<1>1. CASE LeafReturn(n) \/ LeafRaise(n)
  BY <1>1 DEF LeafRaise
<1>2. CASE ~(LeafReturn(n) \/ LeafRaise(n))
  <2>1. Kind[n] \notin LeafKinds /\ cur = n
    BY <1>2 DEF NodeStep, EnterOrdered, ResumeOrdered, EnterParallel, ResumeParallel,
         FullEval, FastTick, ResumeReactive, EnterWrapper, ResumeWrapper, EnterRetry,
         ResumeRetry, EnterTimeout, Expire, EnterRate, ReplayRate, ResumeRate, Called,
         Resumed, OrderedKinds, ReactiveKinds, WrapperKinds, LeafKinds
  <2>2. Calls(n) \/ Returns(n) \/ Raise
    BY <1>2, OrderedShape, ParallelShape, ReactiveShape, DecoratorShape DEF NodeStep
  <2> QED
    BY <2>1, <2>2 DEF InnerStep
<1> QED
  BY <1>1, <1>2
(***************************************************************************)
(* TypeInv is inductive.                                                   *)
(***************************************************************************)
LEMMA LeafStack ==
    ASSUME TypeInv, NEW n \in Nodes, LeafReturn(n)
    PROVE  TypeInv'
<1>1. PICK s \in Results : /\ status' = [status EXCEPT ![n] = s] /\ ret' = s
                           /\ live' \in {live \cup {n}, live \ {n}}
  BY ParameterAssumption DEF LeafReturn, Of
<1>2. cur = n /\ ret = "CALL" /\ cur' = Parent[n] /\ frame' = frame /\ mem' = mem
  BY DEF LeafReturn, Called
<1>3. TypeOK'
  <2>1. status' \in [Nodes -> Status] /\ ret' \in Results
    BY <1>1 DEF TypeInv, TypeOK, Status
  <2>2. cur' \in Nodes \cup {Env}
    BY <1>2, KidsAssumption
  <2>3. live' \subseteq Nodes
    BY <1>1 DEF TypeInv, TypeOK
  <2>4. /\ notified' \subseteq Nodes /\ fresh' \subseteq Nodes
        /\ ticked' \subseteq Nodes /\ unseen' \subseteq Nodes
    BY DEF LeafReturn, TypeInv, TypeOK
  <2> QED
    BY <1>2, <2>1, <2>2, <2>3, <2>4 DEF TypeInv, TypeOK
<1>4. \A m \in Nodes : ~OffStack(m) => cur' \in Nodes /\ cur' \in Under[m]
  <2> TAKE m \in Nodes
  <2> HAVE ~OffStack(m)
  <2>1. n \in Under[m] /\ n # m
    BY <1>2 DEF TypeInv, Stack
  <2> QED
    BY <1>2, <2>1, UnderAssumption
<1>5. cur' \in Nodes => n # Root /\ ~OffStack(cur')
  BY <1>2, KidsAssumption DEF TypeInv, Stack
<1>6. ret' # "CALL" /\ ret' \in Results
  BY <1>1 DEF Results
<1> QED
  BY <1>2, <1>3, <1>4, <1>5, <1>6 DEF TypeInv, Stack, OffStack

LEMMA TickOnceStack == ASSUME TypeInv, TickOnce PROVE TypeInv'
<1>1. TypeOK'
  BY KidsAssumption DEF TypeInv, TypeOK, TickOnce
<1>2. cur = Env /\ cur' = Root /\ ret' = "CALL" /\ frame' = frame /\ mem' = mem
  BY DEF TickOnce
<1>3. \A m \in Nodes : OffStack(m)
  BY <1>2, KidsAssumption DEF TypeInv, Stack
<1> QED
  BY <1>1, <1>2, <1>3, KidsAssumption DEF TypeInv, Stack, OffStack

LEMMA HaltAllStack == ASSUME TypeInv, HaltAll PROVE TypeInv'
<1> DEFINE H == HaltSet({Root})
           R == ResetSet({Root})
<1>1. /\ cur = Env /\ cur' = cur /\ frame' = frame /\ ret' = ret
      /\ mem' = Cleared(H, R) /\ status' = Idled(H \cup R) /\ Clear(H, R)
      /\ fresh' = fresh /\ ticked' = ticked /\ unseen' = unseen
  BY DEF HaltAll
<1>2. \A m \in Nodes : OffStack(m)
  BY <1>1, KidsAssumption DEF TypeInv, Stack
<1>3. DOMAIN mem' = Nodes /\ \A m \in Nodes : mem'[m] \in Memory(m)
  <2>1. DOMAIN Cleared(H, R) = Nodes
    BY DEF Cleared
  <2> QED
    BY <1>1, <2>1, ClearedType DEF TypeInv
<1>4. status' \in [Nodes -> Status]
  BY <1>1 DEF Idled, TypeInv, TypeOK, Status
<1>5. live' \subseteq Nodes /\ notified' \subseteq Nodes
  BY <1>1 DEF Clear, Stopped, Of, TypeInv, TypeOK
<1>6. TypeOK'
  BY <1>1, <1>3, <1>4, <1>5 DEF TypeInv, TypeOK
<1> QED
  BY <1>1, <1>2, <1>6, KidsAssumption DEF TypeInv, Stack, OffStack

LEMMA ResetAllStack == ASSUME TypeInv, ResetAll PROVE TypeInv'
<1>1. /\ cur = Env /\ cur' = cur /\ frame' = frame /\ ret' = ret
      /\ mem' = [m \in Nodes |-> ResetNode(m)]
  BY DEF ResetAll
<1>2. \A m \in Nodes : OffStack(m)
  BY <1>1, KidsAssumption DEF TypeInv, Stack
<1>3. DOMAIN mem' = Nodes /\ \A m \in Nodes : mem'[m] \in Memory(m)
  BY <1>1, HooksType DEF TypeInv, TypeOK, ResetNode
<1>4. TypeOK'
  BY <1>1, <1>3 DEF ResetAll, TypeInv, TypeOK, Status, Of
<1> QED
  BY <1>1, <1>2, <1>4, KidsAssumption DEF TypeInv, Stack, OffStack

LEMMA WriteStack == ASSUME TypeInv, Write PROVE TypeInv'
<1> DEFINE written(m) == [mem[m] EXCEPT !.dirty = @ \/ mem[m].subs]
<1>1. /\ mem' = [m \in Nodes |-> written(m)]
      /\ UNCHANGED <<status, frame, cur, ret, live, fresh, ticked>>
  BY DEF Write
<1>2. \A m \in Nodes : /\ written(m) \in Memory(m)
                       /\ written(m).running = mem[m].running
  BY DEF TypeInv, TypeOK, Memory
<1>3. TypeOK'
  BY <1>1, <1>2 DEF Write, TypeInv, TypeOK
<1>4. \A m \in Nodes : OffStack(m)' \/ FrameOK(m, mem[m], frame[m])'
  BY <1>1, <1>2 DEF TypeInv, Stack, FrameOK, OffStack
<1> QED
  BY <1>1, <1>3, <1>4 DEF TypeInv, Stack, OffStack

LEMMA InitStack == Init => TypeInv
<1> SUFFICES ASSUME Init PROVE TypeInv
  OBVIOUS
<1>1. \A n \in Nodes : Fresh \in Memory(n) /\ Off \in Frames(n)
  BY FreshType, KidsLength DEF Frames, Off
<1>2. TypeOK
  BY <1>1 DEF Init, TypeOK, Status
<1> QED
  BY <1>2, KidsAssumption DEF Init, TypeInv, Stack, OffStack

LEMMA TypeInvStep == TypeInv /\ [Next]_vars => TypeInv'
<1> SUFFICES ASSUME TypeInv, [Next]_vars PROVE TypeInv'
  OBVIOUS
<1>1. CASE TickOnce \/ HaltAll \/ ResetAll \/ Write
  BY <1>1, TickOnceStack, HaltAllStack, ResetAllStack, WriteStack
<1>2. ASSUME NEW n \in Nodes, NodeStep(n) PROVE TypeInv'
  <2>1. CASE LeafReturn(n)
    BY <2>1, LeafStack
  <2>2. CASE InnerStep(n)
    <3>1. Calls(n) => TypeInv'
      BY <2>2, KidInNodes, CallStack DEF InnerStep, Calls
    <3>2. Returns(n) => TypeInv'
      BY <2>2, ReturnStack DEF InnerStep, Returns
    <3> QED
      BY <2>2, <3>1, <3>2 DEF InnerStep
  <2>3. CASE Raise
    BY <2>3, RaiseStack
  <2> QED
    BY <1>2, <2>1, <2>2, <2>3, StepShape
<1>3. CASE UNCHANGED vars
  BY <1>3 DEF vars, TypeInv, TypeOK, Stack, OffStack
<1> QED
  BY <1>1, <1>2, <1>3 DEF Next

\* The variables keep their types, and the nodes being ticked always form one
\* path from the root to the node in control.
THEOREM TypeCorrect == Spec => []TypeInv
<1>1. TypeInv /\ [Next]_vars => TypeInv'
  BY TypeInvStep
<1> QED
  BY InitStack, <1>1, PTL DEF Spec

\* The type invariant that the runs check, for every tree and every choice of
\* the leaves: cursors and running indices stay inside the lists of children.
THEOREM TypeOKHolds == Spec => []TypeOK
<1>1. TypeInv => TypeOK
  BY DEF TypeInv
<1> QED
  BY TypeCorrect, <1>1, PTL

(***************************************************************************)
(* Goals.                                                                  *)
(***************************************************************************)
LEMMA GoalsStep == TypeInv /\ GoalsTracked /\ [Next]_vars => GoalsTracked'
<1> SUFFICES ASSUME TypeInv, GoalsTracked, [Next]_vars PROVE GoalsTracked'
  OBVIOUS
<1> USE DEF GoalsTracked, Of
<1>1. CASE TickOnce \/ Write \/ Raise \/ UNCHANGED vars
  BY <1>1 DEF TickOnce, Write, Raise, vars
<1>2. CASE HaltAll
  <2> DEFINE S == HaltSet({Root}) \cup ResetSet({Root})
  <2>1. status' = Idled(S) /\ live' = live \ {m \in S : status[m] = "RUNNING" /\ Kind[m] = "Stateful"}
    BY <1>2 DEF HaltAll, Clear, Stopped, HaltSet, ResetSet
  <2> QED
    BY <2>1 DEF Idled
<1>3. CASE ResetAll
  BY <1>3 DEF ResetAll
<1>4. ASSUME NEW n \in Nodes, NodeStep(n) PROVE GoalsTracked'
  <2>1. CASE LeafReturn(n)
    BY <2>1 DEF LeafReturn, TypeInv, TypeOK
  <2>2. CASE InnerStep(n) /\ Calls(n)
    BY <2>2 DEF Calls, Call
  <2>3. CASE InnerStep(n) /\ Returns(n)
    <3>1. Kind[n] # "Stateful"
      BY <2>3 DEF InnerStep, LeafKinds
    <3>2. PICK own \in Memory(n), s \in Results, H \in SUBSET Below(n), R \in SUBSET Below(n) :
              Return(n, own, s, H, R)
      BY <2>3 DEF Returns
    <3>3. /\ status' = [Idled(H \cup R) EXCEPT ![n] = s]
          /\ live' = live \ {m \in H \cup R : status[m] = "RUNNING" /\ m \in Nodes /\ Kind[m] = "Stateful"}
      BY <3>2 DEF Return, Clear, Stopped
    <3> QED
      BY <3>1, <3>3 DEF Idled
  <2> QED
    BY <1>1, <1>4, <2>1, <2>2, <2>3, StepShape DEF InnerStep
<1> QED
  BY <1>1, <1>2, <1>3, <1>4 DEF Next

\* The goal a StatefulActionNode started is live exactly while the engine shows
\* the node as RUNNING, whatever fails, is halted or is reset around it.
THEOREM GoalsTrackedHolds == Spec => []GoalsTracked
<1>1. Init => GoalsTracked
  BY DEF Init, GoalsTracked, Of
<1>2. TypeInv /\ GoalsTracked /\ [Next]_vars => GoalsTracked'
  BY GoalsStep
<1> QED
  BY <1>1, <1>2, TypeCorrect, PTL DEF Spec
=============================================================================
