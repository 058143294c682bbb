--------------------------- MODULE TickSafetyProofs ---------------------------
(***************************************************************************)
(* What a tick never does, for every tree: proofs about TickMachine that   *)
(* rest on TypeInv of TickMachineProofs.                                   *)
(***************************************************************************)
EXTENDS TickMachineProofs, FiniteSetTheorems, WellFoundedInduction

(***************************************************************************)
(* The tree.  Its finiteness is used once: a set of nodes has a topmost    *)
(* one, so that a walk down from a node finds the last place where a       *)
(* property holds.                                                         *)
(***************************************************************************)
LEMMA LeastNumber ==
    ASSUME NEW S, S \subseteq Nat, S # {}
    PROVE  \E m \in S : \A k \in S : ~(k < m)
<1>1. PICK m \in S : \A k \in S : <<k, m>> \notin OpToRel(<, Nat)
  BY NatLessThanWellFounded, WFMin, Zenon
<1>2. \A k \in S : <<k, m>> \in Nat \X Nat
  BY <1>1
<1>3. \A k \in S : k < m => <<k, m>> \in OpToRel(<, Nat)
  BY <1>2, Zenon DEF OpToRel
<1> QED
  BY <1>1, <1>3

LEMMA UnderSize ==
    ASSUME NEW n \in Nodes
    PROVE  /\ IsFiniteSet(Under[n]) /\ Cardinality(Under[n]) \in Nat
           /\ Cardinality(Under[n]) <= Cardinality(Nodes) /\ Cardinality(Nodes) \in Nat
<1>1. IsFiniteSet(Nodes) /\ Under[n] \subseteq Nodes
  BY KidsAssumption, UnderAssumption
<1> QED
  BY <1>1, FS_Subset, FS_CardinalityType

LEMMA Topmost ==
    ASSUME NEW S \in SUBSET Nodes, S # {}
    PROVE  \E x \in S : \A y \in S : x \in Under[y] => y = x
<1> DEFINE size(n) == Cardinality(Nodes) - Cardinality(Under[n])
           Sizes == {size(n) : n \in S}
<1>1. Sizes \subseteq Nat /\ Sizes # {}
  BY UnderSize
<1>2. PICK m \in Sizes : \A k \in Sizes : ~(k < m)
  <2> HIDE DEF Sizes
  <2> QED
    BY <1>1, LeastNumber
<1>3. PICK x \in S : m = size(x)
  BY <1>2
<1>4. ASSUME NEW y \in S, x \in Under[y], y # x PROVE FALSE
  <2>1. Under[x] \subseteq Under[y] /\ y \in Under[y] /\ y \notin Under[x]
    BY <1>4, UnderAssumption
  <2>2. Cardinality(Under[x]) < Cardinality(Under[y])
    <3>1. Under[x] # Under[y] /\ IsFiniteSet(Under[y])
      BY <2>1, UnderSize
    <3> QED
      BY <2>1, <3>1, FS_Subset, UnderSize
  <2>3. size(y) \in Sizes /\ size(y) < size(x)
    BY <2>2, UnderSize
  <2> QED
    BY <1>2, <1>3, <2>3
<1> QED
  BY <1>4

\* What is below a node is below one of its children.
LEMMA BelowAKid ==
    ASSUME NEW n \in Nodes, NEW m \in Below(n)
    PROVE  \E c \in KidSet(n) : m \in Under[c]
<1> DEFINE S == {x \in Below(n) : m \in Under[x]}
<1>1. S \in SUBSET Nodes /\ m \in S
  BY UnderAssumption DEF Below
<1>2. PICK x \in S : \A y \in S : x \in Under[y] => y = x
  <2> HIDE DEF S
  <2> QED
    BY <1>1, Topmost
<1>3. x \in Nodes /\ x # n /\ Parent[x] \in Under[n] /\ Parent[x] \in Nodes
  BY <1>1, <1>2, UnderAssumption DEF Below
<1>4. x \in Under[Parent[x]] /\ Parent[x] # x
  BY <1>3, UnderAssumption
<1>5. Parent[x] = n
  <2>1. Parent[x] \in S => Parent[x] = x
    BY <1>2, <1>4
  <2>2. m \in Under[Parent[x]]
    BY <1>2, <1>3, <1>4, UnderAssumption
  <2> QED
    BY <1>3, <1>4, <2>1, <2>2 DEF Below
<1> QED
  BY <1>2, <1>3, <1>5, KidsAssumption

\* Siblings have nothing in common.
LEMMA Siblings ==
    ASSUME NEW n \in Nodes, NEW c \in KidSet(n), NEW d \in KidSet(n), c # d
    PROVE  d \notin Under[c]
BY KidSetInNodes, KidBelow, UnderAssumption DEF Below
(***************************************************************************)
(* halt().  W is what a halt() called from o reached: from a node o, or    *)
(* from Env, over the whole tree.                                          *)
(***************************************************************************)
Closed(W) ==
    /\ \A x \in W : \A c \in KidSet(x) : c \in W \/ status[c] = "IDLE"
    /\ \A x \in W : \A y \in Under[x] :
          y \in W \/ \E d \in Below(x) : y \in Under[d] /\ status[d] = "IDLE"

Swept(o, H, R) ==
    /\ H \cup R \subseteq Nodes
    /\ \A x \in H \cup R : Parent[x] = o \/ Parent[x] \in H \cup R
    /\ Closed(H \cup R)
    /\ \A x \in R : \E d \in H \cup R : x \in Under[d] /\ status[d] \in Settled

\* The nodes on the way to a child are those on the way to its parent, and it.
LEMMA TurnedKid ==
    ASSUME NEW a \in Nodes, NEW p \in Under[a], NEW c \in KidSet(p)
    PROVE  /\ Turned(a, c) \subseteq Turned(a, p) \cup {c}
           /\ Turned(a, p) \subseteq Turned(a, c)
           /\ c \in Under[a] /\ c \in Nodes
           /\ c \in Turned(a, c) => Kind[p] = "Parallel" /\ status[c] # "RUNNING"
<1>1. p \in Nodes /\ c \in Nodes /\ Parent[c] = p /\ c \in Under[p] /\ c \in Under[a]
  BY KidSetInNodes, KidBelow, UnderAssumption DEF Below
<1> QED
  BY <1>1, UnderAssumption DEF Turned

\* halt() goes on to the children, but for the IDLE ones of a Parallel.
LEMMA HaltGoesDown ==
    ASSUME NEW C \in SUBSET Nodes, status \in [Nodes -> Status],
           NEW p \in HaltSet(C) \cup ResetSet(C), NEW c \in KidSet(p)
    PROVE  c \in HaltSet(C) \cup ResetSet(C) \/ status[c] = "IDLE"
<1>1. CASE p \in HaltSet(C)
  <2>1. PICK a \in C : p \in Under[a] /\ Turned(a, p) = {}
    BY <1>1 DEF HaltSet
  <2>2. Turned(a, c) \subseteq {c} /\ c \in Under[a] /\ c \in Nodes
    BY <2>1, TurnedKid
  <2>3. CASE Turned(a, c) = {}
    BY <2>2, <2>3 DEF HaltSet
  <2>4. CASE c \in Turned(a, c)
    <3>1. status[c] # "RUNNING" /\ (status[c] \in Settled => c \in ResetSet(C))
      BY <2>2, <2>4, UnderAssumption DEF ResetSet, Turned
    <3> QED
      BY <2>2, <3>1 DEF Status, Results, Settled
  <2> QED
    BY <2>2, <2>3, <2>4
<1>2. CASE p \in ResetSet(C)
  <2>1. PICK a \in C, d \in Nodes :
           d \in Turned(a, p) /\ p \in Under[a] /\ status[d] \in Settled /\ \A e \in Turned(a, p) : e \in Under[d]
    BY <1>2, UnderAssumption DEF ResetSet, Turned
  <2>2. /\ Turned(a, c) \subseteq Turned(a, p) \cup {c} /\ d \in Turned(a, c)
        /\ c \in Under[a] /\ c \in Nodes
    BY <2>1, TurnedKid
  <2>3. \A e \in Turned(a, c) : e \in Under[d]
    BY <2>1, <2>2 DEF Turned
  <2> QED
    BY <2>1, <2>2, <2>3 DEF ResetSet
<1> QED
  BY <1>1, <1>2

\* What halt() reaches below a node of C it reaches from above.
LEMMA HaltComesDown ==
    ASSUME NEW C \in SUBSET Nodes, NEW m \in HaltSet(C) \cup ResetSet(C), m \notin C
    PROVE  Parent[m] \in HaltSet(C) \cup ResetSet(C)
<1>1. ASSUME NEW a \in C, m \in Under[a]
      PROVE  m \in Nodes /\ Parent[m] \in Under[a] /\ Parent[m] \in Nodes /\ m \in KidSet(Parent[m])
  BY <1>1, UnderAssumption, KidsAssumption
<1>2. CASE m \in HaltSet(C)
  <2>1. PICK a \in C : m \in Under[a] /\ Turned(a, m) = {}
    BY <1>2 DEF HaltSet
  <2>2. Turned(a, Parent[m]) = {}
    BY <1>1, <2>1, TurnedKid
  <2> QED
    BY <1>1, <2>1, <2>2 DEF HaltSet
<1>3. CASE m \in ResetSet(C)
  <2>1. PICK a \in C, d \in Nodes :
           d \in Turned(a, m) /\ m \in Under[a] /\ status[d] \in Settled /\ \A e \in Turned(a, m) : e \in Under[d]
    BY <1>3, UnderAssumption DEF ResetSet, Turned
  <2>2. /\ Parent[m] \in Under[a] /\ Parent[m] \in Nodes /\ m \in KidSet(Parent[m])
        /\ Turned(a, Parent[m]) \subseteq Turned(a, m)
    BY <1>1, <2>1, TurnedKid
  <2>3. CASE m = d
    <3>1. \A e \in Turned(a, Parent[m]) : e \in Under[m] /\ Parent[m] \in Under[e]
      BY <2>1, <2>2, <2>3 DEF Turned
    <3>2. Parent[m] \notin Under[m]
      BY <2>2, KidSetInNodes, UnderAssumption
    <3>3. Turned(a, Parent[m]) = {}
      <4> SUFFICES ASSUME NEW e \in Turned(a, Parent[m]) PROVE FALSE
        OBVIOUS
      <4>1. m \in Nodes /\ e \in Under[m] /\ Parent[m] \in Under[e]
        BY <2>1, <2>3, <3>1
      <4> QED
        BY <3>2, <4>1, UnderAssumption
    <3> QED
      BY <2>1, <2>2, <3>3 DEF HaltSet
  <2>4. CASE m # d
    <3>1. d \in Turned(a, Parent[m])
      BY <2>1, <2>4, UnderAssumption DEF Turned
    <3> QED
      BY <2>1, <2>2, <3>1 DEF ResetSet
  <2> QED
    BY <2>3, <2>4
<1> QED
  BY <1>2, <1>3

LEMMA HaltStarts ==
    ASSUME NEW C \in SUBSET Nodes
    PROVE  C \subseteq HaltSet(C)
<1>1. \A a \in C : Turned(a, a) = {} /\ a \in Under[a]
  BY UnderAssumption DEF Turned
<1> QED
  BY <1>1 DEF HaltSet

\* Nodes below what was reached were reached, or are below an IDLE node.
LEMMA HaltMisses ==
    ASSUME NEW C \in SUBSET Nodes, status \in [Nodes -> Status],
           NEW p \in HaltSet(C) \cup ResetSet(C), NEW m \in Under[p],
           m \notin HaltSet(C) \cup ResetSet(C)
    PROVE  \E d \in Below(p) : m \in Under[d] /\ status[d] = "IDLE"
<1> DEFINE Z == HaltSet(C) \cup ResetSet(C)
           S == {x \in Under[p] \ Z : m \in Under[x]}
<1>1. p \in Nodes /\ m \in S /\ S \in SUBSET Nodes
  BY UnderAssumption DEF HaltSet, ResetSet
<1>2. PICK x \in S : \A y \in S : x \in Under[y] => y = x
  <2> HIDE DEF S
  <2> QED
    BY <1>1, Topmost
<1>3. x \in Nodes /\ x # p /\ Parent[x] \in Under[p] /\ Parent[x] \in Nodes
  BY <1>1, <1>2, UnderAssumption
<1>4. x \in Under[Parent[x]] /\ Parent[x] # x /\ x \in KidSet(Parent[x])
  BY <1>3, UnderAssumption, KidsAssumption
<1>5. m \in Under[Parent[x]]
  BY <1>2, <1>3, <1>4, UnderAssumption
<1>6. Parent[x] \in Z
  BY <1>2, <1>3, <1>4, <1>5
<1>7. status[x] = "IDLE"
  BY <1>2, <1>4, <1>6, HaltGoesDown
<1> QED
  BY <1>2, <1>3, <1>7 DEF Below

LEMMA HaltIsClosed ==
    ASSUME NEW C \in SUBSET Nodes, status \in [Nodes -> Status]
    PROVE  /\ HaltSet(C) \cup ResetSet(C) \subseteq Nodes
           /\ Closed(HaltSet(C) \cup ResetSet(C))
           /\ \A x \in ResetSet(C) : \E d \in ResetSet(C) : x \in Under[d] /\ status[d] \in Settled
<1>1. ASSUME NEW x \in ResetSet(C)
      PROVE  \E d \in ResetSet(C) : x \in Under[d] /\ status[d] \in Settled
  <2>1. PICK a \in C, d \in Nodes :
           d \in Turned(a, x) /\ x \in Under[a] /\ status[d] \in Settled /\ \A e \in Turned(a, x) : e \in Under[d]
    BY UnderAssumption DEF ResetSet, Turned
  <2>2. d \in Under[a] /\ d \in Nodes /\ x \in Under[d]
    BY <2>1, UnderAssumption DEF Turned
  <2>3. d \in Turned(a, d) /\ \A e \in Turned(a, d) : e \in Turned(a, x)
    BY <2>1, <2>2, UnderAssumption DEF Turned
  <2>4. d \in ResetSet(C)
    BY <2>1, <2>2, <2>3 DEF ResetSet
  <2> QED
    BY <2>1, <2>2, <2>4
<1>2. HaltSet(C) \cup ResetSet(C) \subseteq Nodes
  BY DEF HaltSet, ResetSet
<1>3. Closed(HaltSet(C) \cup ResetSet(C))
  BY HaltGoesDown, HaltMisses DEF Closed
<1> QED
  BY <1>1, <1>2, <1>3

LEMMA NobodySwept == ASSUME NEW o PROVE Swept(o, {}, {})
BY DEF Swept, Closed

\* The three sweeps there are: of children, of all below a Parallel, of the tree.
LEMMA KidsSwept ==
    ASSUME status \in [Nodes -> Status], NEW n \in Nodes, NEW C \in SUBSET KidSet(n)
    PROVE  /\ Swept(n, HaltSet(C), ResetSet(C)) /\ C \subseteq HaltSet(C)
           /\ \A c \in KidSet(n) \ C : c \notin HaltSet(C) \cup ResetSet(C)
<1>1. C \in SUBSET Nodes /\ \A c \in C : Parent[c] = n
  BY KidSetInNodes
<1>2. \A x \in HaltSet(C) \cup ResetSet(C) : Parent[x] = n \/ Parent[x] \in HaltSet(C) \cup ResetSet(C)
  BY <1>1, HaltComesDown
<1>3. \A c \in KidSet(n) \ C : c \notin HaltSet(C) \cup ResetSet(C)
  BY Siblings DEF HaltSet, ResetSet
<1> QED
  BY <1>1, <1>2, <1>3, HaltIsClosed, HaltStarts DEF Swept

LEMMA FinishSwept ==
    ASSUME status \in [Nodes -> Status], NEW n \in Nodes
    PROVE  /\ Swept(n, FinishHalts(n), ResetSet({n}))
           /\ \A c \in KidSet(n) : c \in FinishHalts(n) \cup ResetSet({n}) \/ status[c] = "IDLE"
           /\ \A y \in Below(n) : \/ y \in FinishHalts(n) \cup ResetSet({n})
                                  \/ \E d \in Below(n) : y \in Under[d] /\ status[d] = "IDLE"
<1> DEFINE Z == HaltSet({n}) \cup ResetSet({n})
           W == FinishHalts(n) \cup ResetSet({n})
<1>1. n \notin ResetSet({n}) /\ n \in HaltSet({n})
  BY FinishBelow, HaltStarts DEF Below
<1>2. W = Z \ {n} /\ W \subseteq Below(n)
  BY <1>1, FinishBelow DEF FinishHalts
<1>3. /\ Z \subseteq Nodes /\ Closed(Z)
      /\ \A x \in ResetSet({n}) : \E d \in ResetSet({n}) : x \in Under[d] /\ status[d] \in Settled
  BY HaltIsClosed
<1>4. \A x \in W : Parent[x] \in Z
  BY <1>2, HaltComesDown
<1>5. \A x \in W : \A y \in Under[x] : y # n
  BY <1>2, UnderAssumption DEF Below
<1>6. Closed(W)
  <2>1. \A x \in W : \A c \in KidSet(x) : c \in Under[x]
    BY <1>2, <1>3, KidBelow DEF Below
  <2> QED
    BY <1>2, <1>3, <1>5, <2>1 DEF Closed
<1>7. Swept(n, FinishHalts(n), ResetSet({n}))
  BY <1>2, <1>3, <1>4, <1>6 DEF Swept
<1>8. \A c \in KidSet(n) : c \in W \/ status[c] = "IDLE"
  BY <1>1, <1>2, <1>3, KidBelow DEF Closed, Below
<1>9. \A y \in Below(n) : y \in W \/ \E d \in Below(n) : y \in Under[d] /\ status[d] = "IDLE"
  BY <1>1, <1>2, <1>3 DEF Closed, Below
<1> QED
  BY <1>7, <1>8, <1>9

LEMMA TreeSwept ==
    ASSUME status \in [Nodes -> Status]
    PROVE  Swept(Env, HaltSet({Root}), ResetSet({Root})) /\ Root \in HaltSet({Root})
<1>1. {Root} \in SUBSET Nodes /\ Parent[Root] = Env
  BY KidsAssumption
<1> QED
  BY <1>1, HaltIsClosed, HaltStarts, HaltComesDown DEF Swept
(***************************************************************************)
(* Returns, of inner nodes and of leaves, node by node.                    *)
(***************************************************************************)
Answers(n, own, s, H, R) ==
    /\ \A m \in Nodes : status'[m] = IF m = n THEN s ELSE IF m \in H \cup R THEN "IDLE" ELSE status[m]
    /\ \A m \in Nodes : mem'[m] = IF m = n THEN own ELSE Cleared(H, R)[m]
    /\ \A m \in Nodes : frame'[m] = IF m = n THEN Off ELSE frame[m]
    /\ cur' = Parent[n] /\ ret' = s
    /\ fresh' = fresh \cup {n} /\ unseen' = unseen \ {n} /\ UNCHANGED ticked

LEMMA ReturnAnswers ==
    ASSUME TypeOK, NEW n \in Nodes, NEW own, NEW s, NEW H \in SUBSET Below(n),
           NEW R \in SUBSET Below(n), Return(n, own, s, H, R)
    PROVE  Answers(n, own, s, H, R)
<1>1. DOMAIN Cleared(H, R) = Nodes /\ DOMAIN frame = Nodes /\ DOMAIN Idled(H \cup R) = Nodes
  BY DEF Cleared, Idled, TypeOK
<1>2. /\ mem' = [Cleared(H, R) EXCEPT ![n] = own]
      /\ frame' = [frame EXCEPT ![n] = Off]
      /\ status' = [Idled(H \cup R) EXCEPT ![n] = s]
  BY DEF Return
<1>3. \A m \in Nodes : Idled(H \cup R)[m] = IF m \in H \cup R THEN "IDLE" ELSE status[m]
  BY DEF Idled
<1>4. \A m \in Nodes : mem'[m] = IF m = n THEN own ELSE Cleared(H, R)[m]
  BY <1>1, <1>2
<1> QED
  BY <1>1, <1>2, <1>3, <1>4 DEF Return, Answers

LEMMA LeafAnswers ==
    ASSUME TypeInv, NEW n \in Nodes, LeafReturn(n)
    PROVE  \E s \in Results : s \in Outcome[n] /\ Answers(n, mem[n], s, {}, {})
<1>1. PICK s \in Outcome[n] \ {"RAISE"} :
         status' = [status EXCEPT ![n] = s] /\ ret' = s
  BY DEF LeafReturn
<1>2. s \in Results
  BY <1>1, ParameterAssumption DEF LeafReturn, Of
<1>3. \A m \in Nodes : Cleared({}, {})[m] = mem[m]
  BY DEF Cleared
<1>4. frame[n] = Off /\ UNCHANGED <<mem, frame, ticked>> /\ cur' = Parent[n]
      /\ fresh' = fresh \cup {n} /\ unseen' = unseen \ {n}
  BY DEF LeafReturn, Called, TypeInv, Stack, OffStack
<1>5. Answers(n, mem[n], s, {}, {})
  BY <1>1, <1>3, <1>4 DEF Answers, TypeInv, TypeOK
<1> QED
  BY <1>1, <1>2, <1>5

(***************************************************************************)
(* The place of every suspended node is the child it waits for; when that  *)
(* child has returned, its result is there, and fresh.                     *)
(***************************************************************************)
At(n) == Place(n, mem[n], frame[n])

\* A write since may only have left the node dirty.
Seen(n, c) == c \notin unseen \/ mem[n].dirty

PathOf(n) ==
    /\ ~OffStack(n) =>
          /\ At(n) \in 1..Len(Kids[n])
          /\ \A j \in 1..Len(Kids[n]) :
                Kids[n][j] = cur \/ ~OffStack(Kids[n][j]) => j = At(n)
    /\ ~OffStack(n) /\ cur = n =>
          /\ status[Kids[n][At(n)]] = ret
          /\ Kids[n][At(n)] \in fresh
          /\ Seen(n, Kids[n][At(n)])
    /\ cur \in Under[n] \ {n} => ~OffStack(n)

PathInv == \A n \in Nodes : PathOf(n)

\* A suspended node's memory does not change but for the dirty flag.
LEMMA KidsOff ==
    ASSUME TypeInv, NEW n \in Nodes, cur = n, NEW m \in Below(n)
    PROVE  OffStack(m)
BY UnderAssumption DEF TypeInv, Stack, Below

LEMMA CallPath ==
    ASSUME TypeInv, PathInv, NEW n \in Nodes, cur = n, NEW own \in Memory(n),
           NEW i \in 1..Len(Kids[n]), NEW f, FrameOK(n, own, f), Place(n, own, f) = i,
           Call(n, own, f, Kids[n][i])
    PROVE  PathInv'
<1> DEFINE c == Kids[n][i]
<1>1. /\ c \in Nodes /\ c \in KidSet(n) /\ Parent[c] = n /\ c # n /\ c \in Below(n)
      /\ \A j \in 1..Len(Kids[n]) : Kids[n][j] = c => j = i
  BY KidInNodes, KidSetInNodes, KidBelow, KidsAssumption DEF Below
<1>2. /\ \A m \in Nodes : frame'[m] = IF m = n THEN f ELSE frame[m]
      /\ \A m \in Nodes : mem'[m] = IF m = n THEN own ELSE mem[m]
      /\ cur' = c /\ UNCHANGED <<status, unseen>>
  BY DEF Call, TypeInv, TypeOK
<1>3. f # Off
  BY DEF FrameOK, Off
<1>4. PathOf(n)'
  <2>1. ~OffStack(n)' /\ At(n)' = i
    BY <1>2, <1>3 DEF OffStack, At, Place
  <2>2. \A j \in 1..Len(Kids[n]) : Kids[n][j] = cur' \/ ~OffStack(Kids[n][j])' => j = i
    <3> TAKE j \in 1..Len(Kids[n])
    <3>1. Kids[n][j] \in Nodes /\ Kids[n][j] \in Below(n) /\ Kids[n][j] # n
      BY KidInNodes, KidBelow DEF Below
    <3>2. OffStack(Kids[n][j])'
      BY <1>2, <3>1, KidsOff DEF OffStack
    <3> QED
      BY <1>1, <1>2, <3>2
  <2> QED
    BY <1>1, <1>2, <2>1, <2>2 DEF PathOf
<1>5. ASSUME NEW m \in Nodes, m # n PROVE PathOf(m)'
  <2>1. OffStack(m)' = OffStack(m) /\ (~OffStack(m) => At(m)' = At(m)) /\ PathOf(m)
    BY <1>2, <1>5 DEF OffStack, At, PathInv
  <2>2. ASSUME ~OffStack(m), NEW j \in 1..Len(Kids[m]),
               Kids[m][j] = cur' \/ ~OffStack(Kids[m][j])'
        PROVE  j = At(m)
    <3>1. Kids[m][j] # c /\ Kids[m][j] \in Nodes
      BY <1>1, <1>5, KidInNodes, KidSetInNodes
    <3>2. Kids[m][j] = cur \/ ~OffStack(Kids[m][j])
      BY <1>2, <2>2, <3>1 DEF OffStack
    <3> QED
      BY <2>1, <2>2, <3>2 DEF PathOf
  <2>3. ~OffStack(m)' => cur' # m
    <3>1. OffStack(c)
      BY <1>1, KidsOff
    <3> QED
      BY <1>2, <2>1, <3>1
  <2>4. cur' \in Under[m] \ {m} => ~OffStack(m)
    <3>1. c \in Under[m] \ {m} => n \in Under[m] \ {m}
      BY <1>1, <1>5, UnderAssumption
    <3> QED
      BY <1>2, <2>1, <3>1 DEF PathOf
  <2> QED
    BY <2>1, <2>2, <2>3, <2>4 DEF PathOf
<1> QED
  BY <1>4, <1>5 DEF PathInv

LEMMA AnswerPath ==
    ASSUME TypeInv, PathInv, NEW n \in Nodes, cur = n, NEW own, NEW s \in Results,
           NEW H \in SUBSET Below(n), NEW R \in SUBSET Below(n), Answers(n, own, s, H, R)
    PROVE  PathInv'
<1>1. \A m \in Nodes : OffStack(m)' <=> m = n \/ OffStack(m)
  BY DEF Answers, OffStack
<1>2. ASSUME NEW m \in Nodes, m # n, ~OffStack(m)
      PROVE  mem'[m] = mem[m] /\ At(m)' = At(m) /\ n \in Under[m]
  <2>1. m \notin H \cup R
    BY <1>2, KidsOff
  <2> QED
    BY <1>2, <2>1 DEF Answers, Cleared, At, TypeInv, Stack
<1>3. ASSUME NEW m \in Nodes PROVE PathOf(m)'
  <2>1. PathOf(m)
    BY DEF PathInv
  <2>2. ASSUME ~OffStack(m)', NEW j \in 1..Len(Kids[m]),
               Kids[m][j] = cur' \/ ~OffStack(Kids[m][j])'
        PROVE  j = At(m)
    <3>1. m # n /\ ~OffStack(m) /\ Kids[m][j] \in Nodes /\ Parent[Kids[m][j]] = m
      BY <1>1, <2>2, KidInNodes, KidSetInNodes
    <3>2. CASE ~OffStack(Kids[m][j])
      BY <2>1, <2>2, <3>1, <3>2 DEF PathOf
    <3>3. CASE Kids[m][j] = Parent[n]
      <4>1. ~OffStack(Parent[n])
        <5>1. n # Root
          BY <3>1, <3>3, KidsAssumption
        <5> QED
          BY <5>1 DEF TypeInv, Stack
      <4> QED
        BY <2>1, <2>2, <3>1, <3>3, <4>1 DEF PathOf
    <3> QED
      BY <1>1, <2>2, <3>1, <3>2, <3>3 DEF Answers
  <2>3. ASSUME ~OffStack(m)', cur' = m
        PROVE  /\ status'[Kids[m][At(m)]] = ret'
               /\ Kids[m][At(m)] \in fresh' /\ Kids[m][At(m)] \notin unseen'
    <3>1. m # n /\ ~OffStack(m) /\ Parent[n] = m
      BY <1>1, <2>3 DEF Answers
    <3>2. PICK j \in 1..Len(Kids[m]) : Kids[m][j] = n
      BY <3>1, KidsAssumption, KidsLength DEF KidSet
    <3>3. Kids[m][At(m)] = n
      BY <2>1, <3>1, <3>2 DEF PathOf
    <3> QED
      BY <3>3 DEF Answers
  <2>4. ASSUME cur' \in Under[m] \ {m} PROVE ~OffStack(m)'
    <3>1. cur' = Parent[n]
      BY DEF Answers
    <3>2. n \in Under[m] \ {m}
      BY <2>4, <3>1, UnderAssumption
    <3> QED
      BY <1>1, <2>1, <3>2 DEF PathOf
  <2>5. ~OffStack(m)' => At(m)' = At(m) /\ At(m) \in 1..Len(Kids[m])
    BY <1>1, <1>2, <2>1 DEF PathOf
  <2> QED
    BY <2>2, <2>3, <2>4, <2>5 DEF PathOf, Seen
<1> QED
  BY <1>3 DEF PathInv
\* What a write does to a memory.
LEMMA Written ==
    ASSUME TypeOK, Write, NEW m \in Nodes
    PROVE  /\ mem'[m] = [mem[m] EXCEPT !.dirty = @ \/ mem[m].subs]
           /\ mem'[m].cursor = mem[m].cursor /\ mem'[m].running = mem[m].running
           /\ mem'[m].subs = mem[m].subs /\ mem'[m].dirty = (mem[m].dirty \/ mem[m].subs)
           /\ mem'[m].stamped = mem[m].stamped /\ mem'[m].last = mem[m].last
           /\ UNCHANGED <<status, frame, cur, ret, fresh, ticked>>
           /\ unseen' = unseen \cup {x \in Nodes : Skippable(x) /\ mem[Parent[x]].subs}
<1>1. mem[m] \in Memory(m) /\ mem' = [x \in Nodes |-> [mem[x] EXCEPT !.dirty = @ \/ mem[x].subs]]
  BY DEF TypeOK, Write
<1>2. mem'[m] = [mem[m] EXCEPT !.dirty = @ \/ mem[m].subs]
  BY <1>1
<1>3. ASSUME NEW x \in Memory(m), NEW y, y = [x EXCEPT !.dirty = @ \/ x.subs]
      PROVE  /\ y.cursor = x.cursor /\ y.running = x.running
             /\ y.subs = x.subs /\ y.dirty = (x.dirty \/ x.subs)
             /\ y.stamped = x.stamped /\ y.last = x.last
  BY <1>3 DEF Memory
<1>4. /\ mem'[m].cursor = mem[m].cursor /\ mem'[m].running = mem[m].running
      /\ mem'[m].subs = mem[m].subs /\ mem'[m].dirty = (mem[m].dirty \/ mem[m].subs)
      /\ mem'[m].stamped = mem[m].stamped /\ mem'[m].last = mem[m].last
  BY <1>1, <1>2, <1>3
<1>5. /\ UNCHANGED <<status, frame, cur, ret, fresh, ticked>>
      /\ unseen' = unseen \cup {x \in Nodes : Skippable(x) /\ mem[Parent[x]].subs}
  BY DEF Write
<1> QED
  BY <1>2, <1>4, <1>5

LEMMA NodeSteps ==
    ASSUME TypeInv, NEW n \in Nodes, NodeStep(n)
    PROVE  /\ cur = n
           /\ \/ Raise
              \/ Kind[n] \in LeafKinds /\ LeafReturn(n)
              \/ Kind[n] \notin LeafKinds /\ (Calls(n) \/ Returns(n))
<1>1. cur = n
  BY DEF NodeStep, LeafReturn, LeafRaise, EnterOrdered, ResumeOrdered, EnterParallel, ResumeParallel,
     FullEval, FastTick, ResumeReactive, EnterWrapper, ResumeWrapper, EnterRetry, ResumeRetry,
     EnterTimeout, Expire, EnterRate, ReplayRate, ResumeRate, Called, Resumed
<1> QED
  BY <1>1, StepShape DEF InnerStep, LeafReturn

\* Between two ticks nothing is suspended.
LEMMA EnvOff == ASSUME TypeInv, cur = Env, NEW m \in Nodes PROVE OffStack(m)
BY KidsAssumption DEF TypeInv, Stack

LEMMA PathStep == TypeInv /\ PathInv /\ [Next]_vars => PathInv'
<1> SUFFICES ASSUME TypeInv, PathInv, [Next]_vars PROVE PathInv'
  OBVIOUS
<1> SUFFICES ASSUME NEW m \in Nodes,
                    \A n \in Nodes : ~NodeStep(n) \/ Raise
             PROVE  PathOf(m)'
  <2> SUFFICES ASSUME NEW n \in Nodes, NodeStep(n), ~Raise PROVE PathInv'
    BY DEF PathInv
  <2>1. ASSUME LeafReturn(n), cur = n PROVE PathInv'
    BY <2>1, LeafAnswers, AnswerPath
  <2>2. ASSUME Calls(n), cur = n PROVE PathInv'
    BY <2>2, CallPath DEF Calls
  <2>3. ASSUME Returns(n), cur = n PROVE PathInv'
    <3>1. PICK own \in Memory(n), s \in Results, H \in SUBSET Below(n), R \in SUBSET Below(n) :
              Return(n, own, s, H, R)
      BY <2>3 DEF Returns
    <3>2. Answers(n, own, s, H, R)
      BY <3>1, ReturnAnswers DEF TypeInv
    <3> QED
      BY <2>3, <3>2, AnswerPath
  <2> QED
    BY <2>1, <2>2, <2>3, NodeSteps
<1>1. PathOf(m) /\ Under[m] \subseteq Nodes /\ Env \notin Nodes
  BY UnderAssumption, KidsAssumption DEF PathInv
<1>2. CASE Raise
  BY <1>1, <1>2 DEF Raise, PathOf, OffStack
<1>3. CASE TickOnce
  <2>1. OffStack(m)' /\ cur' = Root
    BY <1>3, EnvOff DEF TickOnce, OffStack
  <2>2. Root \notin Under[m] \ {m}
    BY UnderAssumption, KidsAssumption
  <2> QED
    BY <2>1, <2>2 DEF PathOf
<1>4. CASE HaltAll \/ ResetAll
  <2>1. OffStack(m)' /\ cur' = Env
    BY <1>4, EnvOff DEF HaltAll, ResetAll, OffStack
  <2> QED
    BY <1>1, <2>1 DEF PathOf
<1>5. CASE Write
  <2>1. /\ OffStack(m)' = OffStack(m) /\ At(m)' = At(m) /\ cur' = cur
        /\ \A c \in Nodes : OffStack(c)' = OffStack(c)
    BY <1>5, Written DEF OffStack, At, Place, TypeInv
  <2>2. ASSUME NEW j \in 1..Len(Kids[m]), Seen(m, Kids[m][j]) PROVE Seen(m, Kids[m][j])'
    <3>1. Parent[Kids[m][j]] = m
      BY KidInNodes, KidSetInNodes
    <3> QED
      BY <1>5, <2>2, <3>1, Written DEF Seen, TypeInv
  <2>3. \A j \in 1..Len(Kids[m]) : Kids[m][j] \in Nodes
    BY KidInNodes
  <2>4. UNCHANGED <<status, ret, fresh>>
    BY <1>5 DEF Write
  <2> QED
    BY <1>1, <2>1, <2>2, <2>3, <2>4 DEF PathOf
<1>6. CASE UNCHANGED vars
  BY <1>1, <1>6 DEF vars, PathOf, OffStack, At, Seen
<1> QED
  BY <1>2, <1>3, <1>4, <1>5, <1>6 DEF Next

LEMMA PathInit == Init => PathInv
BY UnderAssumption, KidsAssumption DEF Init, PathInv, PathOf, OffStack

\* The nodes being ticked form one path, each at the place of the next one, and a
\* node that is resumed finds there the result that it was resumed with.
THEOREM PathCorrect == Spec => [](TypeInv /\ PathInv)
<1>1. TypeInv /\ PathInv /\ [Next]_vars => (TypeInv /\ PathInv)'
  BY TypeInvStep, PathStep
<1> QED
  BY InitStack, PathInit, <1>1, PTL DEF Spec
(***************************************************************************)
(* Goals, once more.                                                       *)
(***************************************************************************)
\* on_halted() reaches only goals that are live, whoever halts, as long as the
\* program does not call reset_all().
THEOREM HaltedWasRunningHolds ==
    ASSUME "reset" \notin EnvOps
    PROVE  Spec => HaltedWasRunning
<1>1. ASSUME TypeInv, GoalsTracked, [Next]_vars PROVE notified' \subseteq live \/ UNCHANGED vars
  <2>1. \A H, R : Stopped(H, R) \subseteq live
    BY <1>1 DEF GoalsTracked, Stopped
  <2>2. ASSUME TickOnce \/ HaltAll \/ ResetAll \/ Write \/ Raise PROVE notified' \subseteq live
    BY <2>1, <2>2 DEF TickOnce, HaltAll, ResetAll, Write, Raise, Clear
  <2>3. ASSUME NEW n \in Nodes, NodeStep(n) PROVE notified' \subseteq live
    <3>1. CASE LeafReturn(n)
      BY <3>1 DEF LeafReturn
    <3>2. CASE Calls(n)
      BY <3>2 DEF Calls, Call
    <3>3. CASE Returns(n)
      BY <3>3, <2>1 DEF Returns, Return, Clear
    <3>4. LeafReturn(n) \/ Calls(n) \/ Returns(n) \/ Raise
      BY <1>1, <2>3, NodeSteps
    <3> QED
      BY <2>2, <3>1, <3>2, <3>3, <3>4
  <2> QED
    BY <1>1, <2>2, <2>3 DEF Next
<1>2. TypeInv /\ GoalsTracked /\ [Next]_vars => [notified' \subseteq live]_vars
  BY <1>1
<1> QED
  BY <1>2, TypeCorrect, GoalsTrackedHolds, PTL DEF Spec, HaltedWasRunning

(***************************************************************************)
(* Guards.  While a reactive node is suspended the guards up to its place  *)
(* have been ticked in this tick.                                          *)
(***************************************************************************)
GuardsDone(n, i) == \A j \in 1..Len(Kids[n]) :
                        j <= i /\ IsConditionGuard(Kids[n][j]) => Kids[n][j] \in ticked

GuardInv == \A n \in Of(ReactiveKinds) : ~OffStack(n) => GuardsDone(n, frame[n].i)

LEMMA GuardsAhead ==
    ASSUME NEW n \in Of(ReactiveKinds), NEW i \in Nat \ {0}, NEW own, NEW f,
           GuardsDone(n, i - 1), i <= Len(Kids[n]), Call(n, own, f, Kids[n][i])
    PROVE  GuardsDone(n, i)'
<1>1. n \in Nodes /\ Kind[n] \in ReactiveKinds /\ i \in 1..Len(Kids[n])
  BY KidsLength DEF Of
<1>2. Kids[n][i] \in Nodes \ {Root} /\ Parent[Kids[n][i]] = n
  BY <1>1, KidInNodes, KidSetInNodes
<1>3. IsConditionGuard(Kids[n][i]) => Kids[n][i] \in ticked'
  BY <1>1, <1>2 DEF Call, Guards
<1>4. ticked \subseteq ticked'
  BY DEF Call
<1>5. \A j \in 1..Len(Kids[n]) : j <= i => j <= i - 1 \/ j = i
  BY <1>1
<1> QED
  BY <1>3, <1>4, <1>5 DEF GuardsDone

\* What one step of a reactive node does about guards: it goes on, or answers.
Onward(n) == /\ ret' = "CALL" /\ GuardsDone(n, frame[n].i)'

GuardsKept(n, d) ==
    \/ Onward(n)
    \/ ret' = "RUNNING" /\ GuardsDone(n, d)
    \/ ret' = Pass(n) /\ GuardsDone(n, Len(Kids[n]))
    \/ ret' = Stop(n)

LEMMA OnWithGuards ==
    ASSUME TypeInv, NEW n \in Of(ReactiveKinds), NEW d \in Nat, NEW i, i = d + 1, NEW own, NEW at,
           GuardsDone(n, d), OnWith(n, own, at, i)
    PROVE  Onward(n) \/ (ret' = Pass(n) /\ GuardsDone(n, Len(Kids[n])))
<1>1. n \in Nodes /\ Len(Kids[n]) \in Nat
  BY KidsLength DEF Of
<1>2. CASE i <= Len(Kids[n])
  <2>1. Call(n, own, [at |-> at, i |-> i], Kids[n][i])
    BY <1>2 DEF OnWith
  <2>2. ret' = "CALL" /\ frame'[n].i = i
    BY <1>1, <2>1 DEF Call, TypeInv, TypeOK
  <2>3. GuardsDone(n, i)'
    <3>1. i \in Nat \ {0} /\ i - 1 = d
      OBVIOUS
    <3> HIDE DEF GuardsDone
    <3> QED
      BY <1>2, <2>1, <3>1, GuardsAhead
  <2> QED
    BY <2>2, <2>3 DEF Onward, GuardsDone
<1>3. CASE ~(i <= Len(Kids[n]))
  <2>1. ret' = Pass(n)
    BY <1>3 DEF OnWith, Yield, Return
  <2> QED
    BY <1>1, <1>3, <2>1 DEF GuardsDone
<1> QED
  BY <1>2, <1>3

LEMMA GuardedGuards ==
    ASSUME TypeInv, NEW n \in Of(ReactiveKinds), NEW d \in Nat, NEW i, i = d + 1,
           GuardsDone(n, d), mem[n].running # 0, Guarded(n, i)
    PROVE  Onward(n) \/ (ret' = Pass(n) /\ GuardsDone(n, Len(Kids[n])))
<1>1. n \in Nodes /\ Len(Kids[n]) \in Nat /\ mem[n].running \in 1..Len(Kids[n])
  BY MemoryNow DEF Of
<1>2. ASSUME NEW g \in Least(GuardsFrom(n, i)), OnWith(n, mem[n], "guard", g)
      PROVE  Onward(n) \/ (ret' = Pass(n) /\ GuardsDone(n, Len(Kids[n])))
  <2>1. g \in i..(mem[n].running - 1) /\ \A k \in GuardsFrom(n, i) : g <= k
    BY DEF Least, GuardsFrom
  <2>2. g - 1 \in Nat /\ g = g - 1 + 1 /\ GuardsDone(n, g - 1)
    BY <1>1, <2>1 DEF GuardsDone, GuardsFrom
  <2> QED
    BY <1>2, <2>1, <2>2, OnWithGuards
<1>3. CASE GuardsFrom(n, i) = {} /\ OnWith(n, mem[n], "main", mem[n].running)
  <2>1. mem[n].running - 1 \in Nat /\ mem[n].running = mem[n].running - 1 + 1 /\ GuardsDone(n, mem[n].running - 1)
    BY <1>1, <1>3 DEF GuardsDone, GuardsFrom
  <2> QED
    BY <1>1, <1>3, <2>1, OnWithGuards
<1> QED
  BY <1>2, <1>3 DEF Guarded

LEMMA ReactiveGuards ==
    ASSUME TypeInv, GuardInv, NEW n \in Of(ReactiveKinds),
           FullEval(n) \/ FastTick(n) \/ ResumeReactive(n)
    PROVE  GuardsKept(n, mem'[n].running)
<1> DEFINE f == frame[n]
           x == mem[n]
<1>1. n \in Nodes /\ Kind[n] \in ReactiveKinds
  BY DEF Of
<1>2. GuardsDone(n, 0) /\ 0 \in Nat /\ 1 = 0 + 1
  BY DEF GuardsDone
<1>3. CASE FullEval(n)
  BY <1>2, <1>3, OnWithGuards DEF FullEval, GuardsKept
<1>4. CASE FastTick(n)
  <2>1. Guarded(n, 1) /\ x.running # 0
    BY <1>4 DEF FastTick, NeedsFullEval
  <2> QED
    BY <1>2, <2>1, GuardedGuards DEF GuardsKept
<1>5. CASE ResumeReactive(n)
  <2>1. FrameOK(n, x, f) /\ ~OffStack(n)
    BY <1>5, <1>1 DEF ResumeReactive, Resumed, TypeInv, Stack, Results
  <2>2. /\ f.at \in {"full", "guard", "main", "rest"} /\ f.i \in 1..Len(Kids[n])
        /\ f.at = "guard" => x.running # 0
    BY <1>1, <2>1, MemoryNow DEF FrameOK, Frames
  <2>3. GuardsDone(n, f.i)
    BY <2>1, <2>2 DEF GuardInv
  <2>4. CASE ReactivePass(n)
    <3>1. f.i \in Nat /\ GuardsDone(n, f.i)
      BY <1>1, <2>2, <2>3, MemoryNow
    <3>2. ASSUME NEW own, NEW at, OnWith(n, own, at, f.i + 1) PROVE GuardsKept(n, mem'[n].running)
      BY <3>1, <3>2, OnWithGuards DEF GuardsKept
    <3>3. Guarded(n, f.i + 1) /\ x.running # 0 => GuardsKept(n, mem'[n].running)
      BY <3>1, GuardedGuards DEF GuardsKept
    <3> QED
      BY <2>2, <2>4, <3>2, <3>3 DEF ReactivePass
  <2>5. CASE ReactiveRunning(n)
    <3>1. PICK own \in {x, Subscribe(n, x)} :
             \E H, R : Return(n, [own EXCEPT !.running = f.i], "RUNNING", H, R)
      BY <2>5 DEF ReactiveRunning, HaltAndReturn
    <3>2. own \in Memory(n)
      BY <1>1, MemoryNow, HooksType
    <3>3. mem'[n] = [own EXCEPT !.running = f.i] /\ ret' = "RUNNING"
      BY <1>1, <3>1 DEF Return, Cleared
    <3>4. mem'[n].running = f.i
      <4> HIDE DEF f
      <4> QED
        BY <3>2, <3>3 DEF Memory
    <3> QED
      BY <2>3, <3>3, <3>4 DEF GuardsKept
  <2>6. CASE ret' = Stop(n)
    BY <2>6 DEF GuardsKept
  <2> QED
    BY <1>5, <2>4, <2>5, <2>6 DEF ResumeReactive, HaltAndReturn, Return
<1> QED
  BY <1>3, <1>4, <1>5

LEMMA ReactiveSteps ==
    ASSUME NEW n \in Of(ReactiveKinds), NodeStep(n)
    PROVE  FullEval(n) \/ FastTick(n) \/ ResumeReactive(n)
BY DEF NodeStep, LeafReturn, LeafRaise, EnterOrdered, ResumeOrdered, EnterParallel, ResumeParallel,
   EnterWrapper, ResumeWrapper, EnterRetry, ResumeRetry, EnterTimeout, Expire, EnterRate, ReplayRate,
   ResumeRate, Of, ReactiveKinds, OrderedKinds, WrapperKinds, LeafKinds

\* Whoever else moves, the guards that were ticked stay ticked.
LEMMA GuardStep == TypeInv /\ GuardInv /\ [Next]_vars => GuardInv'
<1> SUFFICES ASSUME TypeInv, GuardInv, [Next]_vars,
                    NEW m \in Of(ReactiveKinds), ~OffStack(m)'
             PROVE  GuardsDone(m, frame[m].i)'
  BY DEF GuardInv
<1>1. m \in Nodes /\ Kind[m] \in ReactiveKinds
  BY DEF Of
<1>2. ASSUME frame'[m] = frame[m], ticked \subseteq ticked'
      PROVE  GuardsDone(m, frame[m].i)'
  BY <1>2 DEF GuardInv, OffStack, GuardsDone
<1>3. CASE Raise
  BY <1>1, <1>3 DEF Raise, OffStack
<1>4. CASE TickOnce \/ HaltAll \/ ResetAll
  <2>1. OffStack(m)'
    BY <1>1, <1>4, EnvOff DEF TickOnce, HaltAll, ResetAll, OffStack
  <2> QED
    BY <2>1
<1>5. CASE Write \/ UNCHANGED vars
  BY <1>2, <1>5 DEF Write, vars
<1>6. ASSUME NEW n \in Nodes, NodeStep(n), ~Raise PROVE GuardsDone(m, frame[m].i)'
  <2>1. CASE LeafReturn(n)
    BY <1>2, <2>1 DEF LeafReturn
  <2>2. CASE n # m /\ (Calls(n) \/ Returns(n))
    <3>1. frame'[m] = frame[m] /\ ticked \subseteq ticked'
      BY <1>1, <2>2 DEF Calls, Call, Returns, Return, TypeInv, TypeOK
    <3> QED
      BY <1>2, <3>1
  <2>3. CASE n = m /\ (Calls(n) \/ Returns(n))
    <3>1. CASE Returns(n)
      BY <1>1, <2>3, <3>1 DEF Returns, Return, TypeInv, TypeOK, OffStack
    <3>2. CASE Calls(n)
      <4>1. ret' = "CALL"
        BY <3>2 DEF Calls, Call
      <4>2. GuardsKept(m, mem'[m].running)
        BY <1>6, <2>3, ReactiveSteps, ReactiveGuards
      <4> QED
        BY <1>1, <4>1, <4>2, PassStop DEF GuardsKept, Onward, Results
    <3> QED
      BY <2>3, <3>1, <3>2
  <2> QED
    BY <1>6, <2>1, <2>2, <2>3, NodeSteps
<1> QED
  BY <1>3, <1>4, <1>5, <1>6 DEF Next

\* Whatever interrupts the fast path, and wherever a condition raises, a reactive
\* node waits or passes only after every guard ahead answered in this very tick.
THEOREM GuardsEveryTickHolds == Spec => GuardsEveryTick
<1>1. ASSUME TypeInv, GuardInv, Next, NEW n \in Of(ReactiveKinds), frame[n] # Off,
             cur = n, cur' = Parent[n], ret' \in {"RUNNING", Pass(n)},
             NEW i \in DOMAIN Kids[n], IsConditionGuard(Kids[n][i]),
             ret' = "RUNNING" => i <= mem'[n].running
      PROVE  Kids[n][i] \in ticked
  <2>1. n \in Nodes /\ n # Env /\ i \in 1..Len(Kids[n]) /\ Parent[n] # n
    BY KidsLength, KidsAssumption, UnderAssumption DEF Of
  <2>2. PICK k \in Nodes : NodeStep(k)
    BY <1>1, <2>1 DEF Next, TickOnce, HaltAll, ResetAll, Write
  <2>3. k = n
    BY <1>1, <2>2, NodeSteps
  <2>4. GuardsKept(n, mem'[n].running)
    BY <1>1, <2>2, <2>3, ReactiveSteps, ReactiveGuards
  <2>5. (ret' = "RUNNING" /\ GuardsDone(n, mem'[n].running)) \/ GuardsDone(n, Len(Kids[n]))
    BY <1>1, <2>1, <2>4, PassStop DEF GuardsKept, Onward, Results, Settled
  <2> QED
    BY <1>1, <2>1, <2>5 DEF GuardsDone
<1>2. TypeInv /\ GuardInv /\ [Next]_vars =>
        [\A n \in Of(ReactiveKinds) :
          frame[n] # Off /\ cur = n /\ cur' = Parent[n] /\ ret' \in {"RUNNING", Pass(n)} =>
              \A i \in DOMAIN Kids[n] :
                  /\ IsConditionGuard(Kids[n][i])
                  /\ ret' = "RUNNING" => i <= mem'[n].running
                  => Kids[n][i] \in ticked]_vars
  BY <1>1
<1>3. Init => GuardInv
  BY DEF Init, GuardInv, OffStack, Of
<1> QED
  BY <1>2, <1>3, GuardStep, TypeCorrect, PTL DEF Spec, GuardsEveryTick

(***************************************************************************)
(* Counting the children of a Parallel.                                    *)
(***************************************************************************)
LEMMA KidCount ==
    ASSUME NEW n \in Nodes
    PROVE  IsFiniteSet(KidSet(n)) /\ Cardinality(KidSet(n)) = Len(Kids[n])
<1> DEFINE f == [i \in 1..Len(Kids[n]) |-> Kids[n][i]]
<1>1. Len(Kids[n]) \in Nat /\ DOMAIN Kids[n] = 1..Len(Kids[n])
  BY KidsLength
<1>2. f \in Bijection(1..Len(Kids[n]), KidSet(n))
  <2>1. f \in [1..Len(Kids[n]) -> KidSet(n)]
    BY KidInNodes
  <2>2. IsInjective(f)
    BY <1>1, KidsAssumption DEF IsInjective
  <2>3. \A c \in KidSet(n) : \E i \in 1..Len(Kids[n]) : f[i] = c
    BY <1>1 DEF KidSet
  <2> QED
    BY <2>1, <2>2, <2>3 DEF Bijection, Injection, Surjection
<1>3. /\ IsFiniteSet(1..Len(Kids[n]))
      /\ Cardinality(1..Len(Kids[n])) = Len(Kids[n])
  BY <1>1, FS_Interval
<1>4. ExistsBijection(1..Len(Kids[n]), KidSet(n))
  BY <1>2 DEF ExistsBijection
<1> QED
  BY <1>3, <1>4, FS_Bijection

\* Two disjoint sets of children as many as the children are all of them.
LEMMA AllCounted ==
    ASSUME NEW n \in Nodes, NEW W \in SUBSET KidSet(n), NEW L \in SUBSET KidSet(n), W \cap L = {}
    PROVE  /\ Cardinality(W) \in Nat /\ Cardinality(L) \in Nat
           /\ Cardinality(W) + Cardinality(L) >= Len(Kids[n]) <=> KidSet(n) = W \cup L
<1>1. IsFiniteSet(W) /\ IsFiniteSet(L) /\ IsFiniteSet(KidSet(n))
  BY KidCount, FS_Subset
<1>2. Cardinality(W) \in Nat /\ Cardinality(L) \in Nat
  BY <1>1, FS_CardinalityType
<1>3. Cardinality(W \cup L) = Cardinality(W) + Cardinality(L)
  <2>1. Cardinality(W \cap L) = 0
    BY FS_EmptySet
  <2>2. Cardinality(W \cup L) = Cardinality(W) + Cardinality(L) - Cardinality(W \cap L)
    BY <1>1, FS_Union
  <2> QED
    BY <1>2, <2>1, <2>2
<1>4. Cardinality(W) + Cardinality(L) >= Len(Kids[n]) => KidSet(n) = W \cup L
  <2> HAVE Cardinality(W) + Cardinality(L) >= Len(Kids[n])
  <2>1. W \cup L \in SUBSET KidSet(n)
    OBVIOUS
  <2>2. Cardinality(W \cup L) <= Len(Kids[n])
    BY <1>1, <2>1, KidCount, FS_Subset
  <2>3. Cardinality(W \cup L) = Cardinality(KidSet(n))
    BY <1>2, <1>3, <2>2, KidCount, KidsLength
  <2> QED
    BY <1>1, <2>1, <2>3, FS_Subset
<1>5. KidSet(n) = W \cup L => Cardinality(W) + Cardinality(L) >= Len(Kids[n])
  <2> HAVE KidSet(n) = W \cup L
  <2>1. Cardinality(W \cup L) = Len(Kids[n]) /\ Len(Kids[n]) \in Nat
    BY KidCount, KidsLength
  <2> QED
    BY <1>2, <1>3, <2>1
<1> QED
  BY <1>2, <1>4, <1>5

\* What tick() of a Parallel decides, in terms of what its policy asks for.
LEMMA VerdictKept ==
    ASSUME NEW n \in Of({"Parallel"}), KidSet(n) # {},
           NEW rs \in SuccessThreshold[n], NEW rf \in FailureThreshold[n],
           NEW v \in Results, v = Verdict(n, EffectiveThresholds(n, rs, rf))
    PROVE  /\ Policy[n] = "complete" => (v \in Settled <=> AllSettled(n))
           /\ v = "RUNNING" => ~AllSettled(n)
           /\ \E a \in Asked(n), f \in Fatal(n) :
                 /\ v = "SUCCESS" => Cardinality(Won(n)) >= a
                 /\ v = "FAILURE" => /\ Cardinality(Won(n)) < a
                                     /\ Cardinality(Lost(n)) >= f \/ AllSettled(n)
                 /\ v = "RUNNING" /\ Policy[n] # "complete" =>
                       Cardinality(Won(n)) < a /\ Cardinality(Lost(n)) < f
<1> DEFINE t == EffectiveThresholds(n, rs, rf)
           won == Cardinality(Won(n))
           lost == Cardinality(Lost(n))
           k == Len(Kids[n])
<1>1. n \in Nodes /\ k \in Nat /\ k # 0 /\ rs \in Int /\ rf \in Int
  BY KidsLength, ParameterAssumption DEF Of, KidSet
<1>2. won \in Nat /\ lost \in Nat /\ (won + lost >= k <=> AllSettled(n))
  <2>1. Won(n) \in SUBSET KidSet(n) /\ Lost(n) \in SUBSET KidSet(n) /\ Won(n) \cap Lost(n) = {}
    BY DEF Won, Lost
  <2> QED
    BY <1>1, <2>1, AllCounted DEF AllSettled
<1>3. Policy[n] \in {"all", "one", "complete", "none"}
  BY ParameterAssumption
<1>4. t[1] \in Asked(n)
  <2>1. CASE Policy[n] \in {"all", "one"}
    BY <2>1 DEF EffectiveThresholds, Asked
  <2>2. CASE Policy[n] \in {"complete", "none"}
    BY <1>1, <2>2 DEF EffectiveThresholds, Asked, Clamp
  <2> QED
    BY <1>3, <2>1, <2>2
<1>5. t[2] \in Fatal(n)
  <2>1. CASE Policy[n] # "none"
    BY <1>3, <2>1 DEF EffectiveThresholds, Fatal
  <2>2. CASE Policy[n] = "none"
    BY <1>1, <2>2 DEF EffectiveThresholds, Fatal, Clamp
  <2> QED
    BY <2>1, <2>2
<1>6. t[1] \in Int /\ t[2] \in Int
  BY <1>1, <1>3 DEF EffectiveThresholds, Clamp
<1>7. v = IF Policy[n] = "complete" /\ won + lost < k THEN "RUNNING"
          ELSE IF won >= t[1] THEN "SUCCESS"
          ELSE IF Policy[n] = "complete" \/ lost >= t[2] \/ won + lost >= k THEN "FAILURE"
          ELSE "RUNNING"
  BY <1>1 DEF Verdict
<1> HIDE DEF t, won, lost, k
<1>8. /\ Policy[n] = "complete" => (v \in Settled <=> AllSettled(n))
      /\ v = "RUNNING" => ~AllSettled(n)
      /\ v = "SUCCESS" => won >= t[1]
      /\ v = "FAILURE" => won < t[1] /\ (lost >= t[2] \/ AllSettled(n))
      /\ v = "RUNNING" /\ Policy[n] # "complete" => won < t[1] /\ lost < t[2]
  BY <1>1, <1>2, <1>6, <1>7 DEF Settled
<1> QED
  BY <1>4, <1>5, <1>8 DEF won, lost

\* Every Parallel, of any number of children and under any policy, answers what its
\* policy and some values of its ports call for, whatever integers these are.
THEOREM PolicyKeptHolds == Spec => PolicyKept
<1> DEFINE Kept(n) ==
      /\ Policy[n] = "complete" => (ret' \in Settled <=> AllSettled(n))
      /\ ret' = "RUNNING" => ~AllSettled(n)
      /\ \E a \in Asked(n), f \in Fatal(n) :
            /\ ret' = "SUCCESS" => Cardinality(Won(n)) >= a
            /\ ret' = "FAILURE" => /\ Cardinality(Won(n)) < a
                                   /\ Cardinality(Lost(n)) >= f \/ AllSettled(n)
            /\ ret' = "RUNNING" /\ Policy[n] # "complete" =>
                  Cardinality(Won(n)) < a /\ Cardinality(Lost(n)) < f
<1>1. ASSUME TypeInv, Next, NEW n \in Of({"Parallel"}), cur = n, cur' = Parent[n], ret' \in Results,
             KidSet(n) # {}
      PROVE  Kept(n)
  <2>1. n \in Nodes /\ n # Env /\ Kind[n] = "Parallel" /\ Parent[n] # n
    BY KidsAssumption, UnderAssumption DEF Of
  <2>2. PICK m \in Nodes : NodeStep(m)
    BY <1>1, <2>1 DEF Next, TickOnce, HaltAll, ResetAll, Write
  <2>3. m = n
    BY <1>1, <2>2, NodeSteps
  <2>4. PICK i : Parallel(n, i)
    BY <2>1, <2>2, <2>3 DEF NodeStep, LeafReturn, LeafRaise, EnterOrdered, ResumeOrdered, EnterParallel,
       ResumeParallel, FullEval, FastTick, ResumeReactive, EnterWrapper, ResumeWrapper, EnterRetry,
       ResumeRetry, EnterTimeout, Expire, EnterRate, ReplayRate, ResumeRate, ReactiveKinds, OrderedKinds,
       WrapperKinds, LeafKinds
  <2>5. ret' # "CALL"
    BY <1>1 DEF Results, Settled
  <2>6. PICK rs \in SuccessThreshold[n], rf \in FailureThreshold[n] :
           ret' = Verdict(n, EffectiveThresholds(n, rs, rf))
    BY <2>4, <2>5 DEF Parallel, Call, Yield, Return
  <2>7. PICK v \in Results : v = ret'
    BY <1>1
  <2> QED
    BY <1>1, <2>6, <2>7, VerdictKept
<1>2. TypeInv /\ [Next]_vars =>
        [\A n \in Of({"Parallel"}) :
          cur = n /\ cur' = Parent[n] /\ ret' \in Results /\ KidSet(n) # {} => Kept(n)]_vars
  <2> HIDE DEF Kept
  <2> QED
    BY <1>1
<1> QED
  BY <1>2, TypeCorrect, PTL DEF Spec, PolicyKept

(***************************************************************************)
(* What a step does to a node.  Every step without an exception leaves a   *)
(* node alone but for the child it waits for, sweeps it, calls it, is its  *)
(* own, or is reset_all() or a write.                                      *)
(***************************************************************************)
Places(n) == 1..Len(Kids[n])

Still(m) == status'[m] = status[m] /\ mem'[m] = mem[m] /\ frame'[m] = frame[m]

KidStill(c) == /\ status'[c] = status[c]
               /\ c \in fresh' <=> c \in fresh
               /\ c \in unseen' <=> c \in unseen

Stays(m) ==
    /\ Still(m) /\ (Called(m)' => Called(m))
    /\ \A j \in Places(m) : KidStill(Kids[m][j]) \/ (~OffStack(m) /\ j = At(m))

IsCalled(m) ==
    /\ Still(m) /\ OffStack(m) /\ Called(m)'
    /\ \A j \in Places(m) :
          /\ status'[Kids[m][j]] = status[Kids[m][j]]
          /\ Kids[m][j] \in unseen' <=> Kids[m][j] \in unseen
          /\ IF status[m] = "RUNNING" THEN Kids[m][j] \in fresh' <=> Kids[m][j] \in fresh
                                      ELSE Kids[m][j] \notin fresh'

\* Below a settled node where nothing executes.
UnderSettled(m) == \E d \in Nodes : /\ m \in Under[d] /\ status[d] \in Settled
                                    /\ \A y \in Under[d] : OffStack(y)

SweptAway(m) ==
    /\ OffStack(m) /\ OffStack(m)' /\ ~Called(m)' /\ status'[m] = "IDLE"
    /\ \/ mem'[m] = HaltNode(m)
       \/ mem'[m] = ResetSubtreeNode(m) /\ UnderSettled(m)
    /\ \A j \in Places(m) : status'[Kids[m][j]] = "IDLE" /\ (Kids[m][j] \in unseen' => Kids[m][j] \in unseen)

LEMMA OtherIsSwept ==
    ASSUME TypeInv, NEW o, NEW H, NEW R, Swept(o, H, R), NEW m \in H \cup R,
           \A y \in H \cup R : \A x \in Under[y] : OffStack(x),
           \A x \in H \cup R : status'[x] = "IDLE", \A x \in H \cup R : frame'[x] = frame[x],
           \A x \in H \cup R : \A c \in KidSet(x) : c \notin H \cup R => status'[c] = status[c],
           mem'[m] = Cleared(H, R)[m], ret' # "CALL" \/ cur' = Env, unseen' \subseteq unseen
    PROVE  SweptAway(m)
<1>1. m \in Nodes /\ OffStack(m) /\ m # Env
  BY UnderAssumption, KidsAssumption DEF Swept
<1>2. OffStack(m)' /\ ~Called(m)'
  BY <1>1 DEF OffStack, Called
<1>3. mem'[m] = HaltNode(m) \/ (m \in R /\ mem'[m] = ResetSubtreeNode(m))
  BY <1>1 DEF Cleared
<1>4. m \in R => UnderSettled(m)
  BY DEF Swept, UnderSettled
<1>5. \A j \in Places(m) : Kids[m][j] \in KidSet(m)
  BY <1>1, KidInNodes DEF Places
<1>6. \A c \in KidSet(m) : status'[c] = "IDLE"
  BY DEF Swept, Closed
<1> QED
  BY <1>1, <1>2, <1>3, <1>4, <1>5, <1>6 DEF SweptAway

LEMMA AnswerOthers ==
    ASSUME TypeInv, PathInv, NEW n \in Nodes, cur = n, NEW own, NEW s \in Results,
           NEW H \in SUBSET Below(n), NEW R \in SUBSET Below(n), Swept(n, H, R),
           Answers(n, own, s, H, R), NEW m \in Nodes, m # n
    PROVE  Stays(m) \/ SweptAway(m)
<1>1. CASE m \in H \cup R
  <2>1. \A y \in H \cup R : \A x \in Under[y] : OffStack(x) /\ x # n
    BY KidsOff, UnderAssumption DEF Below
  <2>2. \A x \in H \cup R : x \in Nodes /\ x # n /\ status'[x] = "IDLE" /\ frame'[x] = frame[x]
    BY UnderAssumption DEF Answers, Below
  <2>3. \A x \in H \cup R : \A c \in KidSet(x) : c \in Nodes /\ c # n
    BY <2>1, <2>2, KidBelow, KidSetInNodes DEF Below
  <2>4. /\ \A x \in H \cup R : \A c \in KidSet(x) : c \notin H \cup R => status'[c] = status[c]
        /\ mem'[m] = Cleared(H, R)[m] /\ ret' # "CALL" /\ unseen' \subseteq unseen
    BY <2>3 DEF Answers, Results
  <2> QED
    BY <1>1, <2>1, <2>2, <2>4, OtherIsSwept
<1>2. CASE m \notin H \cup R
  <2>1. Still(m) /\ ~Called(m)'
    BY <1>2 DEF Answers, Still, Cleared, Called, Results
  <2>2. ASSUME NEW j \in Places(m), Kids[m][j] # n PROVE KidStill(Kids[m][j])
    <3>1. Kids[m][j] \in Nodes /\ Parent[Kids[m][j]] = m
      BY KidInNodes, KidSetInNodes DEF Places
    <3>2. Kids[m][j] \notin H \cup R
      BY <1>2, <3>1 DEF Swept
    <3> QED
      BY <2>2, <3>1, <3>2 DEF Answers, KidStill
  <2>3. ASSUME NEW j \in Places(m), Kids[m][j] = n PROVE ~OffStack(m) /\ j = At(m)
    <3>1. Parent[n] = m /\ n # Root
      BY <2>3, KidInNodes, KidSetInNodes DEF Places
    <3>2. ~OffStack(m)
      BY <3>1 DEF TypeInv, Stack
    <3> QED
      BY <2>3, <3>2 DEF PathInv, PathOf, Places
  <2> QED
    BY <2>1, <2>2, <2>3 DEF Stays
<1> QED
  BY <1>1, <1>2

LEMMA HaltAllOthers ==
    ASSUME TypeInv, HaltAll, NEW m \in Nodes
    PROVE  Stays(m) \/ SweptAway(m)
<1> DEFINE H == HaltSet({Root})
           R == ResetSet({Root})
<1>1. Swept(Env, H, R)
  BY TreeSwept DEF TypeInv, TypeOK
<1>2. /\ cur = Env /\ cur' = Env /\ frame' = frame /\ mem' = Cleared(H, R) /\ status' = Idled(H \cup R)
      /\ UNCHANGED <<fresh, unseen>>
  BY DEF HaltAll
<1>3. \A x \in Nodes : OffStack(x)
  BY <1>2, EnvOff
<1>4. \A x \in Nodes : status'[x] = IF x \in H \cup R THEN "IDLE" ELSE status[x]
  BY <1>2 DEF Idled
<1>5. CASE m \in H \cup R
  <2>1. H \cup R \subseteq Nodes
    BY <1>1 DEF Swept
  <2>2. \A y \in H \cup R : \A x \in Under[y] : OffStack(x)
    BY <1>3, <2>1, UnderAssumption
  <2>3. \A x \in H \cup R : \A c \in KidSet(x) : c \notin H \cup R => status'[c] = status[c]
    BY <1>4, <2>1, KidSetInNodes
  <2> HIDE DEF H, R
  <2> QED
    BY <1>1, <1>2, <1>4, <1>5, <2>1, <2>2, <2>3, OtherIsSwept
<1>6. CASE m \notin H \cup R
  <2>1. Still(m) /\ ~Called(m)'
    BY <1>2, <1>4, <1>6, KidsAssumption DEF Still, Called, Cleared
  <2>2. ASSUME NEW j \in Places(m) PROVE KidStill(Kids[m][j])
    <3>1. Kids[m][j] \in Nodes /\ Parent[Kids[m][j]] = m /\ m # Env
      BY KidInNodes, KidSetInNodes, KidsAssumption DEF Places
    <3>2. Kids[m][j] \notin H \cup R
      BY <1>1, <1>6, <3>1 DEF Swept
    <3> QED
      BY <1>2, <1>4, <3>1, <3>2 DEF KidStill
  <2> QED
    BY <2>1, <2>2 DEF Stays
<1> QED
  BY <1>5, <1>6

\* A call leaves all but the caller and the one that is called alone.
LEMMA CallOthers ==
    ASSUME TypeInv, NEW n \in Nodes \cup {Env}, NEW c \in Nodes, Parent[c] = n, cur = n,
           cur' = c, ret' = "CALL", UNCHANGED <<status, unseen>>,
           fresh' = IF status[c] = "RUNNING" THEN fresh ELSE fresh \ KidSet(c),
           \A x \in Nodes \ {n} : mem'[x] = mem[x] /\ frame'[x] = frame[x],
           NEW m \in Nodes, m # n
    PROVE  Stays(m) \/ IsCalled(m)
<1>1. Still(m) /\ (Called(m)' <=> m = c)
  BY DEF Still, Called
<1>2. \A j \in Places(m) : Kids[m][j] \in Nodes /\ Kids[m][j] \in KidSet(m) /\ Parent[Kids[m][j]] = m
  BY KidInNodes, KidSetInNodes DEF Places
<1>3. CASE m = c
  <2>1. OffStack(c)
    <3>1. n = Env => OffStack(c)
      BY EnvOff
    <3>2. n \in Nodes => c \in Below(n)
      BY KidsAssumption, KidBelow
    <3> QED
      BY <3>1, <3>2, KidsOff
  <2> QED
    BY <1>1, <1>2, <1>3, <2>1 DEF IsCalled
<1>4. CASE m # c
  <2>1. \A j \in Places(m) : Kids[m][j] \notin KidSet(c)
    BY <1>2, <1>4, KidSetInNodes
  <2> QED
    BY <1>1, <1>2, <1>4, <2>1 DEF Stays, KidStill
<1> QED
  BY <1>3, <1>4
(***************************************************************************)
(* The steps of a node, class by class: n goes on with its i-th child, or  *)
(* it ends with s after halting the children at the places in C.           *)
(***************************************************************************)
Goes(n, own, f, i) == i \in Places(n) /\ Call(n, own, f, Kids[n][i])

Ends(n, own, s, C) ==
    \E H, R \in SUBSET Below(n) :
        /\ Swept(n, H, R) /\ Answers(n, own, s, H, R)
        /\ \A j \in Places(n) : status'[Kids[n][j]] = IF j \in C THEN "IDLE" ELSE status[Kids[n][j]]

LEMMA KidPlaces ==
    ASSUME NEW n \in Nodes
    PROVE  /\ \A j \in Places(n) : /\ Kids[n][j] \in Nodes /\ Kids[n][j] \in KidSet(n)
                                   /\ Kids[n][j] \in Below(n) /\ Parent[Kids[n][j]] = n
           /\ \A i, j \in Places(n) : Kids[n][i] = Kids[n][j] => i = j
           /\ KidSet(n) = {Kids[n][j] : j \in Places(n)}
           /\ Len(Kids[n]) \in Nat
BY KidInNodes, KidSetInNodes, KidBelow, KidsAssumption, KidsLength DEF Places, KidSet

LEMMA GoesEffect ==
    ASSUME TypeInv, NEW n \in Nodes, cur = n, NEW own, NEW f, NEW i, Goes(n, own, f, i)
    PROVE  /\ mem'[n] = own /\ frame'[n] = f /\ status'[n] = status[n] /\ ~Called(n)' /\ ret' = "CALL"
           /\ \A j \in Places(n) : KidStill(Kids[n][j])
           /\ i \in Places(n)
<1>1. Kids[n][i] # n /\ i \in Places(n)
  BY KidPlaces DEF Goes, Below
<1>2. \A j \in Places(n) : Kids[n][j] \notin KidSet(Kids[n][i])
  BY <1>1, KidPlaces, KidSetInNodes
<1> QED
  BY <1>1, <1>2 DEF Goes, Call, TypeInv, TypeOK, Called, KidStill

LEMMA EndsEffect ==
    ASSUME TypeInv, NEW n \in Nodes, cur = n, NEW own, NEW s \in Results, NEW C, Ends(n, own, s, C)
    PROVE  /\ mem'[n] = own /\ OffStack(n)' /\ status'[n] = s /\ ~Called(n)' /\ ret' = s
           /\ \A j \in Places(n) :
                 /\ status'[Kids[n][j]] = IF j \in C THEN "IDLE" ELSE status[Kids[n][j]]
                 /\ Kids[n][j] \in fresh' <=> Kids[n][j] \in fresh
                 /\ Kids[n][j] \in unseen' <=> Kids[n][j] \in unseen
BY KidPlaces DEF Ends, Answers, OffStack, Called, Results, Below

LEMMA EndsStill ==
    ASSUME TypeInv, NEW n \in Nodes, cur = n, NEW own, NEW s \in Results, Ends(n, own, s, {})
    PROVE  /\ mem'[n] = own /\ OffStack(n)' /\ status'[n] = s /\ ~Called(n)'
           /\ \A j \in Places(n) : KidStill(Kids[n][j])
<1>1. \A j \in Places(n) : KidStill(Kids[n][j])
  <2> SUFFICES ASSUME NEW j \in Places(n) PROVE KidStill(Kids[n][j])
    OBVIOUS
  <2>1. /\ status'[Kids[n][j]] = IF j \in {} THEN "IDLE" ELSE status[Kids[n][j]]
        /\ Kids[n][j] \in fresh' <=> Kids[n][j] \in fresh
        /\ Kids[n][j] \in unseen' <=> Kids[n][j] \in unseen
    BY EndsEffect
  <2> QED
    BY <2>1 DEF KidStill
<1> QED
  BY <1>1, EndsEffect

LEMMA YieldEnds ==
    ASSUME TypeInv, NEW n \in Nodes, NEW own, NEW s, Yield(n, own, s)
    PROVE  Ends(n, own, s, {})
<1>1. Answers(n, own, s, {}, {}) /\ Swept(n, {}, {})
  BY ReturnAnswers, NobodySwept DEF Yield, TypeInv
<1>2. \A j \in Places(n) : status'[Kids[n][j]] = status[Kids[n][j]]
  BY <1>1, KidPlaces DEF Answers, Below
<1> QED
  BY <1>1, <1>2 DEF Ends

LEMMA HaltEnds ==
    ASSUME TypeInv, NEW n \in Nodes, NEW own, NEW s, NEW C \in SUBSET Places(n), NEW D,
           D = {Kids[n][j] : j \in C}, HaltAndReturn(n, own, s, D)
    PROVE  Ends(n, own, s, C)
<1> DEFINE H == HaltSet(D)
           R == ResetSet(D)
<1>1. D \in SUBSET KidSet(n) /\ \A j \in Places(n) : Kids[n][j] \in D <=> j \in C
  <2>1. \A i, j \in Places(n) : Kids[n][i] = Kids[n][j] => i = j
    BY KidPlaces
  <2>2. \A j \in Places(n) : Kids[n][j] \in KidSet(n)
    BY KidPlaces
  <2> QED
    BY <2>1, <2>2
<1>2. Swept(n, H, R) /\ D \subseteq H /\ \A c \in KidSet(n) \ D : c \notin H \cup R
  BY <1>1, KidsSwept DEF TypeInv, TypeOK
<1>3. H \in SUBSET Below(n) /\ R \in SUBSET Below(n) /\ Return(n, own, s, H, R)
  BY <1>1, HaltBelow DEF HaltAndReturn
<1>4. Answers(n, own, s, H, R)
  <2> HIDE DEF H, R
  <2> QED
    BY <1>3, ReturnAnswers DEF TypeInv
<1>5. \A j \in Places(n) : status'[Kids[n][j]] = IF j \in C THEN "IDLE" ELSE status[Kids[n][j]]
  <2> HIDE DEF H, R
  <2> QED
    BY <1>1, <1>2, <1>4, KidPlaces DEF Answers, Below
<1> HIDE DEF H, R
<1> QED
  BY <1>2, <1>3, <1>4, <1>5 DEF Ends

LEMMA FinishEnds ==
    ASSUME TypeInv, NEW n \in Nodes, NEW own, NEW s, Return(n, own, s, FinishHalts(n), ResetSet({n}))
    PROVE  Ends(n, own, s, Places(n))
<1>1. /\ Swept(n, FinishHalts(n), ResetSet({n}))
      /\ \A c \in KidSet(n) : c \in FinishHalts(n) \cup ResetSet({n}) \/ status[c] = "IDLE"
  BY FinishSwept DEF TypeInv, TypeOK
<1>2. Answers(n, own, s, FinishHalts(n), ResetSet({n}))
  BY ReturnAnswers, FinishBelow DEF TypeInv
<1>3. \A j \in Places(n) : status'[Kids[n][j]] = "IDLE"
  <2> SUFFICES ASSUME NEW j \in Places(n) PROVE status'[Kids[n][j]] = "IDLE"
    OBVIOUS
  <2>1. Kids[n][j] \in Nodes /\ Kids[n][j] \in KidSet(n) /\ Kids[n][j] # n
    BY KidPlaces DEF Below
  <2> QED
    BY <1>1, <1>2, <2>1 DEF Answers
<1> QED
  BY <1>1, <1>2, <1>3, FinishBelow DEF Ends

\* Where a Sequence or Fallback goes on: the child at its cursor, or the next one.
OrderedNext(n, i) == \/ Called(n) /\ i = mem[n].cursor
                     \/ Resumed(n, Pass(n)) /\ i = mem[n].cursor + 1

OrderedMoves(n) ==
    \/ \E i \in Nat \ {0} :
          /\ OrderedNext(n, i)
          /\ IF i <= Len(Kids[n]) THEN Goes(n, [mem[n] EXCEPT !.cursor = i], [at |-> "loop", i |-> 0], i)
                                  ELSE Ends(n, [mem[n] EXCEPT !.cursor = 1], Pass(n), {})
    \/ Resumed(n, "RUNNING") /\ Ends(n, mem[n], "RUNNING", {})
    \/ Resumed(n, Stop(n)) /\ Ends(n, [mem[n] EXCEPT !.cursor = 1], Stop(n), Places(n))

LEMMA OrderedMove ==
    ASSUME TypeInv, NEW n \in Nodes, EnterOrdered(n) \/ ResumeOrdered(n)
    PROVE  OrderedMoves(n)
<1>1. ASSUME NEW i \in Nat \ {0}, Advance(n, i)
      PROVE  IF i <= Len(Kids[n]) THEN Goes(n, [mem[n] EXCEPT !.cursor = i], [at |-> "loop", i |-> 0], i)
                                  ELSE Ends(n, [mem[n] EXCEPT !.cursor = 1], Pass(n), {})
  BY <1>1, YieldEnds, KidPlaces DEF Advance, Goes, Places
<1>2. ASSUME NEW i \in Nat \ {0}, OrderedNext(n, i), Advance(n, i) PROVE OrderedMoves(n)
  BY <1>1, <1>2 DEF OrderedMoves
<1>3. mem[n].cursor \in Nat \ {0} /\ mem[n].cursor + 1 \in Nat \ {0}
  BY MemoryNow
<1>4. CASE EnterOrdered(n)
  BY <1>2, <1>3, <1>4 DEF EnterOrdered, OrderedNext
<1>5. CASE Resumed(n, "RUNNING") /\ Yield(n, mem[n], "RUNNING")
  BY <1>5, YieldEnds DEF OrderedMoves
<1>6. CASE Resumed(n, Stop(n)) /\ HaltAndReturn(n, [mem[n] EXCEPT !.cursor = 1], Stop(n), KidSet(n))
  <2>1. Places(n) \in SUBSET Places(n) /\ KidSet(n) = {Kids[n][j] : j \in Places(n)}
    BY KidPlaces
  <2>2. Ends(n, [mem[n] EXCEPT !.cursor = 1], Stop(n), Places(n))
    BY <1>6, <2>1, HaltEnds
  <2> QED
    BY <1>6, <2>2 DEF OrderedMoves
<1>7. CASE Resumed(n, Pass(n)) /\ Advance(n, mem[n].cursor + 1)
  BY <1>2, <1>3, <1>7 DEF OrderedNext
<1> QED
  BY <1>4, <1>5, <1>6, <1>7 DEF ResumeOrdered

ParallelMoves(n) ==
    \/ \E i \in Places(n) : /\ status[Kids[n][i]] \notin Settled
                            /\ Goes(n, mem[n], [at |-> "loop", i |-> i], i)
    \/ Ends(n, mem[n], "RUNNING", {})
    \/ \E s \in Settled : Ends(n, mem[n], s, Places(n))

LEMMA ParallelMove ==
    ASSUME TypeInv, NEW n \in Nodes, EnterParallel(n) \/ ResumeParallel(n)
    PROVE  ParallelMoves(n)
<1>1. PICK i \in Nat \ {0} : Parallel(n, i)
  BY MemoryNow DEF EnterParallel, ResumeParallel
<1>2. ASSUME NEW j \in Pending(n, i), Call(n, mem[n], [at |-> "loop", i |-> j], Kids[n][j])
      PROVE  ParallelMoves(n)
  <2>1. j \in Places(n) /\ status[Kids[n][j]] \notin Settled
    BY KidPlaces DEF Pending, Places
  <2> QED
    BY <1>2, <2>1 DEF ParallelMoves, Goes
<1>3. ASSUME NEW v \in Results,
             IF v = "RUNNING" THEN Yield(n, mem[n], v)
                              ELSE Return(n, mem[n], v, FinishHalts(n), ResetSet({n}))
      PROVE  ParallelMoves(n)
  <2>1. CASE v = "RUNNING"
    BY <1>3, <2>1, YieldEnds DEF ParallelMoves
  <2>2. CASE v # "RUNNING"
    <3>1. v \in Settled
      BY <2>2 DEF Results, Settled
    <3> QED
      BY <1>3, <2>2, <3>1, FinishEnds DEF ParallelMoves
  <2> QED
    BY <2>1, <2>2
<1> QED
  BY <1>1, <1>2, <1>3, VerdictType DEF Parallel, Least

\* Where a reactive node goes on, with the memory own, in the loop at.
ReactiveNext(n, own, at, i) ==
    \/ at = "full" /\ Called(n) /\ i = 1 /\ own = [mem[n] EXCEPT !.dirty = FALSE]
    \/ /\ Resumed(n, Pass(n)) /\ i = frame[n].i + 1
       /\ \/ at \in {"full", "rest"} /\ at = frame[n].at /\ own = mem[n]
          \/ at = "rest" /\ frame[n].at = "main" /\ own = ClearRunning(mem[n])
    \/ /\ own = mem[n]
       /\ (Called(n) /\ ~NeedsFullEval(n)) \/ (Resumed(n, Pass(n)) /\ frame[n].at = "guard")
       /\ (at = "guard" /\ i < mem[n].running) \/ (at = "main" /\ i = mem[n].running)

ReactiveMoves(n) ==
    \/ \E own \in Memory(n), i \in Nat \ {0} : \E at :
          /\ ReactiveNext(n, own, at, i)
          /\ IF i <= Len(Kids[n]) THEN Goes(n, own, [at |-> at, i |-> i], i)
                                  ELSE Ends(n, ClearRunning(own), Pass(n), {})
    \/ /\ Resumed(n, "RUNNING")
       /\ \E own \in {mem[n], Subscribe(n, mem[n])} :
             Ends(n, [own EXCEPT !.running = frame[n].i], "RUNNING",
                  IF frame[n].at = "main" THEN {} ELSE (frame[n].i + 1)..Len(Kids[n]))
    \/ /\ Resumed(n, Stop(n))
       /\ Ends(n, ClearRunning(mem[n]), Stop(n), (frame[n].i + 1)..Len(Kids[n]))

LEMMA ReactiveMove ==
    ASSUME TypeInv, NEW n \in Nodes, FullEval(n) \/ FastTick(n) \/ ResumeReactive(n)
    PROVE  ReactiveMoves(n)
<1> DEFINE f == frame[n]
           x == mem[n]
<1>1. ASSUME NEW own \in Memory(n), NEW at, NEW i \in Nat \ {0}, ReactiveNext(n, own, at, i), OnWith(n, own, at, i)
      PROVE  ReactiveMoves(n)
  <2>1. IF i <= Len(Kids[n]) THEN Goes(n, own, [at |-> at, i |-> i], i)
                             ELSE Ends(n, ClearRunning(own), Pass(n), {})
    BY <1>1, YieldEnds, KidPlaces DEF OnWith, Goes, Places
  <2> QED
    BY <1>1, <2>1 DEF ReactiveMoves
<1>2. x \in Memory(n) /\ x.running \in Nat /\ f.i + 1 \in Nat \ {0} /\ f.i \in 0..Len(Kids[n])
  BY MemoryNow
<1>3. ASSUME NEW i \in Nat \ {0}, Guarded(n, i), x.running # 0,
             (Called(n) /\ ~NeedsFullEval(n)) \/ (Resumed(n, Pass(n)) /\ f.at = "guard")
      PROVE  ReactiveMoves(n)
  <2>1. ASSUME NEW g \in GuardsFrom(n, i), OnWith(n, x, "guard", g) PROVE ReactiveMoves(n)
    <3>1. g \in Nat \ {0} /\ g < x.running
      BY <1>2 DEF GuardsFrom
    <3>2. ReactiveNext(n, x, "guard", g)
      BY <1>3, <3>1 DEF ReactiveNext
    <3> QED
      BY <1>1, <1>2, <2>1, <3>1, <3>2
  <2>2. CASE OnWith(n, x, "main", x.running)
    <3>1. ReactiveNext(n, x, "main", x.running) /\ x.running \in Nat \ {0}
      BY <1>2, <1>3 DEF ReactiveNext
    <3> QED
      BY <1>1, <1>2, <2>2, <3>1
  <2> QED
    BY <1>3, <2>1, <2>2 DEF Guarded, Least
<1>4. CASE FullEval(n)
  <2>1. [x EXCEPT !.dirty = FALSE] \in Memory(n)
    BY <1>2, HooksType
  <2>2. ReactiveNext(n, [x EXCEPT !.dirty = FALSE], "full", 1) /\ OnWith(n, [x EXCEPT !.dirty = FALSE], "full", 1)
    BY <1>4 DEF FullEval, ReactiveNext
  <2> QED
    BY <1>1, <2>1, <2>2
<1>5. CASE FastTick(n)
  BY <1>3, <1>5 DEF FastTick, NeedsFullEval
<1>6. CASE ResumeReactive(n)
  <2>1. FrameOK(n, x, f) /\ Kind[n] \in ReactiveKinds
    BY <1>6 DEF ResumeReactive, Resumed, TypeInv, Stack, Results
  <2>2. /\ f.at \in {"full", "guard", "main", "rest"} /\ f.i \in 1..Len(Kids[n])
        /\ f.at = "guard" => x.running # 0
    BY <2>1, MemoryNow DEF FrameOK, Frames
  <2>3. CASE Resumed(n, Pass(n)) /\ ReactivePass(n)
    <3>1. CASE f.at \in {"full", "rest"}
      <4>1. ReactiveNext(n, x, f.at, f.i + 1) /\ OnWith(n, x, f.at, f.i + 1)
        BY <2>3, <3>1 DEF ReactivePass, ReactiveNext
      <4> QED
        BY <1>1, <1>2, <4>1
    <3>2. CASE f.at = "guard"
      BY <1>2, <1>3, <2>2, <2>3, <3>2 DEF ReactivePass
    <3>3. CASE f.at = "main"
      <4>1. ClearRunning(x) \in Memory(n)
        BY <1>2, HooksType
      <4>2. ReactiveNext(n, ClearRunning(x), "rest", f.i + 1) /\ OnWith(n, ClearRunning(x), "rest", f.i + 1)
        BY <2>3, <3>3 DEF ReactivePass, ReactiveNext
      <4> QED
        BY <1>1, <1>2, <4>1, <4>2
    <3> QED
      BY <2>2, <3>1, <3>2, <3>3
  <2>4. (f.i + 1)..Len(Kids[n]) \in SUBSET Places(n) /\ {} \in SUBSET Places(n)
    BY <2>2, KidPlaces DEF Places
  <2>5. CASE Resumed(n, "RUNNING") /\ ReactiveRunning(n)
    <3>1. PICK own \in {x, Subscribe(n, x)} :
             HaltAndReturn(n, [own EXCEPT !.running = f.i], "RUNNING",
                           IF f.at = "main" THEN {} ELSE KidsFrom(n, f.i + 1))
      BY <2>5 DEF ReactiveRunning
    <3> DEFINE C == IF f.at = "main" THEN {} ELSE (f.i + 1)..Len(Kids[n])
    <3>2. (IF f.at = "main" THEN {} ELSE KidsFrom(n, f.i + 1)) = {Kids[n][j] : j \in C}
      BY DEF KidsFrom
    <3>3. C \in SUBSET Places(n)
      BY <2>4
    <3>4. Ends(n, [own EXCEPT !.running = f.i], "RUNNING", C)
      <4> HIDE DEF C
      <4> QED
        BY <3>1, <3>2, <3>3, HaltEnds
    <3> QED
      BY <2>5, <3>4 DEF ReactiveMoves
  <2>6. CASE Resumed(n, Stop(n)) /\ HaltAndReturn(n, ClearRunning(x), Stop(n), KidsFrom(n, f.i + 1))
    <3>1. Ends(n, ClearRunning(x), Stop(n), (f.i + 1)..Len(Kids[n]))
      BY <2>4, <2>6, HaltEnds DEF KidsFrom
    <3> QED
      BY <2>6, <3>1 DEF ReactiveMoves
  <2> QED
    BY <1>6, <2>3, <2>5, <2>6 DEF ResumeReactive
<1> QED
  BY <1>4, <1>5, <1>6

\* A decorator's own fields are its count of attempts and its cached answer.
Like(x, y) == x.cursor = y.cursor /\ x.running = y.running /\ x.dirty = y.dirty /\ x.subs = y.subs

\* Why a decorator answers s without halting its child.
DecoratorAnswer(n, own, s) ==
    \/ \E r \in Results : /\ Resumed(n, r) /\ (r = "RUNNING" => s = "RUNNING")
                          /\ Kind[n] = "RateController" => s = r /\ own.last = r
    \/ Kind[n] = "RateController" /\ Called(n) /\ mem[n].stamped /\ own = mem[n] /\ s = mem[n].last
    \/ Kind[n] = "Retry" /\ Called(n) /\ \E b \in Budget[n] : b <= 0

DecoratorMoves(n) ==
    \E own \in Memory(n) :
       /\ Like(own, mem[n])
       /\ \/ Goes(n, own, [at |-> "loop", i |-> 1], 1)
          \/ \E s \in Results : \/ Kind[n] # "RateController" /\ Ends(n, own, s, {1})
                                \/ DecoratorAnswer(n, own, s) /\ Ends(n, own, s, {})

LEMMA DecoratorMove ==
    ASSUME TypeInv, NEW n \in Nodes,
           \/ EnterWrapper(n) \/ ResumeWrapper(n) \/ EnterRetry(n) \/ ResumeRetry(n)
           \/ EnterTimeout(n) \/ Expire(n) \/ EnterRate(n) \/ ReplayRate(n) \/ ResumeRate(n)
    PROVE  \/ DecoratorMoves(n)
           \/ Raise /\ Kind[n] = "RateController" /\ Called(n) /\ mem[n].stamped /\ mem[n].last = "IDLE"
<1> DEFINE x == mem[n]
<1>1. Len(Kids[n]) = 1 /\ Places(n) = {1}
  <2>1. Kind[n] \in DecoratorKinds
    BY DEF EnterWrapper, ResumeWrapper, EnterRetry, ResumeRetry, EnterTimeout, Expire,
           EnterRate, ReplayRate, ResumeRate, DecoratorKinds
  <2>2. Len(Kids[n]) = 1
    BY <2>1, KindAssumption
  <2> QED
    BY <2>2 DEF Places
<1>2. x \in Memory(n) /\ x.last \in Status
  BY MemoryNow DEF Memory
<1>3. /\ \A k \in Nat : [x EXCEPT !.attempts = k] \in Memory(n) /\ Like([x EXCEPT !.attempts = k], x)
      /\ [x EXCEPT !.stamped = TRUE] \in Memory(n) /\ Like([x EXCEPT !.stamped = TRUE], x)
      /\ \A s \in Results : /\ [x EXCEPT !.last = s] \in Memory(n) /\ Like([x EXCEPT !.last = s], x)
                            /\ [x EXCEPT !.last = s].last = s
      /\ x.attempts \in Nat
  <2> HIDE DEF x
  <2> QED
    BY <1>2 DEF Memory, Like, Status
<1>4. Like(x, x)
  BY DEF Like
<1>5. ASSUME NEW own \in Memory(n), Like(own, x), CallKid(n, own) PROVE DecoratorMoves(n)
  BY <1>1, <1>5 DEF CallKid, DecoratorMoves, Goes, Kid
<1>6. ASSUME NEW own \in Memory(n), Like(own, x), NEW s \in Results, Yield(n, own, s), DecoratorAnswer(n, own, s)
      PROVE  DecoratorMoves(n)
  <2>1. Ends(n, own, s, {})
    BY <1>6, YieldEnds
  <2> QED
    BY <1>6, <2>1 DEF DecoratorMoves
<1>7. ASSUME NEW own \in Memory(n), Like(own, x), NEW s \in Results, HaltAndReturn(n, own, s, {Kid(n)}),
             Kind[n] # "RateController"
      PROVE  DecoratorMoves(n)
  <2>1. {1} \in SUBSET Places(n) /\ {Kid(n)} = {Kids[n][j] : j \in {1}}
    BY <1>1 DEF Kid
  <2>2. Ends(n, own, s, {1})
    BY <1>7, <2>1, HaltEnds
  <2> QED
    BY <1>7, <2>2 DEF DecoratorMoves
<1>8. CASE EnterWrapper(n) \/ EnterTimeout(n) \/ EnterRate(n)
  BY <1>2, <1>3, <1>4, <1>5, <1>8 DEF EnterWrapper, EnterTimeout, EnterRate
<1>9. CASE ResumeWrapper(n)
  <2>1. PICK s \in Results : Resumed(n, s) /\ Yield(n, x, Wrapped(n, s))
    BY <1>9 DEF ResumeWrapper
  <2>2. Wrapped(n, s) \in Results /\ (s = "RUNNING" => Wrapped(n, s) = "RUNNING")
    <3>1. \A r \in Results : Wrapped(n, r) \in Results
      BY DEF Wrapped, Results
    <3>2. Wrapped(n, "RUNNING") = "RUNNING"
      BY DEF Wrapped
    <3> QED
      BY <3>1, <3>2
  <2>3. Kind[n] # "RateController"
    BY <1>9 DEF ResumeWrapper, WrapperKinds
  <2>4. DecoratorAnswer(n, x, Wrapped(n, s))
    BY <2>1, <2>2, <2>3 DEF DecoratorAnswer
  <2> QED
    BY <1>2, <1>4, <1>6, <2>1, <2>2, <2>4
<1>10. CASE EnterRetry(n)
  <2>1. Kind[n] = "Retry" /\ Called(n) /\ 0 \in Nat
    BY <1>10 DEF EnterRetry
  <2>2. ASSUME NEW b \in Budget[n], b <= 0, Yield(n, [x EXCEPT !.attempts = 0], "FAILURE")
        PROVE  DecoratorMoves(n)
    <3>1. DecoratorAnswer(n, [x EXCEPT !.attempts = 0], "FAILURE")
      BY <2>1, <2>2 DEF DecoratorAnswer
    <3> QED
      BY <1>3, <1>6, <2>1, <2>2, <3>1 DEF Results
  <2>3. ASSUME CallKid(n, [x EXCEPT !.attempts = IF status[n] = "RUNNING" THEN @ ELSE 0]) PROVE DecoratorMoves(n)
    <3>1. (IF status[n] = "RUNNING" THEN x.attempts ELSE 0) \in Nat
      BY <1>3
    <3> QED
      BY <1>3, <1>5, <2>3, <3>1
  <2> QED
    BY <1>10, <2>2, <2>3 DEF EnterRetry
<1>11. CASE ResumeRetry(n)
  <2>1. Kind[n] = "Retry" /\ Kind[n] # "RateController" /\ 0 \in Nat /\ x.attempts + 1 \in Nat
    BY <1>3, <1>11 DEF ResumeRetry
  <2>2. CASE Resumed(n, "RUNNING") /\ Yield(n, x, "RUNNING")
    <3>1. DecoratorAnswer(n, x, "RUNNING")
      BY <2>1, <2>2 DEF DecoratorAnswer, Results
    <3> QED
      BY <1>2, <1>4, <1>6, <2>2, <3>1 DEF Results
  <2>3. CASE Resumed(n, "SUCCESS") /\ Yield(n, [x EXCEPT !.attempts = 0], "SUCCESS")
    <3>1. DecoratorAnswer(n, [x EXCEPT !.attempts = 0], "SUCCESS")
      BY <2>1, <2>3 DEF DecoratorAnswer, Results
    <3> QED
      BY <1>3, <1>6, <2>1, <2>3, <3>1 DEF Results
  <2>4. ASSUME NEW s \in Results, HaltAndReturn(n, [x EXCEPT !.attempts = @ + 1], s, {Kid(n)})
        PROVE  DecoratorMoves(n)
    BY <1>3, <1>7, <2>1, <2>4
  <2> QED
    BY <1>11, <2>2, <2>3, <2>4 DEF ResumeRetry, Results
<1>12. CASE Expire(n)
  BY <1>2, <1>4, <1>7, <1>12 DEF Expire, Results
<1>13. CASE ReplayRate(n)
  <2>1. CASE x.last = "IDLE"
    BY <1>13, <2>1 DEF ReplayRate
  <2>2. CASE x.last # "IDLE"
    <3>1. x.last \in Results /\ Yield(n, x, x.last)
      BY <1>2, <1>13, <2>2 DEF ReplayRate, Status
    <3>2. DecoratorAnswer(n, x, x.last)
      BY <1>13 DEF DecoratorAnswer, ReplayRate
    <3> QED
      BY <1>2, <1>4, <1>6, <3>1, <3>2
  <2> QED
    BY <2>1, <2>2
<1>14. CASE ResumeRate(n)
  <2>1. PICK s \in Results : Resumed(n, s) /\ Yield(n, [x EXCEPT !.last = s], s)
    BY <1>14 DEF ResumeRate
  <2>2. DecoratorAnswer(n, [x EXCEPT !.last = s], s)
    BY <1>3, <2>1 DEF DecoratorAnswer
  <2> QED
    BY <1>3, <1>6, <2>1, <2>2
<1> QED
  BY <1>8, <1>9, <1>10, <1>11, <1>12, <1>13, <1>14

Moves(n) ==
    \/ Kind[n] \in LeafKinds /\ \E s \in Results : Ends(n, mem[n], s, {})
    \/ Kind[n] \in OrderedKinds /\ OrderedMoves(n)
    \/ Kind[n] \in ReactiveKinds /\ ReactiveMoves(n)
    \/ Kind[n] = "Parallel" /\ ParallelMoves(n)
    \/ Kind[n] \in DecoratorKinds /\ DecoratorMoves(n)

\* Why an exception leaves n.
RaisesAt(n) ==
    \/ Kind[n] \in LeafKinds /\ "RAISE" \in Outcome[n]
    \/ Kind[n] = "RateController" /\ Called(n) /\ mem[n].stamped /\ mem[n].last = "IDLE"

LEMMA NodeMove ==
    ASSUME TypeInv, NEW n \in Nodes, NodeStep(n)
    PROVE  cur = n /\ (Moves(n) \/ (Raise /\ RaisesAt(n)))
<1>1. cur = n
  BY NodeSteps
<1>2. CASE LeafReturn(n)
  <2>1. PICK s \in Results : Answers(n, mem[n], s, {}, {})
    BY <1>2, LeafAnswers
  <2>2. \A j \in Places(n) : status'[Kids[n][j]] = status[Kids[n][j]]
    BY <2>1, KidPlaces DEF Answers, Below
  <2>3. Ends(n, mem[n], s, {})
    BY <2>1, <2>2, NobodySwept DEF Ends
  <2> QED
    BY <1>1, <1>2, <2>3 DEF Moves, LeafReturn
<1>3. CASE LeafRaise(n)
  BY <1>1, <1>3 DEF LeafRaise, RaisesAt
<1>4. CASE EnterOrdered(n) \/ ResumeOrdered(n)
  BY <1>1, <1>4, OrderedMove DEF Moves, EnterOrdered, ResumeOrdered
<1>5. CASE EnterParallel(n) \/ ResumeParallel(n)
  BY <1>1, <1>5, ParallelMove DEF Moves, EnterParallel, ResumeParallel
<1>6. CASE FullEval(n) \/ FastTick(n) \/ ResumeReactive(n)
  BY <1>1, <1>6, ReactiveMove DEF Moves, FullEval, FastTick, ResumeReactive
<1>7. CASE \/ EnterWrapper(n) \/ ResumeWrapper(n) \/ EnterRetry(n) \/ ResumeRetry(n)
           \/ EnterTimeout(n) \/ Expire(n) \/ EnterRate(n) \/ ReplayRate(n) \/ ResumeRate(n)
  <2>1. Kind[n] \in DecoratorKinds
    BY <1>7 DEF EnterWrapper, ResumeWrapper, EnterRetry, ResumeRetry, EnterTimeout, Expire,
           EnterRate, ReplayRate, ResumeRate, DecoratorKinds
  <2> QED
    BY <1>1, <1>7, <2>1, DecoratorMove DEF Moves, RaisesAt
<1> QED
  BY <1>2, <1>3, <1>4, <1>5, <1>6, <1>7 DEF NodeStep

LEMMA PassResults == ASSUME NEW n \in Nodes PROVE Pass(n) \in Results /\ Stop(n) \in Results
BY PassStop

LEMMA MoveShape ==
    ASSUME NEW n \in Nodes, Moves(n)
    PROVE  \/ \E own, f, i : Goes(n, own, f, i)
           \/ \E own, C : \E s \in Results : Ends(n, own, s, C)
<1>1. "RUNNING" \in Results /\ Pass(n) \in Results /\ Stop(n) \in Results /\ Settled \subseteq Results
  BY PassResults DEF Results, Settled
<1>2. CASE OrderedMoves(n)
  BY <1>1, <1>2 DEF OrderedMoves
<1>3. CASE ReactiveMoves(n)
  BY <1>1, <1>3 DEF ReactiveMoves
<1>4. CASE ParallelMoves(n)
  BY <1>1, <1>4 DEF ParallelMoves
<1>5. CASE DecoratorMoves(n)
  BY <1>5 DEF DecoratorMoves
<1> QED
  BY <1>2, <1>3, <1>4, <1>5 DEF Moves

LEMMA MoveOthers ==
    ASSUME TypeInv, PathInv, NEW n \in Nodes, cur = n, Moves(n), NEW m \in Nodes, m # n
    PROVE  Stays(m) \/ SweptAway(m) \/ IsCalled(m)
<1>1. ASSUME NEW own, NEW f, NEW i, Goes(n, own, f, i) PROVE Stays(m) \/ IsCalled(m)
  <2>1. /\ Kids[n][i] \in Nodes /\ Parent[Kids[n][i]] = n
        /\ cur' = Kids[n][i] /\ ret' = "CALL" /\ UNCHANGED <<status, unseen>>
        /\ fresh' = IF status[Kids[n][i]] = "RUNNING" THEN fresh ELSE fresh \ KidSet(Kids[n][i])
        /\ \A x \in Nodes \ {n} : mem'[x] = mem[x] /\ frame'[x] = frame[x]
    BY <1>1, KidPlaces DEF Goes, Call, TypeInv, TypeOK
  <2> QED
    BY <2>1, CallOthers
<1>2. ASSUME NEW own, NEW C, NEW s \in Results, Ends(n, own, s, C) PROVE Stays(m) \/ SweptAway(m)
  BY <1>2, AnswerOthers DEF Ends
<1> QED
  BY <1>1, <1>2, MoveShape

\* Every step is one of these to every node.
LEMMA Situations ==
    ASSUME TypeInv, PathInv, [Next]_vars, NEW m \in Nodes,
           \A n \in Nodes : NodeStep(n) => Moves(n)
    PROVE  \/ Stays(m) \/ SweptAway(m) \/ IsCalled(m)
           \/ cur = m /\ Moves(m)
           \/ ResetAll \/ Write
<1>1. CASE TickOnce
  <2>1. /\ Root \in Nodes /\ Parent[Root] = Env /\ cur = Env /\ cur' = Root /\ ret' = "CALL"
        /\ UNCHANGED <<status, unseen, mem, frame>>
        /\ fresh' = IF status[Root] = "RUNNING" THEN fresh ELSE fresh \ KidSet(Root)
        /\ m # Env
    BY <1>1, KidsAssumption DEF TickOnce
  <2> QED
    BY <2>1, CallOthers
<1>2. CASE HaltAll
  BY <1>2, HaltAllOthers
<1>3. ASSUME NEW n \in Nodes, NodeStep(n)
      PROVE  Stays(m) \/ SweptAway(m) \/ IsCalled(m) \/ (cur = m /\ Moves(m))
  BY <1>3, NodeMove, MoveOthers
<1>4. CASE UNCHANGED vars
  BY <1>4 DEF vars, Stays, Still, KidStill, Called
<1> QED
  BY <1>1, <1>2, <1>3, <1>4 DEF Next
(***************************************************************************)
(* The fields of a memory that the hooks touch.                            *)
(***************************************************************************)
LEMMA HookFields ==
    ASSUME NEW n \in Nodes, NEW x \in Memory(n)
    PROVE  /\ OnHalt(x).cursor = x.cursor /\ OnHalt(x).running = 0 /\ ~OnHalt(x).subs
           /\ ~OnHalt(x).stamped /\ OnHalt(x).dirty = x.dirty
           /\ OnReset(x).cursor = x.cursor /\ OnReset(x).running = x.running /\ OnReset(x).subs = x.subs
           /\ ~OnReset(x).stamped /\ OnReset(x).dirty
           /\ ClearRunning(x).cursor = x.cursor /\ ClearRunning(x).running = 0 /\ ~ClearRunning(x).subs
           /\ ClearRunning(x).dirty = x.dirty
           /\ Subscribe(n, x).cursor = x.cursor /\ Subscribe(n, x).dirty = x.dirty
BY DEF Memory, OnHalt, OnReset, ClearRunning, Subscribe

LEMMA ExceptFields ==
    ASSUME NEW n \in Nodes, NEW x \in Memory(n), NEW k
    PROVE  /\ [x EXCEPT !.cursor = k].cursor = k /\ [x EXCEPT !.cursor = k].running = x.running
           /\ [x EXCEPT !.cursor = k].subs = x.subs /\ [x EXCEPT !.cursor = k].dirty = x.dirty
           /\ [x EXCEPT !.cursor = k].stamped = x.stamped /\ [x EXCEPT !.cursor = k].last = x.last
           /\ [x EXCEPT !.running = k].running = k /\ [x EXCEPT !.running = k].cursor = x.cursor
           /\ [x EXCEPT !.running = k].dirty = x.dirty
           /\ [x EXCEPT !.dirty = k].running = x.running /\ [x EXCEPT !.dirty = k].subs = x.subs
           /\ [x EXCEPT !.dirty = k].cursor = x.cursor
BY DEF Memory

LEMMA SweptMemory ==
    ASSUME TypeInv, NEW m \in Nodes, SweptAway(m)
    PROVE  /\ status[m] = "RUNNING" => mem'[m].running = 0 /\ ~mem'[m].subs
           /\ status[m] # "RUNNING" => mem'[m].running = mem[m].running /\ mem'[m].subs = mem[m].subs
           /\ Kind[m] \notin OrderedKinds => mem'[m].cursor = mem[m].cursor
           /\ Kind[m] \in OrderedKinds => mem'[m].cursor = 1 \/ (mem'[m].cursor = mem[m].cursor /\ UnderSettled(m))
           /\ mem'[m].stamped => status[m] # "RUNNING" /\ mem[m].stamped /\ mem'[m].last = mem[m].last
           /\ mem[m].dirty => mem'[m].dirty
<1> DEFINE y == OnHaltIfRunning(m)
<1>1. mem[m] \in Memory(m) /\ y \in Memory(m)
  BY MemoryNow, HooksType DEF OnHaltIfRunning
<1>2. /\ y.cursor = mem[m].cursor /\ y.dirty = mem[m].dirty
      /\ status[m] = "RUNNING" => y.running = 0 /\ ~y.subs /\ ~y.stamped
      /\ status[m] # "RUNNING" => y = mem[m]
  BY <1>1, HookFields DEF OnHaltIfRunning
<1>3. CASE mem'[m] = HaltNode(m)
  <2>1. CASE Kind[m] \in OrderedKinds
    <3>1. mem'[m] = [y EXCEPT !.cursor = 1]
      BY <1>3, <2>1 DEF HaltNode
    <3> HIDE DEF y
    <3>2. /\ mem'[m].cursor = 1 /\ mem'[m].running = y.running /\ mem'[m].subs = y.subs
          /\ mem'[m].dirty = y.dirty /\ mem'[m].stamped = y.stamped /\ mem'[m].last = y.last
      BY <1>1, <3>1, ExceptFields
    <3> QED
      BY <1>2, <2>1, <3>2
  <2>2. CASE Kind[m] \notin OrderedKinds
    <3>1. mem'[m] = y
      BY <1>3, <2>2 DEF HaltNode
    <3> HIDE DEF y
    <3> QED
      BY <1>2, <2>2, <3>1
  <2> QED
    BY <2>1, <2>2
<1>4. CASE mem'[m] = ResetSubtreeNode(m) /\ UnderSettled(m)
  <2>1. mem'[m] = OnReset(y)
    BY <1>4 DEF ResetSubtreeNode
  <2> HIDE DEF y
  <2>2. /\ mem'[m].cursor = y.cursor /\ mem'[m].running = y.running /\ mem'[m].subs = y.subs
        /\ mem'[m].dirty /\ ~mem'[m].stamped
    BY <1>1, <2>1, HookFields
  <2> QED
    BY <1>2, <1>4, <2>2
<1> QED
  BY <1>3, <1>4 DEF SweptAway

(***************************************************************************)
(* Subscriptions.                                                          *)
(***************************************************************************)
SubsOf(n) == mem[n].subs => Kind[n] \in ReactiveKinds /\ status[n] = "RUNNING"

SubsInv == \A n \in Nodes : SubsOf(n)

LEMMA SubsMove ==
    ASSUME TypeInv, NEW n \in Nodes, cur = n, Moves(n), SubsOf(n)
    PROVE  SubsOf(n)'
<1> DEFINE x == mem[n]
<1>1. x \in Memory(n) /\ ClearRunning(x) \in Memory(n) /\ "RUNNING" \in Results /\ Settled \subseteq Results
  BY MemoryNow, HooksType DEF Results, Settled
<1>2. ASSUME NEW own, NEW f, NEW i, Goes(n, own, f, i), own.subs => x.subs PROVE SubsOf(n)'
  BY <1>2, GoesEffect DEF SubsOf
<1>3. ASSUME NEW own, NEW s \in Results, NEW C, Ends(n, own, s, C),
             own.subs => Kind[n] \in ReactiveKinds /\ s = "RUNNING"
      PROVE  SubsOf(n)'
  BY <1>3, EndsEffect DEF SubsOf
<1>4. ASSUME NEW own, NEW s \in Results, NEW C, Ends(n, own, s, C), own.subs => x.subs, Kind[n] \notin ReactiveKinds
      PROVE  SubsOf(n)'
  BY <1>3, <1>4 DEF SubsOf
<1>5. CASE Kind[n] \in LeafKinds
  BY <1>4, <1>5 DEF Moves, OrderedKinds, ReactiveKinds, DecoratorKinds, WrapperKinds, LeafKinds
<1>6. CASE Kind[n] \in OrderedKinds /\ OrderedMoves(n)
  <2>1. Kind[n] \notin ReactiveKinds
    BY <1>6 DEF OrderedKinds, ReactiveKinds
  <2>2. \A k : [x EXCEPT !.cursor = k].subs = x.subs
    BY <1>1, ExceptFields
  <2> HIDE DEF x
  <2> QED
    BY <1>1, <1>2, <1>4, <1>6, <2>1, <2>2, PassResults DEF OrderedMoves, x
<1>7. CASE Kind[n] = "Parallel" /\ ParallelMoves(n)
  BY <1>1, <1>2, <1>4, <1>7 DEF ParallelMoves, ReactiveKinds
<1>8. CASE Kind[n] \in DecoratorKinds /\ DecoratorMoves(n)
  <2>1. Kind[n] \notin ReactiveKinds
    BY <1>8 DEF DecoratorKinds, WrapperKinds, ReactiveKinds
  <2> QED
    BY <1>2, <1>4, <1>8, <2>1 DEF DecoratorMoves, Like
<1>9. CASE Kind[n] \in ReactiveKinds /\ ReactiveMoves(n)
  <2>1. ASSUME NEW own \in Memory(n), NEW at, NEW i, ReactiveNext(n, own, at, i) PROVE own.subs => x.subs
    <3>1. own \in {x, [x EXCEPT !.dirty = FALSE], ClearRunning(x)}
      BY <2>1 DEF ReactiveNext
    <3>2. [x EXCEPT !.dirty = FALSE].subs = x.subs /\ ~ClearRunning(x).subs
      BY <1>1, HookFields, ExceptFields
    <3> QED
      BY <3>1, <3>2
  <2>2. \A y \in Memory(n) : ~ClearRunning(y).subs
    BY HookFields
  <2> HIDE DEF x
  <2>3. ASSUME NEW own \in Memory(n), NEW i \in Nat \ {0}, NEW at, ReactiveNext(n, own, at, i),
               IF i <= Len(Kids[n]) THEN Goes(n, own, [at |-> at, i |-> i], i)
                                    ELSE Ends(n, ClearRunning(own), Pass(n), {})
        PROVE  SubsOf(n)'
    BY <1>2, <1>3, <2>1, <2>2, <2>3, PassResults
  <2>4. ASSUME NEW own, NEW C, Ends(n, own, "RUNNING", C) PROVE SubsOf(n)'
    BY <1>1, <1>3, <1>9, <2>4
  <2>5. ASSUME NEW C, Ends(n, ClearRunning(mem[n]), Stop(n), C) PROVE SubsOf(n)'
    BY <1>1, <1>3, <2>2, <2>5, PassResults DEF x
  <2> QED
    BY <1>9, <2>3, <2>4, <2>5 DEF ReactiveMoves
<1> QED
  BY <1>5, <1>6, <1>7, <1>8, <1>9 DEF Moves

LEMMA SubsStep == TypeInv /\ PathInv /\ SubsInv /\ [Next]_vars => SubsInv'
<1> SUFFICES ASSUME TypeInv, PathInv, SubsInv, [Next]_vars, NEW m \in Nodes PROVE SubsOf(m)'
  BY DEF SubsInv
<1>1. SubsOf(m) /\ mem[m] \in Memory(m)
  BY MemoryNow DEF SubsInv
<1>2. CASE Raise
  BY <1>1, <1>2 DEF Raise, SubsOf
<1>3. CASE ResetAll
  <2>1. mem'[m] = OnReset(OnHalt(mem[m])) /\ OnHalt(mem[m]) \in Memory(m)
    BY <1>1, <1>3, HooksType DEF ResetAll, ResetNode
  <2> QED
    BY <1>1, <2>1, HookFields DEF SubsOf
<1>4. CASE Write
  BY <1>1, <1>4, Written DEF SubsOf, TypeInv
<1>5. CASE Stays(m) \/ IsCalled(m)
  BY <1>1, <1>5 DEF Stays, IsCalled, Still, SubsOf
<1>6. CASE SweptAway(m)
  BY <1>1, <1>6, SweptMemory DEF SubsOf
<1>7. CASE cur = m /\ Moves(m)
  BY <1>1, <1>7, SubsMove
<1> QED
  BY <1>2, <1>3, <1>4, <1>5, <1>6, <1>7, Situations, NodeMove

\* No subscription outlives its activation, whatever raises, interrupts or resets
\* the node: a reactive node that is not RUNNING holds none.
THEOREM NoLeakedSubscriptionHolds == Spec => []NoLeakedSubscription
<1>1. Init => SubsInv
  BY DEF Init, SubsInv, SubsOf, Fresh
<1>2. SubsInv => NoLeakedSubscription
  BY DEF SubsInv, SubsOf, NoLeakedSubscription, Of
<1> QED
  BY <1>1, <1>2, SubsStep, PathCorrect, PTL DEF Spec
(***************************************************************************)
(* Who may be RUNNING.  From here on no leaf raises and no Retry is given  *)
(* a budget that is not positive: an exception leaves the statuses above   *)
(* it as they were, and a Retry that reads such a budget gives up its      *)
(* child without halting it.                                               *)
(***************************************************************************)
Calm == /\ \A n \in Of(LeafKinds) : "RAISE" \notin Outcome[n]
        /\ \A n \in Of({"Retry"}) : \A b \in Budget[n] : b > 0

Runs(n, j) == status[Kids[n][j]] = "RUNNING"

\* The one child that may be RUNNING, and the answer a RateController caches.
RunOf(n) ==
    /\ Kind[n] \in OrderedKinds => \A j \in Places(n) : Runs(n, j) => j = mem[n].cursor
    /\ Kind[n] \in ReactiveKinds => \A j \in Places(n) : Runs(n, j) =>
          \/ j = mem[n].running /\ ~(frame[n].at = "full" /\ j < frame[n].i)
          \/ ~OffStack(n) /\ j = frame[n].i
    /\ Kind[n] = "RateController" /\ OffStack(n) /\ mem[n].stamped =>
          mem[n].last # "IDLE" /\ \A j \in Places(n) : Runs(n, j) => mem[n].last = "RUNNING"
    /\ OffStack(n) /\ status[n] # "RUNNING" => \A j \in Places(n) : ~Runs(n, j)

RunInv == \A n \in Nodes : RunOf(n)

\* Where a resumed node got its result from.
LEMMA ResumedAt ==
    ASSUME TypeInv, PathInv, NEW n \in Nodes, NEW r, Resumed(n, r)
    PROVE  /\ ~OffStack(n) /\ FrameOK(n, mem[n], frame[n]) /\ At(n) \in Places(n)
           /\ status[Kids[n][At(n)]] = r /\ Kids[n][At(n)] \in fresh /\ Seen(n, Kids[n][At(n)])
           /\ r \in Results
<1>1. ~OffStack(n) /\ r \in Results
  BY DEF Resumed, TypeInv, Stack, Results
<1> QED
  BY <1>1 DEF Resumed, TypeInv, Stack, PathInv, PathOf, Places

LEMMA CalledOff ==
    ASSUME TypeInv, NEW n \in Nodes, Called(n)
    PROVE  OffStack(n) /\ frame[n].at = "off"
BY DEF Called, TypeInv, Stack, OffStack, Off

LEMMA RunOrdered ==
    ASSUME TypeInv, PathInv, NEW n \in Nodes, cur = n, Kind[n] \in OrderedKinds, OrderedMoves(n), RunOf(n)
    PROVE  RunOf(n)'
<1> USE DEF Runs
<1>1. /\ Kind[n] \notin ReactiveKinds /\ Kind[n] # "RateController"
      /\ \A r : Resumed(n, r) => At(n) = mem[n].cursor
  BY DEF OrderedKinds, ReactiveKinds, At, Place
<1>2. \A j \in Places(n) : Runs(n, j) => j = mem[n].cursor
  BY DEF RunOf
<1>3. mem[n] \in Memory(n) /\ "RUNNING" \in Results /\ Pass(n) # "RUNNING"
  BY MemoryNow, PassStop DEF Results, Settled
<1>4. ASSUME Resumed(n, Pass(n)), NEW j \in Places(n) PROVE ~Runs(n, j)
  BY <1>1, <1>2, <1>3, <1>4, ResumedAt
<1>5. ASSUME NEW i \in Nat \ {0}, OrderedNext(n, i), NEW j \in Places(n), Runs(n, j) PROVE j = i
  BY <1>2, <1>4, <1>5 DEF OrderedNext
<1>6. ASSUME NEW i \in Nat \ {0}, OrderedNext(n, i),
             Goes(n, [mem[n] EXCEPT !.cursor = i], [at |-> "loop", i |-> 0], i)
      PROVE  RunOf(n)'
  <2>1. /\ mem'[n].cursor = i /\ frame'[n] = [at |-> "loop", i |-> 0]
        /\ \A j \in Places(n) : KidStill(Kids[n][j])
    <3>1. [mem[n] EXCEPT !.cursor = i].cursor = i
      BY <1>3, ExceptFields
    <3> QED
      BY <1>6, <3>1, GoesEffect
  <2>2. ~OffStack(n)'
    BY <2>1 DEF OffStack, Off
  <2>3. \A j \in Places(n) : Runs(n, j)' => j = mem'[n].cursor
    BY <1>5, <1>6, <2>1 DEF KidStill
  <2> QED
    BY <1>1, <2>2, <2>3 DEF RunOf
<1>7. ASSUME NEW own, NEW s \in Results, NEW C, Ends(n, own, s, C),
             \A j \in Places(n) \ C : ~Runs(n, j)
      PROVE  RunOf(n)'
  <2>1. \A j \in Places(n) : ~Runs(n, j)'
    <3>1. \A j \in Places(n) : status'[Kids[n][j]] = IF j \in C THEN "IDLE" ELSE status[Kids[n][j]]
      BY <1>7, EndsEffect
    <3> QED
      BY <1>7, <3>1
  <2> QED
    BY <1>1, <2>1 DEF RunOf
<1>8. ASSUME NEW i \in Nat \ {0}, OrderedNext(n, i), ~(i <= Len(Kids[n])),
             Ends(n, [mem[n] EXCEPT !.cursor = 1], Pass(n), {})
      PROVE  RunOf(n)'
  <2>1. \A j \in Places(n) : ~Runs(n, j)
    BY <1>5, <1>8, KidPlaces DEF Places
  <2> QED
    BY <1>7, <1>8, <2>1, PassResults
<1>9. ASSUME Ends(n, mem[n], "RUNNING", {}) PROVE RunOf(n)'
  <2>1. mem'[n] = mem[n] /\ status'[n] = "RUNNING" /\ \A j \in Places(n) : Runs(n, j)' <=> Runs(n, j)
    BY <1>3, <1>9, EndsStill DEF KidStill
  <2> QED
    BY <1>1, <1>2, <2>1 DEF RunOf
<1>10. ASSUME Ends(n, [mem[n] EXCEPT !.cursor = 1], Stop(n), Places(n)) PROVE RunOf(n)'
  BY <1>7, <1>10, PassResults
<1> QED
  BY <1>6, <1>8, <1>9, <1>10 DEF OrderedMoves

LEMMA RunParallel ==
    ASSUME TypeInv, NEW n \in Nodes, cur = n, Kind[n] = "Parallel", ParallelMoves(n)
    PROVE  RunOf(n)'
<1>1. Kind[n] \notin OrderedKinds /\ Kind[n] \notin ReactiveKinds /\ "RUNNING" \in Results /\ Settled \subseteq Results
  BY DEF OrderedKinds, ReactiveKinds, Results, Settled
<1>2. ASSUME NEW i, Goes(n, mem[n], [at |-> "loop", i |-> i], i) PROVE ~OffStack(n)'
  <2>1. frame'[n] = [at |-> "loop", i |-> i]
    BY <1>2, GoesEffect
  <2> QED
    BY <2>1 DEF OffStack, Off
<1>3. ASSUME NEW s \in Settled, Ends(n, mem[n], s, Places(n)) PROVE \A j \in Places(n) : ~Runs(n, j)'
  BY <1>1, <1>3, EndsEffect DEF Runs
<1>4. Ends(n, mem[n], "RUNNING", {}) => status'[n] = "RUNNING"
  BY <1>1, EndsEffect
<1> QED
  BY <1>1, <1>2, <1>3, <1>4 DEF RunOf, ParallelMoves

\* The loops of a reactive node: where it may be, and what it starts from.
LEMMA ReactiveOwn ==
    ASSUME TypeInv, NEW n \in Nodes, Kind[n] \in ReactiveKinds, NEW own \in Memory(n), NEW at, NEW i,
           ReactiveNext(n, own, at, i)
    PROVE  /\ own.cursor = mem[n].cursor
           /\ at # "off" /\ own \in {mem[n], [mem[n] EXCEPT !.dirty = FALSE], ClearRunning(mem[n])}
           /\ at = "full" /\ Called(n) => own = [mem[n] EXCEPT !.dirty = FALSE]
           /\ at = "full" => own.running = mem[n].running
           /\ at = "rest" => own.running = 0
           /\ at \in {"guard", "main"} => own = mem[n]
           /\ ~Called(n) => own.dirty = mem[n].dirty
<1>1. mem[n] \in Memory(n)
  BY MemoryNow
<1>2. own \in {mem[n], [mem[n] EXCEPT !.dirty = FALSE], ClearRunning(mem[n])}
  BY DEF ReactiveNext
<1>3. /\ [mem[n] EXCEPT !.dirty = FALSE].cursor = mem[n].cursor
      /\ [mem[n] EXCEPT !.dirty = FALSE].running = mem[n].running
      /\ ClearRunning(mem[n]).cursor = mem[n].cursor
      /\ ClearRunning(mem[n]).running = 0 /\ ClearRunning(mem[n]).dirty = mem[n].dirty
  BY <1>1, HookFields, ExceptFields
<1>4. Resumed(n, Pass(n)) => FrameOK(n, mem[n], frame[n]) /\ ~Called(n)
  BY PassStop DEF Resumed, Called, TypeInv, Stack, Results
<1>5. Resumed(n, Pass(n)) /\ frame[n].at = "rest" => mem[n].running = 0
  BY <1>4 DEF FrameOK
<1>6. Resumed(n, Pass(n)) => frame[n].at # "off"
  BY <1>4 DEF FrameOK
<1>7. /\ at # "off"
      /\ at = "full" /\ Called(n) => own = [mem[n] EXCEPT !.dirty = FALSE]
      /\ at \in {"guard", "main"} => own = mem[n]
      /\ at = "full" => own \in {mem[n], [mem[n] EXCEPT !.dirty = FALSE]}
      /\ at = "rest" => own = ClearRunning(mem[n]) \/ (own = mem[n] /\ mem[n].running = 0)
      /\ ~Called(n) => own \in {mem[n], ClearRunning(mem[n])}
  BY <1>4, <1>5, <1>6 DEF ReactiveNext
<1> QED
  BY <1>2, <1>3, <1>7

LEMMA RunReactive ==
    ASSUME TypeInv, PathInv, NEW n \in Nodes, cur = n, Kind[n] \in ReactiveKinds, ReactiveMoves(n), RunOf(n)
    PROVE  RunOf(n)'
<1> DEFINE f == frame[n]
           x == mem[n]
<1>1. /\ Kind[n] \notin OrderedKinds /\ Kind[n] # "RateController"
      /\ \A r : Resumed(n, r) => At(n) = f.i
  BY DEF OrderedKinds, ReactiveKinds, At, Place
<1>2. \A j \in Places(n) : Runs(n, j) =>
          \/ j = x.running /\ ~(f.at = "full" /\ j < f.i)
          \/ ~OffStack(n) /\ j = f.i
  BY DEF RunOf
<1>3. /\ x \in Memory(n) /\ "RUNNING" \in Results /\ Pass(n) # "RUNNING" /\ Stop(n) # "RUNNING"
      /\ Len(Kids[n]) \in Nat /\ x.running \in 0..Len(Kids[n]) /\ f.i \in 0..Len(Kids[n])
  BY MemoryNow, PassStop DEF Results, Settled
\* While it is suspended: nobody but the child it waits for, or the remembered one behind.
<1>4. ASSUME NEW r, Resumed(n, r)
      PROVE  /\ f.at \in {"full", "guard", "main", "rest"} /\ f.i \in Places(n)
             /\ f.at = "guard" => f.i < x.running
             /\ f.at = "main" => f.i = x.running
             /\ f.at = "rest" => x.running = 0
             /\ r # "RUNNING" => ~Runs(n, f.i)
  <2>1. FrameOK(n, x, f) /\ f.i \in Places(n) /\ status[Kids[n][f.i]] = r /\ f \in Frames(n)
    BY <1>1, <1>4, ResumedAt, MemoryNow
  <2> QED
    BY <2>1 DEF FrameOK, Frames, Runs
<1>5. ASSUME NEW own \in Memory(n), NEW i \in Nat \ {0}, NEW at, ReactiveNext(n, own, at, i),
             NEW j \in Places(n), Runs(n, j)
      PROVE  j = own.running /\ ~(at = "full" /\ j < i)
  <2>1. CASE Called(n)
    <3>1. OffStack(n) /\ f.at = "off" /\ j = x.running
      BY <1>2, <1>5, <2>1, CalledOff
    <3>2. ~Resumed(n, Pass(n))
      BY <2>1, PassStop DEF Resumed, Called, Results
    <3>3. at \in {"full", "guard", "main"} /\ (at = "full" => i = 1)
      BY <1>5, <2>1, <3>2 DEF ReactiveNext
    <3>4. own.running = x.running
      BY <1>5, <3>3, ReactiveOwn
    <3> QED
      BY <3>1, <3>3, <3>4 DEF Places
  <2>2. CASE Resumed(n, Pass(n))
    <3>1. /\ f.at \in {"full", "guard", "main", "rest"} /\ f.i \in Places(n) /\ j # f.i
          /\ f.at = "main" => f.i = x.running
          /\ f.at = "rest" => x.running = 0
      BY <1>3, <1>4, <1>5, <2>2
    <3>2. j = x.running /\ ~(f.at = "full" /\ j < f.i)
      BY <1>2, <1>5, <3>1
    <3>3. f.at \notin {"main", "rest"}
      BY <3>1, <3>2 DEF Places
    <3>4. ~Called(n)
      BY <2>2, PassStop DEF Resumed, Called, Results
    <3>5. \/ at = "full" /\ f.at = "full" /\ i = f.i + 1
          \/ at \in {"guard", "main"}
      BY <1>5, <2>2, <3>1, <3>3, <3>4 DEF ReactiveNext
    <3> QED
      BY <1>5, <3>1, <3>2, <3>5, ReactiveOwn DEF Places
  <2> QED
    BY <1>5, <2>1, <2>2 DEF ReactiveNext
<1>6. ASSUME NEW own \in Memory(n), NEW i \in Nat \ {0}, NEW at, ReactiveNext(n, own, at, i),
             Goes(n, own, [at |-> at, i |-> i], i)
      PROVE  RunOf(n)'
  <2>1. /\ mem'[n] = own /\ frame'[n] = [at |-> at, i |-> i]
        /\ \A j \in Places(n) : KidStill(Kids[n][j])
    BY <1>6, GoesEffect
  <2>2. frame'[n].at = at /\ frame'[n].i = i /\ ~OffStack(n)'
    BY <1>6, <2>1, ReactiveOwn DEF OffStack, Off
  <2>3. \A j \in Places(n) : Runs(n, j)' => j = own.running /\ ~(at = "full" /\ j < i)
    BY <1>5, <1>6, <2>1 DEF Runs, KidStill
  <2> QED
    BY <1>1, <2>1, <2>2, <2>3 DEF RunOf
<1>7. ASSUME NEW own, NEW s \in Results, NEW C, Ends(n, own, s, C),
             \A j \in Places(n) \ C : ~Runs(n, j)
      PROVE  RunOf(n)'
  <2>1. \A j \in Places(n) : ~Runs(n, j)'
    <3>1. \A j \in Places(n) : status'[Kids[n][j]] = IF j \in C THEN "IDLE" ELSE status[Kids[n][j]]
      BY <1>7, EndsEffect
    <3> QED
      BY <1>7, <3>1 DEF Runs
  <2> QED
    BY <1>1, <2>1 DEF RunOf
<1>8. ASSUME NEW own \in Memory(n), NEW i \in Nat \ {0}, NEW at, ReactiveNext(n, own, at, i),
             ~(i <= Len(Kids[n])), Ends(n, ClearRunning(own), Pass(n), {})
      PROVE  RunOf(n)'
  <2>1. at \notin {"guard", "main"}
    BY <1>3, <1>8 DEF ReactiveNext
  <2>2. at \in {"full", "rest"}
    BY <1>8, <2>1 DEF ReactiveNext
  <2>3. \A j \in Places(n) : ~Runs(n, j)
    <3> SUFFICES ASSUME NEW j \in Places(n), Runs(n, j) PROVE FALSE
      OBVIOUS
    <3>1. j = own.running /\ ~(at = "full" /\ j < i) /\ j \in 1..Len(Kids[n])
      BY <1>5, <1>8 DEF Places
    <3>2. at = "rest" => own.running = 0
      BY <1>8, ReactiveOwn
    <3> QED
      BY <1>3, <1>8, <2>2, <3>1, <3>2
  <2> QED
    BY <1>7, <1>8, <2>3, PassResults
\* The children that a settled or waiting node does not halt.
<1>9. ASSUME NEW r, Resumed(n, r), NEW j \in Places(n), j # f.i, Runs(n, j)
      PROVE  f.at # "main" /\ j \in (f.i + 1)..Len(Kids[n])
  <2>1. /\ f.at \in {"full", "guard", "main", "rest"}
        /\ f.at = "guard" => f.i < x.running
        /\ f.at = "main" => f.i = x.running
        /\ f.at = "rest" => x.running = 0
    BY <1>9, <1>4
  <2>2. j = x.running /\ ~(f.at = "full" /\ j < f.i) /\ j \in 1..Len(Kids[n])
    BY <1>2, <1>9 DEF Places
  <2> QED
    BY <1>3, <1>9, <2>1, <2>2
<1>10. ASSUME Resumed(n, "RUNNING"), NEW own \in {x, Subscribe(n, x)},
              Ends(n, [own EXCEPT !.running = f.i], "RUNNING",
                   IF f.at = "main" THEN {} ELSE (f.i + 1)..Len(Kids[n]))
       PROVE  RunOf(n)'
  <2> DEFINE C == IF f.at = "main" THEN {} ELSE (f.i + 1)..Len(Kids[n])
  <2>1. own \in Memory(n)
    BY <1>3, HooksType
  <2>2. [own EXCEPT !.running = f.i].running = f.i
    BY <2>1, ExceptFields
  <2>3. Ends(n, [own EXCEPT !.running = f.i], "RUNNING", C)
    BY <1>10
  <2>4. \A j \in Places(n) : Runs(n, j) /\ j # f.i => j \in C
    BY <1>9, <1>10
  <2> HIDE DEF C
  <2>5. /\ mem'[n].running = f.i /\ OffStack(n)' /\ status'[n] = "RUNNING"
        /\ \A j \in Places(n) : status'[Kids[n][j]] = IF j \in C THEN "IDLE" ELSE status[Kids[n][j]]
    <3> DEFINE y == [own EXCEPT !.running = f.i]
    <3> HIDE DEF y
    <3>1. y.running = f.i /\ Ends(n, y, "RUNNING", C)
      BY <2>2, <2>3 DEF y
    <3>2. "RUNNING" \in Results
      BY <1>3
    <3>3. /\ mem'[n] = y /\ OffStack(n)' /\ status'[n] = "RUNNING"
          /\ \A j \in Places(n) : status'[Kids[n][j]] = IF j \in C THEN "IDLE" ELSE status[Kids[n][j]]
      BY <3>1, <3>2, EndsEffect
    <3> QED
      BY <3>1, <3>3
  <2>6. \A j \in Places(n) : Runs(n, j)' => j = mem'[n].running
    BY <2>4, <2>5 DEF Runs
  <2>7. frame'[n].at # "full"
    BY <2>5 DEF OffStack, Off
  <2> QED
    BY <1>1, <2>5, <2>6, <2>7 DEF RunOf
<1>11. ASSUME Resumed(n, Stop(n)), Ends(n, ClearRunning(x), Stop(n), (f.i + 1)..Len(Kids[n]))
       PROVE  RunOf(n)'
  <2>1. \A j \in Places(n) \ ((f.i + 1)..Len(Kids[n])) : ~Runs(n, j)
    BY <1>3, <1>4, <1>9, <1>11
  <2> QED
    BY <1>7, <1>11, <2>1, PassResults
<1> QED
  BY <1>6, <1>8, <1>10, <1>11 DEF ReactiveMoves

LEMMA RunDecorator ==
    ASSUME TypeInv, PathInv, Calm, NEW n \in Nodes, cur = n, Kind[n] \in DecoratorKinds,
           DecoratorMoves(n), RunOf(n)
    PROVE  RunOf(n)'
<1>1. /\ Kind[n] \notin OrderedKinds /\ Kind[n] \notin ReactiveKinds /\ Places(n) = {1}
      /\ Kind[n] = "Retry" => \A b \in Budget[n] : b > 0
      /\ \A b \in Int : b > 0 => ~(b <= 0)
  <2>1. Kind[n] \notin OrderedKinds /\ Kind[n] \notin ReactiveKinds
    BY DEF OrderedKinds, ReactiveKinds, DecoratorKinds, WrapperKinds
  <2>2. Len(Kids[n]) = 1
    BY KindAssumption
  <2>3. Places(n) = {1}
    BY <2>2 DEF Places
  <2>4. Kind[n] = "Retry" => \A b \in Budget[n] : b > 0
    BY DEF Calm, Of
  <2> QED
    BY <2>1, <2>3, <2>4
<1>2. SUFFICES /\ Kind[n] = "RateController" /\ OffStack(n)' /\ mem'[n].stamped =>
                     mem'[n].last # "IDLE" /\ (Runs(n, 1)' => mem'[n].last = "RUNNING")
               /\ OffStack(n)' /\ status'[n] # "RUNNING" => ~Runs(n, 1)'
  BY <1>1 DEF RunOf
<1>3. PICK own \in Memory(n) :
         \/ Goes(n, own, [at |-> "loop", i |-> 1], 1)
         \/ \E s \in Results : \/ Kind[n] # "RateController" /\ Ends(n, own, s, {1})
                               \/ DecoratorAnswer(n, own, s) /\ Ends(n, own, s, {})
  BY DEF DecoratorMoves
<1>4. CASE Goes(n, own, [at |-> "loop", i |-> 1], 1)
  <2>1. frame'[n] = [at |-> "loop", i |-> 1]
    BY <1>4, GoesEffect
  <2> QED
    BY <2>1 DEF OffStack, Off
<1>5. ASSUME NEW s \in Results, Kind[n] # "RateController", Ends(n, own, s, {1}) PROVE ~Runs(n, 1)'
  BY <1>1, <1>5, EndsEffect DEF Runs
<1>6. ASSUME NEW s \in Results, DecoratorAnswer(n, own, s), Ends(n, own, s, {})
      PROVE  /\ Kind[n] = "RateController" => own.last # "IDLE" /\ (Runs(n, 1) => own.last = "RUNNING")
             /\ s # "RUNNING" => ~Runs(n, 1)
  <2>1. ASSUME NEW r \in Results, Resumed(n, r), r = "RUNNING" => s = "RUNNING",
               Kind[n] = "RateController" => s = r /\ own.last = r
        PROVE  /\ Kind[n] = "RateController" => own.last # "IDLE" /\ (Runs(n, 1) => own.last = "RUNNING")
               /\ s # "RUNNING" => ~Runs(n, 1)
    <3>1. At(n) = 1 /\ status[Kids[n][1]] = r
      <4>1. At(n) \in Places(n) /\ status[Kids[n][At(n)]] = r
        BY <2>1, ResumedAt
      <4> QED
        BY <1>1, <4>1
    <3> QED
      BY <2>1, <3>1 DEF Runs, Results
  <2>2. CASE Kind[n] = "RateController" /\ Called(n) /\ mem[n].stamped /\ own = mem[n] /\ s = mem[n].last
    BY <1>1, <2>2, CalledOff DEF RunOf
  <2>3. ~(Kind[n] = "Retry" /\ Called(n) /\ \E b \in Budget[n] : b <= 0)
    <3> SUFFICES ASSUME Kind[n] = "Retry", NEW b \in Budget[n], b <= 0 PROVE FALSE
      OBVIOUS
    <3>1. b \in Int
      BY ParameterAssumption DEF Of
    <3> QED
      BY <1>1, <3>1
  <2> QED
    BY <1>6, <2>1, <2>2, <2>3 DEF DecoratorAnswer
<1>7. ASSUME NEW s \in Results, Ends(n, own, s, {})
      PROVE  mem'[n] = own /\ status'[n] = s /\ (Runs(n, 1)' <=> Runs(n, 1))
  BY <1>1, <1>7, EndsStill DEF Runs, KidStill
<1> QED
  BY <1>3, <1>4, <1>5, <1>6, <1>7

LEMMA RunMove ==
    ASSUME TypeInv, PathInv, Calm, NEW n \in Nodes, cur = n, Moves(n), RunOf(n)
    PROVE  RunOf(n)'
<1>1. CASE Kind[n] \in LeafKinds
  <2>1. Places(n) = {} /\ Kind[n] \notin OrderedKinds /\ Kind[n] \notin ReactiveKinds /\ Kind[n] # "RateController"
    BY <1>1, KindAssumption DEF Places, OrderedKinds, ReactiveKinds, LeafKinds
  <2> QED
    BY <2>1 DEF RunOf
<1> QED
  BY <1>1, RunOrdered, RunParallel, RunReactive, RunDecorator DEF Moves

\* A calm tree raises nothing: a RateController replays only an answer it has.
LEMMA CalmMoves ==
    ASSUME TypeInv, RunInv, Calm, NEW n \in Nodes, NodeStep(n)
    PROVE  Moves(n)
<1>1. ~RaisesAt(n)
  BY CalledOff DEF RaisesAt, Calm, Of, RunInv, RunOf
<1> QED
  BY <1>1, NodeMove

LEMMA RunStep == TypeInv /\ PathInv /\ RunInv /\ Calm /\ [Next]_vars => RunInv'
<1> SUFFICES ASSUME TypeInv, PathInv, RunInv, Calm, [Next]_vars, NEW m \in Nodes PROVE RunOf(m)'
  BY DEF RunInv
<1>1. RunOf(m) /\ mem[m] \in Memory(m) /\ \A j \in Places(m) : Kids[m][j] \in Nodes
  BY MemoryNow, KidPlaces DEF RunInv
<1>2. CASE ResetAll
  <2>1. mem'[m] = OnReset(OnHalt(mem[m])) /\ OnHalt(mem[m]) \in Memory(m) /\ \A x \in Nodes : status'[x] = "IDLE"
    BY <1>1, <1>2, HooksType DEF ResetAll, ResetNode
  <2>2. ~mem'[m].stamped
    BY <2>1, HookFields
  <2> QED
    BY <1>1, <2>1, <2>2 DEF RunOf, Runs
<1>3. CASE Write
  <2>1. /\ status' = status /\ frame' = frame
        /\ mem'[m].cursor = mem[m].cursor /\ mem'[m].running = mem[m].running
        /\ mem'[m].stamped = mem[m].stamped /\ mem'[m].last = mem[m].last
    <3>1. mem'[m] = [mem[m] EXCEPT !.dirty = @ \/ mem[m].subs]
      BY <1>3 DEF Write
    <3> QED
      BY <1>1, <1>3, <3>1 DEF Write, Memory
  <2> QED
    BY <1>1, <2>1 DEF RunOf, Runs, OffStack
<1>4. CASE Stays(m)
  <2>1. \A j \in Places(m) : (Runs(m, j)' <=> Runs(m, j)) \/ (~OffStack(m) /\ j = At(m))
    BY <1>4 DEF Stays, KidStill, Runs
  <2>2. /\ Kind[m] \in OrderedKinds => At(m) = mem[m].cursor
        /\ Kind[m] \notin OrderedKinds => At(m) = frame[m].i
    BY DEF At, Place
  <2>3. status'[m] = status[m] /\ mem'[m] = mem[m] /\ frame'[m] = frame[m] /\ (OffStack(m)' <=> OffStack(m))
    BY <1>4 DEF Stays, Still, OffStack
  <2>4. Kind[m] \in ReactiveKinds => Kind[m] \notin OrderedKinds
    BY DEF ReactiveKinds, OrderedKinds
  <2> QED
    BY <1>1, <2>1, <2>2, <2>3, <2>4 DEF RunOf
<1>5. CASE IsCalled(m)
  <2>1. \A j \in Places(m) : Runs(m, j)' <=> Runs(m, j)
    BY <1>5 DEF IsCalled, Runs
  <2>2. status'[m] = status[m] /\ mem'[m] = mem[m] /\ frame'[m] = frame[m] /\ (OffStack(m)' <=> OffStack(m))
    BY <1>5 DEF IsCalled, Still, OffStack
  <2> QED
    BY <1>1, <2>1, <2>2 DEF RunOf
<1>6. CASE SweptAway(m)
  <2>1. \A j \in Places(m) : ~Runs(m, j)'
    BY <1>6 DEF SweptAway, Runs
  <2>2. Kind[m] = "RateController" /\ mem'[m].stamped => mem'[m].last # "IDLE"
    BY <1>1, <1>6, SweptMemory DEF RunOf, SweptAway
  <2> QED
    BY <2>1, <2>2 DEF RunOf
<1>7. CASE cur = m /\ Moves(m)
  BY <1>1, <1>7, RunMove
<1> QED
  BY <1>2, <1>3, <1>4, <1>5, <1>6, <1>7, Situations, CalmMoves

LEMMA RunInit == Init => RunInv
<1> SUFFICES ASSUME Init, NEW n \in Nodes PROVE RunOf(n)
  BY DEF RunInv
<1>1. /\ \A j \in Places(n) : ~Runs(n, j)
      /\ ~mem[n].stamped
  BY KidPlaces DEF Init, Runs, Fresh
<1> QED
  BY <1>1 DEF RunOf

LEMMA RunCorrect ==
    ASSUME Calm
    PROVE  Spec => []RunInv
<1>1. TypeInv /\ PathInv /\ RunInv /\ [Next]_vars => RunInv'
  BY RunStep
<1> QED
  BY <1>1, RunInit, TypeCorrect, PathCorrect, PTL DEF Spec

\* In a tree whose leaves do not raise and whose Retry budgets are positive no
\* RUNNING child is left below a parent that is not RUNNING, on any of the paths
\* that give a child up.
THEOREM NoOrphanHolds ==
    ASSUME Calm
    PROVE  Spec => []NoOrphan
<1>1. RunInv => NoOrphan
  <2> SUFFICES ASSUME RunInv, NEW n \in Nodes, status[n] = "RUNNING", n # Root, OffStack(Parent[n])
               PROVE  status[Parent[n]] = "RUNNING"
    BY DEF NoOrphan
  <2>1. Parent[n] \in Nodes /\ n \in KidSet(Parent[n])
    BY KidsAssumption
  <2>2. PICK j \in Places(Parent[n]) : Kids[Parent[n]][j] = n
    BY <2>1, KidPlaces
  <2> QED
    BY <2>1, <2>2 DEF RunInv, RunOf, Runs
<1> QED
  BY <1>1, RunCorrect, PTL

(***************************************************************************)
(* What a Sequence or Fallback still owes a tick in this activation: the   *)
(* children behind the cursor, and the one at it between two ticks.        *)
(***************************************************************************)
Owed(n, j) == Kids[n][j] \notin fresh \/ status[Kids[n][j]] \notin Settled

OwedOf(n) == Kind[n] \in OrderedKinds => \A j \in Places(n) :
    /\ ~OffStack(n) /\ j > mem[n].cursor => Owed(n, j)
    /\ OffStack(n) /\ (status[n] = "RUNNING" \/ Called(n)) /\ j >= mem[n].cursor => Owed(n, j)

OwedInv == \A n \in Nodes : OwedOf(n)

\* A child about to be called by its Sequence or Fallback is owed.
LEMMA OwedNext ==
    ASSUME TypeInv, PathInv, NEW n \in Nodes, Kind[n] \in OrderedKinds, OwedOf(n),
           NEW i \in Nat \ {0}, OrderedNext(n, i), NEW j \in Places(n), j >= i
    PROVE  Owed(n, j)
<1>1. mem[n].cursor \in Nat /\ j \in Nat
  BY MemoryNow DEF Places
<1>2. CASE Called(n) /\ i = mem[n].cursor
  BY <1>2, CalledOff DEF OwedOf
<1>3. CASE Resumed(n, Pass(n)) /\ i = mem[n].cursor + 1
  <2>1. ~OffStack(n) /\ j > mem[n].cursor
    BY <1>1, <1>3, ResumedAt
  <2> QED
    BY <2>1 DEF OwedOf
<1> QED
  BY <1>2, <1>3 DEF OrderedNext

LEMMA OwedOrdered ==
    ASSUME TypeInv, PathInv, NEW n \in Nodes, cur = n, Kind[n] \in OrderedKinds, OrderedMoves(n), OwedOf(n)
    PROVE  OwedOf(n)'
<1>1. mem[n] \in Memory(n) /\ mem[n].cursor \in Nat /\ "RUNNING" \in Results /\ Pass(n) \in Settled /\ Stop(n) \in Settled
      /\ "RUNNING" \notin Settled /\ Settled \subseteq Results
  BY MemoryNow, PassStop DEF Results, Settled
<1>2. ASSUME NEW i \in Nat \ {0}, OrderedNext(n, i),
             Goes(n, [mem[n] EXCEPT !.cursor = i], [at |-> "loop", i |-> 0], i)
      PROVE  OwedOf(n)'
  <2>1. /\ mem'[n].cursor = i /\ frame'[n] = [at |-> "loop", i |-> 0]
        /\ \A j \in Places(n) : KidStill(Kids[n][j])
    <3>1. [mem[n] EXCEPT !.cursor = i].cursor = i
      BY <1>1, ExceptFields
    <3> QED
      BY <1>2, <3>1, GoesEffect
  <2>2. ~OffStack(n)'
    BY <2>1 DEF OffStack, Off
  <2>3. \A j \in Places(n) : j > i => Owed(n, j)
    BY <1>2, OwedNext DEF Places
  <2>4. \A j \in Places(n) : j > i => Owed(n, j)'
    BY <2>1, <2>3 DEF Owed, KidStill
  <2> QED
    BY <2>1, <2>2, <2>4 DEF OwedOf
<1>3. ASSUME NEW own, NEW s \in Settled, NEW C, Ends(n, own, s, C) PROVE OwedOf(n)'
  BY <1>1, <1>3, EndsEffect DEF OwedOf
<1>4. ASSUME Resumed(n, "RUNNING"), Ends(n, mem[n], "RUNNING", {}) PROVE OwedOf(n)'
  <2>1. mem'[n] = mem[n] /\ OffStack(n)' /\ \A j \in Places(n) : KidStill(Kids[n][j])
    BY <1>1, <1>4, EndsStill
  <2>2. ~OffStack(n) /\ At(n) = mem[n].cursor /\ status[Kids[n][At(n)]] = "RUNNING"
    BY <1>4, ResumedAt DEF At, Place
  <2>3. \A j \in Places(n) : j >= mem[n].cursor => Owed(n, j)
    <3> SUFFICES ASSUME NEW j \in Places(n), j >= mem[n].cursor PROVE Owed(n, j)
      OBVIOUS
    <3>1. j > mem[n].cursor \/ j = mem[n].cursor
      BY <1>1 DEF Places
    <3>2. j = mem[n].cursor => Owed(n, j)
      BY <1>1, <2>2 DEF Owed
    <3> QED
      BY <2>2, <3>1, <3>2 DEF OwedOf
  <2>4. \A j \in Places(n) : j >= mem'[n].cursor => Owed(n, j)'
    BY <2>1, <2>3 DEF Owed, KidStill
  <2> QED
    BY <2>1, <2>4 DEF OwedOf
<1> QED
  BY <1>1, <1>2, <1>3, <1>4 DEF OrderedMoves

\* The situations in which nothing moves but what a write or a reset does.
LEMMA EnvStill ==
    ASSUME TypeInv, PathInv, ResetAll, NEW m \in Nodes
    PROVE  OffStack(m)' /\ ~Called(m)' /\ status'[m] = "IDLE" /\ \A j \in Places(m) : status'[Kids[m][j]] = "IDLE"
BY EnvOff, KidPlaces, KidsAssumption DEF ResetAll, OffStack, Called

LEMMA OwedStep == TypeInv /\ PathInv /\ RunInv /\ OwedInv /\ Calm /\ [Next]_vars => OwedInv'
<1> SUFFICES ASSUME TypeInv, PathInv, RunInv, OwedInv, Calm, [Next]_vars,
                    NEW m \in Nodes, Kind[m] \in OrderedKinds
             PROVE  OwedOf(m)'
  BY DEF OwedInv, OwedOf
<1>1. OwedOf(m) /\ mem[m] \in Memory(m) /\ mem[m].cursor \in Nat
  BY MemoryNow DEF OwedInv
<1>2. CASE ResetAll
  BY <1>2, EnvStill DEF OwedOf
<1>3. CASE Write
  <2>1. /\ status' = status /\ frame' = frame /\ fresh' = fresh /\ (Called(m)' <=> Called(m))
        /\ mem'[m].cursor = mem[m].cursor
    <3>1. mem'[m] = [mem[m] EXCEPT !.dirty = @ \/ mem[m].subs]
      BY <1>3 DEF Write
    <3> QED
      BY <1>1, <1>3, <3>1 DEF Write, Memory, Called
  <2> QED
    BY <1>1, <2>1 DEF OwedOf, Owed, OffStack
<1>4. CASE Stays(m)
  <2>1. \A j \in Places(m) : KidStill(Kids[m][j]) \/ (~OffStack(m) /\ j = mem[m].cursor)
    BY <1>4 DEF Stays, At, Place
  <2>2. \A j \in Places(m) : (Owed(m, j) => Owed(m, j)') \/ (~OffStack(m) /\ j = mem[m].cursor)
    BY <2>1 DEF KidStill, Owed
  <2>3. /\ status'[m] = status[m] /\ mem'[m] = mem[m] /\ frame'[m] = frame[m]
        /\ (OffStack(m)' <=> OffStack(m)) /\ (Called(m)' => Called(m))
    BY <1>4 DEF Stays, Still, OffStack
  <2>4. \A j \in Places(m) : j > mem[m].cursor => j # mem[m].cursor
    BY <1>1 DEF Places
  <2> QED
    BY <1>1, <2>2, <2>3, <2>4 DEF OwedOf
<1>5. CASE IsCalled(m)
  <2>1. /\ status'[m] = status[m] /\ mem'[m] = mem[m] /\ OffStack(m)' /\ OffStack(m)
    BY <1>5 DEF IsCalled, Still, OffStack
  <2>2. CASE status[m] = "RUNNING"
    <3>1. \A j \in Places(m) : Owed(m, j) => Owed(m, j)'
      BY <1>5, <2>2 DEF IsCalled, Owed
    <3> QED
      BY <1>1, <2>1, <2>2, <3>1 DEF OwedOf
  <2>3. CASE status[m] # "RUNNING"
    BY <1>5, <2>1, <2>3 DEF IsCalled, Owed, OwedOf
  <2> QED
    BY <2>2, <2>3
<1>6. CASE SweptAway(m)
  BY <1>6 DEF SweptAway, OwedOf
<1>7. CASE cur = m /\ Moves(m)
  <2>1. OrderedMoves(m)
    BY <1>7 DEF Moves, OrderedKinds, ReactiveKinds, LeafKinds, DecoratorKinds, WrapperKinds
  <2> QED
    BY <1>1, <1>7, <2>1, OwedOrdered
<1> QED
  BY <1>2, <1>3, <1>4, <1>5, <1>6, <1>7, Situations, CalmMoves

\* In a calm tree a Sequence, Fallback or Parallel never ticks a child again that
\* has settled in its present activation.
THEOREM SettledOnceHolds ==
    ASSUME Calm
    PROVE  Spec => SettledOnce
<1> DEFINE Once == \A c \in Nodes :
          /\ cur # c /\ cur' = c /\ ret' = "CALL"
          /\ c # Root /\ Kind[Parent[c]] \in OrderedKinds \cup {"Parallel"}
          => c \notin fresh \/ status[c] \notin Settled
<1>1. ASSUME TypeInv, PathInv, RunInv, OwedInv, Next, NEW c \in Nodes, cur # c, cur' = c, ret' = "CALL", c # Root,
             Kind[Parent[c]] \in OrderedKinds \cup {"Parallel"}
      PROVE  c \notin fresh \/ status[c] \notin Settled
  <2>1. PICK n \in Nodes : NodeStep(n)
    BY <1>1 DEF Next, TickOnce, HaltAll, ResetAll, Write
  <2>2. cur = n /\ Moves(n) /\ Pass(n) # "CALL" /\ Stop(n) # "CALL" /\ "CALL" \notin Results
        /\ Pass(n) \in Results /\ Stop(n) \in Results /\ Settled \subseteq Results /\ "RUNNING" \in Results
    BY <1>1, <2>1, NodeSteps, CalmMoves, PassStop DEF Results, Settled
  <2>3. ASSUME NEW own, NEW s \in Results, NEW C, Ends(n, own, s, C) PROVE FALSE
    BY <1>1, <2>2, <2>3, EndsEffect
  <2>4. ASSUME NEW own, NEW f, NEW i, Goes(n, own, f, i)
        PROVE  c = Kids[n][i] /\ Parent[c] = n /\ i \in Places(n)
    BY <1>1, <2>4, KidPlaces DEF Goes, Call
  <2>5. CASE Kind[n] \in OrderedKinds
    <3>1. OrderedMoves(n)
      BY <2>2, <2>5 DEF Moves, OrderedKinds, ReactiveKinds, LeafKinds, DecoratorKinds, WrapperKinds
    <3>2. PICK i \in Nat \ {0} : OrderedNext(n, i) /\ Goes(n, [mem[n] EXCEPT !.cursor = i], [at |-> "loop", i |-> 0], i)
      BY <2>2, <2>3, <3>1 DEF OrderedMoves
    <3>3. Owed(n, i)
      BY <1>1, <2>4, <2>5, <3>2, OwedNext DEF OwedInv
    <3> QED
      BY <2>4, <3>2, <3>3 DEF Owed
  <2>6. CASE Kind[n] = "Parallel"
    <3>1. ParallelMoves(n)
      BY <2>2, <2>6 DEF Moves, OrderedKinds, ReactiveKinds, LeafKinds, DecoratorKinds, WrapperKinds
    <3> QED
      BY <2>2, <2>3, <2>4, <3>1 DEF ParallelMoves
  <2>7. Parent[c] = n
    BY <2>2, <2>3, <2>4, MoveShape
  <2> QED
    BY <1>1, <2>5, <2>6, <2>7
<1>2. TypeInv /\ PathInv /\ RunInv /\ OwedInv /\ [Next]_vars => [Once]_vars
  <2> SUFFICES ASSUME TypeInv, PathInv, RunInv, OwedInv, Next PROVE Once
    OBVIOUS
  <2> QED
    BY <1>1
<1>3. TypeInv /\ PathInv /\ RunInv /\ OwedInv /\ [Next]_vars => OwedInv'
  BY OwedStep
<1>4. Init => OwedInv
  BY KidsAssumption DEF Init, OwedInv, OwedOf, OffStack, Called
<1> QED
  BY <1>2, <1>3, <1>4, TypeCorrect, PathCorrect, RunCorrect, PTL DEF Spec, SettledOnce

(***************************************************************************)
(* What a reactive node may leave out on the fast path: nothing that has   *)
(* not answered since the last write it was told of.                       *)
(***************************************************************************)
SeenOf(n) == Kind[n] \in ReactiveKinds => \A j \in Places(n) :
    /\ OffStack(n) /\ j < mem[n].running => Seen(n, Kids[n][j])
    /\ frame[n].at \in {"guard", "main"} /\ j < mem[n].running => Seen(n, Kids[n][j])
    /\ frame[n].at \in {"full", "rest"} /\ j < frame[n].i => Seen(n, Kids[n][j])

SeenInv == \A n \in Nodes : SeenOf(n)

LEMMA SeenReactive ==
    ASSUME TypeInv, PathInv, NEW n \in Nodes, cur = n, Kind[n] \in ReactiveKinds, ReactiveMoves(n), SeenOf(n)
    PROVE  SeenOf(n)'
<1> DEFINE f == frame[n]
           x == mem[n]
           S(j) == Seen(n, Kids[n][j])
<1>1. /\ x \in Memory(n) /\ "RUNNING" \in Results /\ Settled \subseteq Results /\ Pass(n) \in Results /\ Stop(n) \in Results
      /\ Len(Kids[n]) \in Nat /\ x.running \in 0..Len(Kids[n]) /\ f.i \in 0..Len(Kids[n])
      /\ \A r : Resumed(n, r) => At(n) = f.i
  BY MemoryNow, PassStop DEF Results, Settled, At, Place, ReactiveKinds, OrderedKinds
<1>2. ASSUME NEW r, Resumed(n, r)
      PROVE  /\ f.at \in {"full", "guard", "main", "rest"} /\ f.i \in Places(n) /\ S(f.i) /\ ~Called(n)
             /\ f.at = "guard" => f.i < x.running
             /\ f.at = "main" => f.i = x.running
             /\ \A j \in Places(n) : j < f.i => S(j)
  <2>1. FrameOK(n, x, f) /\ f.i \in Places(n) /\ S(f.i) /\ f \in Frames(n) /\ r \in Results
    BY <1>1, <1>2, ResumedAt, MemoryNow
  <2>2. ~Called(n)
    BY <1>2, <2>1 DEF Resumed, Called, Results
  <2>3. /\ f.at \in {"full", "guard", "main", "rest"}
        /\ f.at = "guard" => f.i < x.running
        /\ f.at = "main" => f.i = x.running
    BY <2>1 DEF FrameOK, Frames
  <2>4. \A j \in Places(n) : j < f.i => S(j)
    <3> SUFFICES ASSUME NEW j \in Places(n), j < f.i PROVE S(j)
      OBVIOUS
    <3>1. f.at \in {"guard", "main"} => j < x.running
      BY <1>1, <2>3 DEF Places
    <3> QED
      BY <2>3, <3>1 DEF SeenOf
  <2> QED
    BY <2>1, <2>2, <2>3, <2>4
<1>3. ASSUME NEW own \in Memory(n), NEW i \in Nat \ {0}, NEW at, ReactiveNext(n, own, at, i), NEW j \in Places(n)
      PROVE  /\ at \in {"guard", "main"} /\ j < own.running => S(j) /\ own.dirty = x.dirty
             /\ at \in {"full", "rest"} /\ j < i => S(j) /\ own.dirty = x.dirty
  <2>1. CASE Called(n)
    <3>1. OffStack(n) /\ ~Resumed(n, Pass(n))
      BY <1>2, <2>1, CalledOff
    <3>2. (at \in {"full", "rest"} => i = 1) /\ (at \in {"guard", "main"} => own = x)
      BY <1>3, <3>1 DEF ReactiveNext
    <3>3. j < x.running => S(j)
      BY <3>1 DEF SeenOf
    <3> QED
      BY <3>2, <3>3 DEF Places
  <2>2. CASE Resumed(n, Pass(n))
    <3>1. /\ ~Called(n) /\ f.i \in Places(n) /\ S(f.i) /\ \A k \in Places(n) : k < f.i => S(k)
      BY <1>2, <2>2
    <3>2. own.dirty = x.dirty
      BY <1>3, <3>1, ReactiveOwn
    <3>3. /\ at \in {"guard", "main"} => own = x /\ f.at = "guard"
          /\ at \in {"full", "rest"} => i = f.i + 1
      BY <1>3, <3>1 DEF ReactiveNext
    <3>4. f.at = "guard" /\ j < x.running => S(j)
      BY DEF SeenOf
    <3>5. j < f.i + 1 => S(j)
      <4>1. j < f.i + 1 => j < f.i \/ j = f.i
        BY <3>1 DEF Places
      <4> QED
        BY <3>1, <4>1
    <3> QED
      BY <3>2, <3>3, <3>4, <3>5
  <2> QED
    BY <1>3, <2>1, <2>2 DEF ReactiveNext
<1>4. ASSUME NEW own \in Memory(n), NEW i \in Nat \ {0}, NEW at, ReactiveNext(n, own, at, i),
             Goes(n, own, [at |-> at, i |-> i], i)
      PROVE  SeenOf(n)'
  <2>1. /\ mem'[n] = own /\ frame'[n] = [at |-> at, i |-> i]
        /\ \A j \in Places(n) : KidStill(Kids[n][j])
    BY <1>4, GoesEffect
  <2>2. frame'[n].at = at /\ frame'[n].i = i /\ ~OffStack(n)'
    BY <1>4, <2>1, ReactiveOwn DEF OffStack, Off
  <2>3. \A j \in Places(n) : own.dirty = x.dirty /\ S(j) => Seen(n, Kids[n][j])'
    BY <2>1 DEF Seen, KidStill
  <2> QED
    BY <1>3, <1>4, <2>1, <2>2, <2>3 DEF SeenOf
<1>5. ASSUME NEW own \in Memory(n), NEW s \in Results, NEW C, Ends(n, ClearRunning(own), s, C) PROVE SeenOf(n)'
  <2>1. ClearRunning(own).running = 0
    BY HookFields
  <2>2. mem'[n].running = 0 /\ OffStack(n)'
    <3> DEFINE y == ClearRunning(own)
    <3>1. y.running = 0 /\ Ends(n, y, s, C)
      BY <1>5, <2>1
    <3> HIDE DEF y
    <3> QED
      BY <3>1, EndsEffect
  <2>3. frame'[n].at = "off"
    BY <2>2 DEF OffStack, Off
  <2> QED
    BY <2>2, <2>3 DEF SeenOf, Places
<1>6. ASSUME Resumed(n, "RUNNING"), NEW own \in {x, Subscribe(n, x)}, NEW C,
             Ends(n, [own EXCEPT !.running = f.i], "RUNNING", C)
       PROVE  SeenOf(n)'
  <2> DEFINE y == [own EXCEPT !.running = f.i]
  <2>1. own \in Memory(n) /\ own.dirty = x.dirty
    <3>1. Subscribe(n, x) \in Memory(n)
      BY <1>1, HooksType
    <3>2. x \in Memory(n)
      BY <1>1
    <3> HIDE DEF x
    <3>3. Subscribe(n, x).dirty = x.dirty
      BY <3>2, HookFields
    <3> QED
      BY <3>1, <3>2, <3>3
  <2>2. y.running = f.i /\ y.dirty = x.dirty /\ Ends(n, y, "RUNNING", C)
    BY <1>6, <2>1, ExceptFields
  <2> HIDE DEF y
  <2>3. mem'[n] = y /\ OffStack(n)' /\ \A j \in Places(n) : Kids[n][j] \in unseen' <=> Kids[n][j] \in unseen
    <3>1. "RUNNING" \in Results /\ Ends(n, y, "RUNNING", C)
      BY <1>1, <2>2
    <3> QED
      BY <3>1, EndsEffect
  <2>4. frame'[n].at = "off"
    BY <2>3 DEF OffStack, Off
  <2>5. \A j \in Places(n) : j < mem'[n].running => Seen(n, Kids[n][j])'
    BY <1>2, <1>6, <2>2, <2>3 DEF Seen
  <2> QED
    BY <2>4, <2>5 DEF SeenOf
<1> QED
  BY <1>1, <1>4, <1>5, <1>6 DEF ReactiveMoves

\* Nothing but a write makes a child unseen.
LEMMA UnseenShrinks ==
    ASSUME TypeInv, RunInv, Calm, [Next]_vars, ~Write
    PROVE  unseen' \subseteq unseen
<1>1. ASSUME NEW n \in Nodes, NodeStep(n) PROVE unseen' \subseteq unseen
  BY <1>1, CalmMoves, MoveShape DEF Goes, Ends, Call, Answers
<1> QED
  BY <1>1 DEF Next, TickOnce, HaltAll, ResetAll, vars

LEMMA SeenStep == TypeInv /\ PathInv /\ RunInv /\ SeenInv /\ Calm /\ [Next]_vars => SeenInv'
<1> SUFFICES ASSUME TypeInv, PathInv, RunInv, SeenInv, Calm, [Next]_vars,
                    NEW m \in Nodes, Kind[m] \in ReactiveKinds
             PROVE  SeenOf(m)'
  BY DEF SeenInv, SeenOf
<1>1. SeenOf(m) /\ mem[m] \in Memory(m) /\ \A j \in Places(m) : Kids[m][j] \in Nodes /\ Parent[Kids[m][j]] = m
  BY MemoryNow, KidPlaces DEF SeenInv
<1>2. CASE ResetAll
  <2>1. mem'[m] = OnReset(OnHalt(mem[m])) /\ OnHalt(mem[m]) \in Memory(m)
    BY <1>1, <1>2, HooksType DEF ResetAll, ResetNode
  <2>2. mem'[m].dirty
    BY <2>1, HookFields
  <2> QED
    BY <2>2 DEF SeenOf, Seen
<1>3. CASE Write
  <2>1. /\ mem'[m].running = mem[m].running /\ mem'[m].dirty = (mem[m].dirty \/ mem[m].subs)
        /\ frame' = frame /\ unseen' = unseen \cup {x \in Nodes : Skippable(x) /\ mem[Parent[x]].subs}
    BY <1>3, Written DEF TypeInv
  <2>2. \A j \in Places(m) : Seen(m, Kids[m][j]) => Seen(m, Kids[m][j])'
    BY <1>1, <2>1 DEF Seen
  <2> QED
    BY <1>1, <2>1, <2>2 DEF SeenOf, OffStack
<1>4. CASE (Stays(m) \/ IsCalled(m)) /\ ~Write
  <2>1. mem'[m] = mem[m] /\ frame'[m] = frame[m]
    BY <1>4 DEF Stays, IsCalled, Still
  <2>2. unseen' \subseteq unseen
    BY <1>4, UnseenShrinks
  <2>3. \A j \in Places(m) : Seen(m, Kids[m][j]) => Seen(m, Kids[m][j])'
    BY <2>1, <2>2 DEF Seen
  <2> QED
    BY <1>1, <2>1, <2>3 DEF SeenOf, OffStack
<1>5. CASE SweptAway(m)
  <2>1. OffStack(m) /\ frame'[m].at = "off" /\ (\A j \in Places(m) : Kids[m][j] \in unseen' => Kids[m][j] \in unseen)
    BY <1>5 DEF SweptAway, OffStack, Off
  <2>2. (mem'[m].running = 0 \/ mem'[m].running = mem[m].running) /\ (mem[m].dirty => mem'[m].dirty)
    BY <1>5, SweptMemory
  <2>3. \A j \in Places(m) : Seen(m, Kids[m][j]) => Seen(m, Kids[m][j])'
    BY <2>1, <2>2 DEF Seen
  <2> QED
    BY <1>1, <2>1, <2>2, <2>3 DEF SeenOf, Places
<1>6. CASE cur = m /\ Moves(m)
  <2>1. ReactiveMoves(m)
    BY <1>6 DEF Moves, OrderedKinds, ReactiveKinds, LeafKinds, DecoratorKinds, WrapperKinds
  <2> QED
    BY <1>1, <1>6, <2>1, SeenReactive
<1> QED
  BY <1>2, <1>3, <1>4, <1>5, <1>6, Situations, CalmMoves

\* When no leaf raises and Retry budgets are positive, a fast tick leaves out no
\* child that has not answered since a write that found its parent subscribed,
\* however the writes and the tick interleave.  A write before the subscription,
\* in the same tick, is not covered.
THEOREM WriteReEvaluatesHolds ==
    ASSUME Calm
    PROVE  Spec => WriteReEvaluates
<1> DEFINE Told == \A n \in Of(ReactiveKinds) : FastTick(n) =>
                      \A i \in 1..(mem[n].running - 1) : Kids[n][i] \notin unseen
<1>1. TypeInv /\ SeenInv => Told
  <2> SUFFICES ASSUME TypeInv, SeenInv, NEW n \in Of(ReactiveKinds), FastTick(n), NEW i \in 1..(mem[n].running - 1)
               PROVE  Kids[n][i] \notin unseen
    OBVIOUS
  <2>1. n \in Nodes /\ mem[n].running \in 0..Len(Kids[n]) /\ Len(Kids[n]) \in Nat
    BY MemoryNow DEF Of
  <2>2. OffStack(n) /\ ~mem[n].dirty
    BY <2>1, CalledOff DEF FastTick, NeedsFullEval
  <2>3. i \in Places(n) /\ i < mem[n].running
    BY <2>1 DEF Places
  <2> QED
    BY <2>1, <2>2, <2>3 DEF SeenInv, SeenOf, Seen, Of
<1>2. TypeInv /\ SeenInv /\ [Next]_vars => [Told]_vars
  BY <1>1
<1>3. TypeInv /\ PathInv /\ RunInv /\ SeenInv /\ [Next]_vars => SeenInv'
  BY SeenStep
<1>4. Init => SeenInv
  BY DEF Init, SeenInv, SeenOf, Seen
<1> QED
  BY <1>2, <1>3, <1>4, TypeCorrect, PathCorrect, RunCorrect, PTL DEF Spec, WriteReEvaluates

(***************************************************************************)
(* What nodes that are IDLE, or decided, have left behind.  From here on   *)
(* the program does not call reset_all() between ticks: it leaves the      *)
(* cursor of a Sequence where it was.                                      *)
(***************************************************************************)
Unreset == "reset" \notin EnvOps

QuietOf(n) ==
    /\ Kind[n] \notin OrderedKinds => mem[n].cursor = 1
    /\ Kind[n] \notin ReactiveKinds => mem[n].running = 0
    /\ OffStack(n) /\ status[n] # "RUNNING" => mem[n].cursor = 1 /\ mem[n].running = 0
    /\ OffStack(n) /\ (status[n] = "IDLE" \/ (Kind[n] = "Parallel" /\ status[n] \in Settled)) =>
          \A j \in Places(n) : status[Kids[n][j]] = "IDLE"

QuietInv == \A n \in Nodes : QuietOf(n)

\* A set that holds with a node its children holds its whole subtree.
LEMMA DownToAll ==
    ASSUME NEW d \in Nodes, NEW S \in SUBSET Nodes, d \in S,
           \A x \in S : x \in Under[d] => KidSet(x) \subseteq S
    PROVE  Under[d] \subseteq S
<1> SUFFICES ASSUME Under[d] \ S # {} PROVE FALSE
  OBVIOUS
<1>1. Under[d] \ S \in SUBSET Nodes
  BY UnderAssumption
<1>2. PICK x \in Under[d] \ S : \A y \in Under[d] \ S : x \in Under[y] => y = x
  BY <1>1, Topmost
<1>3. x \in Nodes /\ x # d /\ Parent[x] \in Under[d] /\ Under[d] \subseteq Nodes
  BY <1>1, UnderAssumption
<1>4. Parent[x] \in Nodes /\ x \in KidSet(Parent[x]) /\ Parent[x] # x /\ x \in Under[Parent[x]]
  BY <1>3, KidsAssumption, KidBelow DEF Below
<1> QED
  BY <1>2, <1>3, <1>4

LEMMA SettledQuiet ==
    ASSUME RunInv, NEW m \in Nodes, UnderSettled(m)
    PROVE  status[m] # "RUNNING"
<1>1. PICK d \in Nodes : m \in Under[d] /\ status[d] \in Settled /\ \A y \in Under[d] : OffStack(y)
  BY DEF UnderSettled
<1> DEFINE S == {y \in Nodes : y \in Under[d] /\ status[y] # "RUNNING"}
<1>2. d \in S
  BY <1>1, UnderAssumption DEF Settled
<1>3. ASSUME NEW x \in S PROVE KidSet(x) \subseteq S
  <2>1. \A j \in Places(x) : ~Runs(x, j)
    BY <1>1, <1>3 DEF RunInv, RunOf
  <2>2. \A c \in KidSet(x) : c \in Nodes /\ c \in Under[d]
    BY <1>3, KidBelow, UnderAssumption DEF Below
  <2> QED
    BY <2>1, <2>2, KidPlaces DEF Runs
<1>4. Under[d] \subseteq S
  <2> HIDE DEF S
  <2>1. S \in SUBSET Nodes
    BY DEF S
  <2> QED
    BY <1>2, <1>3, <2>1, DownToAll
<1> QED
  BY <1>1, <1>4

LEMMA QuietMove ==
    ASSUME TypeInv, PathInv, NEW n \in Nodes, cur = n, Moves(n), QuietOf(n)
    PROVE  QuietOf(n)'
<1> DEFINE x == mem[n]
<1>1. /\ x \in Memory(n) /\ "RUNNING" \in Results /\ Settled \subseteq Results
      /\ Pass(n) \in Settled /\ Stop(n) \in Settled /\ "RUNNING" \notin Settled /\ "IDLE" \notin Results
  BY MemoryNow, PassStop DEF Results, Settled
<1>2. ASSUME NEW own, NEW f, NEW i, Goes(n, own, f, i), f # Off,
             Kind[n] \notin OrderedKinds => own.cursor = 1, Kind[n] \notin ReactiveKinds => own.running = 0
      PROVE  QuietOf(n)'
  <2>1. mem'[n] = own /\ ~OffStack(n)'
    BY <1>2, GoesEffect DEF OffStack
  <2> QED
    BY <1>2, <2>1 DEF QuietOf
<1>3. ASSUME NEW own, NEW s \in Results, NEW C, Ends(n, own, s, C),
             Kind[n] \notin OrderedKinds => own.cursor = 1, Kind[n] \notin ReactiveKinds => own.running = 0,
             s # "RUNNING" => own.cursor = 1 /\ own.running = 0,
             Kind[n] = "Parallel" /\ s \in Settled => C = Places(n)
      PROVE  QuietOf(n)'
  <2>1. /\ mem'[n] = own /\ status'[n] = s
        /\ \A j \in Places(n) : status'[Kids[n][j]] = IF j \in C THEN "IDLE" ELSE status[Kids[n][j]]
    BY <1>3, EndsEffect
  <2> QED
    BY <1>1, <1>3, <2>1 DEF QuietOf
<1>4. CASE Kind[n] \in LeafKinds /\ \E s \in Results : Ends(n, mem[n], s, {})
  <2>1. Kind[n] \notin OrderedKinds /\ Kind[n] \notin ReactiveKinds /\ Kind[n] # "Parallel"
    BY <1>4 DEF LeafKinds, OrderedKinds, ReactiveKinds
  <2> QED
    BY <1>3, <1>4, <2>1 DEF QuietOf
<1>5. CASE Kind[n] \in OrderedKinds /\ OrderedMoves(n)
  <2>1. Kind[n] \notin ReactiveKinds /\ Kind[n] # "Parallel" /\ x.running = 0
    BY <1>5 DEF OrderedKinds, ReactiveKinds, QuietOf
  <2>2. \A k : [x EXCEPT !.cursor = k].running = 0 /\ [x EXCEPT !.cursor = k].cursor = k
    BY <1>1, <2>1, ExceptFields
  <2> HIDE DEF x
  <2>3. \A i : [at |-> "loop", i |-> i] # Off
    BY DEF Off
  <2>4. ASSUME NEW i \in Nat \ {0}, NEW k, Goes(n, [x EXCEPT !.cursor = k], [at |-> "loop", i |-> 0], i)
        PROVE  QuietOf(n)'
    BY <1>2, <1>5, <2>1, <2>2, <2>3, <2>4
  <2>5. ASSUME NEW s \in Settled, NEW C, Ends(n, [x EXCEPT !.cursor = 1], s, C) PROVE QuietOf(n)'
    BY <1>1, <1>3, <1>5, <2>1, <2>2, <2>5
  <2>6. Ends(n, x, "RUNNING", {}) => QuietOf(n)'
    BY <1>1, <1>3, <1>5, <2>1
  <2> QED
    BY <1>1, <1>5, <2>4, <2>5, <2>6 DEF OrderedMoves, x
<1>6. CASE Kind[n] = "Parallel" /\ ParallelMoves(n)
  <2>1. x.cursor = 1 /\ x.running = 0
    BY <1>6 DEF OrderedKinds, ReactiveKinds, QuietOf
  <2>2. \A i : [at |-> "loop", i |-> i] # Off
    BY DEF Off
  <2> HIDE DEF x
  <2>3. ASSUME NEW i, Goes(n, x, [at |-> "loop", i |-> i], i) PROVE QuietOf(n)'
    BY <1>2, <2>1, <2>2, <2>3
  <2>4. ASSUME NEW s \in Settled, Ends(n, x, s, Places(n)) PROVE QuietOf(n)'
    BY <1>1, <1>3, <2>1, <2>4
  <2>5. Ends(n, x, "RUNNING", {}) => QuietOf(n)'
    BY <1>1, <1>3, <2>1
  <2> QED
    BY <1>6, <2>3, <2>4, <2>5 DEF ParallelMoves, x
<1>7. CASE Kind[n] \in DecoratorKinds /\ DecoratorMoves(n)
  <2>1. Kind[n] \notin OrderedKinds /\ Kind[n] \notin ReactiveKinds /\ Kind[n] # "Parallel"
    BY <1>7 DEF DecoratorKinds, WrapperKinds, OrderedKinds, ReactiveKinds
  <2>2. x.cursor = 1 /\ x.running = 0
    BY <2>1 DEF QuietOf
  <2>3. PICK own \in Memory(n) :
          /\ own.cursor = 1 /\ own.running = 0
          /\ \/ Goes(n, own, [at |-> "loop", i |-> 1], 1)
             \/ \E s \in Results : \E C : Ends(n, own, s, C)
    BY <1>7, <2>2 DEF DecoratorMoves, Like
  <2>4. [at |-> "loop", i |-> 1] # Off
    BY DEF Off
  <2> QED
    BY <1>2, <1>3, <2>1, <2>3, <2>4
<1>8. CASE Kind[n] \in ReactiveKinds /\ ReactiveMoves(n)
  <2>1. Kind[n] \notin OrderedKinds /\ Kind[n] # "Parallel"
    BY <1>8 DEF OrderedKinds, ReactiveKinds
  <2>2. x.cursor = 1
    BY <2>1 DEF QuietOf
  <2>3. \A y \in Memory(n) : /\ ClearRunning(y).cursor = y.cursor /\ ClearRunning(y).running = 0
                             /\ \A k : [y EXCEPT !.running = k].cursor = y.cursor
    BY HookFields, ExceptFields
  <2> HIDE DEF x
  <2>4. Subscribe(n, x) \in Memory(n) /\ Subscribe(n, x).cursor = 1
    <3>1. Subscribe(n, x) \in Memory(n)
      BY <1>1, HooksType
    <3>2. Subscribe(n, x).cursor = x.cursor
      BY <1>1, HookFields
    <3> QED
      BY <2>2, <3>1, <3>2
  <2>5. ASSUME NEW own \in Memory(n), NEW i \in Nat \ {0}, NEW at, ReactiveNext(n, own, at, i),
               IF i <= Len(Kids[n]) THEN Goes(n, own, [at |-> at, i |-> i], i)
                                    ELSE Ends(n, ClearRunning(own), Pass(n), {})
        PROVE  QuietOf(n)'
    <3>1. own.cursor = 1 /\ at # "off"
      BY <1>8, <2>2, <2>5, ReactiveOwn DEF x
    <3>2. [at |-> at, i |-> i] # Off
      BY <3>1 DEF Off
    <3>3. CASE Goes(n, own, [at |-> at, i |-> i], i)
      BY <1>2, <1>8, <3>1, <3>2, <3>3
    <3>4. CASE Ends(n, ClearRunning(own), Pass(n), {})
      BY <1>1, <1>3, <2>1, <2>3, <3>1, <3>4
    <3> QED
      BY <2>5, <3>3, <3>4
  <2>6. ASSUME NEW own \in {x, Subscribe(n, x)}, NEW k, NEW C, Ends(n, [own EXCEPT !.running = k], "RUNNING", C)
        PROVE  QuietOf(n)'
    <3>1. own \in Memory(n) /\ own.cursor = 1
      BY <1>1, <2>2, <2>4
    <3>2. [own EXCEPT !.running = k].cursor = 1
      BY <2>3, <3>1
    <3> QED
      BY <1>1, <1>3, <1>8, <2>1, <2>6, <3>2
  <2>7. ASSUME NEW C, Ends(n, ClearRunning(x), Stop(n), C) PROVE QuietOf(n)'
    BY <1>1, <1>3, <2>1, <2>2, <2>3, <2>7
  <2> QED
    BY <1>8, <2>5, <2>6, <2>7 DEF ReactiveMoves, x
<1> QED
  BY <1>4, <1>5, <1>6, <1>7, <1>8 DEF Moves

LEMMA QuietStep == TypeInv /\ PathInv /\ RunInv /\ QuietInv /\ Calm /\ Unreset /\ [Next]_vars => QuietInv'
<1> SUFFICES ASSUME TypeInv, PathInv, RunInv, QuietInv, Calm, Unreset, [Next]_vars, NEW m \in Nodes
             PROVE  QuietOf(m)'
  BY DEF QuietInv
<1>1. QuietOf(m) /\ ~ResetAll
  BY DEF QuietInv, Unreset, ResetAll
<1>2. CASE Write
  <2>1. /\ status' = status /\ frame' = frame
        /\ mem'[m].cursor = mem[m].cursor /\ mem'[m].running = mem[m].running
    BY <1>2, Written DEF TypeInv
  <2> QED
    BY <1>1, <2>1 DEF QuietOf, OffStack
<1>3. CASE Stays(m) \/ IsCalled(m)
  <2>1. status'[m] = status[m] /\ mem'[m] = mem[m] /\ (OffStack(m)' <=> OffStack(m))
    BY <1>3 DEF Stays, IsCalled, Still, OffStack
  <2>2. OffStack(m) => \A j \in Places(m) : status'[Kids[m][j]] = status[Kids[m][j]]
    BY <1>3 DEF Stays, IsCalled, KidStill
  <2> QED
    BY <1>1, <2>1, <2>2 DEF QuietOf
<1>4. CASE SweptAway(m)
  <2>1. OffStack(m) /\ status'[m] = "IDLE" /\ \A j \in Places(m) : status'[Kids[m][j]] = "IDLE"
    BY <1>4 DEF SweptAway
  <2>2. /\ status[m] = "RUNNING" => mem'[m].running = 0
        /\ status[m] # "RUNNING" => mem'[m].running = mem[m].running
        /\ Kind[m] \notin OrderedKinds => mem'[m].cursor = mem[m].cursor
        /\ Kind[m] \in OrderedKinds => mem'[m].cursor = 1 \/ (mem'[m].cursor = mem[m].cursor /\ UnderSettled(m))
    BY <1>4, SweptMemory
  <2>3. mem'[m].running = 0
    BY <1>1, <2>1, <2>2 DEF QuietOf
  <2>4. mem'[m].cursor = 1
    BY <1>1, <2>1, <2>2, SettledQuiet DEF QuietOf
  <2> QED
    BY <2>1, <2>3, <2>4 DEF QuietOf
<1>5. CASE cur = m /\ Moves(m)
  BY <1>1, <1>5, QuietMove
<1> QED
  BY <1>1, <1>2, <1>3, <1>4, <1>5, Situations, CalmMoves

LEMMA QuietCorrect ==
    ASSUME Calm, Unreset
    PROVE  Spec => []QuietInv
<1>1. TypeInv /\ PathInv /\ RunInv /\ QuietInv /\ [Next]_vars => QuietInv'
  BY QuietStep
<1>2. Init => QuietInv
  BY KidPlaces DEF Init, QuietInv, QuietOf, Fresh
<1> QED
  BY <1>1, <1>2, TypeCorrect, PathCorrect, RunCorrect, PTL DEF Spec

\* A node at rest that is IDLE, or a Parallel that has decided, left its whole
\* subtree idle, rewound and unsubscribed, however deep it is.
THEOREM LeavesNothingHolds ==
    ASSUME Calm, Unreset
    PROVE  Spec => []LeavesNothing
<1>1. TypeInv /\ PathInv /\ SubsInv /\ QuietInv => LeavesNothing
  <2> SUFFICES ASSUME TypeInv, PathInv, SubsInv, QuietInv, NEW n \in Nodes, OffStack(n),
                      status[n] = "IDLE" \/ (Kind[n] = "Parallel" /\ status[n] \in Settled),
                      NEW m \in Under[n] \ {n}
               PROVE  status[m] = "IDLE" /\ mem[m].cursor = 1 /\ mem[m].running = 0 /\ ~mem[m].subs
    BY DEF LeavesNothing, AtRest
  <2>1. \A y \in Under[n] : y \in Nodes /\ OffStack(y)
    <3> SUFFICES ASSUME NEW y \in Under[n], ~OffStack(y) PROVE FALSE
      BY UnderAssumption
    <3>1. y \in Nodes /\ y # n /\ cur \in Under[y] /\ Under[y] \subseteq Under[n] /\ n \notin Under[y]
      BY UnderAssumption DEF TypeInv, Stack
    <3> QED
      BY <3>1 DEF PathInv, PathOf
  <2> DEFINE S == {y \in Under[n] : y = n \/ status[y] = "IDLE"}
  <2>2. n \in S /\ S \in SUBSET Nodes
    BY <2>1, UnderAssumption
  <2>3. ASSUME NEW x \in S PROVE KidSet(x) \subseteq S
    <3>1. \A j \in Places(x) : status[Kids[x][j]] = "IDLE"
      BY <2>1, <2>3 DEF QuietInv, QuietOf
    <3>2. \A c \in KidSet(x) : c \in Under[n]
      BY <2>1, <2>3, KidBelow, UnderAssumption DEF Below
    <3> QED
      BY <2>1, <3>1, <3>2, KidPlaces
  <2>4. Under[n] \subseteq S
    <3> HIDE DEF S
    <3> QED
      BY <2>2, <2>3, DownToAll
  <2>5. m \in Nodes /\ status[m] = "IDLE" /\ OffStack(m)
    BY <2>1, <2>4
  <2> QED
    BY <2>5 DEF QuietInv, QuietOf, SubsInv, SubsOf
<1>2. TypeInv /\ PathInv /\ SubsInv /\ [Next]_vars => SubsInv'
  BY SubsStep
<1>3. Init => SubsInv
  BY DEF Init, SubsInv, SubsOf, Fresh
<1> QED
  BY <1>1, <1>2, <1>3, TypeCorrect, PathCorrect, QuietCorrect, PTL DEF Spec

(***************************************************************************)
(* What a loop has behind it in this activation: passing results.          *)
(***************************************************************************)
Passed(n, j) == Kids[n][j] \in fresh /\ status[Kids[n][j]] = Pass(n)

DoneOf(n) ==
    /\ Kind[n] \in OrderedKinds /\ (~OffStack(n) \/ status[n] = "RUNNING") =>
          \A j \in Places(n) : j < mem[n].cursor => Passed(n, j)
    /\ Kind[n] \in ReactiveKinds => \A j \in Places(n) :
          /\ OffStack(n) /\ status[n] = "RUNNING" /\ j < mem[n].running => Passed(n, j)
          /\ frame[n].at \in {"full", "rest"} /\ j < frame[n].i => Passed(n, j)
          /\ frame[n].at \in {"guard", "main"} /\ j < mem[n].running /\ j # frame[n].i => Passed(n, j)
    /\ Kind[n] \in OrderedKinds \cup ReactiveKinds /\ AtRest(n) /\ status[n] = Pass(n) =>
          \A j \in Places(n) : Passed(n, j)

DoneInv == \A n \in Nodes : DoneOf(n)

LEMMA DoneOrdered ==
    ASSUME TypeInv, PathInv, NEW n \in Nodes, cur = n, Kind[n] \in OrderedKinds, OrderedMoves(n),
           QuietOf(n), DoneOf(n)
    PROVE  DoneOf(n)'
<1>1. /\ mem[n] \in Memory(n) /\ mem[n].cursor \in Nat /\ "RUNNING" \in Results /\ Settled \subseteq Results
      /\ Pass(n) \in Settled /\ Stop(n) \in Settled /\ Pass(n) # Stop(n) /\ "RUNNING" \notin Settled
      /\ Kind[n] \notin ReactiveKinds
  BY MemoryNow, PassStop DEF Results, Settled, OrderedKinds, ReactiveKinds
<1>2. ASSUME NEW i \in Nat \ {0}, OrderedNext(n, i), NEW j \in Places(n), j < i PROVE Passed(n, j)
  <2>1. CASE Called(n) /\ i = mem[n].cursor
    <3>1. OffStack(n) /\ mem[n].cursor # 1
      BY <1>1, <1>2, <2>1, CalledOff DEF Places
    <3> QED
      BY <1>2, <2>1, <3>1 DEF QuietOf, DoneOf
  <2>2. CASE Resumed(n, Pass(n)) /\ i = mem[n].cursor + 1
    <3>1. ~OffStack(n) /\ At(n) = mem[n].cursor /\ Passed(n, At(n))
      BY <2>2, ResumedAt DEF Passed, At, Place
    <3>2. j < mem[n].cursor \/ j = mem[n].cursor
      BY <1>1, <1>2, <2>2 DEF Places
    <3> QED
      BY <3>1, <3>2 DEF DoneOf
  <2> QED
    BY <1>2, <2>1, <2>2 DEF OrderedNext
<1>3. (\A j \in Places(n) : KidStill(Kids[n][j])) => \A j \in Places(n) : Passed(n, j) => Passed(n, j)'
  BY DEF KidStill, Passed
<1>4. ASSUME NEW i \in Nat \ {0}, OrderedNext(n, i),
             Goes(n, [mem[n] EXCEPT !.cursor = i], [at |-> "loop", i |-> 0], i)
      PROVE  DoneOf(n)'
  <2>1. /\ mem'[n].cursor = i /\ frame'[n] = [at |-> "loop", i |-> 0]
        /\ \A j \in Places(n) : KidStill(Kids[n][j])
    <3>1. [mem[n] EXCEPT !.cursor = i].cursor = i
      BY <1>1, ExceptFields
    <3> QED
      BY <1>4, <3>1, GoesEffect
  <2>2. ~OffStack(n)'
    BY <2>1 DEF OffStack, Off
  <2> QED
    BY <1>1, <1>2, <1>3, <1>4, <2>1, <2>2 DEF DoneOf, AtRest
<1>5. ASSUME NEW own, NEW s \in Settled, NEW C, Ends(n, own, s, C), s = Pass(n) => \A j \in Places(n) : Passed(n, j)'
      PROVE  DoneOf(n)'
  BY <1>1, <1>5, EndsEffect DEF DoneOf
<1>6. ASSUME NEW i \in Nat \ {0}, OrderedNext(n, i), ~(i <= Len(Kids[n])),
             Ends(n, [mem[n] EXCEPT !.cursor = 1], Pass(n), {})
      PROVE  DoneOf(n)'
  <2>1. \A j \in Places(n) : Passed(n, j)
    BY <1>2, <1>6, KidPlaces DEF Places
  <2>2. \A j \in Places(n) : KidStill(Kids[n][j])
    BY <1>1, <1>6, EndsStill
  <2> QED
    BY <1>1, <1>3, <1>5, <1>6, <2>1, <2>2
<1>7. ASSUME Resumed(n, "RUNNING"), Ends(n, mem[n], "RUNNING", {}) PROVE DoneOf(n)'
  <2>1. mem'[n] = mem[n] /\ OffStack(n)' /\ status'[n] = "RUNNING" /\ \A j \in Places(n) : KidStill(Kids[n][j])
    BY <1>1, <1>7, EndsStill
  <2>2. ~OffStack(n)
    BY <1>7, ResumedAt
  <2> QED
    BY <1>1, <1>3, <2>1, <2>2 DEF DoneOf
<1>8. Ends(n, [mem[n] EXCEPT !.cursor = 1], Stop(n), Places(n)) => DoneOf(n)'
  BY <1>1, <1>5
<1> QED
  BY <1>4, <1>6, <1>7, <1>8 DEF OrderedMoves

LEMMA DoneReactive ==
    ASSUME TypeInv, PathInv, NEW n \in Nodes, cur = n, Kind[n] \in ReactiveKinds, ReactiveMoves(n),
           SubsOf(n), DoneOf(n)
    PROVE  DoneOf(n)'
<1> DEFINE f == frame[n]
           x == mem[n]
           P(j) == Passed(n, j)
<1>1. /\ x \in Memory(n) /\ "RUNNING" \in Results /\ Settled \subseteq Results
      /\ Pass(n) \in Settled /\ Stop(n) \in Settled /\ Pass(n) # Stop(n) /\ "RUNNING" \notin Settled
      /\ Len(Kids[n]) \in Nat /\ x.running \in 0..Len(Kids[n]) /\ f.i \in 0..Len(Kids[n])
      /\ \A r : Resumed(n, r) => At(n) = f.i
      /\ Kind[n] \notin OrderedKinds
  BY MemoryNow, PassStop DEF Results, Settled, At, Place, ReactiveKinds, OrderedKinds
<1>2. ASSUME NEW r, Resumed(n, r)
      PROVE  /\ f.at \in {"full", "guard", "main", "rest"} /\ f.i \in Places(n) /\ ~Called(n)
             /\ r = Pass(n) => P(f.i)
             /\ f.at = "guard" => f.i < x.running
             /\ f.at = "main" => f.i = x.running
             /\ \A j \in Places(n) : j < f.i => P(j)
  <2>1. FrameOK(n, x, f) /\ f.i \in Places(n) /\ f \in Frames(n) /\ r \in Results /\ (r = Pass(n) => P(f.i))
    BY <1>1, <1>2, ResumedAt, MemoryNow DEF Passed
  <2>2. ~Called(n)
    BY <1>2, <2>1 DEF Resumed, Called, Results
  <2>3. /\ f.at \in {"full", "guard", "main", "rest"}
        /\ f.at = "guard" => f.i < x.running
        /\ f.at = "main" => f.i = x.running
    BY <2>1 DEF FrameOK, Frames
  <2>4. \A j \in Places(n) : j < f.i => P(j)
    <3> SUFFICES ASSUME NEW j \in Places(n), j < f.i PROVE P(j)
      OBVIOUS
    <3>1. (f.at \in {"guard", "main"} => j < x.running) /\ j # f.i
      BY <1>1, <2>3 DEF Places
    <3> QED
      BY <2>3, <3>1 DEF DoneOf
  <2> QED
    BY <2>1, <2>2, <2>3, <2>4
<1>3. ASSUME NEW own \in Memory(n), NEW i \in Nat \ {0}, NEW at, ReactiveNext(n, own, at, i), NEW j \in Places(n)
      PROVE  /\ at \in {"guard", "main"} /\ j < own.running => P(j)
             /\ at \in {"full", "rest"} /\ j < i => P(j)
  <2>1. CASE Called(n)
    <3>1. OffStack(n) /\ ~Resumed(n, Pass(n))
      BY <1>2, <2>1, CalledOff
    <3>2. (at \in {"full", "rest"} => i = 1) /\ (at \in {"guard", "main"} => own = x /\ ~NeedsFullEval(n))
      BY <1>3, <3>1 DEF ReactiveNext
    <3>3. ~NeedsFullEval(n) /\ j < x.running => P(j)
      BY <3>1 DEF DoneOf, SubsOf, NeedsFullEval
    <3> QED
      BY <3>2, <3>3 DEF Places
  <2>2. CASE Resumed(n, Pass(n))
    <3>1. /\ ~Called(n) /\ f.i \in Places(n) /\ P(f.i) /\ \A k \in Places(n) : k < f.i => P(k)
      BY <1>2, <2>2
    <3>2. /\ at \in {"guard", "main"} => own = x /\ f.at = "guard"
          /\ at \in {"full", "rest"} => i = f.i + 1
      BY <1>3, <3>1 DEF ReactiveNext
    <3>3. f.at = "guard" /\ j < x.running => P(j)
      BY <3>1 DEF DoneOf
    <3>4. j < f.i + 1 => P(j)
      <4>1. j < f.i + 1 => j < f.i \/ j = f.i
        BY <3>1 DEF Places
      <4> QED
        BY <3>1, <4>1
    <3> QED
      BY <3>2, <3>3, <3>4
  <2> QED
    BY <1>3, <2>1, <2>2 DEF ReactiveNext
<1>4. ASSUME NEW own \in Memory(n), NEW i \in Nat \ {0}, NEW at, ReactiveNext(n, own, at, i),
             Goes(n, own, [at |-> at, i |-> i], i)
      PROVE  DoneOf(n)'
  <2>1. /\ mem'[n] = own /\ frame'[n] = [at |-> at, i |-> i]
        /\ \A j \in Places(n) : KidStill(Kids[n][j])
    BY <1>4, GoesEffect
  <2>2. frame'[n].at = at /\ frame'[n].i = i /\ ~OffStack(n)'
    BY <1>4, <2>1, ReactiveOwn DEF OffStack, Off
  <2>3. \A j \in Places(n) : P(j) => P(j)'
    BY <2>1 DEF Passed, KidStill
  <2> QED
    BY <1>1, <1>3, <1>4, <2>1, <2>2, <2>3 DEF DoneOf, AtRest
<1>5. ASSUME NEW own, NEW s \in Settled, NEW C, Ends(n, own, s, C), s = Pass(n) => \A j \in Places(n) : P(j)'
      PROVE  DoneOf(n)'
  <2>1. OffStack(n)' /\ status'[n] = s
    BY <1>1, <1>5, EndsEffect
  <2>2. frame'[n].at = "off"
    BY <2>1 DEF OffStack, Off
  <2> QED
    BY <1>1, <1>5, <2>1, <2>2 DEF DoneOf
<1>6. ASSUME NEW own \in Memory(n), NEW i \in Nat \ {0}, NEW at, ReactiveNext(n, own, at, i),
             ~(i <= Len(Kids[n])), Ends(n, ClearRunning(own), Pass(n), {})
      PROVE  DoneOf(n)'
  <2>1. at \notin {"guard", "main"}
    BY <1>1, <1>6 DEF ReactiveNext
  <2>2. at \in {"full", "rest"}
    BY <1>6, <2>1 DEF ReactiveNext
  <2>3. \A j \in Places(n) : P(j)
    BY <1>1, <1>3, <1>6, <2>2 DEF Places
  <2>4. \A j \in Places(n) : KidStill(Kids[n][j])
    BY <1>1, <1>6, EndsStill
  <2>5. \A j \in Places(n) : P(j)'
    BY <2>3, <2>4 DEF Passed, KidStill
  <2> QED
    BY <1>1, <1>5, <1>6, <2>5
<1>7. ASSUME Resumed(n, "RUNNING"), NEW own \in {x, Subscribe(n, x)}, NEW C \in SUBSET ((f.i + 1)..Len(Kids[n])),
             Ends(n, [own EXCEPT !.running = f.i], "RUNNING", C)
       PROVE  DoneOf(n)'
  <2> DEFINE y == [own EXCEPT !.running = f.i]
  <2>1. own \in Memory(n)
    BY <1>1, HooksType
  <2>2. y.running = f.i /\ Ends(n, y, "RUNNING", C)
    BY <1>7, <2>1, ExceptFields
  <2> HIDE DEF y
  <2>3. /\ mem'[n] = y /\ OffStack(n)' /\ status'[n] = "RUNNING"
        /\ \A j \in Places(n) :
                 /\ status'[Kids[n][j]] = IF j \in C THEN "IDLE" ELSE status[Kids[n][j]]
                 /\ Kids[n][j] \in fresh' <=> Kids[n][j] \in fresh
    <3>1. "RUNNING" \in Results /\ Ends(n, y, "RUNNING", C)
      BY <1>1, <2>2
    <3> QED
      BY <3>1, EndsEffect
  <2>4. frame'[n].at = "off"
    BY <2>3 DEF OffStack, Off
  <2>5. ASSUME NEW j \in Places(n), j < mem'[n].running PROVE P(j)'
    <3>1. j < f.i /\ P(j)
      BY <1>2, <1>7, <2>2, <2>3, <2>5
    <3>2. j \notin C
      BY <1>1, <1>7, <3>1 DEF Places
    <3> QED
      BY <2>3, <3>1, <3>2 DEF Passed
  <2> QED
    BY <1>1, <2>3, <2>4, <2>5 DEF DoneOf
<1>8. ASSUME NEW C, Ends(n, ClearRunning(x), Stop(n), C) PROVE DoneOf(n)'
  BY <1>1, <1>5, <1>8
<1>9. ASSUME Resumed(n, "RUNNING"), NEW own \in {x, Subscribe(n, x)},
             Ends(n, [own EXCEPT !.running = f.i], "RUNNING", IF f.at = "main" THEN {} ELSE (f.i + 1)..Len(Kids[n]))
      PROVE  DoneOf(n)'
  <2> DEFINE C == IF f.at = "main" THEN {} ELSE (f.i + 1)..Len(Kids[n])
  <2>1. C \in SUBSET ((f.i + 1)..Len(Kids[n])) /\ Ends(n, [own EXCEPT !.running = f.i], "RUNNING", C)
    BY <1>9
  <2> HIDE DEF C
  <2> QED
    BY <1>7, <1>9, <2>1
<1> QED
  BY <1>4, <1>6, <1>8, <1>9 DEF ReactiveMoves

\* Only its own step, a write or a stutter happens to a node that is being called.
LEMMA CalledStep ==
    ASSUME TypeInv, RunInv, Calm, [Next]_vars, NEW m \in Nodes, Called(m)
    PROVE  Moves(m) \/ Write \/ UNCHANGED vars
<1>1. cur = m /\ cur # Env
  BY KidsAssumption DEF Called
<1>2. ASSUME NEW n \in Nodes, NodeStep(n) PROVE Moves(m)
  BY <1>1, <1>2, NodeSteps, CalmMoves
<1> QED
  BY <1>1, <1>2 DEF Next, TickOnce, HaltAll, ResetAll

LEMMA DoneStep ==
    TypeInv /\ PathInv /\ RunInv /\ SubsInv /\ QuietInv /\ DoneInv /\ Calm /\ Unreset /\ [Next]_vars => DoneInv'
<1> SUFFICES ASSUME TypeInv, PathInv, RunInv, SubsInv, QuietInv, DoneInv, Calm, Unreset, [Next]_vars, NEW m \in Nodes
             PROVE  DoneOf(m)'
  BY DEF DoneInv
<1>1. DoneOf(m) /\ QuietOf(m) /\ SubsOf(m) /\ ~ResetAll
  BY DEF DoneInv, QuietInv, SubsInv, Unreset, ResetAll
<1>2. CASE Write
  <2>1. /\ status' = status /\ frame' = frame /\ fresh' = fresh /\ cur' = cur /\ ret' = ret
        /\ mem'[m].cursor = mem[m].cursor /\ mem'[m].running = mem[m].running
    BY <1>2, Written DEF TypeInv
  <2> QED
    BY <1>1, <2>1 DEF DoneOf, OffStack, AtRest, Called, Passed
<1>3. CASE UNCHANGED vars
  BY <1>1, <1>3 DEF vars, DoneOf, OffStack, AtRest, Called, Passed
<1>4. CASE Stays(m) /\ ~Called(m)
  <2>1. \A j \in Places(m) : KidStill(Kids[m][j]) \/ (~OffStack(m) /\ j = At(m))
    BY <1>4 DEF Stays
  <2>2. \A j \in Places(m) : (Passed(m, j) => Passed(m, j)') \/ (~OffStack(m) /\ j = At(m))
    BY <2>1 DEF Passed, KidStill
  <2>3. /\ status'[m] = status[m] /\ mem'[m] = mem[m] /\ frame'[m] = frame[m]
        /\ (OffStack(m)' <=> OffStack(m)) /\ (AtRest(m)' <=> AtRest(m))
    BY <1>4 DEF Stays, Still, OffStack, AtRest
  <2>4. /\ Kind[m] \in OrderedKinds => At(m) = mem[m].cursor
        /\ Kind[m] \in ReactiveKinds => At(m) = frame[m].i
        /\ \A j \in Places(m) : (j < mem[m].cursor => j # mem[m].cursor) /\ (j < frame[m].i => j # frame[m].i)
    BY MemoryNow DEF At, Place, OrderedKinds, ReactiveKinds, Places
  <2>5. OffStack(m) => frame[m].at = "off"
    BY DEF OffStack, Off
  <2>6. Kind[m] \in OrderedKinds /\ (~OffStack(m)' \/ status'[m] = "RUNNING") =>
          \A j \in Places(m) : j < mem'[m].cursor => Passed(m, j)'
    BY <1>1, <2>2, <2>3, <2>4 DEF DoneOf
  <2>7. Kind[m] \in ReactiveKinds => \A j \in Places(m) :
          /\ OffStack(m)' /\ status'[m] = "RUNNING" /\ j < mem'[m].running => Passed(m, j)'
          /\ frame'[m].at \in {"full", "rest"} /\ j < frame'[m].i => Passed(m, j)'
          /\ frame'[m].at \in {"guard", "main"} /\ j < mem'[m].running /\ j # frame'[m].i => Passed(m, j)'
    BY <1>1, <2>2, <2>3, <2>4 DEF DoneOf
  <2>8. Kind[m] \in OrderedKinds \cup ReactiveKinds /\ AtRest(m)' /\ status'[m] = Pass(m) =>
          \A j \in Places(m) : Passed(m, j)'
    BY <1>1, <2>2, <2>3 DEF DoneOf, AtRest
  <2> QED
    BY <2>6, <2>7, <2>8 DEF DoneOf
<1>5. CASE IsCalled(m)
  <2>1. /\ status'[m] = status[m] /\ mem'[m] = mem[m] /\ OffStack(m) /\ OffStack(m)' /\ ~AtRest(m)'
    BY <1>5 DEF IsCalled, Still, OffStack, AtRest
  <2>2. frame'[m].at = "off"
    BY <2>1 DEF OffStack, Off
  <2>3. status[m] = "RUNNING" => \A j \in Places(m) : Passed(m, j) => Passed(m, j)'
    BY <1>5 DEF IsCalled, Passed
  <2> QED
    BY <1>1, <2>1, <2>2, <2>3 DEF DoneOf
<1>6. CASE SweptAway(m)
  <2>1. OffStack(m)' /\ status'[m] = "IDLE" /\ Pass(m) # "IDLE"
    BY <1>6, PassStop DEF SweptAway, Settled
  <2>2. frame'[m].at = "off"
    BY <2>1 DEF OffStack, Off
  <2> QED
    BY <2>1, <2>2 DEF DoneOf
<1>7. CASE cur = m /\ Moves(m)
  <2>1. CASE Kind[m] \in OrderedKinds
    <3>1. OrderedMoves(m)
      BY <1>7, <2>1 DEF Moves, OrderedKinds, ReactiveKinds, LeafKinds, DecoratorKinds, WrapperKinds
    <3> QED
      BY <1>1, <1>7, <2>1, <3>1, DoneOrdered
  <2>2. CASE Kind[m] \in ReactiveKinds
    <3>1. ReactiveMoves(m)
      BY <1>7, <2>2 DEF Moves, OrderedKinds, ReactiveKinds, LeafKinds, DecoratorKinds, WrapperKinds
    <3> QED
      BY <1>1, <1>7, <2>2, <3>1, DoneReactive
  <2>3. CASE Kind[m] \notin OrderedKinds \cup ReactiveKinds
    BY <2>3 DEF DoneOf
  <2> QED
    BY <2>1, <2>2, <2>3
<1>8. CASE Called(m)
  BY <1>2, <1>3, <1>7, <1>8, CalledStep DEF Called
<1> QED
  BY <1>1, <1>2, <1>4, <1>5, <1>6, <1>7, <1>8, Situations, CalmMoves

\* A Sequence, Fallback or reactive node that passes has a passing result of this
\* activation from every one of its children.
THEOREM PassedByAllHolds ==
    ASSUME Calm, Unreset
    PROVE  Spec => []PassedByAll
<1>1. DoneInv => PassedByAll
  <2> SUFFICES ASSUME DoneInv, NEW n \in Nodes, Kind[n] \in OrderedKinds \cup ReactiveKinds,
                      AtRest(n), status[n] = Pass(n), NEW c \in KidSet(n)
               PROVE  c \in fresh /\ status[c] = Pass(n)
    BY DEF PassedByAll, Of
  <2>1. PICK j \in Places(n) : Kids[n][j] = c
    BY KidPlaces
  <2> QED
    BY <2>1 DEF DoneInv, DoneOf, Passed
<1>2. TypeInv /\ PathInv /\ RunInv /\ SubsInv /\ QuietInv /\ DoneInv /\ [Next]_vars => DoneInv'
  BY DoneStep
<1>3. TypeInv /\ PathInv /\ SubsInv /\ [Next]_vars => SubsInv'
  BY SubsStep
<1>4. Init => SubsInv /\ DoneInv
  <2>1. Init => SubsInv
    BY DEF Init, SubsInv, SubsOf, Fresh
  <2>2. Init => DoneInv
    BY PassStop DEF Init, DoneInv, DoneOf, Fresh, Off, Settled, OffStack
  <2> QED
    BY <2>1, <2>2
<1> QED
  BY <1>1, <1>2, <1>3, <1>4, TypeCorrect, PathCorrect, RunCorrect, QuietCorrect, PTL DEF Spec
=============================================================================
