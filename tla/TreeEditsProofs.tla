-------------------------- MODULE TreeEditsProofs --------------------------
(***************************************************************************)
(* The safety properties of a tree that is built, ticked and modified, for *)
(* every builder's program, every tree and any modifications.              *)
(***************************************************************************)
EXTENDS TreeEdits, SequenceTheorems, WellFoundedInduction, TLAPS

(***************************************************************************)
(* What is below a node.                                                   *)
(***************************************************************************)
Grounded(down) ==
    /\ \A m \in DOMAIN down : down[m] \subseteq DOMAIN down
    /\ \A S \in (SUBSET DOMAIN down) \ {{}} : \E m \in S : down[m] \cap S = {}

Closed(down, S) == \A m \in S : down[m] \subseteq S

\* The recursive function in Below exists: the least closed sets are one.
LEMMA BelowEquation ==
    ASSUME NEW down, Grounded(down), NEW n \in DOMAIN down
    PROVE  Below(down, n) = {n} \cup UNION {Below(down, c) : c \in down[n]}
<1> DEFINE D == DOMAIN down
           least(m) == {x \in D : \A S \in SUBSET D : m \in S /\ Closed(down, S) => x \in S}
           f == [m \in D |-> least(m)]
           step(g) == [m \in D |-> {m} \cup UNION {g[c] : c \in down[m]}]
           B == CHOOSE g : g = step(g)
<1>1. ASSUME NEW m \in D PROVE least(m) = {m} \cup UNION {least(c) : c \in down[m]}
  <2>1. m \in least(m)
    OBVIOUS
  <2>2. ASSUME NEW c \in down[m] PROVE least(c) \subseteq least(m)
    BY <2>2 DEF Closed
  <2>3. ASSUME NEW x \in least(m), x # m PROVE \E c \in down[m] : x \in least(c)
    <3> DEFINE T == {m} \cup UNION {least(c) : c \in down[m]}
    <3>1. down[m] \subseteq D
      BY DEF Grounded
    <3>2. T \in SUBSET D /\ m \in T
      OBVIOUS
    <3>3. \A c \in down[m] : c \in least(c)
      BY <3>1
    <3>4. ASSUME NEW c \in down[m], NEW y \in least(c) PROVE down[y] \subseteq least(c)
      <4>1. y \in D /\ down[y] \subseteq D
        BY DEF Grounded
      <4>2. \A S \in SUBSET D : c \in S /\ Closed(down, S) => down[y] \subseteq S
        BY <3>4 DEF Closed
      <4> QED
        BY <4>1, <4>2
    <3>5. Closed(down, T)
      BY <3>3, <3>4 DEF Closed
    <3>6. x \in T
      BY <2>3, <3>2, <3>5
    <3> QED
      BY <2>3, <3>6
  <2> QED
    BY <2>1, <2>2, <2>3
<1>2. f = step(f)
  <2>1. \A m \in D : f[m] = {m} \cup UNION {f[c] : c \in down[m]}
    <3> SUFFICES ASSUME NEW m \in D PROVE f[m] = {m} \cup UNION {f[c] : c \in down[m]}
      OBVIOUS
    <3>1. f[m] = least(m) /\ \A c \in down[m] : f[c] = least(c)
      <4> HIDE DEF least
      <4> QED
        BY DEF Grounded
    <3> HIDE DEF f, least
    <3>2. UNION {f[c] : c \in down[m]} = UNION {least(c) : c \in down[m]}
      BY <3>1
    <3> QED
      BY <1>1, <3>1, <3>2
  <2> QED
    BY <2>1
<1>3. B = step(B)
  <2> HIDE DEF f
  <2> QED
    BY <1>2
<1>4. \A m \in D : Below(down, m) = B[m]
  BY DEF Below
<1>5. down[n] \subseteq D
  BY DEF Grounded
<1>6. B[n] = {n} \cup UNION {B[c] : c \in down[n]}
  <2> HIDE DEF B
  <2> QED
    BY <1>3
<1> HIDE DEF B
<1> QED
  BY <1>4, <1>5, <1>6

\* It is the least set that holds n and, with a node, the nodes down from it.
LEMMA BelowLeast ==
    ASSUME NEW down, Grounded(down), NEW n \in DOMAIN down
    PROVE  /\ n \in Below(down, n) /\ Below(down, n) \subseteq DOMAIN down
           /\ Closed(down, Below(down, n))
           /\ \A S \in SUBSET DOMAIN down : n \in S /\ Closed(down, S) => Below(down, n) \subseteq S
<1> DEFINE D == DOMAIN down
<1>1. \A m \in D : Below(down, m) = {m} \cup UNION {Below(down, c) : c \in down[m]}
  BY BelowEquation
<1>2. \A m \in D : down[m] \subseteq D
  BY DEF Grounded
<1>3. ASSUME NEW S \in SUBSET D, Closed(down, S), NEW m \in S PROVE Below(down, m) \subseteq S
  <2> DEFINE Bad == {x \in S : ~(Below(down, x) \subseteq S)}
  <2>1. SUFFICES ASSUME Bad # {} PROVE FALSE
    OBVIOUS
  <2>2. PICK x \in Bad : down[x] \cap Bad = {}
    BY <2>1 DEF Grounded
  <2>3. \A c \in down[x] : Below(down, c) \subseteq S
    BY <1>3, <2>2 DEF Closed
  <2> QED
    BY <1>1, <2>2, <2>3
<1>4. \A m \in D : Below(down, m) \subseteq D
  BY <1>2, <1>3 DEF Closed
<1>5. \A m \in D : Closed(down, Below(down, m))
  <2> DEFINE Bad == {m \in D : ~Closed(down, Below(down, m))}
  <2>1. SUFFICES ASSUME Bad # {} PROVE FALSE
    OBVIOUS
  <2>2. PICK x \in Bad : down[x] \cap Bad = {}
    BY <2>1 DEF Grounded
  <2>3. ASSUME NEW y \in Below(down, x) PROVE down[y] \subseteq Below(down, x)
    <3>1. CASE y = x
      <4>1. \A c \in down[x] : c \in Below(down, c)
        BY <1>1, <1>2
      <4> QED
        BY <1>1, <3>1, <4>1
    <3>2. CASE \E c \in down[x] : y \in Below(down, c)
      <4>1. PICK c \in down[x] : y \in Below(down, c)
        BY <3>2
      <4>2. Closed(down, Below(down, c))
        BY <1>2, <2>2
      <4> QED
        BY <1>1, <4>1, <4>2 DEF Closed
    <3> QED
      BY <1>1, <2>3, <3>1, <3>2
  <2> QED
    BY <2>2, <2>3 DEF Closed
<1> QED
  BY <1>1, <1>3, <1>4, <1>5

(***************************************************************************)
(* Forests: the children of all the nodes there are.                       *)
(***************************************************************************)
Children(k, n) == ToSet(k[n]) \ {Hole}

\* n is nobody's child; no placeholder is among its children.
IsTop(k, n) == \A p \in Nodes : n \notin ToSet(k[p])
IsWhole(k, n) == Hole \notin ToSet(k[n])

\* Only a decorator that is nobody's child has a placeholder.
KidsOK(k) ==
    /\ k \in [Nodes -> Seq(Nodes \cup {Hole})] /\ Forest(k)
    /\ \A n \in Nodes : IsWhole(k, n) \/ (n \in Decorators /\ IsTop(k, n))

LEMMA KidsType ==
    ASSUME NEW k, KidsOK(k), NEW n \in Nodes
    PROVE  /\ k[n] \in Seq(Nodes \cup {Hole}) /\ Len(k[n]) \in Nat
           /\ DOMAIN k[n] = 1..Len(k[n])
           /\ \A i \in 1..Len(k[n]) : k[n][i] \in Nodes \cup {Hole}
           /\ Children(k, n) \subseteq Nodes
           /\ \A c \in Nodes : c \in Children(k, n) <=> \E i \in 1..Len(k[n]) : k[n][i] = c
<1>1. k[n] \in Seq(Nodes \cup {Hole})
  BY DEF KidsOK
<1>2. Len(k[n]) \in Nat /\ DOMAIN k[n] = 1..Len(k[n]) /\ \A i \in 1..Len(k[n]) : k[n][i] \in Nodes \cup {Hole}
  BY <1>1
<1>3. Hole \notin Nodes
  BY BuilderAssumption
<1> QED
  BY <1>1, <1>2, <1>3 DEF Children, ToSet

LEMMA ForestGrounded ==
    ASSUME NEW k, KidsOK(k)
    PROVE  Grounded([m \in Nodes |-> Children(k, m)])
<1> DEFINE down == [m \in Nodes |-> Children(k, m)]
<1>1. \A m \in Nodes : down[m] \subseteq Nodes /\ down[m] \subseteq ToSet(k[m])
  BY KidsType DEF Children
<1>2. DOMAIN k = Nodes
  BY DEF KidsOK
<1>3. \A S \in (SUBSET Nodes) \ {{}} : \E m \in S : ToSet(k[m]) \cap S = {}
  BY <1>2 DEF KidsOK, Forest
<1>4. \A S \in (SUBSET Nodes) \ {{}} : \E m \in S : down[m] \cap S = {}
  BY <1>1, <1>3
<1> QED
  BY <1>1, <1>4 DEF Grounded

LEMMA UnderLeast ==
    ASSUME NEW k, KidsOK(k), NEW n \in Nodes
    PROVE  /\ n \in Under(k, n) /\ Under(k, n) \subseteq Nodes
           /\ \A m \in Under(k, n) : Children(k, m) \subseteq Under(k, n)
           /\ \A S \in SUBSET Nodes :
                 n \in S /\ (\A m \in S : Children(k, m) \subseteq S) => Under(k, n) \subseteq S
<1> DEFINE down == [m \in Nodes |-> Children(k, m)]
<1>1. Grounded(down) /\ DOMAIN down = Nodes
  BY ForestGrounded
<1>2. Under(k, n) = Below(down, n)
  BY DEF Under, Children
<1>3. \A m \in Nodes : down[m] = Children(k, m)
  OBVIOUS
<1> HIDE DEF down
<1>4. \A S \in SUBSET Nodes : Closed(down, S) <=> \A m \in S : Children(k, m) \subseteq S
  BY <1>3 DEF Closed
<1> QED
  BY <1>1, <1>2, <1>4, BelowLeast

\* What is below n, and is not n, is a child of something below n.
LEMMA UnderStep ==
    ASSUME NEW k, KidsOK(k), NEW n \in Nodes, NEW m \in Under(k, n), m # n
    PROVE  \E p \in Under(k, n) : m \in Children(k, p)
<1> DEFINE S == {x \in Under(k, n) : x = n \/ \E p \in Under(k, n) : x \in Children(k, p)}
<1>1. S \in SUBSET Nodes /\ n \in S /\ \A x \in S : Children(k, x) \subseteq S
  BY UnderLeast
<1>2. Under(k, n) \subseteq S
  <2> HIDE DEF S
  <2> QED
    BY <1>1, UnderLeast
<1> QED
  BY <1>2

LEMMA UnderInside ==
    ASSUME NEW k, KidsOK(k), NEW n \in Nodes, NEW m \in Under(k, n)
    PROVE  Under(k, m) \subseteq Under(k, n)
BY UnderLeast

LEMMA TopIsAlone ==
    ASSUME NEW k, KidsOK(k), NEW n \in Nodes, NEW m \in Under(k, n), IsTop(k, m)
    PROVE  m = n
<1>1. \A p \in Under(k, n) : p \in Nodes /\ Children(k, p) \subseteq ToSet(k[p])
  BY UnderLeast DEF Children
<1> QED
  BY <1>1, UnderStep DEF IsTop

\* Forests that agree on the nodes below n have the same nodes there.
LEMMA UnderSame ==
    ASSUME NEW k, KidsOK(k), NEW k2, KidsOK(k2), NEW n \in Nodes,
           \A m \in Under(k, n) : k2[m] = k[m]
    PROVE  Under(k2, n) = Under(k, n)
<1>1. \A m \in Under(k, n) : Children(k2, m) = Children(k, m)
  BY DEF Children
<1>2. Under(k2, n) \subseteq Under(k, n)
  BY <1>1, UnderLeast
<1>3. Under(k, n) \subseteq Under(k2, n)
  <2> DEFINE S == {m \in Under(k, n) : m \in Under(k2, n)}
  <2>1. S \in SUBSET Nodes /\ n \in S /\ \A m \in S : Children(k, m) \subseteq S
    BY <1>1, UnderLeast
  <2>2. Under(k, n) \subseteq S
    <3> HIDE DEF S
    <3> QED
      BY <2>1, UnderLeast
  <2> QED
    BY <2>2
<1> QED
  BY <1>2, <1>3

\* No node is below its own child.
LEMMA ChildIsBelow ==
    ASSUME NEW k, KidsOK(k), NEW p \in Nodes, NEW c \in Children(k, p)
    PROVE  c \in Nodes /\ p \notin Under(k, c)
<1>1. c \in Nodes
  BY KidsType
<1> SUFFICES ASSUME p \in Under(k, c) PROVE FALSE
  BY <1>1
<1> DEFINE S == {m \in Under(k, c) : p \in Under(k, m)}
<1>2. c \in S /\ S \in SUBSET Nodes
  BY <1>1, UnderLeast
<1>3. PICK m \in S : ToSet(k[m]) \cap S = {}
  <2> HIDE DEF S
  <2>1. DOMAIN k = Nodes
    BY DEF KidsOK
  <2> QED
    BY <1>2, <2>1 DEF KidsOK, Forest
<1>4. m # p
  BY <1>2, <1>3 DEF Children
<1>5. m \in Nodes /\ p \in Under(k, m)
  BY <1>2
<1>6. PICK d \in Children(k, m) : p \in Under(k, d)
  <2> DEFINE T == {m} \cup {x \in Nodes : \E d \in Children(k, m) : x \in Under(k, d)}
  <2>1. \A d \in Children(k, m) : d \in Nodes
    BY <1>5, KidsType
  <2>2. \A x \in T : Children(k, x) \subseteq T
    <3> SUFFICES ASSUME NEW x \in T, NEW y \in Children(k, x) PROVE y \in T
      OBVIOUS
    <3>1. y \in Nodes
      BY <1>5, KidsType
    <3>2. CASE x = m
      BY <2>1, <3>1, <3>2, UnderLeast
    <3>3. CASE x # m
      BY <2>1, <3>1, <3>3, UnderLeast
    <3> QED
      BY <3>2, <3>3
  <2>3. T \in SUBSET Nodes /\ m \in T
    BY <1>5
  <2>4. Under(k, m) \subseteq T
    <3> HIDE DEF T
    <3> QED
      BY <1>5, <2>2, <2>3, UnderLeast
  <2> QED
    BY <1>4, <1>5, <2>4
<1>7. d \in S
  BY <1>1, <1>3, <1>6, UnderLeast
<1> QED
  BY <1>3, <1>6, <1>7 DEF Children

Distinct(seq) == \A i, j \in DOMAIN seq : seq[i] = seq[j] => i = j

\* p gets other children: of those it had, and of the tops in N that it is not below.
LEMMA Regrown ==
    ASSUME NEW k, KidsOK(k), NEW p \in Nodes \ Leaves, NEW N \in SUBSET Nodes,
           \A x \in N : IsTop(k, x) /\ IsWhole(k, x) /\ p \notin Under(k, x),
           NEW seq \in Seq(Nodes), Distinct(seq), ToSet(seq) \subseteq Children(k, p) \cup N,
           p \in Decorators => Len(seq) = 1
    PROVE  LET k2 == [k EXCEPT ![p] = seq] IN
           /\ KidsOK(k2)
           /\ \A m \in Nodes \ N : IsTop(k, m) => IsTop(k2, m)
           /\ \A m \in Nodes \ {p} : k2[m] = k[m]
           /\ k2[p] = seq
<1> DEFINE k2 == [k EXCEPT ![p] = seq]
<1>1. k \in [Nodes -> Seq(Nodes \cup {Hole})] /\ DOMAIN k = Nodes /\ Hole \notin Nodes
  BY BuilderAssumption DEF KidsOK
<1>2. /\ \A m \in Nodes \ {p} : k2[m] = k[m]
      /\ k2[p] = seq /\ DOMAIN k2 = Nodes
  BY <1>1
<1> SUFFICES /\ KidsOK(k2)
             /\ \A m \in Nodes \ N : IsTop(k, m) => IsTop(k2, m)
             /\ \A m \in Nodes \ {p} : k2[m] = k[m]
             /\ k2[p] = seq
  OBVIOUS
<1> HIDE DEF k2
<1>3. seq \in Seq(Nodes \cup {Hole}) /\ \A i \in DOMAIN seq : seq[i] \in Nodes /\ seq[i] \in ToSet(seq)
  BY DEF ToSet
<1>4. k2 \in [Nodes -> Seq(Nodes \cup {Hole})]
  BY <1>1, <1>3 DEF k2
<1>5. \A m \in Nodes \ N : IsTop(k, m) => IsTop(k2, m)
  BY <1>2 DEF IsTop, Children
<1>6. \A m \in Nodes : IsWhole(k2, m) \/ (m \in Decorators /\ IsTop(k2, m))
  <2>1. IsWhole(k2, p)
    BY <1>1, <1>2, <1>3 DEF IsWhole, ToSet
  <2>2. \A m \in Nodes \ {p} : IsWhole(k, m) => IsWhole(k2, m)
    BY <1>2 DEF IsWhole
  <2> QED
    BY <1>5, <2>1, <2>2 DEF KidsOK
<1>7. ASSUME NEW q \in Nodes, NEW r \in Nodes, NEW i \in DOMAIN k2[q], NEW j \in DOMAIN k2[r],
             k2[q][i] = k2[r][j], k2[q][i] # Hole
      PROVE  q = r /\ i = j
  <2>1. ASSUME NEW x \in Nodes, NEW a \in DOMAIN k[x], NEW y \in Nodes, NEW b \in DOMAIN k[y],
               k[x][a] = k[y][b], k[x][a] # Hole
        PROVE  x = y /\ a = b
    BY <1>1, <2>1 DEF KidsOK, Forest
  <2>2. ASSUME NEW a \in DOMAIN seq, NEW y \in Nodes \ {p}, NEW b \in DOMAIN k[y], seq[a] = k[y][b]
        PROVE  FALSE
    <3>1. seq[a] \in Children(k, p) \/ seq[a] \in N
      BY <1>3
    <3>2. CASE seq[a] \in N
      BY <2>2, <3>2 DEF IsTop, ToSet
    <3>3. CASE seq[a] \in Children(k, p)
      <4>1. PICK c \in DOMAIN k[p] : k[p][c] = seq[a] /\ seq[a] # Hole
        BY <3>3 DEF Children, ToSet
      <4> QED
        BY <2>1, <2>2, <4>1
    <3> QED
      BY <3>1, <3>2, <3>3
  <2>3. CASE q = p /\ r = p
    BY <1>2, <1>7, <2>3 DEF Distinct
  <2>4. CASE q = p /\ r # p
    BY <1>2, <1>7, <2>2, <2>4
  <2>5. CASE q # p /\ r = p
    BY <1>2, <1>7, <2>2, <2>5
  <2>6. CASE q # p /\ r # p
    BY <1>2, <1>7, <2>1, <2>6
  <2> QED
    BY <2>3, <2>4, <2>5, <2>6
<1>8. ASSUME NEW S \in (SUBSET Nodes) \ {{}} PROVE \E n \in S : ToSet(k2[n]) \cap S = {}
  <2> DEFINE U == UNION {Under(k, x) : x \in N}
  <2>1. U \subseteq Nodes /\ p \notin U /\ N \subseteq U /\ \A m \in U : Children(k, m) \subseteq U
    BY UnderLeast
  <2>2. ASSUME NEW T \in (SUBSET Nodes) \ {{}} PROVE \E n \in T : ToSet(k[n]) \cap T = {}
    BY <1>1, <2>2 DEF KidsOK, Forest
  <2> HIDE DEF U
  <2>3. CASE S \cap U # {}
    <3>1. PICK n \in S \cap U : ToSet(k[n]) \cap (S \cap U) = {}
      BY <2>2, <2>3
    <3>2. k2[n] = k[n] /\ Children(k, n) \subseteq U
      BY <1>2, <2>1, <3>1
    <3>3. ToSet(k2[n]) \cap S = {}
      BY <1>1, <3>1, <3>2 DEF Children
    <3> QED
      BY <3>1, <3>3
  <2>4. CASE S \cap U = {}
    <3>1. PICK n \in S : ToSet(k[n]) \cap S = {}
      BY <2>2
    <3>2. ToSet(k2[n]) \subseteq ToSet(k[n]) \cup U
      BY <1>2, <2>1 DEF Children
    <3> QED
      BY <2>4, <3>1, <3>2
  <2> QED
    BY <2>3, <2>4
<1>9. \A n \in Nodes : (n \in Decorators => Len(k2[n]) = 1) /\ (n \in Leaves => k2[n] = <<>>)
  BY <1>1, <1>2 DEF KidsOK, Forest
<1>10. Forest(k2)
  BY <1>2, <1>7, <1>8, <1>9 DEF Forest
<1> QED
  BY <1>2, <1>4, <1>5, <1>6, <1>10 DEF KidsOK

(***************************************************************************)
(* Sequences of children.                                                  *)
(***************************************************************************)
LEMMA DistinctKids ==
    ASSUME NEW k, KidsOK(k), NEW p \in Nodes, IsWhole(k, p)
    PROVE  Distinct(k[p]) /\ k[p] \in Seq(Nodes) /\ ToSet(k[p]) = Children(k, p)
<1>1. \A i \in DOMAIN k[p] : k[p][i] # Hole
  BY DEF IsWhole, ToSet
<1>2. DOMAIN k = Nodes
  BY DEF KidsOK
<1>3. Distinct(k[p])
  BY <1>1, <1>2 DEF Distinct, KidsOK, Forest
<1>4. k[p] \in Seq(Nodes)
  BY <1>1, KidsType
<1>5. ToSet(k[p]) = Children(k, p)
  BY DEF IsWhole, Children
<1> QED
  BY <1>3, <1>4, <1>5

LEMMA AppendDistinct ==
    ASSUME NEW seq \in Seq(Nodes), Distinct(seq), NEW n \in Nodes, n \notin ToSet(seq)
    PROVE  Append(seq, n) \in Seq(Nodes) /\ Distinct(Append(seq, n)) /\ ToSet(Append(seq, n)) = ToSet(seq) \cup {n}
<1> DEFINE s == Append(seq, n)
<1>1. /\ s \in Seq(Nodes) /\ Len(s) = Len(seq) + 1 /\ Len(seq) \in Nat
      /\ \A i \in 1..Len(seq) : s[i] = seq[i]
      /\ s[Len(seq) + 1] = n
  BY AppendProperties
<1>2. DOMAIN s = 1..Len(seq) + 1 /\ DOMAIN seq = 1..Len(seq)
  BY <1>1
<1> HIDE DEF s
<1>3. \A i \in DOMAIN s : i \in 1..Len(seq) \/ i = Len(seq) + 1
  BY <1>1, <1>2
<1>4. Distinct(s)
  BY <1>1, <1>2, <1>3 DEF Distinct, ToSet
<1>5. ToSet(s) = ToSet(seq) \cup {n}
  BY <1>1, <1>2, <1>3 DEF ToSet
<1> QED
  BY <1>1, <1>4, <1>5 DEF s

LEMMA InsertDistinct ==
    ASSUME NEW seq \in Seq(Nodes), Distinct(seq), NEW n \in Nodes, n \notin ToSet(seq),
           NEW at \in 1..Len(seq) + 1
    PROVE  LET s == InsertAt(seq, at, n) IN
           s \in Seq(Nodes) /\ Distinct(s) /\ ToSet(s) = ToSet(seq) \cup {n}
<1> DEFINE a == SubSeq(seq, 1, at - 1)
           b == SubSeq(seq, at, Len(seq))
           s == InsertAt(seq, at, n)
           len == Len(seq)
<1>1. len \in Nat /\ at \in Int /\ at >= 1 /\ at <= len + 1 /\ DOMAIN seq = 1..len /\ \A i \in 1..len : seq[i] \in Nodes
  OBVIOUS
<1>2. a \in Seq(Nodes) /\ Len(a) = at - 1 /\ \A i \in 1..at - 1 : a[i] = seq[i]
  <2>1. \A i \in 1..at - 1 : seq[i] \in Nodes
    BY <1>1
  <2>2. /\ a \in Seq(Nodes) /\ Len(a) = IF 1 <= at - 1 THEN at - 1 - 1 + 1 ELSE 0
        /\ \A i \in 1..at - 1 - 1 + 1 : a[i] = seq[1 + i - 1]
    BY <1>1, <2>1, SubSeqProperties
  <2> HIDE DEF a
  <2> QED
    BY <1>1, <2>2
<1>3. b \in Seq(Nodes) /\ Len(b) = len - at + 1 /\ \A i \in 1..len - at + 1 : b[i] = seq[at + i - 1]
  <2>1. \A i \in at..len : seq[i] \in Nodes
    BY <1>1
  <2>2. /\ b \in Seq(Nodes) /\ Len(b) = IF at <= len THEN len - at + 1 ELSE 0
        /\ \A i \in 1..len - at + 1 : b[i] = seq[at + i - 1]
    BY <1>1, <2>1, SubSeqProperties
  <2> HIDE DEF b
  <2> QED
    BY <1>1, <2>2
<1>4. s = a \o <<n>> \o b
  BY DEF InsertAt
<1> HIDE DEF a, b, s, len
<1>5. /\ s \in Seq(Nodes) /\ Len(s) = len + 1
      /\ \A i \in 1..len + 1 : s[i] = IF i < at THEN seq[i] ELSE IF i = at THEN n ELSE seq[i - 1]
  <2>1. <<n>> \in Seq(Nodes) /\ Len(<<n>>) = 1 /\ <<n>>[1] = n
    OBVIOUS
  <2>2. /\ a \o <<n>> \in Seq(Nodes) /\ Len(a \o <<n>>) = at
        /\ \A i \in 1..at : (a \o <<n>>)[i] = IF i < at THEN seq[i] ELSE n
    <3>1. /\ a \o <<n>> \in Seq(Nodes) /\ Len(a \o <<n>>) = Len(a) + 1
          /\ \A i \in 1..Len(a) + 1 : (a \o <<n>>)[i] = IF i <= Len(a) THEN a[i] ELSE <<n>>[i - Len(a)]
      BY <1>2, <2>1, ConcatProperties
    <3> QED
      BY <1>1, <1>2, <2>1, <3>1
  <2> DEFINE c == a \o <<n>>
  <2> HIDE DEF c
  <2>3. /\ c \o b \in Seq(Nodes) /\ Len(c \o b) = Len(c) + Len(b)
        /\ \A i \in 1..Len(c) + Len(b) : (c \o b)[i] = IF i <= Len(c) THEN c[i] ELSE b[i - Len(c)]
    BY <1>3, <2>2, ConcatProperties DEF c
  <2>4. Len(c) = at /\ \A i \in 1..at : c[i] = IF i < at THEN seq[i] ELSE n
    BY <2>2 DEF c
  <2>5. s = c \o b
    BY <1>4 DEF c
  <2>6. Len(s) = len + 1 /\ s \in Seq(Nodes)
    BY <1>1, <1>3, <2>3, <2>4, <2>5
  <2>7. ASSUME NEW i \in 1..len + 1
        PROVE  s[i] = IF i < at THEN seq[i] ELSE IF i = at THEN n ELSE seq[i - 1]
    <3>1. CASE i <= at
      BY <1>1, <1>3, <2>3, <2>4, <2>5, <3>1
    <3>2. CASE i > at
      <4>1. i - at \in 1..len - at + 1 /\ i \in 1..Len(c) + Len(b) /\ ~(i <= Len(c))
        BY <1>1, <1>3, <2>4, <3>2
      <4>4. s[i] = b[i - at]
        BY <2>3, <2>4, <2>5, <4>1
      <4>2. b[i - at] = seq[at + (i - at) - 1]
        BY <1>3, <4>1
      <4>3. at + (i - at) - 1 = i - 1
        BY <1>1
      <4> QED
        BY <1>1, <3>2, <4>2, <4>3, <4>4
    <3> QED
      BY <1>1, <3>1, <3>2
  <2> QED
    BY <2>6, <2>7
<1>6. DOMAIN s = 1..len + 1
  BY <1>5
<1>7. \A i \in 1..len : seq[i] # n
  BY <1>1 DEF ToSet
<1>8. Distinct(s)
  <2> SUFFICES ASSUME NEW i \in 1..len + 1, NEW j \in 1..len + 1, s[i] = s[j] PROVE i = j
    BY <1>6 DEF Distinct
  <2>1. \A x, y \in 1..len : seq[x] = seq[y] => x = y
    BY <1>1 DEF Distinct
  <2> QED
    BY <1>1, <1>5, <1>7, <2>1
<1>9. ToSet(s) = ToSet(seq) \cup {n}
  <2>1. ASSUME NEW i \in 1..len + 1 PROVE s[i] \in ToSet(seq) \cup {n}
    <3>1. CASE i < at
      <4>1. s[i] = seq[i] /\ i \in 1..len
        BY <1>1, <1>5, <3>1
      <4> QED
        BY <1>1, <4>1 DEF ToSet
    <3>2. CASE i = at
      BY <1>1, <1>5, <3>2
    <3>3. CASE i > at
      <4>1. s[i] = seq[i - 1] /\ i - 1 \in 1..len
        BY <1>1, <1>5, <3>3
      <4> QED
        BY <1>1, <4>1 DEF ToSet
    <3> QED
      BY <1>1, <3>1, <3>2, <3>3
  <2>2. n \in ToSet(s)
    BY <1>1, <1>5, <1>6 DEF ToSet
  <2>3. ASSUME NEW i \in 1..len PROVE seq[i] \in ToSet(s)
    <3>1. s[i] = seq[i] \/ s[i + 1] = seq[i]
      BY <1>1, <1>5
    <3> QED
      BY <1>1, <1>6, <3>1 DEF ToSet
  <2> QED
    BY <1>1, <1>6, <2>1, <2>2, <2>3 DEF ToSet
<1> QED
  BY <1>5, <1>8, <1>9 DEF s

LEMMA RemoveDistinct ==
    ASSUME NEW seq \in Seq(Nodes), Distinct(seq), NEW at \in 1..Len(seq)
    PROVE  LET s == RemoveAt(seq, at) IN
           s \in Seq(Nodes) /\ Distinct(s) /\ ToSet(s) = ToSet(seq) \ {seq[at]}
<1> DEFINE a == SubSeq(seq, 1, at - 1)
           b == SubSeq(seq, at + 1, Len(seq))
           s == RemoveAt(seq, at)
           len == Len(seq)
<1>1. len \in Nat /\ at \in Int /\ at >= 1 /\ at <= len /\ DOMAIN seq = 1..len /\ \A i \in 1..len : seq[i] \in Nodes
  OBVIOUS
<1>2. a \in Seq(Nodes) /\ Len(a) = at - 1 /\ \A i \in 1..at - 1 : a[i] = seq[i]
  <2>1. \A i \in 1..at - 1 : seq[i] \in Nodes
    BY <1>1
  <2>2. /\ a \in Seq(Nodes) /\ Len(a) = IF 1 <= at - 1 THEN at - 1 - 1 + 1 ELSE 0
        /\ \A i \in 1..at - 1 - 1 + 1 : a[i] = seq[1 + i - 1]
    BY <1>1, <2>1, SubSeqProperties
  <2> HIDE DEF a
  <2> QED
    BY <1>1, <2>2
<1>3. b \in Seq(Nodes) /\ Len(b) = len - at /\ \A i \in 1..len - at : b[i] = seq[at + i]
  <2>1. \A i \in at + 1..len : seq[i] \in Nodes
    BY <1>1
  <2>2. /\ b \in Seq(Nodes) /\ Len(b) = IF at + 1 <= len THEN len - (at + 1) + 1 ELSE 0
        /\ \A i \in 1..len - (at + 1) + 1 : b[i] = seq[at + 1 + i - 1]
    BY <1>1, <2>1, SubSeqProperties
  <2> HIDE DEF b
  <2>3. len - (at + 1) + 1 = len - at /\ \A i \in 1..len - at : at + 1 + i - 1 = at + i
    BY <1>1
  <2>4. Len(b) = len - at
    <3>1. CASE at + 1 <= len
      BY <2>2, <2>3, <3>1
    <3>2. CASE ~(at + 1 <= len)
      <4>1. len - at = 0
        <5> HIDE DEF len
        <5>1. len \in Int /\ at \in Int /\ at <= len
          BY <1>1
        <5> QED
          BY <5>1, <3>2
      <4> QED
        BY <2>2, <3>2, <4>1
    <3> QED
      BY <3>1, <3>2
  <2> QED
    BY <2>2, <2>3, <2>4
<1>4. s = a \o b
  BY DEF RemoveAt
<1> HIDE DEF a, b, s, len
<1>5. /\ s \in Seq(Nodes) /\ Len(s) = len - 1
      /\ \A i \in 1..len - 1 : s[i] = IF i < at THEN seq[i] ELSE seq[i + 1]
  <2>1. /\ s \in Seq(Nodes) /\ Len(s) = Len(a) + Len(b)
        /\ \A i \in 1..Len(a) + Len(b) : s[i] = IF i <= Len(a) THEN a[i] ELSE b[i - Len(a)]
    BY <1>2, <1>3, <1>4, ConcatProperties
  <2>2. ASSUME NEW i \in 1..len - 1 PROVE s[i] = IF i < at THEN seq[i] ELSE seq[i + 1]
    <3>1. CASE i < at
      BY <1>1, <1>2, <1>3, <2>1, <3>1
    <3>2. CASE i >= at
      <4>1. s[i] = b[i - (at - 1)] /\ i - (at - 1) \in 1..len - at
        BY <1>1, <1>2, <1>3, <2>1, <3>2
      <4>2. b[i - (at - 1)] = seq[at + (i - (at - 1))]
        BY <1>3, <4>1
      <4>3. at + (i - (at - 1)) = i + 1
        BY <1>1
      <4> QED
        BY <1>1, <3>2, <4>1, <4>2, <4>3
    <3> QED
      BY <1>1, <3>1, <3>2
  <2> QED
    BY <1>1, <1>2, <1>3, <2>1, <2>2
<1>6. DOMAIN s = 1..len - 1
  BY <1>5
<1>7. \A x, y \in 1..len : seq[x] = seq[y] => x = y
  BY <1>1 DEF Distinct
<1>8. Distinct(s)
  <2> SUFFICES ASSUME NEW i \in 1..len - 1, NEW j \in 1..len - 1, s[i] = s[j] PROVE i = j
    BY <1>6 DEF Distinct
  <2> QED
    BY <1>1, <1>5, <1>7
<1>9. ToSet(s) = ToSet(seq) \ {seq[at]}
  <2>1. ASSUME NEW i \in 1..len - 1 PROVE s[i] \in ToSet(seq) \ {seq[at]}
    <3>1. CASE i < at
      <4>1. s[i] = seq[i] /\ i \in 1..len /\ i # at
        BY <1>1, <1>5, <3>1
      <4> QED
        BY <1>1, <1>7, <4>1 DEF ToSet
    <3>2. CASE i >= at
      <4>1. s[i] = seq[i + 1] /\ i + 1 \in 1..len /\ i + 1 # at
        BY <1>1, <1>5, <3>2
      <4> QED
        BY <1>1, <1>7, <4>1 DEF ToSet
    <3> QED
      BY <1>1, <3>1, <3>2
  <2>2. ASSUME NEW i \in 1..len, i # at PROVE seq[i] \in ToSet(s)
    <3>1. CASE i < at
      <4>1. i \in 1..len - 1 /\ s[i] = seq[i]
        BY <1>1, <1>5, <3>1
      <4> QED
        BY <1>6, <4>1 DEF ToSet
    <3>2. CASE i > at
      <4>1. i - 1 \in 1..len - 1 /\ s[i - 1] = seq[i]
        BY <1>1, <1>5, <3>2
      <4> QED
        BY <1>6, <4>1 DEF ToSet
    <3> QED
      BY <1>1, <2>2, <3>1, <3>2
  <2> QED
    BY <1>1, <1>6, <2>1, <2>2 DEF ToSet
<1> QED
  BY <1>5, <1>8, <1>9 DEF s

(***************************************************************************)
(* The inductive invariant.                                                *)
(***************************************************************************)
RootOK(k, r) == r \in Nodes /\ IsTop(k, r) /\ IsWhole(k, r)

\* Where a node is: only a RUNNING one remembers a child.
PlaceOK(s, n) ==
    /\ s.place[n].cursor \in 1..Len(s.kids[n]) \cup {1}
    /\ s.place[n].running \in 0..Len(s.kids[n])
    /\ s.place[n].cursor # 1 => n \in Ordered /\ s.status[n] = "RUNNING"
RestOK(s, n) == s.place[n].running # 0 => n \in Reactive /\ s.status[n] = "RUNNING"

\* What is RUNNING below n, unless it is in out, is the child that n waits for.
WaitBut(s, n, out) ==
    \A i \in DOMAIN s.kids[n] :
        s.kids[n][i] \in (Nodes \ out) /\ s.status[s.kids[n][i]] = "RUNNING" =>
            /\ s.status[n] = "RUNNING"
            /\ n \in Ordered => s.place[n].cursor = i
            /\ n \in Reactive => s.place[n].running = i

\* n has its i-th child behind it.
Behind(s, n, i) ==
    \/ n \in Ordered \cup Reactive /\ s.status[n] = Pass(n)
    \/ n \in Ordered /\ s.status[n] = "RUNNING" /\ i < s.place[n].cursor
    \/ n \in Reactive /\ s.status[n] = "RUNNING" /\ i < s.place[n].running

\* What n has behind it passed, or stands for what passed.
DoneOK(s, n) ==
    \A i \in DOMAIN s.kids[n] : Behind(s, n, i) => s.kids[n][i] \in s.passed[n] \cup s.heirs[n]

NodeBut(s, n, out) == PlaceOK(s, n) /\ RestOK(s, n) /\ WaitBut(s, n, out) /\ DoneOK(s, n)
NodeOK(s, n) == NodeBut(s, n, {})

Places == [cursor : Nat, running : Nat, dirty : BOOLEAN]
States == [kids : [Nodes -> Seq(Nodes \cup {Hole})], root : Nodes \cup {None},
           status : [Nodes -> Answer \cup {"IDLE"}], place : [Nodes -> Places],
           shown : SUBSET Nodes, passed : [Nodes -> SUBSET Nodes], heirs : [Nodes -> SUBSET Nodes]]

\* The Inspector shows only RUNNING nodes, or, when full, all of them.
ViewOK(s) == \A n \in s.shown : s.status[n] = "RUNNING"
ViewFull(s) == \A n \in Nodes : s.status[n] = "RUNNING" => n \in s.shown

IdleOutside(s, set) == \A n \in Nodes \ set : s.status[n] = "IDLE"

TreeOK(s) ==
    /\ s \in States /\ KidsOK(s.kids) /\ RootOK(s.kids, s.root) /\ ViewOK(s)
    /\ \A n \in Nodes : NodeOK(s, n)
    /\ IdleOutside(s, Under(s.kids, s.root))

\* While the tree is built: what was not added yet and what is an open scope is
\* nobody's child, and nothing was ticked.
BuilderOK ==
    /\ root # None => RootOK(kids, root)
    /\ added \subseteq Supplied
    /\ \A n \in Supplied \ added : IsTop(kids, n) /\ n # root
    /\ stack \in Seq(added \ Leaves) /\ Distinct(stack)
    /\ \A i \in DOMAIN stack : IsTop(kids, stack[i]) /\ stack[i] # root
    /\ status = [n \in Nodes |-> "IDLE"] /\ place = [n \in Nodes |-> Start]
    /\ shown = {} /\ pending = <<>> /\ ~applied

\* A node to be installed is the root of nothing that is used, and whole; no two
\* modifications install the same one.
Mods == [type : {"Replace"}, target : Nodes, at : {0}, new : Nodes]
   \cup [type : {"Insert"}, target : Nodes, at : Indices, new : Nodes]
   \cup [type : {"Remove"}, target : Nodes, at : Indices, new : {None}]

IsNew(k, r, n) == n \in Nodes /\ IsTop(k, n) /\ IsWhole(k, n) /\ n # r
ModsOK(k, r, mods) ==
    /\ mods \in Seq(Mods)
    /\ \A i \in DOMAIN mods : mods[i].new # None =>
          /\ IsNew(k, r, mods[i].new)
          /\ \A j \in DOMAIN mods : mods[i].new = mods[j].new => i = j

EditsInv ==
    /\ Now \in States /\ KidsOK(kids) /\ Len(pending) <= MaxPending
    /\ ~built => BuilderOK
    /\ built => TreeOK(Now) /\ ModsOK(kids, root, pending)
    /\ cleared \/ ViewFull(Now)

(***************************************************************************)
(* halt() of a set of nodes.                                               *)
(***************************************************************************)
AllUnder(k, roots) == UNION {Under(k, n) : n \in roots}

LEMMA AllUnderClosed ==
    ASSUME NEW k, KidsOK(k), NEW roots \in SUBSET Nodes
    PROVE  /\ AllUnder(k, roots) \subseteq Nodes /\ roots \subseteq AllUnder(k, roots)
           /\ \A m \in AllUnder(k, roots) : Children(k, m) \subseteq AllUnder(k, roots)
<1>1. \A n \in roots : /\ n \in Under(k, n) /\ Under(k, n) \subseteq Nodes
                       /\ \A m \in Under(k, n) : Children(k, m) \subseteq Under(k, n)
  BY UnderLeast
<1> QED
  BY <1>1 DEF AllUnder

LEMMA HaltedIs ==
    ASSUME NEW s \in States, KidsOK(s.kids), NEW roots \in SUBSET Nodes
    PROVE  LET all == AllUnder(s.kids, roots)
               h == Halted(s, roots)
           IN  /\ h \in States /\ h.kids = s.kids /\ h.root = s.root
               /\ \A n \in all : /\ h.status[n] = "IDLE" /\ h.place[n].cursor = 1
                                 /\ h.place[n].running = IF s.status[n] = "RUNNING" THEN 0
                                                         ELSE s.place[n].running
               /\ \A n \in Nodes \ all : /\ h.status[n] = s.status[n] /\ h.place[n] = s.place[n]
                                         /\ h.passed[n] = s.passed[n] /\ h.heirs[n] = s.heirs[n]
               /\ h.shown = s.shown \ {n \in all : s.status[n] = "RUNNING"}
<1> DEFINE all == AllUnder(s.kids, roots)
           stopped == {n \in all : s.status[n] = "RUNNING"}
           st == [n \in Nodes |-> IF n \in all THEN "IDLE" ELSE s.status[n]]
           pl == [n \in Nodes |->
                      [cursor  |-> IF n \in all THEN 1 ELSE s.place[n].cursor,
                       running |-> IF n \in stopped THEN 0 ELSE s.place[n].running,
                       dirty   |-> s.place[n].dirty]]
           sh == s.shown \ stopped
           pa == [n \in Nodes |-> IF n \in all THEN {} ELSE s.passed[n]]
           he == [n \in Nodes |-> IF n \in all THEN {} ELSE s.heirs[n]]
           h == Halted(s, roots)
<1>1. h = [s EXCEPT !.status = st, !.place = pl, !.shown = sh, !.passed = pa, !.heirs = he]
  BY DEF Halted, AllUnder, Shown
<1>2. all \subseteq Nodes
  BY AllUnderClosed
<1> HIDE DEF all
<1>3. /\ st \in [Nodes -> Answer \cup {"IDLE"}] /\ sh \in SUBSET Nodes
      /\ pa \in [Nodes -> SUBSET Nodes] /\ he \in [Nodes -> SUBSET Nodes]
  BY DEF States
<1>4. \A n \in Nodes : /\ pl[n] \in Places
                       /\ pl[n].cursor = IF n \in all THEN 1 ELSE s.place[n].cursor
                       /\ pl[n].running = IF n \in stopped THEN 0 ELSE s.place[n].running
                       /\ n \notin all => pl[n] = s.place[n]
  <2> SUFFICES ASSUME NEW n \in Nodes
               PROVE  /\ pl[n] \in Places
                      /\ pl[n].cursor = IF n \in all THEN 1 ELSE s.place[n].cursor
                      /\ pl[n].running = IF n \in stopped THEN 0 ELSE s.place[n].running
                      /\ n \notin all => pl[n] = s.place[n]
    OBVIOUS
  <2>1. s.place[n] \in Places
    BY DEF States
  <2> QED
    BY <2>1 DEF Places
<1>5. pl \in [Nodes -> Places]
  BY <1>4
<1>6. \A n \in Nodes : /\ st[n] = IF n \in all THEN "IDLE" ELSE s.status[n]
                       /\ pa[n] = IF n \in all THEN {} ELSE s.passed[n]
                       /\ he[n] = IF n \in all THEN {} ELSE s.heirs[n]
  OBVIOUS
<1> HIDE DEF st, pl, pa, he, h
<1>7. /\ h \in States /\ h.kids = s.kids /\ h.root = s.root /\ h.status = st /\ h.place = pl
      /\ h.shown = sh /\ h.passed = pa /\ h.heirs = he
  BY <1>1, <1>3, <1>5 DEF States
<1>8. \A n \in all : /\ h.status[n] = "IDLE" /\ h.place[n].cursor = 1
                     /\ h.place[n].running = IF s.status[n] = "RUNNING" THEN 0
                                             ELSE s.place[n].running
  BY <1>2, <1>4, <1>6, <1>7
<1>9. \A n \in Nodes \ all : /\ h.status[n] = s.status[n] /\ h.place[n] = s.place[n]
                             /\ h.passed[n] = s.passed[n] /\ h.heirs[n] = s.heirs[n]
  BY <1>4, <1>6, <1>7
<1> QED
  BY <1>7, <1>8, <1>9 DEF all, h

LEMMA HaltedOne ==
    ASSUME NEW s \in States, KidsOK(s.kids), NEW r \in Nodes
    PROVE  LET h == Halted(s, {r}) IN
           /\ h.kids = s.kids /\ h.root = s.root
           /\ \A n \in Under(s.kids, r) : h.status[n] = "IDLE"
           /\ \A n \in (Nodes \ Under(s.kids, r)) :
                 /\ h.status[n] = s.status[n] /\ h.place[n] = s.place[n]
                 /\ h.passed[n] = s.passed[n] /\ h.heirs[n] = s.heirs[n]
<1>1. {r} \in SUBSET Nodes /\ AllUnder(s.kids, {r}) = Under(s.kids, r)
  BY DEF AllUnder
<1>2. LET h == Halted(s, {r})
          all == AllUnder(s.kids, {r})
      IN  /\ h.kids = s.kids /\ h.root = s.root
          /\ \A n \in all : h.status[n] = "IDLE"
          /\ \A n \in Nodes \ all : /\ h.status[n] = s.status[n] /\ h.place[n] = s.place[n]
                                    /\ h.passed[n] = s.passed[n] /\ h.heirs[n] = s.heirs[n]
  BY <1>1, HaltedIs
<1> QED
  BY <1>1, <1>2

\* A node that was right, but for children that are halted too, is right.
LEMMA HaltedNode ==
    ASSUME NEW s \in States, KidsOK(s.kids), NEW roots \in SUBSET Nodes, NEW n \in Nodes,
           RestOK(s, n), n \in AllUnder(s.kids, roots) \/ NodeBut(s, n, AllUnder(s.kids, roots))
    PROVE  NodeOK(Halted(s, roots), n)
<1> DEFINE all == AllUnder(s.kids, roots)
           h == Halted(s, roots)
<1>1. /\ h \in States /\ h.kids = s.kids
      /\ \A m \in all : /\ h.status[m] = "IDLE" /\ h.place[m].cursor = 1
                        /\ h.place[m].running = IF s.status[m] = "RUNNING" THEN 0
                                                ELSE s.place[m].running
      /\ \A m \in Nodes \ all : /\ h.status[m] = s.status[m] /\ h.place[m] = s.place[m]
                                /\ h.passed[m] = s.passed[m] /\ h.heirs[m] = s.heirs[m]
  BY HaltedIs
<1>2. all \subseteq Nodes /\ \A m \in all : Children(s.kids, m) \subseteq all
  BY AllUnderClosed
<1>3. /\ Len(s.kids[n]) \in Nat /\ DOMAIN s.kids[n] = 1..Len(s.kids[n])
      /\ \A i \in DOMAIN s.kids[n] : s.kids[n][i] \in Nodes => s.kids[n][i] \in Children(s.kids, n)
  BY KidsType
<1> SUFFICES NodeOK(h, n)
  OBVIOUS
<1> HIDE DEF all, h
<1>4. CASE n \in all
  <2>1. h.place[n].cursor = 1 /\ h.place[n].running = 0 /\ h.status[n] = "IDLE"
    BY <1>1, <1>4 DEF RestOK
  <2>2. \A i \in DOMAIN h.kids[n] : h.kids[n][i] \in Nodes => h.status[h.kids[n][i]] = "IDLE"
    BY <1>1, <1>2, <1>3, <1>4
  <2>3. DoneOK(h, n)
    BY <2>1 DEF DoneOK, Behind, Pass
  <2> QED
    BY <1>1, <1>3, <2>1, <2>2, <2>3 DEF NodeOK, NodeBut, PlaceOK, RestOK, WaitBut
<1>5. CASE n \notin all
  <2>1. NodeBut(s, n, all)
    BY <1>5 DEF all
  <2>2. \A i \in DOMAIN h.kids[n] : h.kids[n][i] \in Nodes /\ h.status[h.kids[n][i]] = "RUNNING" =>
            h.kids[n][i] \in (Nodes \ all) /\ s.status[h.kids[n][i]] = "RUNNING"
    BY <1>1
  <2>3. h.status[n] = s.status[n] /\ h.place[n] = s.place[n] /\ h.passed[n] = s.passed[n] /\ h.heirs[n] = s.heirs[n]
    BY <1>1, <1>5
  <2>4. WaitBut(h, n, {})
    BY <1>1, <2>1, <2>2, <2>3 DEF NodeBut, WaitBut
  <2> QED
    BY <1>1, <2>1, <2>3, <2>4 DEF NodeOK, NodeBut, PlaceOK, RestOK, DoneOK, Behind
<1> QED
  BY <1>4, <1>5

LEMMA TreeHalted ==
    ASSUME NEW s \in States, KidsOK(s.kids), RootOK(s.kids, s.root), ViewOK(s),
           NEW roots \in SUBSET Nodes,
           \A n \in Nodes : /\ RestOK(s, n)
                            /\ \/ n \in AllUnder(s.kids, roots)
                               \/ NodeBut(s, n, AllUnder(s.kids, roots)),
           IdleOutside(s, Under(s.kids, s.root) \cup AllUnder(s.kids, roots))
    PROVE  LET h == Halted(s, roots) IN TreeOK(h) /\ (ViewFull(s) => ViewFull(h))
<1> DEFINE all == AllUnder(s.kids, roots)
           h == Halted(s, roots)
<1>1. /\ h \in States /\ h.kids = s.kids /\ h.root = s.root
      /\ \A m \in all : h.status[m] = "IDLE"
      /\ \A m \in Nodes \ all : h.status[m] = s.status[m]
      /\ h.shown = s.shown \ {m \in all : s.status[m] = "RUNNING"}
  BY HaltedIs
<1>2. \A n \in Nodes : NodeOK(h, n)
  BY HaltedNode
<1>3. s.shown \subseteq Nodes
  BY DEF States
<1> HIDE DEF all, h
<1>4. ViewOK(h)
  BY <1>1, <1>3 DEF ViewOK
<1>5. ViewFull(s) => ViewFull(h)
  BY <1>1 DEF ViewFull
<1>6. IdleOutside(h, Under(h.kids, h.root))
  BY <1>1 DEF IdleOutside, all
<1> QED
  BY <1>1, <1>2, <1>4, <1>5, <1>6 DEF TreeOK, h

LEMMA HaltedOK ==
    ASSUME NEW s, TreeOK(s), NEW roots \in SUBSET Nodes
    PROVE  LET h == Halted(s, roots) IN TreeOK(h) /\ (ViewFull(s) => ViewFull(h))
<1>1. s \in States /\ KidsOK(s.kids) /\ RootOK(s.kids, s.root) /\ ViewOK(s)
  BY DEF TreeOK
<1>2. \A n \in Nodes : RestOK(s, n) /\ NodeBut(s, n, AllUnder(s.kids, roots))
  BY DEF TreeOK, NodeOK, NodeBut, WaitBut
<1>3. IdleOutside(s, Under(s.kids, s.root) \cup AllUnder(s.kids, roots))
  BY DEF TreeOK, IdleOutside
<1> QED
  BY <1>1, <1>2, <1>3, TreeHalted

(***************************************************************************)
(* Modifications: a node of the tree gets other children.                  *)
(***************************************************************************)
\* What is below two nodes that are nobody's children is below one.
LEMMA TopsApart ==
    ASSUME NEW k, KidsOK(k), NEW a \in Nodes, NEW b \in Nodes, IsTop(k, a), IsTop(k, b),
           NEW m \in Under(k, a), m \in Under(k, b)
    PROVE  a = b
<1> SUFFICES ASSUME a # b PROVE FALSE
  OBVIOUS
<1> DEFINE S == {x \in Under(k, a) : x \notin Under(k, b)}
<1>1. a \in S /\ S \in SUBSET Nodes
  BY UnderLeast, TopIsAlone
<1>2. ASSUME NEW x \in S, NEW c \in Children(k, x) PROVE c \in S
  <2>1. c \in Under(k, a) /\ x \in Nodes /\ c \in Nodes
    BY UnderLeast, KidsType
  <2>2. SUFFICES ASSUME c \in Under(k, b) PROVE FALSE
    BY <2>1
  <2>3. c # b
    BY <2>1 DEF IsTop, Children
  <2>4. PICK q \in Under(k, b) : c \in Children(k, q)
    BY <2>2, <2>3, UnderStep
  <2>5. q \in Nodes /\ DOMAIN k = Nodes
    BY UnderLeast DEF KidsOK
  <2>6. q = x
    BY <2>1, <2>4, <2>5 DEF Children, ToSet, KidsOK, Forest
  <2> QED
    BY <2>4, <2>6
<1>3. Under(k, a) \subseteq S
  <2> HIDE DEF S
  <2> QED
    BY <1>1, <1>2, UnderLeast
<1> QED
  BY <1>3

\* What p loses takes with it only what is below it.
LEMMA StillBelow ==
    ASSUME NEW k, KidsOK(k), NEW k2, KidsOK(k2), NEW r \in Nodes, NEW p \in Nodes,
           \A m \in Nodes \ {p} : k2[m] = k[m],
           NEW G \in SUBSET Nodes, Children(k, p) \subseteq Children(k2, p) \cup G
    PROVE  Under(k, r) \subseteq Under(k2, r) \cup AllUnder(k, G)
<1> DEFINE S == Under(k2, r) \cup AllUnder(k, G)
<1>1. r \in S /\ S \in SUBSET Nodes
  BY UnderLeast, AllUnderClosed
<1>2. \A m \in S : Children(k, m) \subseteq S
  <2> SUFFICES ASSUME NEW m \in Under(k2, r) PROVE Children(k, m) \subseteq S
    BY AllUnderClosed
  <2>1. Children(k2, m) \subseteq Under(k2, r) /\ m \in Nodes
    BY UnderLeast
  <2>2. CASE m = p
    BY <2>1, <2>2, AllUnderClosed
  <2>3. CASE m # p
    BY <2>1, <2>3 DEF Children
  <2> QED
    BY <2>2, <2>3
<1> HIDE DEF S
<1>3. Under(k, r) \subseteq S
  BY <1>1, <1>2, UnderLeast
<1> QED
  BY <1>3 DEF S

\* A new node has nothing in common with the tree.
LEMMA NewIsApart ==
    ASSUME NEW k, KidsOK(k), NEW r, RootOK(k, r), NEW x, IsNew(k, r, x)
    PROVE  \A m \in Under(k, r) : m \notin Under(k, x)
<1>1. r \in Nodes /\ IsTop(k, r) /\ x \in Nodes /\ IsTop(k, x) /\ x # r
  BY DEF RootOK, IsNew
<1> QED
  BY <1>1, TopsApart

\* p gets other children: of those it had, and new ones.
Rekids(k, p, N, k2) ==
    /\ k2 \in [Nodes -> Seq(Nodes \cup {Hole})] /\ \A m \in Nodes \ {p} : k2[m] = k[m]
    /\ k2[p] \in Seq(Nodes) /\ Distinct(k2[p]) /\ ToSet(k2[p]) \subseteq Children(k, p) \cup N
    /\ p \in Decorators => Len(k2[p]) = 1

LEMMA Rekidded ==
    ASSUME NEW k, KidsOK(k), NEW r, RootOK(k, r), NEW p \in Under(k, r), p \notin Leaves,
           NEW N, \A x \in N : IsNew(k, r, x), NEW k2, Rekids(k, p, N, k2)
    PROVE  /\ KidsOK(k2) /\ RootOK(k2, r)
           /\ \A m : m \notin N /\ IsNew(k, r, m) => IsNew(k2, r, m)
<1> DEFINE seq == k2[p]
<1>1. p \in Nodes \ Leaves /\ r \in Nodes
  BY UnderLeast DEF RootOK
<1>2. N \in SUBSET Nodes /\ \A x \in N : IsTop(k, x) /\ IsWhole(k, x) /\ p \notin Under(k, x)
  BY NewIsApart DEF IsNew
<1>3. /\ k2 \in [Nodes -> Seq(Nodes \cup {Hole})] /\ \A m \in Nodes \ {p} : k2[m] = k[m]
      /\ seq \in Seq(Nodes) /\ Distinct(seq) /\ ToSet(seq) \subseteq Children(k, p) \cup N
      /\ p \in Decorators => Len(seq) = 1
  BY DEF Rekids
<1>4. k2 = [k EXCEPT ![p] = seq]
  <2>1. k \in [Nodes -> Seq(Nodes \cup {Hole})]
    BY DEF KidsOK
  <2> QED
    BY <1>1, <1>3, <2>1
<1> HIDE DEF seq
<1>5. KidsOK(k2) /\ \A m \in Nodes \ N : IsTop(k, m) => IsTop(k2, m)
  <2>1. KidsOK([k EXCEPT ![p] = seq])
    BY <1>1, <1>2, <1>3, Regrown
  <2>2. \A m \in Nodes \ N : IsTop(k, m) => IsTop([k EXCEPT ![p] = seq], m)
    BY <1>1, <1>2, <1>3, Regrown
  <2> QED
    BY <1>4, <2>1, <2>2
<1>6. \A m \in Nodes : IsWhole(k, m) => IsWhole(k2, m)
  <2>1. Hole \notin ToSet(seq)
    BY <1>3, BuilderAssumption DEF ToSet
  <2> QED
    BY <1>3, <2>1 DEF IsWhole, seq
<1>7. r \notin N
  BY DEF IsNew
<1>8. RootOK(k2, r)
  BY <1>5, <1>6, <1>7 DEF RootOK
<1>9. \A m : m \notin N /\ IsNew(k, r, m) => IsNew(k2, r, m)
  BY <1>5, <1>6 DEF IsNew
<1> QED
  BY <1>5, <1>8, <1>9

LEMMA ReplaceDistinct ==
    ASSUME NEW seq \in Seq(Nodes), Distinct(seq), NEW old, NEW n \in Nodes, n \notin ToSet(seq),
           NEW s \in [DOMAIN seq -> Nodes],
           \A i \in DOMAIN seq : s[i] = IF seq[i] = old THEN n ELSE seq[i]
    PROVE  /\ s \in Seq(Nodes) /\ Len(s) = Len(seq) /\ DOMAIN s = DOMAIN seq
           /\ Distinct(s)
           /\ ToSet(s) \subseteq ToSet(seq) \cup {n} /\ ToSet(seq) \subseteq ToSet(s) \cup {old}
<1> DEFINE len == Len(seq)
<1>1. len \in Nat /\ DOMAIN seq = 1..len /\ \A i \in 1..len : seq[i] \in Nodes
  OBVIOUS
<1> HIDE DEF len
<1>2. s \in [1..len -> Nodes]
  BY <1>1
<1>3. s \in Seq(Nodes) /\ Len(s) = len /\ DOMAIN s = 1..len
  <2>1. s \in Seq(Nodes)
    BY <1>1, <1>2
  <2> QED
    BY <1>1, <1>2, <2>1
<1>4. \A i \in 1..len : s[i] = IF seq[i] = old THEN n ELSE seq[i]
  BY <1>1
<1>5. \A i, j \in 1..len : (seq[i] = seq[j] => i = j) /\ seq[i] # n
  BY <1>1 DEF Distinct, ToSet
<1>6. Distinct(s)
  BY <1>3, <1>4, <1>5 DEF Distinct
<1>7. ToSet(s) \subseteq ToSet(seq) \cup {n} /\ ToSet(seq) \subseteq ToSet(s) \cup {old}
  BY <1>1, <1>3, <1>4 DEF ToSet
<1> QED
  BY <1>1, <1>3, <1>6, <1>7 DEF len

\* The nodes of a tree are whole, and a node that is a child has one parent.
LEMMA TreeWhole ==
    ASSUME NEW k, KidsOK(k), NEW r, RootOK(k, r), NEW p \in Under(k, r)
    PROVE  /\ IsWhole(k, p)
           /\ \A c \in Children(k, p) : \A q \in Nodes : c \in Children(k, q) => q = p
<1>1. r \in Nodes /\ p \in Nodes /\ DOMAIN k = Nodes
  BY UnderLeast DEF RootOK, KidsOK
<1>2. IsWhole(k, p)
  <2>1. CASE p = r
    BY <2>1 DEF RootOK
  <2>2. CASE p # r
    <3>1. ~IsTop(k, p)
      BY <1>1, <2>2, TopIsAlone
    <3> QED
      BY <1>1, <3>1 DEF KidsOK
  <2> QED
    BY <2>1, <2>2
<1>3. ASSUME NEW c \in Children(k, p), NEW q \in Nodes, c \in Children(k, q) PROVE q = p
  BY <1>1, <1>3 DEF Children, ToSet, KidsOK, Forest
<1> QED
  BY <1>2, <1>3

LEMMA NodeSame ==
    ASSUME NEW s, NEW t, NEW n, NEW out, t.kids[n] = s.kids[n], t.status = s.status,
           t.place[n] = s.place[n], t.passed[n] = s.passed[n], s.heirs[n] \subseteq t.heirs[n],
           NodeBut(s, n, out)
    PROVE  NodeBut(t, n, out)
<1>1. DoneOK(t, n)
  BY DEF NodeBut, DoneOK, Behind
<1> QED
  BY <1>1 DEF NodeBut, PlaceOK, RestOK, WaitBut

LEMMA SwappedRoot ==
    ASSUME NEW s, TreeOK(s), NEW new, IsNew(s.kids, s.root, new)
    PROVE  LET t == Swapped(s, s.root, new) IN
           /\ TreeOK(t) /\ (ViewFull(s) => ViewFull(t))
           /\ \A m : m # new /\ IsNew(s.kids, s.root, m) => IsNew(t.kids, t.root, m)
<1> DEFINE h == Halted(s, {s.root})
           t == Swapped(s, s.root, new)
<1>1. s \in States /\ KidsOK(s.kids) /\ s.root \in Nodes
  BY DEF TreeOK, RootOK
<1>2. TreeOK(h) /\ (ViewFull(s) => ViewFull(h))
  BY <1>1, HaltedOK
<1>4. h \in States /\ h.kids = s.kids /\ \A n \in Nodes : h.status[n] = "IDLE"
  <2>1. /\ h.kids = s.kids
        /\ \A n \in Under(s.kids, s.root) : h.status[n] = "IDLE"
        /\ \A n \in (Nodes \ Under(s.kids, s.root)) : h.status[n] = s.status[n]
    BY <1>1, HaltedOne
  <2> HIDE DEF h
  <2> QED
    BY <1>2, <2>1 DEF TreeOK, IdleOutside
<1>5. t = [h EXCEPT !.root = new]
  BY DEF Swapped
<1> SUFFICES /\ TreeOK(t) /\ (ViewFull(s) => ViewFull(t))
             /\ \A m : m # new /\ IsNew(s.kids, s.root, m) => IsNew(t.kids, t.root, m)
  OBVIOUS
<1> HIDE DEF h, t
<1>6. /\ t \in States /\ t.root = new /\ t.kids = h.kids /\ t.status = h.status /\ t.place = h.place
      /\ t.shown = h.shown /\ t.passed = h.passed /\ t.heirs = h.heirs
  BY <1>4, <1>5 DEF States, IsNew
<1>7. \A n \in Nodes : NodeOK(t, n)
  BY <1>2, <1>6, NodeSame DEF TreeOK, NodeOK
<1>8. RootOK(t.kids, t.root)
  BY <1>4, <1>6 DEF RootOK, IsNew
<1>9. TreeOK(t)
  BY <1>2, <1>4, <1>6, <1>7, <1>8 DEF TreeOK, ViewOK, IdleOutside
<1>10. ViewFull(s) => ViewFull(t)
  BY <1>2, <1>6 DEF ViewFull
<1>11. \A m : m # new /\ IsNew(s.kids, s.root, m) => IsNew(t.kids, t.root, m)
  BY <1>4, <1>6 DEF IsNew
<1> QED
  BY <1>9, <1>10, <1>11

LEMMA SwappedInside ==
    ASSUME NEW s, TreeOK(s), NEW old \in Under(s.kids, s.root), old # s.root,
           NEW new, IsNew(s.kids, s.root, new)
    PROVE  LET t == Swapped(s, old, new) IN
           /\ TreeOK(t) /\ (ViewFull(s) => ViewFull(t))
           /\ \A m : m # new /\ IsNew(s.kids, s.root, m) => IsNew(t.kids, t.root, m)
<1> DEFINE k == s.kids
           r == s.root
           h == Halted(s, {old})
           t == Swapped(s, old, new)
<1>1. s \in States /\ KidsOK(k) /\ RootOK(k, r) /\ r \in Nodes /\ old \in Nodes /\ new \in Nodes
  BY UnderLeast DEF TreeOK, RootOK, IsNew
<1>2. TreeOK(h) /\ (ViewFull(s) => ViewFull(h))
  BY <1>1, HaltedOK
<1>3. /\ h.kids = k /\ h.root = r
      /\ \A n \in Under(k, old) : h.status[n] = "IDLE"
      /\ \A n \in (Nodes \ Under(k, old)) :
            /\ h.status[n] = s.status[n] /\ h.place[n] = s.place[n]
            /\ h.passed[n] = s.passed[n] /\ h.heirs[n] = s.heirs[n]
  BY <1>1, HaltedOne
<1>4. PICK p \in Under(k, r) : old \in Children(k, p)
  BY <1>1, UnderStep
<1>5. p \in Nodes /\ p \notin Under(k, old) /\ IsWhole(k, p)
  BY <1>1, <1>4, UnderLeast, ChildIsBelow, TreeWhole
<1>6. ParentOf(s, old) = {p}
  <2>1. \A q \in Under(k, r) : q \in Nodes
    BY <1>1, UnderLeast
  <2>2. \A q \in Under(k, r) : old \in ToSet(k[q]) => old \in Children(k, q)
    BY <1>1, BuilderAssumption DEF Children
  <2>3. old \in ToSet(k[p])
    BY <1>4 DEF Children
  <2>4. \A q \in Nodes : old \in Children(k, q) => q = p
    BY <1>1, <1>4, TreeWhole
  <2>5. ParentOf(s, old) = {q \in Under(k, r) : old \in ToSet(k[q])}
    BY DEF ParentOf
  <2> HIDE DEF k, r
  <2> QED
    BY <1>4, <2>1, <2>2, <2>3, <2>4, <2>5
<1> DEFINE seq == [i \in DOMAIN k[p] |-> IF k[p][i] = old THEN new ELSE k[p][i]]
           k2 == [k EXCEPT ![p] = seq]
           he == [q \in Nodes |-> IF q = p /\ old \in s.passed[p] \cup s.heirs[p]
                                  THEN h.heirs[q] \cup {new} ELSE h.heirs[q]]
<1>7. Distinct(k[p]) /\ k[p] \in Seq(Nodes) /\ ToSet(k[p]) = Children(k, p)
  BY <1>1, <1>5, DistinctKids
<1>8. new \notin ToSet(k[p])
  BY <1>5 DEF IsNew, IsTop
<1>9. /\ seq \in Seq(Nodes) /\ Len(seq) = Len(k[p]) /\ DOMAIN seq = DOMAIN k[p] /\ Distinct(seq)
      /\ ToSet(seq) \subseteq Children(k, p) \cup {new} /\ Children(k, p) \subseteq ToSet(seq) \cup {old}
  <2>1. \A i \in DOMAIN k[p] : k[p][i] \in Nodes
    BY <1>7
  <2>2. seq \in [DOMAIN k[p] -> Nodes] /\ \A i \in DOMAIN k[p] : seq[i] = IF k[p][i] = old THEN new ELSE k[p][i]
    BY <1>1, <2>1
  <2> HIDE DEF k, seq
  <2> QED
    BY <1>1, <1>7, <1>8, <2>2, ReplaceDistinct
<1>10. \A i \in DOMAIN seq : seq[i] = IF k[p][i] = old THEN new ELSE k[p][i]
  OBVIOUS
<1>11. t = [h EXCEPT !.kids = k2, !.heirs = he]
  <2>1. t = [h EXCEPT
              !.kids = [q \in Nodes |-> IF q \in {p}
                           THEN [i \in DOMAIN h.kids[q] |-> IF h.kids[q][i] = old THEN new ELSE h.kids[q][i]]
                           ELSE h.kids[q]],
              !.heirs = [q \in Nodes |-> IF q \in {p} /\ old \in s.passed[q] \cup s.heirs[q]
                                         THEN h.heirs[q] \cup {new} ELSE h.heirs[q]]]
    BY <1>6 DEF Swapped
  <2>2. k2 = [q \in Nodes |-> IF q \in {p}
                THEN [i \in DOMAIN h.kids[q] |-> IF h.kids[q][i] = old THEN new ELSE h.kids[q][i]]
                ELSE h.kids[q]]
    <3>1. DOMAIN k = Nodes /\ k = [q \in Nodes |-> k[q]]
      BY <1>1 DEF KidsOK
    <3> HIDE DEF k, h
    <3> QED
      BY <1>3, <1>5, <3>1
  <2>3. he = [q \in Nodes |-> IF q \in {p} /\ old \in s.passed[q] \cup s.heirs[q]
                              THEN h.heirs[q] \cup {new} ELSE h.heirs[q]]
    OBVIOUS
  <2> HIDE DEF t, h, k2, he
  <2> QED
    BY <2>1, <2>2, <2>3
<1> SUFFICES /\ TreeOK(t) /\ (ViewFull(s) => ViewFull(t))
             /\ \A m : m # new /\ IsNew(k, r, m) => IsNew(t.kids, t.root, m)
  OBVIOUS
<1>12. p \notin Leaves /\ (p \in Decorators => Len(seq) = 1)
  <2>1. DOMAIN k = Nodes /\ (p \in Decorators => Len(k[p]) = 1) /\ (p \in Leaves => k[p] = <<>>)
    BY <1>1, <1>5 DEF KidsOK, Forest
  <2>2. k[p] # <<>>
    BY <1>4 DEF Children, ToSet
  <2> HIDE DEF seq, k
  <2> QED
    BY <1>9, <2>1, <2>2
<1>13. /\ KidsOK(k2) /\ RootOK(k2, r)
       /\ \A m \in Nodes \ {p} : k2[m] = k[m]
       /\ k2[p] = seq
       /\ \A m : m \notin {new} /\ IsNew(k, r, m) => IsNew(k2, r, m)
       /\ Under(k, r) \subseteq Under(k2, r) \cup Under(k, old)
  <2>2. \A x \in {new} : IsNew(k, r, x)
    OBVIOUS
  <2>3. k2 \in [Nodes -> Seq(Nodes \cup {Hole})] /\ k2[p] = seq /\ \A m \in Nodes \ {p} : k2[m] = k[m]
    <3>1. k \in [Nodes -> Seq(Nodes \cup {Hole})] /\ seq \in Seq(Nodes \cup {Hole})
      BY <1>1, <1>9 DEF KidsOK
    <3> HIDE DEF k, seq
    <3> QED
      BY <1>5, <3>1
  <2> HIDE DEF k, r, seq, k2
  <2>4. Rekids(k, p, {new}, k2)
    BY <1>9, <1>12, <2>3 DEF Rekids
  <2>5. KidsOK(k2) /\ RootOK(k2, r) /\ \A m : m \notin {new} /\ IsNew(k, r, m) => IsNew(k2, r, m)
    BY <1>1, <1>4, <1>12, <2>2, <2>4, Rekidded
  <2>6. Under(k, r) \subseteq Under(k2, r) \cup AllUnder(k, {old})
    <3>1. Children(k, p) \subseteq Children(k2, p) \cup {old}
      BY <1>9, <2>3, BuilderAssumption DEF Children, ToSet
    <3> QED
      BY <1>1, <1>5, <2>3, <2>5, <3>1, StillBelow
  <2>7. AllUnder(k, {old}) = Under(k, old)
    BY DEF AllUnder
  <2> QED
    BY <2>3, <2>5, <2>6, <2>7
<1> HIDE DEF h, t, seq, k2, he
<1>14. h \in States /\ he \in [Nodes -> SUBSET Nodes]
  BY <1>1, <1>2 DEF TreeOK, States, he
<1>15. /\ t \in States /\ t.root = r /\ t.kids = k2 /\ t.status = h.status /\ t.place = h.place
       /\ t.shown = h.shown /\ t.passed = h.passed /\ t.heirs = he
  <2>1. k2 \in [Nodes -> Seq(Nodes \cup {Hole})]
    BY <1>13 DEF KidsOK
  <2> QED
    BY <1>3, <1>11, <1>14, <2>1 DEF States
<1>16. ASSUME NEW n \in Nodes, n # p PROVE NodeOK(t, n)
  <2>1. he[n] = h.heirs[n]
    BY <1>16 DEF he
  <2> QED
    BY <1>2, <1>3, <1>13, <1>15, <1>16, <2>1, NodeSame DEF TreeOK, NodeOK
<1>17. h.status[new] = "IDLE"
  <2>1. new \notin Under(k, r)
    BY <1>1, NewIsApart, UnderLeast
  <2> QED
    BY <1>1, <1>2, <1>3, <2>1 DEF TreeOK, IdleOutside
<1>18. NodeOK(t, p)
  <2>1. PlaceOK(h, p) /\ RestOK(h, p) /\ WaitBut(h, p, {}) /\ DoneOK(h, p)
    BY <1>2, <1>5 DEF TreeOK, NodeOK, NodeBut
  <2>2. PlaceOK(t, p) /\ RestOK(t, p)
    BY <1>3, <1>9, <1>13, <1>15, <2>1 DEF PlaceOK, RestOK
  <2>3. WaitBut(t, p, {})
    <3>1. \A i \in DOMAIN t.kids[p] : t.status[t.kids[p][i]] = "RUNNING" =>
             i \in DOMAIN h.kids[p] /\ t.kids[p][i] = h.kids[p][i]
      BY <1>3, <1>9, <1>10, <1>13, <1>15, <1>17
    <3> QED
      BY <1>15, <2>1, <3>1 DEF WaitBut
  <2>4. DoneOK(t, p)
    <3> SUFFICES ASSUME NEW i \in DOMAIN t.kids[p], Behind(t, p, i)
                 PROVE  t.kids[p][i] \in t.passed[p] \cup t.heirs[p]
      BY DEF DoneOK
    <3>1. i \in DOMAIN h.kids[p] /\ Behind(h, p, i)
      BY <1>3, <1>9, <1>13, <1>15 DEF Behind
    <3>2. k[p][i] \in h.passed[p] \cup h.heirs[p]
      BY <1>3, <2>1, <3>1 DEF DoneOK
    <3>3. h.passed[p] = s.passed[p] /\ h.heirs[p] = s.heirs[p]
      BY <1>3, <1>5
    <3>4. h.heirs[p] \subseteq he[p] /\ (old \in s.passed[p] \cup s.heirs[p] => new \in he[p])
      BY <1>5 DEF he
    <3>5. t.kids[p][i] = IF k[p][i] = old THEN new ELSE k[p][i]
      BY <1>10, <1>13, <1>15
    <3> QED
      BY <1>15, <3>2, <3>3, <3>4, <3>5
  <2> QED
    BY <2>2, <2>3, <2>4 DEF NodeOK, NodeBut
<1>19. IdleOutside(t, Under(k2, r))
  <2>2. \A n \in (Nodes \ Under(k, r)) : h.status[n] = "IDLE"
    BY <1>2, <1>3 DEF TreeOK, IdleOutside
  <2> QED
    BY <1>3, <1>13, <1>15, <2>2 DEF IdleOutside
<1>20. TreeOK(t)
  BY <1>2, <1>13, <1>15, <1>16, <1>18, <1>19 DEF TreeOK, ViewOK
<1>21. ViewFull(s) => ViewFull(t)
  BY <1>2, <1>15 DEF ViewFull
<1> QED
  BY <1>13, <1>15, <1>20, <1>21

\* p has other children and is halted; what it lost was at rest.
LEMMA Reparented ==
    ASSUME NEW s, TreeOK(s), NEW p \in Under(s.kids, s.root), p \notin Leaves,
           NEW N, \A x \in N : IsNew(s.kids, s.root, x), NEW k2, Rekids(s.kids, p, N, k2),
           \A n \in Under(s.kids, s.root) : n \in Under(k2, s.root) \/ s.status[n] = "IDLE"
    PROVE  LET t == Halted([s EXCEPT !.kids = k2], {p}) IN
           /\ TreeOK(t) /\ (ViewFull(s) => ViewFull(t))
           /\ \A m : m \notin N /\ IsNew(s.kids, s.root, m) => IsNew(t.kids, t.root, m)
<1> DEFINE k == s.kids
           r == s.root
           s2 == [s EXCEPT !.kids = k2]
           t == Halted(s2, {p})
<1>1. s \in States /\ KidsOK(k) /\ RootOK(k, r) /\ ViewOK(s) /\ p \in Nodes
  BY UnderLeast DEF TreeOK, RootOK
<1>2. /\ KidsOK(k2) /\ RootOK(k2, r)
      /\ \A m : m \notin N /\ IsNew(k, r, m) => IsNew(k2, r, m)
      /\ \A m \in Nodes \ {p} : k2[m] = k[m]
  <2>1. \A m \in Nodes \ {p} : k2[m] = k[m]
    BY DEF Rekids
  <2> HIDE DEF k, r
  <2> QED
    BY <1>1, <2>1, Rekidded DEF k, r
<1>3. /\ s2 \in States /\ s2.root = r /\ s2.kids = k2 /\ s2.status = s.status /\ s2.place = s.place
      /\ s2.shown = s.shown /\ s2.passed = s.passed /\ s2.heirs = s.heirs
  BY <1>1 DEF States, Rekids
<1>4. p \in AllUnder(k2, {p}) /\ {p} \in SUBSET Nodes
  BY <1>1, <1>2, UnderLeast DEF AllUnder
<1> SUFFICES /\ TreeOK(t) /\ (ViewFull(s) => ViewFull(t))
             /\ \A m : m \notin N /\ IsNew(k, r, m) => IsNew(t.kids, t.root, m)
  OBVIOUS
<1> HIDE DEF s2
<1>5. \A n \in Nodes : RestOK(s2, n)
  BY <1>3 DEF TreeOK, NodeOK, NodeBut, RestOK
<1>6. ASSUME NEW n \in Nodes, n # p PROVE NodeBut(s2, n, AllUnder(k2, {p}))
  <2>1. NodeBut(s2, n, {})
    BY <1>2, <1>3, <1>6, NodeSame DEF TreeOK, NodeOK
  <2> QED
    BY <2>1 DEF NodeBut, WaitBut
<1>7. IdleOutside(s2, Under(k2, r) \cup AllUnder(k2, {p}))
  BY <1>3 DEF TreeOK, IdleOutside
<1>8. ViewOK(s2) /\ (ViewFull(s) => ViewFull(s2))
  BY <1>1, <1>3 DEF ViewOK, ViewFull
<1>9. TreeOK(t) /\ (ViewFull(s2) => ViewFull(t))
  BY <1>2, <1>3, <1>4, <1>5, <1>6, <1>7, <1>8, TreeHalted
<1>10. t.kids = k2 /\ t.root = r
  BY <1>1, <1>2, <1>3, HaltedOne
<1> QED
  BY <1>2, <1>8, <1>9, <1>10

\* Whoever gets other children elsewhere, a halt does the same.
LEMMA HaltedElsewhere ==
    ASSUME NEW s \in States, KidsOK(s.kids), NEW k2 \in [Nodes -> Seq(Nodes \cup {Hole})],
           NEW roots \in SUBSET Nodes, AllUnder(k2, roots) = AllUnder(s.kids, roots)
    PROVE  Halted([s EXCEPT !.kids = k2], roots) = [Halted(s, roots) EXCEPT !.kids = k2]
<1> DEFINE all == AllUnder(s.kids, roots)
           stopped == {n \in all : s.status[n] = "RUNNING"}
           st == [n \in Nodes |-> IF n \in all THEN "IDLE" ELSE s.status[n]]
           pl == [n \in Nodes |->
                      [cursor  |-> IF n \in all THEN 1 ELSE s.place[n].cursor,
                       running |-> IF n \in stopped THEN 0 ELSE s.place[n].running,
                       dirty   |-> s.place[n].dirty]]
           sh == s.shown \ stopped
           pa == [n \in Nodes |-> IF n \in all THEN {} ELSE s.passed[n]]
           he == [n \in Nodes |-> IF n \in all THEN {} ELSE s.heirs[n]]
           s2 == [s EXCEPT !.kids = k2]
<1>1. Halted(s, roots) = [s EXCEPT !.status = st, !.place = pl, !.shown = sh, !.passed = pa, !.heirs = he]
  BY DEF Halted, AllUnder, Shown
<1>2. /\ s2.kids = k2 /\ s2.status = s.status /\ s2.place = s.place /\ s2.shown = s.shown
      /\ s2.passed = s.passed /\ s2.heirs = s.heirs
  BY DEF States
<1> DEFINE all2 == AllUnder(s2.kids, roots)
           stopped2 == {n \in all2 : s2.status[n] = "RUNNING"}
           st2 == [n \in Nodes |-> IF n \in all2 THEN "IDLE" ELSE s2.status[n]]
           pl2 == [n \in Nodes |->
                      [cursor  |-> IF n \in all2 THEN 1 ELSE s2.place[n].cursor,
                       running |-> IF n \in stopped2 THEN 0 ELSE s2.place[n].running,
                       dirty   |-> s2.place[n].dirty]]
           sh2 == s2.shown \ stopped2
           pa2 == [n \in Nodes |-> IF n \in all2 THEN {} ELSE s2.passed[n]]
           he2 == [n \in Nodes |-> IF n \in all2 THEN {} ELSE s2.heirs[n]]
<1>3. Halted(s2, roots) = [s2 EXCEPT !.status = st2, !.place = pl2, !.shown = sh2, !.passed = pa2, !.heirs = he2]
  <2> HIDE DEF s2
  <2> QED
    BY DEF Halted, AllUnder, Shown
<1>4. st2 = st /\ pl2 = pl /\ sh2 = sh /\ pa2 = pa /\ he2 = he
  <2>1. all2 = all
    BY <1>2
  <2> HIDE DEF s2, all, all2
  <2> QED
    BY <1>2, <2>1
<1> HIDE DEF st, pl, sh, pa, he, st2, pl2, sh2, pa2, he2
<1>5. [s2 EXCEPT !.status = st, !.place = pl, !.shown = sh, !.passed = pa, !.heirs = he]
         = [[s EXCEPT !.status = st, !.place = pl, !.shown = sh, !.passed = pa, !.heirs = he] EXCEPT !.kids = k2]
  BY DEF States
<1> QED
  BY <1>1, <1>3, <1>4, <1>5

LEMMA InsertedControl ==
    ASSUME NEW s, TreeOK(s), NEW p \in Under(s.kids, s.root), p \notin Leaves, p \notin Decorators,
           NEW at \in Int, NEW new, IsNew(s.kids, s.root, new)
    PROVE  LET t == Inserted(s, p, at, new) IN
           /\ TreeOK(t) /\ (ViewFull(s) => ViewFull(t))
           /\ \A m : m # new /\ IsNew(s.kids, s.root, m) => IsNew(t.kids, t.root, m)
<1> DEFINE k == s.kids
           len == Len(k[p])
           i == IF at < 0 THEN 0 ELSE IF at > len THEN len ELSE at
           seq == InsertAt(k[p], i + 1, new)
           k2 == [k EXCEPT ![p] = seq]
<1>1. s \in States /\ KidsOK(k) /\ RootOK(k, s.root) /\ p \in Nodes /\ new \in Nodes
  BY UnderLeast DEF TreeOK, RootOK, IsNew
<1>2. Distinct(k[p]) /\ k[p] \in Seq(Nodes) /\ ToSet(k[p]) = Children(k, p)
  BY <1>1, TreeWhole, DistinctKids
<1>3. new \notin ToSet(k[p])
  BY <1>1 DEF IsNew, IsTop
<1>4. i + 1 \in 1..len + 1
  <2>1. len \in Nat
    BY <1>2
  <2> HIDE DEF len
  <2> QED
    BY <2>1
<1>5. seq \in Seq(Nodes) /\ Distinct(seq) /\ ToSet(seq) = Children(k, p) \cup {new}
  <2> HIDE DEF k, i
  <2> QED
    BY <1>1, <1>2, <1>3, <1>4, InsertDistinct
<1>6. Rekids(k, p, {new}, k2)
  <2>1. k \in [Nodes -> Seq(Nodes \cup {Hole})]
    BY <1>1 DEF KidsOK
  <2>2. seq \in Seq(Nodes \cup {Hole})
    BY <1>5
  <2> HIDE DEF seq
  <2> QED
    BY <1>1, <1>5, <2>1, <2>2 DEF Rekids
<1>7. \A x \in {new} : IsNew(s.kids, s.root, x)
  OBVIOUS
<1>8. ASSUME NEW n \in Under(k, s.root) PROVE n \in Under(k2, s.root)
  <2>2. \A m \in Nodes \ {p} : k2[m] = k[m]
    BY <1>6 DEF Rekids
  <2>3. k2[p] = seq
    BY <1>1 DEF KidsOK
  <2> HIDE DEF seq, k2
  <2>1. KidsOK(k2)
    BY <1>1, <1>6, <1>7, Rekidded
  <2>4. Children(k, p) \subseteq Children(k2, p) \cup {}
    BY <1>5, <2>3 DEF Children
  <2>5. AllUnder(k, {}) = {}
    BY DEF AllUnder
  <2>6. Under(k, s.root) \subseteq Under(k2, s.root) \cup AllUnder(k, {})
    BY <1>1, <2>1, <2>2, <2>4, StillBelow DEF RootOK
  <2> QED
    BY <2>5, <2>6
<1>9. Inserted(s, p, at, new) = Halted([s EXCEPT !.kids = k2], {p})
  BY DEF Inserted
<1> HIDE DEF k2
<1>10. LET t == Halted([s EXCEPT !.kids = k2], {p}) IN
       /\ TreeOK(t) /\ (ViewFull(s) => ViewFull(t))
       /\ \A m : m \notin {new} /\ IsNew(s.kids, s.root, m) => IsNew(t.kids, t.root, m)
  BY <1>6, <1>7, <1>8, Reparented
<1> QED
  BY <1>9, <1>10

\* Halted first, what p had is at rest.
LEMMA HaltedAway ==
    ASSUME NEW s, TreeOK(s), NEW p \in Under(s.kids, s.root), p \notin Leaves,
           NEW G, G \subseteq Children(s.kids, p),
           NEW N, \A x \in N : IsNew(s.kids, s.root, x), NEW k2, Rekids(s.kids, p, N, k2),
           Children(s.kids, p) \subseteq ToSet(k2[p]) \cup G
    PROVE  LET t == Halted([Halted(s, G) EXCEPT !.kids = k2], {p}) IN
           /\ TreeOK(t) /\ (ViewFull(s) => ViewFull(t))
           /\ \A m : m \notin N /\ IsNew(s.kids, s.root, m) => IsNew(t.kids, t.root, m)
<1> DEFINE k == s.kids
           h == Halted(s, G)
           t == Halted([h EXCEPT !.kids = k2], {p})
<1>1. s \in States /\ KidsOK(k) /\ RootOK(k, s.root) /\ p \in Nodes /\ s.root \in Nodes
  BY UnderLeast DEF TreeOK, RootOK
<1>2. G \in SUBSET Nodes
  BY <1>1, KidsType
<1>3. TreeOK(h) /\ (ViewFull(s) => ViewFull(h))
  BY <1>2, HaltedOK
<1>4. h.kids = k /\ h.root = s.root /\ \A n \in AllUnder(k, G) : h.status[n] = "IDLE"
  BY <1>1, <1>2, HaltedIs
<1>5. Under(k, s.root) \subseteq Under(k2, s.root) \cup AllUnder(k, G)
  <2>1. KidsOK(k2)
    BY <1>1, Rekidded
  <2>2. \A m \in Nodes \ {p} : k2[m] = k[m]
    BY DEF Rekids
  <2>3. Children(k, p) \subseteq Children(k2, p) \cup G
    BY DEF Children
  <2> HIDE DEF k
  <2> QED
    BY <1>1, <1>2, <2>1, <2>2, <2>3, StillBelow
<1> SUFFICES /\ TreeOK(t) /\ (ViewFull(s) => ViewFull(t))
             /\ \A m : m \notin N /\ IsNew(s.kids, s.root, m) => IsNew(t.kids, t.root, m)
  OBVIOUS
<1> HIDE DEF h
<1>6. LET u == Halted([h EXCEPT !.kids = k2], {p}) IN
      /\ TreeOK(u) /\ (ViewFull(h) => ViewFull(u))
      /\ \A m : m \notin N /\ IsNew(h.kids, h.root, m) => IsNew(u.kids, u.root, m)
  BY <1>3, <1>4, <1>5, Reparented
<1> QED
  BY <1>3, <1>4, <1>6

LEMMA InsertedDecorator ==
    ASSUME NEW s, TreeOK(s), NEW p \in Under(s.kids, s.root), p \in Decorators,
           NEW at \in Int, NEW new, IsNew(s.kids, s.root, new)
    PROVE  LET t == Inserted(s, p, at, new) IN
           /\ TreeOK(t) /\ (ViewFull(s) => ViewFull(t))
           /\ \A m : m # new /\ IsNew(s.kids, s.root, m) => IsNew(t.kids, t.root, m)
<1> DEFINE k == s.kids
           G == ToSet(k[p])
           h == Halted(s, G)
           k2 == [k EXCEPT ![p] = <<new>>]
<1>1. s \in States /\ KidsOK(k) /\ RootOK(k, s.root) /\ p \in Nodes /\ new \in Nodes
  BY UnderLeast DEF TreeOK, RootOK, IsNew
<1>2. G = Children(k, p) /\ G \in SUBSET Nodes
  BY <1>1, TreeWhole, DistinctKids, KidsType
<1>3. p \notin Leaves
  BY DEF Leaves, LeafKinds, Decorators
<1>4. Rekids(k, p, {new}, k2)
  <2>1. k \in [Nodes -> Seq(Nodes \cup {Hole})] /\ <<new>> \in Seq(Nodes \cup {Hole}) /\ <<new>> \in Seq(Nodes)
    BY <1>1 DEF KidsOK
  <2>2. k2[p] = <<new>> /\ k2 \in [Nodes -> Seq(Nodes \cup {Hole})] /\ \A m \in Nodes \ {p} : k2[m] = k[m]
    BY <1>1, <2>1
  <2>3. Distinct(<<new>>) /\ ToSet(<<new>>) = {new} /\ Len(<<new>>) = 1
    BY DEF Distinct, ToSet
  <2> HIDE DEF k2
  <2> QED
    BY <2>1, <2>2, <2>3 DEF Rekids
<1>5. \A x \in {new} : IsNew(s.kids, s.root, x)
  OBVIOUS
<1>6. h \in States /\ h.kids = k
  BY <1>1, <1>2, HaltedIs
<1>7. Inserted(s, p, at, new) = Halted([h EXCEPT !.kids = k2], {p})
  <2>1. Inserted(s, p, at, new) = Halted([h EXCEPT !.kids[p] = <<new>>], {p})
    BY <1>3 DEF Inserted
  <2> HIDE DEF h
  <2>2. [h EXCEPT !.kids[p] = <<new>>] = [h EXCEPT !.kids = k2]
    BY <1>6 DEF States
  <2> QED
    BY <2>1, <2>2
<1> HIDE DEF k2
<1>8. LET t == Halted([Halted(s, G) EXCEPT !.kids = k2], {p}) IN
      /\ TreeOK(t) /\ (ViewFull(s) => ViewFull(t))
      /\ \A m : m \notin {new} /\ IsNew(s.kids, s.root, m) => IsNew(t.kids, t.root, m)
  <2> HIDE DEF G
  <2> QED
    BY <1>2, <1>3, <1>4, <1>5, HaltedAway
<1> QED
  BY <1>7, <1>8

LEMMA RemovedOK ==
    ASSUME NEW s, TreeOK(s), NEW p \in Under(s.kids, s.root), NEW at \in Int
    PROVE  LET t == Removed(s, p, at) IN
           /\ TreeOK(t) /\ (ViewFull(s) => ViewFull(t))
           /\ \A m : IsNew(s.kids, s.root, m) => IsNew(t.kids, t.root, m)
<1>1. CASE p \in Leaves \cup Decorators \/ at \notin 0..Len(s.kids[p]) - 1
  BY <1>1 DEF Removed
<1>2. CASE ~(p \in Leaves \cup Decorators \/ at \notin 0..Len(s.kids[p]) - 1)
  <2> DEFINE k == s.kids
             gone == k[p][at + 1]
             h == Halted(s, {gone})
             seq == RemoveAt(k[p], at + 1)
             k2 == [k EXCEPT ![p] = seq]
  <2>1. s \in States /\ KidsOK(k) /\ RootOK(k, s.root) /\ p \in Nodes
    BY UnderLeast DEF TreeOK, RootOK
  <2>2. Distinct(k[p]) /\ k[p] \in Seq(Nodes) /\ ToSet(k[p]) = Children(k, p)
    BY <2>1, TreeWhole, DistinctKids
  <2>3. at + 1 \in 1..Len(k[p])
    BY <1>2, <2>2
  <2>4. seq \in Seq(Nodes) /\ Distinct(seq) /\ ToSet(seq) = Children(k, p) \ {gone}
    <3> HIDE DEF k
    <3> QED
      BY <2>2, <2>3, RemoveDistinct
  <2>5. gone \in Children(k, p) /\ gone \in Nodes /\ {gone} \in SUBSET Nodes /\ p \notin Under(k, gone)
    <3>1. gone \in ToSet(k[p])
      BY <2>2, <2>3 DEF ToSet
    <3> HIDE DEF gone, k
    <3> QED
      BY <2>1, <2>2, <3>1, ChildIsBelow
  <2>6. Rekids(k, p, {}, k2)
    <3>1. k \in [Nodes -> Seq(Nodes \cup {Hole})]
      BY <2>1 DEF KidsOK
    <3>2. seq \in Seq(Nodes \cup {Hole})
      BY <2>4
    <3> HIDE DEF seq, gone
    <3> QED
      BY <1>2, <2>1, <2>4, <3>1, <3>2 DEF Rekids
  <2>7. p \notin Leaves
    BY <1>2
  <2>8. KidsOK(k2) /\ k2 \in [Nodes -> Seq(Nodes \cup {Hole})] /\ k2[p] = seq
    <3>1. \A x \in {} : IsNew(k, s.root, x)
      OBVIOUS
    <3>2. k2 \in [Nodes -> Seq(Nodes \cup {Hole})] /\ k2[p] = seq
      BY <2>1, <2>6 DEF Rekids, KidsOK
    <3> HIDE DEF k, k2
    <3>3. KidsOK(k2)
      BY <2>1, <2>6, <2>7, <3>1, Rekidded DEF k
    <3> QED
      BY <3>2, <3>3
  <2>9. AllUnder(k2, {gone}) = AllUnder(k, {gone})
    <3>1. \A m \in Under(k, gone) : k2[m] = k[m]
      BY <2>1, <2>5, <2>6, UnderLeast DEF Rekids
    <3> HIDE DEF k, k2, gone
    <3>2. Under(k2, gone) = Under(k, gone)
      BY <2>1, <2>5, <2>8, <3>1, UnderSame
    <3> QED
      BY <3>2 DEF AllUnder
  <2>10. Removed(s, p, at) = Halted([h EXCEPT !.kids = k2], {p})
    <3>1. Removed(s, p, at) = Halted(Halted([s EXCEPT !.kids[p] = seq], {gone}), {p})
      BY <1>2 DEF Removed
    <3>2. [s EXCEPT !.kids[p] = seq] = [s EXCEPT !.kids = k2]
      <4> HIDE DEF seq
      <4> QED
        BY <2>1 DEF States
    <3>3. Halted([s EXCEPT !.kids = k2], {gone}) = [h EXCEPT !.kids = k2]
      <4> HIDE DEF k2, gone
      <4> QED
        BY <2>1, <2>5, <2>8, <2>9, HaltedElsewhere
    <3> QED
      BY <3>1, <3>2, <3>3
  <2> HIDE DEF k2
  <2>11. Children(s.kids, p) \subseteq ToSet(k2[p]) \cup {gone}
    BY <2>4, <2>8
  <2> HIDE DEF gone
  <2>12. PICK N : N = {}
    OBVIOUS
  <2>13. PICK G : G = {gone}
    OBVIOUS
  <2>14. /\ \A x \in N : IsNew(s.kids, s.root, x)
         /\ Rekids(s.kids, p, N, k2) /\ G \subseteq Children(s.kids, p)
    BY <2>5, <2>6, <2>12, <2>13
  <2>15. LET t == Halted([Halted(s, G) EXCEPT !.kids = k2], {p}) IN
         /\ TreeOK(t) /\ (ViewFull(s) => ViewFull(t))
         /\ \A m : m \notin N /\ IsNew(s.kids, s.root, m) => IsNew(t.kids, t.root, m)
    <3>1. Children(s.kids, p) \subseteq ToSet(k2[p]) \cup G
      BY <2>11, <2>13
    <3> QED
      BY <2>7, <2>14, <3>1, HaltedAway
  <2> QED
    BY <2>10, <2>12, <2>13, <2>15
<1> QED
  BY <1>1, <1>2

LEMMA ModifiedOK ==
    ASSUME NEW s, TreeOK(s), NEW mod \in Mods,
           mod.new # None => IsNew(s.kids, s.root, mod.new)
    PROVE  LET t == Modified(s, mod) IN
           /\ TreeOK(t) /\ (ViewFull(s) => ViewFull(t))
           /\ \A m : m # mod.new /\ IsNew(s.kids, s.root, m) => IsNew(t.kids, t.root, m)
<1> DEFINE Good(t) == /\ TreeOK(t) /\ (ViewFull(s) => ViewFull(t))
                      /\ \A m : m # mod.new /\ IsNew(s.kids, s.root, m) => IsNew(t.kids, t.root, m)
<1> SUFFICES Good(Modified(s, mod))
  OBVIOUS
<1>1. \/ mod.type = "Replace" /\ mod.new \in Nodes
      \/ mod.type = "Insert" /\ mod.new \in Nodes /\ mod.at \in Int
      \/ mod.type = "Remove" /\ mod.at \in Int
  BY EditsAssumption DEF Mods
<1>2. mod.new \in Nodes => IsNew(s.kids, s.root, mod.new)
  BY BuilderAssumption
<1>3. CASE mod.target \notin Under(s.kids, s.root)
  BY <1>3 DEF Modified
<1> HIDE DEF Good
<1>4. CASE mod.target \in Under(s.kids, s.root) /\ mod.type = "Replace"
  <2>1. Modified(s, mod) = Swapped(s, mod.target, mod.new)
    BY <1>4 DEF Modified
  <2>2. CASE mod.target = s.root
    <3>1. Good(Swapped(s, s.root, mod.new))
      BY <1>1, <1>2, <1>4, SwappedRoot DEF Good
    <3> QED
      BY <2>1, <2>2, <3>1
  <2>3. CASE mod.target # s.root
    <3>1. Good(Swapped(s, mod.target, mod.new))
      BY <1>1, <1>2, <1>4, <2>3, SwappedInside DEF Good
    <3> QED
      BY <2>1, <3>1
  <2> QED
    BY <2>2, <2>3
<1>5. CASE mod.target \in Under(s.kids, s.root) /\ mod.type = "Insert"
  <2>1. Modified(s, mod) = Inserted(s, mod.target, mod.at, mod.new)
    BY <1>5 DEF Modified
  <2>2. CASE mod.target \in Leaves
    <3>1. Inserted(s, mod.target, mod.at, mod.new) = s
      BY <2>2 DEF Inserted
    <3> QED
      BY <2>1, <3>1 DEF Good
  <2>3. CASE mod.target \in Decorators
    <3>1. Good(Inserted(s, mod.target, mod.at, mod.new))
      BY <1>1, <1>2, <1>5, <2>3, InsertedDecorator DEF Good
    <3> QED
      BY <2>1, <3>1
  <2>4. CASE mod.target \notin Leaves /\ mod.target \notin Decorators
    <3>1. Good(Inserted(s, mod.target, mod.at, mod.new))
      BY <1>1, <1>2, <1>5, <2>4, InsertedControl DEF Good
    <3> QED
      BY <2>1, <3>1
  <2> QED
    BY <2>2, <2>3, <2>4
<1>6. CASE mod.target \in Under(s.kids, s.root) /\ mod.type = "Remove"
  <2>1. Modified(s, mod) = Removed(s, mod.target, mod.at)
    BY <1>6 DEF Modified
  <2>2. Good(Removed(s, mod.target, mod.at))
    BY <1>1, <1>6, RemovedOK DEF Good
  <2> QED
    BY <2>1, <2>2
<1> QED
  BY <1>1, <1>3, <1>4, <1>5, <1>6

\* A set of numbers that is not empty has a least one.
LEMMA LeastNumber ==
    ASSUME NEW S, S \subseteq Nat, S # {}
    PROVE  \E m \in S : \A k \in S : m <= k
<1>1. PICK m \in S : \A k \in S : <<k, m>> \notin OpToRel(<, Nat)
  BY NatLessThanWellFounded, WFMin, Zenon
<1>2. \A k \in S : <<k, m>> \in Nat \X Nat
  BY <1>1
<1>3. \A k \in S : k < m => <<k, m>> \in OpToRel(<, Nat)
  BY <1>2, Zenon DEF OpToRel
<1>4. \A k \in S : ~(k < m)
  BY <1>1, <1>3
<1>5. \A k \in S : k \in Int /\ m \in Int
  OBVIOUS
<1> QED
  BY <1>4, <1>5

\* The tree after the first i modifications, for every i up to N.
AfterMods(f, s, mods, N) == f = [i \in 0..N |-> IF i = 0 THEN s ELSE Modified(f[i - 1], mods[i])]

LEMMA AfterModsExists ==
    ASSUME NEW s, NEW mods, NEW N \in Nat
    PROVE  \E f : AfterMods(f, s, mods, N)
<1> DEFINE Bad == {i \in Nat : ~ \E f : AfterMods(f, s, mods, i)}
<1> SUFFICES ASSUME Bad # {} PROVE FALSE
  OBVIOUS
<1>1. PICK m \in Bad : \A i \in Bad : m <= i
  <2> HIDE DEF Bad
  <2>1. Bad \subseteq Nat
    BY DEF Bad
  <2> QED
    BY <2>1, LeastNumber
<1>2. CASE m = 0
  <2> DEFINE g == [i \in 0..0 |-> s]
  <2>1. AfterMods(g, s, mods, 0)
    BY DEF AfterMods
  <2> QED
    BY <1>1, <1>2, <2>1
<1>3. CASE m # 0
  <2>1. m - 1 \in Nat /\ m - 1 \notin Bad
    BY <1>1, <1>3
  <2>2. PICK f : AfterMods(f, s, mods, m - 1)
    BY <2>1
  <2> DEFINE g == [i \in 0..m |-> IF i = 0 THEN s ELSE Modified(f[i - 1], mods[i])]
  <2>3. \A i \in 0..(m - 1) : g[i] = f[i]
    BY <2>1, <2>2 DEF AfterMods
  <2>4. \A i \in 0..m : i # 0 => i - 1 \in 0..(m - 1)
    BY <2>1
  <2>5. \A i \in 0..m : g[i] = IF i = 0 THEN s ELSE Modified(g[i - 1], mods[i])
    BY <2>3, <2>4
  <2>6. g = [i \in 0..m |-> g[i]]
    OBVIOUS
  <2>7. AfterMods(g, s, mods, m)
    <3> HIDE DEF g
    <3> QED
      BY <2>5, <2>6 DEF AfterMods
  <2> QED
    BY <1>1, <2>7
<1> QED
  BY <1>2, <1>3

LEMMA EditedOK ==
    ASSUME TreeOK(Now), ModsOK(kids, root, pending)
    PROVE  TreeOK(Edited) /\ (ViewFull(Now) => ViewFull(Edited))
<1> DEFINE N == Len(pending)
<1>1. N \in Nat /\ DOMAIN pending = 1..N /\ \A i \in 1..N : pending[i] \in Mods
  BY DEF ModsOK
<1>2. PICK s : s = Now
  OBVIOUS
<1>3. PICK mods : mods = pending
  OBVIOUS
<1> HIDE DEF N
<1> DEFINE f == CHOOSE g : AfterMods(g, s, mods, N)
           OK(i) == /\ TreeOK(f[i]) /\ (ViewFull(s) => ViewFull(f[i]))
                    /\ \A j \in 1..N : i < j /\ mods[j].new # None => IsNew(f[i].kids, f[i].root, mods[j].new)
           Bad == {i \in 0..N : ~OK(i)}
<1>4. AfterMods(f, s, mods, N)
  BY <1>1, AfterModsExists
<1>5. Edited = f[N]
  BY <1>2, <1>3 DEF Edited, AfterMods, N
<1>6. \A i \in 0..N : f[i] = IF i = 0 THEN s ELSE Modified(f[i - 1], mods[i])
  BY <1>4 DEF AfterMods
<1> HIDE DEF f
<1>7. /\ TreeOK(s) /\ \A i \in 1..N : mods[i] \in Mods
      /\ \A i \in 1..N : mods[i].new # None => IsNew(s.kids, s.root, mods[i].new)
      /\ \A i, j \in 1..N : mods[i].new # None /\ mods[i].new = mods[j].new => i = j
  <2>1. s.kids = kids /\ s.root = root
    BY <1>2 DEF Now
  <2> QED
    BY <1>1, <1>2, <1>3, <2>1 DEF ModsOK
<1>8. Bad = {}
  <2> SUFFICES ASSUME Bad # {} PROVE FALSE
    OBVIOUS
  <2>1. PICK m \in Bad : \A i \in Bad : m <= i
    <3>1. Bad \subseteq Nat
      OBVIOUS
    <3> HIDE DEF Bad
    <3> QED
      BY <3>1, LeastNumber
  <2>2. m # 0
    <3>1. OK(0)
      BY <1>1, <1>6, <1>7
    <3> HIDE DEF OK
    <3> QED
      BY <2>1, <3>1
  <2>3. m \in 1..N /\ m - 1 \in 0..N /\ m - 1 < m
    BY <1>1, <2>1, <2>2
  <2>4. OK(m - 1)
    <3> HIDE DEF OK
    <3> QED
      BY <2>1, <2>3
  <2>5. f[m] = Modified(f[m - 1], mods[m])
    BY <1>6, <2>2, <2>3
  <2>6. mods[m] \in Mods /\ (mods[m].new # None => IsNew(f[m - 1].kids, f[m - 1].root, mods[m].new))
    BY <1>7, <2>3, <2>4
  <2>7. /\ TreeOK(f[m]) /\ (ViewFull(f[m - 1]) => ViewFull(f[m]))
        /\ \A x : x # mods[m].new /\ IsNew(f[m - 1].kids, f[m - 1].root, x) => IsNew(f[m].kids, f[m].root, x)
    BY <2>4, <2>5, <2>6, ModifiedOK
  <2>8. ASSUME NEW j \in 1..N, m < j, mods[j].new # None PROVE IsNew(f[m].kids, f[m].root, mods[j].new)
    <3>1. mods[j].new # mods[m].new
      BY <1>7, <2>3, <2>8
    <3>2. IsNew(f[m - 1].kids, f[m - 1].root, mods[j].new)
      BY <2>3, <2>4, <2>8
    <3> QED
      BY <2>7, <3>1, <3>2
  <2>9. OK(m)
    BY <2>4, <2>7, <2>8
  <2> HIDE DEF OK
  <2> QED
    BY <2>1, <2>9
<1>9. OK(N)
  <2> HIDE DEF OK
  <2> QED
    BY <1>1, <1>8
<1> QED
  BY <1>2, <1>5, <1>9

(***************************************************************************)
(* A tick: what the nodes answer.                                          *)
(***************************************************************************)
LEMMA TreeFacts ==
    ASSUME TreeOK(Now)
    PROVE  /\ KidsOK(kids) /\ RootOK(kids, root) /\ root \in InTree /\ InTree = Under(kids, root)
           /\ InTree \subseteq Nodes
           /\ \A n \in InTree : /\ Children(kids, n) \subseteq InTree
                                /\ Len(kids[n]) \in Nat /\ DOMAIN kids[n] = 1..Len(kids[n])
                                /\ \A i \in DOMAIN kids[n] : kids[n][i] \in Children(kids, n)
                                /\ n \in Leaves => kids[n] = <<>>
                                /\ n \in Decorators => Len(kids[n]) = 1
<1>1. KidsOK(kids) /\ RootOK(kids, root)
  BY DEF TreeOK, Now
<1>2. root \in Nodes /\ root # None
  BY <1>1, BuilderAssumption DEF RootOK
<1>3. InTree = Under(kids, root)
  BY <1>2 DEF InTree
<1>4. root \in InTree /\ InTree \subseteq Nodes
  BY <1>1, <1>2, <1>3, UnderLeast
<1>5. ASSUME NEW n \in InTree
      PROVE  /\ Children(kids, n) \subseteq InTree
             /\ Len(kids[n]) \in Nat /\ DOMAIN kids[n] = 1..Len(kids[n])
             /\ \A i \in DOMAIN kids[n] : kids[n][i] \in Children(kids, n)
             /\ n \in Leaves => kids[n] = <<>>
             /\ n \in Decorators => Len(kids[n]) = 1
  <2>1. Children(kids, n) \subseteq InTree
    BY <1>1, <1>2, <1>3, UnderLeast
  <2>2. Len(kids[n]) \in Nat /\ DOMAIN kids[n] = 1..Len(kids[n])
    BY <1>1, <1>4, KidsType
  <2>3. \A i \in DOMAIN kids[n] : kids[n][i] \in Children(kids, n)
    <3>1. IsWhole(kids, n)
      BY <1>1, <1>3, TreeWhole
    <3> QED
      BY <3>1 DEF IsWhole, Children, ToSet
  <2>4. (n \in Leaves => kids[n] = <<>>) /\ (n \in Decorators => Len(kids[n]) = 1)
    <3>1. DOMAIN kids = Nodes
      BY <1>1 DEF KidsOK
    <3> QED
      BY <1>1, <1>4, <3>1 DEF KidsOK, Forest
  <2> QED
    BY <2>1, <2>2, <2>3, <2>4
<1> QED
  BY <1>1, <1>3, <1>4, <1>5

LEMMA TreeGrounded ==
    ASSUME TreeOK(Now)
    PROVE  \A S \in (SUBSET InTree) \ {{}} : \E m \in S : Children(kids, m) \cap S = {}
<1> DEFINE down == [m \in Nodes |-> Children(kids, m)]
<1>1. InTree \subseteq Nodes /\ KidsOK(kids)
  BY TreeFacts
<1>2. Grounded(down)
  BY <1>1, ForestGrounded
<1>3. \A S \in (SUBSET Nodes) \ {{}} : \E m \in S : down[m] \cap S = {}
  BY <1>2 DEF Grounded
<1>4. \A m \in Nodes : down[m] = Children(kids, m)
  OBVIOUS
<1> HIDE DEF down
<1> QED
  BY <1>1, <1>3, <1>4

\* The child at which n stops is the first that it comes to and that did not pass.
LEMMA StopIs ==
    ASSUME TreeOK(Now), NEW n \in InTree, NEW res
    PROVE  \/ /\ Stop(n, res) = 0
              /\ \A i \in DOMAIN kids[n] : Visits(n, i) => res[kids[n][i]] = Pass(n)
           \/ /\ Stop(n, res) \in DOMAIN kids[n] /\ Stop(n, res) # 0
              /\ Visits(n, Stop(n, res)) /\ res[kids[n][Stop(n, res)]] # Pass(n)
              /\ \A i \in DOMAIN kids[n] : Visits(n, i) /\ i < Stop(n, res) => res[kids[n][i]] = Pass(n)
<1> DEFINE against == {i \in DOMAIN kids[n] : Visits(n, i) /\ res[kids[n][i]] # Pass(n)}
<1>1. Stop(n, res) = IF against = {} THEN 0 ELSE Min(against)
  BY DEF Stop
<1>2. DOMAIN kids[n] \subseteq Nat \ {0} /\ against \subseteq Nat
  <2>1. Len(kids[n]) \in Nat /\ DOMAIN kids[n] = 1..Len(kids[n])
    BY TreeFacts
  <2> QED
    BY <2>1
<1>3. CASE against = {}
  BY <1>1, <1>3
<1>4. CASE against # {}
  <2>1. \E m \in against : \A k \in against : m <= k
    <3> HIDE DEF against
    <3> QED
      BY <1>2, <1>4, LeastNumber
  <2>2. Min(against) \in against /\ \A k \in against : Min(against) <= k
    <3> HIDE DEF against
    <3> QED
      BY <2>1, Zenon DEF Min
  <2>3. PICK i : i = Stop(n, res)
    OBVIOUS
  <2>4. i \in against /\ \A k \in against : i <= k
    <3> HIDE DEF against
    <3> QED
      BY <1>1, <1>4, <2>2, <2>3
  <2>5. i \in DOMAIN kids[n] /\ i # 0 /\ Visits(n, i) /\ res[kids[n][i]] # Pass(n)
    BY <1>2, <2>4
  <2>6. \A k \in DOMAIN kids[n] : Visits(n, k) /\ k < i => res[kids[n][k]] = Pass(n)
    <3> SUFFICES ASSUME NEW k \in DOMAIN kids[n], Visits(n, k), k < i, res[kids[n][k]] # Pass(n) PROVE FALSE
      OBVIOUS
    <3>1. k \in Nat /\ i \in Nat /\ i <= k
      BY <1>2, <2>4
    <3> QED
      BY <3>1
  <2> QED
    BY <2>3, <2>5, <2>6
<1> QED
  BY <1>3, <1>4

\* The answers of the nodes, given those of the nodes below.
Answering(answer, g) ==
    [n \in InTree |->
        IF n \in Leaves THEN answer[n]
        ELSE LET i == Stop(n, g) IN
             IF i = 0 THEN Pass(n)
             ELSE IF n \in Decorators THEN Inverted(g[kids[n][i]]) ELSE g[kids[n][i]]]

LEMMA AnsweringLocal ==
    ASSUME TreeOK(Now), NEW answer, NEW g, NEW h, NEW n \in InTree,
           \A c \in Children(kids, n) : g[c] = h[c]
    PROVE  Answering(answer, g)[n] = Answering(answer, h)[n]
<1>1. \A i \in DOMAIN kids[n] : g[kids[n][i]] = h[kids[n][i]]
  BY TreeFacts
<1>2. Stop(n, g) = Stop(n, h)
  <2>1. {i \in DOMAIN kids[n] : Visits(n, i) /\ g[kids[n][i]] # Pass(n)}
          = {i \in DOMAIN kids[n] : Visits(n, i) /\ h[kids[n][i]] # Pass(n)}
    BY <1>1
  <2> QED
    BY <2>1 DEF Stop
<1>3. Stop(n, h) = 0 \/ Stop(n, h) \in DOMAIN kids[n]
  BY StopIs
<1>4. Stop(n, h) # 0 => g[kids[n][Stop(n, h)]] = h[kids[n][Stop(n, h)]]
  BY <1>1, <1>3
<1> QED
  BY <1>2, <1>4 DEF Answering

LEMMA AnswersExist ==
    ASSUME TreeOK(Now), NEW answer
    PROVE  \E g : g = Answering(answer, g)
<1> DEFINE Partial(D, g) == /\ D \subseteq InTree /\ \A m \in D : Children(kids, m) \subseteq D
                            /\ \A m \in D : g[m] = Answering(answer, g)[m]
           Covered == {m \in InTree : \E D, g : Partial(D, g) /\ m \in D}
           Val(m) == CHOOSE v : \E D, g : Partial(D, g) /\ m \in D /\ v = g[m]
           f == [m \in InTree |-> Val(m)]
<1>1. \A S \in (SUBSET InTree) \ {{}} : \E m \in S : Children(kids, m) \cap S = {}
  BY TreeGrounded
<1>2. ASSUME NEW D, NEW g, Partial(D, g), NEW E, NEW h, Partial(E, h), NEW x \in D, x \in E
      PROVE  g[x] = h[x]
  <2> DEFINE Bad == {m \in D : m \in E /\ g[m] # h[m]}
  <2>1. SUFFICES ASSUME Bad # {} PROVE FALSE
    BY <1>2
  <2>2. PICK m \in Bad : Children(kids, m) \cap Bad = {}
    <3>1. Bad \subseteq InTree
      BY <1>2
    <3> HIDE DEF Bad
    <3> QED
      BY <1>1, <2>1, <3>1
  <2>3. \A c \in Children(kids, m) : g[c] = h[c]
    BY <1>2, <2>2
  <2>4. Answering(answer, g)[m] = Answering(answer, h)[m]
    BY <1>2, <2>2, <2>3, AnsweringLocal
  <2> QED
    BY <1>2, <2>2, <2>4
<1>3. ASSUME NEW D, NEW g, Partial(D, g), NEW m \in D PROVE f[m] = g[m]
  <2>1. \E E, h : Partial(E, h) /\ m \in E /\ g[m] = h[m]
    BY <1>3
  <2>2. \E E, h : Partial(E, h) /\ m \in E /\ Val(m) = h[m]
    <3> HIDE DEF Partial
    <3> QED
      BY <2>1
  <2>3. Val(m) = g[m]
    <3> HIDE DEF Partial, Val
    <3> QED
      BY <1>2, <1>3, <2>2
  <2>4. m \in InTree
    BY <1>3
  <2> HIDE DEF Val
  <2> QED
    BY <2>3, <2>4
<1> HIDE DEF f
<1>4. ASSUME NEW m \in Covered PROVE Children(kids, m) \subseteq Covered /\ f[m] = Answering(answer, f)[m]
  <2>1. PICK D, g : Partial(D, g) /\ m \in D
    OBVIOUS
  <2>2. Children(kids, m) \subseteq Covered
    BY <2>1
  <2>3. \A c \in Children(kids, m) : f[c] = g[c]
    BY <1>3, <2>1
  <2>4. Answering(answer, f)[m] = Answering(answer, g)[m]
    <3>1. m \in InTree
      OBVIOUS
    <3> HIDE DEF Covered, Partial
    <3> QED
      BY <2>3, <3>1, AnsweringLocal
  <2>5. f[m] = g[m]
    BY <1>3, <2>1
  <2> QED
    BY <2>1, <2>2, <2>4, <2>5
<1>5. Covered = InTree
  <2> DEFINE Rest == {m \in InTree : m \notin Covered}
  <2>1. SUFFICES ASSUME Rest # {} PROVE FALSE
    OBVIOUS
  <2>2. PICK n \in Rest : Children(kids, n) \cap Rest = {}
    <3>1. Rest \subseteq InTree
      OBVIOUS
    <3> HIDE DEF Rest
    <3> QED
      BY <1>1, <2>1, <3>1
  <2> HIDE DEF Covered
  <2>3. n \in InTree /\ n \notin Covered /\ Children(kids, n) \subseteq Covered
    BY <2>2, TreeFacts
  <2> DEFINE g == [m \in InTree |-> IF m = n THEN Answering(answer, f)[n] ELSE f[m]]
             D == Covered \cup {n}
  <2>4. Covered \subseteq InTree
    BY DEF Covered
  <2>5. \A m \in Covered : g[m] = f[m]
    BY <2>3, <2>4
  <2>6. g[n] = Answering(answer, f)[n]
    BY <2>3
  <2> HIDE DEF g
  <2>7. ASSUME NEW m \in D PROVE g[m] = Answering(answer, g)[m]
    <3>1. m \in InTree /\ Children(kids, m) \subseteq Covered
      BY <1>4, <2>3, <2>4
    <3>2. Answering(answer, g)[m] = Answering(answer, f)[m]
      BY <2>5, <3>1, AnsweringLocal
    <3> QED
      BY <1>4, <2>5, <2>6, <3>2
  <2>8. Partial(D, g)
    BY <1>4, <2>3, <2>4, <2>7
  <2> QED
    BY <2>3, <2>8 DEF Covered
<1>6. f = Answering(answer, f)
  <2>1. \A m \in InTree : f[m] = Answering(answer, f)[m]
    <3> HIDE DEF Covered
    <3> QED
      BY <1>4, <1>5
  <2>2. DOMAIN f = InTree /\ f = [m \in InTree |-> f[m]]
    BY DEF f
  <2>3. PICK a : a = Answering(answer, f)
    OBVIOUS
  <2>4. a = [m \in InTree |-> a[m]]
    BY <2>3 DEF Answering
  <2> QED
    BY <2>1, <2>2, <2>3, <2>4
<1> QED
  BY <1>6

\* The kinds of node are apart.
LEMMA KindFacts ==
    ASSUME NEW n \in Nodes
    PROVE  /\ n \in Ordered \/ n \in Reactive \/ n \in Decorators \/ n \in Leaves
           /\ n \in Ordered => n \notin Reactive /\ n \notin Decorators /\ n \notin Leaves
           /\ n \in Reactive => n \notin Decorators /\ n \notin Leaves
           /\ n \in Decorators => n \notin Leaves
           /\ n \in Ordered \cup Reactive => Pass(n) \in {"SUCCESS", "FAILURE"}
           /\ n \in Decorators => Pass(n) = "None"
           /\ Pass(n) # "RUNNING" /\ Pass(n) # "IDLE"
<1>1. Kind[n] \in {"Sequence", "ReactiveSequence", "Fallback", "ReactiveFallback", "Inverter", "Action", "Condition"}
  BY BuilderAssumption DEF ControlKinds, AllKinds, AnyKinds, LeafKinds
<1> QED
  BY <1>1 DEF Ordered, Reactive, Decorators, Leaves, LeafKinds, AllKinds, AnyKinds, Pass

\* What the nodes may answer in one tick.
IsResults(res) == \E answer \in Answers : res = Answering(answer, res)

LEMMA ResultsAre ==
    ASSUME TreeOK(Now), NEW answer \in Answers
    PROVE  IsResults(Results(answer))
<1> DEFINE R == CHOOSE g : g = Answering(answer, g)
<1>1. Results(answer) = [n \in InTree |-> R[n]]
  BY DEF Results, Answering
<1>2. R = Answering(answer, R)
  BY AnswersExist
<1> HIDE DEF R
<1>3. R = [n \in InTree |-> R[n]]
  <2>1. PICK a : a = Answering(answer, R)
    OBVIOUS
  <2>2. a = [m \in InTree |-> a[m]]
    BY <2>1 DEF Answering
  <2> QED
    BY <1>2, <2>1, <2>2
<1> QED
  BY <1>1, <1>2, <1>3 DEF IsResults

LEMMA ResultsType ==
    ASSUME TreeOK(Now), NEW res, IsResults(res)
    PROVE  \A n \in InTree : res[n] \in Answer
<1>1. PICK answer \in Answers : res = Answering(answer, res)
  BY DEF IsResults
<1> DEFINE Bad == {n \in InTree : res[n] \notin Answer}
<1> SUFFICES ASSUME Bad # {} PROVE FALSE
  OBVIOUS
<1>2. PICK n \in Bad : Children(kids, n) \cap Bad = {}
  <2>1. Bad \subseteq InTree
    OBVIOUS
  <2> HIDE DEF Bad
  <2> QED
    BY <2>1, TreeGrounded
<1>3. n \in InTree /\ n \in Nodes /\ \A i \in DOMAIN kids[n] : res[kids[n][i]] \in Answer
  BY <1>2, TreeFacts
<1>4. res[n] = IF n \in Leaves THEN answer[n]
               ELSE LET i == Stop(n, res) IN
                    IF i = 0 THEN Pass(n)
                    ELSE IF n \in Decorators THEN Inverted(res[kids[n][i]]) ELSE res[kids[n][i]]
  <2>1. PICK a : a = Answering(answer, res)
    OBVIOUS
  <2>2. a[n] = IF n \in Leaves THEN answer[n]
               ELSE LET i == Stop(n, res) IN
                    IF i = 0 THEN Pass(n)
                    ELSE IF n \in Decorators THEN Inverted(res[kids[n][i]]) ELSE res[kids[n][i]]
    BY <1>3, <2>1 DEF Answering
  <2> QED
    BY <1>1, <2>1, <2>2
<1>5. n \in Leaves => answer[n] \in Answer
  BY <1>3 DEF Answers
<1>6. n \notin Leaves /\ Stop(n, res) = 0 => Pass(n) \in Answer
  <2>1. n \in Decorators => 1 \in DOMAIN kids[n] /\ Visits(n, 1)
    BY <1>3, TreeFacts, KindFacts DEF Visits, Fast
  <2>2. Stop(n, res) = 0 => \A i \in DOMAIN kids[n] : Visits(n, i) => res[kids[n][i]] = Pass(n)
    BY <1>3, StopIs
  <2>3. Stop(n, res) = 0 => n \notin Decorators
    BY <1>3, <2>1, <2>2, KindFacts DEF Answer
  <2> QED
    BY <1>3, <2>3, KindFacts DEF Answer
<1>7. Stop(n, res) # 0 => res[kids[n][Stop(n, res)]] \in Answer
  BY <1>3, StopIs
<1>8. \A r \in Answer : Inverted(r) \in Answer
  BY DEF Inverted, Answer
<1> HIDE DEF Bad
<1>9. res[n] \in Answer
  BY <1>4, <1>5, <1>6, <1>7, <1>8
<1> QED
  BY <1>2, <1>9 DEF Bad

LEMMA ResultFacts ==
    ASSUME TreeOK(Now), NEW res, IsResults(res), NEW n \in InTree \ Leaves
    PROVE  /\ Stop(n, res) = 0 => n \notin Decorators /\ res[n] = Pass(n)
           /\ Stop(n, res) # 0 => /\ res[n] = "RUNNING" <=> res[kids[n][Stop(n, res)]] = "RUNNING"
                                  /\ n \in Ordered \cup Reactive => res[n] # Pass(n)
<1>1. PICK answer \in Answers : res = Answering(answer, res)
  BY DEF IsResults
<1>2. n \in Nodes /\ \A i \in DOMAIN kids[n] : res[kids[n][i]] \in Answer
  BY TreeFacts, ResultsType
<1>3. res[n] = LET i == Stop(n, res) IN
               IF i = 0 THEN Pass(n)
               ELSE IF n \in Decorators THEN Inverted(res[kids[n][i]]) ELSE res[kids[n][i]]
  <2>1. PICK a : a = Answering(answer, res)
    OBVIOUS
  <2>2. a[n] = LET i == Stop(n, res) IN
               IF i = 0 THEN Pass(n)
               ELSE IF n \in Decorators THEN Inverted(res[kids[n][i]]) ELSE res[kids[n][i]]
    BY <2>1 DEF Answering
  <2> QED
    BY <1>1, <2>1, <2>2
<1>4. n \in Decorators => Stop(n, res) # 0
  <2>1. n \in Decorators => 1 \in DOMAIN kids[n] /\ Visits(n, 1)
    BY <1>2, TreeFacts, KindFacts DEF Visits, Fast
  <2>2. Stop(n, res) = 0 => \A i \in DOMAIN kids[n] : Visits(n, i) => res[kids[n][i]] = Pass(n)
    BY StopIs
  <2> QED
    BY <1>2, <2>1, <2>2, KindFacts DEF Answer
<1>5. Stop(n, res) # 0 => res[kids[n][Stop(n, res)]] # Pass(n)
  BY StopIs
<1>6. \A r : Inverted(r) = "RUNNING" <=> r = "RUNNING"
  BY DEF Inverted
<1> QED
  BY <1>2, <1>3, <1>4, <1>5, <1>6, KindFacts

(***************************************************************************)
(* A tick: which nodes are ticked, and what that leaves.                   *)
(***************************************************************************)
LEMMA TicksFacts ==
    ASSUME TreeOK(Now), NEW res, NEW n \in InTree
    PROVE  /\ Ticks(n, res) \subseteq Children(kids, n)
           /\ \A i \in DOMAIN kids[n] :
                 kids[n][i] \in Ticks(n, res) <=>
                     Visits(n, i) /\ (Stop(n, res) = 0 \/ i <= Stop(n, res))
<1>1. KidsOK(kids) /\ IsWhole(kids, n) /\ n \in Nodes
  BY TreeFacts, TreeWhole
<1>2. \A i, j \in DOMAIN kids[n] : kids[n][i] = kids[n][j] => i = j
  BY <1>1, DistinctKids DEF Distinct
<1>3. \A i \in DOMAIN kids[n] : kids[n][i] \in Children(kids, n)
  BY TreeFacts
<1> QED
  BY <1>2, <1>3 DEF Ticks

Going(res) == Below([n \in InTree |-> Ticks(n, res)], root)

LEMMA GoingFacts ==
    ASSUME TreeOK(Now), NEW res
    PROVE  /\ Going(res) \subseteq InTree /\ root \in Going(res)
           /\ \A n \in Going(res) : Ticks(n, res) \subseteq Going(res)
           /\ \A n \in Nodes : \A c \in Children(kids, n) :
                 c \in Going(res) => n \in Going(res) /\ c \in Ticks(n, res)
<1> DEFINE down == [n \in InTree |-> Ticks(n, res)]
<1>1. Grounded(down)
  <2>1. \A m \in InTree : down[m] = Ticks(m, res)
    OBVIOUS
  <2>2. \A m \in InTree : Ticks(m, res) \subseteq Children(kids, m) /\ Children(kids, m) \subseteq InTree
    BY TicksFacts, TreeFacts
  <2>3. DOMAIN down = InTree
    OBVIOUS
  <2> HIDE DEF down
  <2>4. \A S \in (SUBSET InTree) \ {{}} : \E m \in S : down[m] \cap S = {}
    <3> SUFFICES ASSUME NEW S \in (SUBSET InTree) \ {{}} PROVE \E m \in S : down[m] \cap S = {}
      OBVIOUS
    <3>1. PICK m \in S : Children(kids, m) \cap S = {}
      BY TreeGrounded
    <3>2. m \in InTree
      OBVIOUS
    <3> QED
      BY <2>1, <2>2, <3>1, <3>2
  <2> QED
    BY <2>1, <2>2, <2>3, <2>4 DEF Grounded
<1>2. root \in DOMAIN down
  BY TreeFacts
<1>3. /\ root \in Going(res) /\ Going(res) \subseteq InTree /\ Closed(down, Going(res))
      /\ \A S \in SUBSET InTree : root \in S /\ Closed(down, S) => Going(res) \subseteq S
  BY <1>1, <1>2, BelowLeast DEF Going
<1>4. \A n \in Going(res) : Ticks(n, res) \subseteq Going(res)
  BY <1>3 DEF Closed
<1>5. ASSUME NEW n \in Nodes, NEW c \in Children(kids, n), c \in Going(res)
      PROVE  n \in Going(res) /\ c \in Ticks(n, res)
  <2> DEFINE S == {x \in Going(res) : x = root \/ \E q \in Going(res) : x \in Ticks(q, res)}
  <2>1. root \in S /\ S \in SUBSET InTree
    BY <1>3
  <2>2. Closed(down, S)
    BY <1>3, <1>4 DEF Closed
  <2>3. c \in S
    <3> HIDE DEF S
    <3> QED
      BY <1>3, <1>5, <2>1, <2>2
  <2>4. c # root
    BY TreeFacts DEF RootOK, IsTop, Children
  <2>5. PICK q \in Going(res) : c \in Ticks(q, res)
    BY <2>3, <2>4
  <2>6. q \in InTree /\ c \in Children(kids, q)
    BY <1>3, <2>5, TicksFacts
  <2>7. q = n
    BY <1>5, <2>6, TreeFacts, TreeWhole
  <2> QED
    BY <2>5, <2>7
<1> QED
  BY <1>3, <1>4, <1>5

\* The state after a tick but for the halts.
Raw(res) ==
    [kids |-> kids, root |-> root,
     status |-> [n \in Nodes |-> IF n \in Going(res) THEN res[n] ELSE status[n]],
     place |-> [n \in Nodes |-> IF n \in Going(res) THEN PlaceAfter(n, res) ELSE place[n]],
     shown |-> (shown \ Going(res)) \cup {n \in Going(res) : res[n] = "RUNNING"},
     passed |-> [n \in Nodes |-> IF n \in Going(res)
                  THEN Kept(n, passed[n]) \cup {c \in Ticks(n, res) : res[c] = Pass(n)}
                  ELSE passed[n]],
     heirs |-> [n \in Nodes |-> IF n \in Going(res) THEN Kept(n, heirs[n]) ELSE heirs[n]]]

Dropped(res) == UNION {Drops(n, res) : n \in Going(res)}

LEMMA TickedIs ==
    ASSUME NEW res
    PROVE  Ticked(res) = Halted(Raw(res), Dropped(res))
BY DEF Ticked, Raw, Dropped, Going

\* The parts of it, node by node.
LEMMA RawIs ==
    ASSUME TreeOK(Now), NEW res, IsResults(res)
    PROVE  LET s == Raw(res) IN
           /\ s \in States /\ s.kids = kids /\ s.root = root
           /\ \A n \in Going(res) :
                 /\ s.status[n] = res[n] /\ s.place[n] = PlaceAfter(n, res)
                 /\ s.passed[n] = Kept(n, passed[n]) \cup {c \in Ticks(n, res) : res[c] = Pass(n)}
                 /\ s.heirs[n] = Kept(n, heirs[n])
           /\ \A n \in Nodes \ Going(res) :
                 /\ s.status[n] = status[n] /\ s.place[n] = place[n]
                 /\ s.passed[n] = passed[n] /\ s.heirs[n] = heirs[n]
           /\ s.shown = (shown \ Going(res)) \cup {n \in Going(res) : res[n] = "RUNNING"}
<1> DEFINE s == Raw(res)
           st == [n \in Nodes |-> IF n \in Going(res) THEN res[n] ELSE status[n]]
           pl == [n \in Nodes |-> IF n \in Going(res) THEN PlaceAfter(n, res) ELSE place[n]]
           sh == (shown \ Going(res)) \cup {n \in Going(res) : res[n] = "RUNNING"}
           pa == [n \in Nodes |-> IF n \in Going(res)
                    THEN Kept(n, passed[n]) \cup {c \in Ticks(n, res) : res[c] = Pass(n)}
                    ELSE passed[n]]
           he == [n \in Nodes |-> IF n \in Going(res) THEN Kept(n, heirs[n]) ELSE heirs[n]]
<1>1. s = [kids |-> kids, root |-> root, status |-> st, place |-> pl, shown |-> sh, passed |-> pa, heirs |-> he]
  BY DEF Raw
<1>2. /\ kids \in [Nodes -> Seq(Nodes \cup {Hole})] /\ root \in Nodes \cup {None}
      /\ status \in [Nodes -> Answer \cup {"IDLE"}] /\ place \in [Nodes -> Places]
      /\ shown \in SUBSET Nodes /\ passed \in [Nodes -> SUBSET Nodes] /\ heirs \in [Nodes -> SUBSET Nodes]
  BY DEF TreeOK, Now, States
<1>3. Going(res) \subseteq InTree /\ InTree \subseteq Nodes /\ \A n \in InTree : res[n] \in Answer
  BY GoingFacts, TreeFacts, ResultsType
<1>4. st \in [Nodes -> Answer \cup {"IDLE"}]
  BY <1>2, <1>3
<1>5. \A n \in InTree : PlaceAfter(n, res) \in Places
  <2> SUFFICES ASSUME NEW n \in InTree PROVE PlaceAfter(n, res) \in Places
    OBVIOUS
  <2>1. Stop(n, res) \in Nat
    BY StopIs, TreeFacts
  <2> QED
    BY <2>1 DEF PlaceAfter, Places
<1>6. pl \in [Nodes -> Places]
  BY <1>2, <1>3, <1>5
<1>7. \A n \in InTree : Ticks(n, res) \subseteq Nodes
  BY TicksFacts, TreeFacts
<1>8. pa \in [Nodes -> SUBSET Nodes] /\ he \in [Nodes -> SUBSET Nodes]
  BY <1>2, <1>3, <1>7 DEF Kept
<1>9. sh \in SUBSET Nodes
  BY <1>2, <1>3
<1>10. \A n \in Nodes :
          /\ st[n] = IF n \in Going(res) THEN res[n] ELSE status[n]
          /\ pl[n] = IF n \in Going(res) THEN PlaceAfter(n, res) ELSE place[n]
          /\ pa[n] = IF n \in Going(res)
                     THEN Kept(n, passed[n]) \cup {c \in Ticks(n, res) : res[c] = Pass(n)}
                     ELSE passed[n]
          /\ he[n] = IF n \in Going(res) THEN Kept(n, heirs[n]) ELSE heirs[n]
  OBVIOUS
<1> HIDE DEF st, pl, pa, he, s
<1>11. /\ s \in States /\ s.kids = kids /\ s.root = root /\ s.status = st /\ s.place = pl
       /\ s.shown = sh /\ s.passed = pa /\ s.heirs = he
  BY <1>1, <1>2, <1>4, <1>6, <1>8, <1>9 DEF States
<1>12. \A n \in Going(res) :
          /\ s.status[n] = res[n] /\ s.place[n] = PlaceAfter(n, res)
          /\ s.passed[n] = Kept(n, passed[n]) \cup {c \in Ticks(n, res) : res[c] = Pass(n)}
          /\ s.heirs[n] = Kept(n, heirs[n])
  BY <1>3, <1>10, <1>11
<1>13. \A n \in Nodes \ Going(res) :
          /\ s.status[n] = status[n] /\ s.place[n] = place[n]
          /\ s.passed[n] = passed[n] /\ s.heirs[n] = heirs[n]
  BY <1>10, <1>11
<1> QED
  BY <1>11, <1>12, <1>13 DEF s

\* Where the nodes were before the tick.
LEMMA NodeFacts ==
    ASSUME TreeOK(Now), NEW n \in Nodes
    PROVE  /\ place[n].cursor \in 1..Len(kids[n]) \cup {1} /\ place[n].running \in 0..Len(kids[n])
           /\ place[n].cursor # 1 => n \in Ordered /\ status[n] = "RUNNING"
           /\ place[n].running # 0 => n \in Reactive /\ status[n] = "RUNNING"
           /\ \A i \in DOMAIN kids[n] : kids[n][i] \in Nodes /\ status[kids[n][i]] = "RUNNING" =>
                 /\ status[n] = "RUNNING"
                 /\ n \in Ordered => place[n].cursor = i
                 /\ n \in Reactive => place[n].running = i
           /\ \A i \in DOMAIN kids[n] : Behind(Now, n, i) => kids[n][i] \in passed[n] \cup heirs[n]
<1>1. NodeOK(Now, n)
  BY DEF TreeOK
<1>2. /\ Now.kids = kids /\ Now.status = status /\ Now.place = place
      /\ Now.passed = passed /\ Now.heirs = heirs
  BY DEF Now
<1>3. PlaceOK(Now, n) /\ RestOK(Now, n) /\ WaitBut(Now, n, {}) /\ DoneOK(Now, n)
  BY <1>1 DEF NodeOK, NodeBut
<1>4. \A i \in DOMAIN kids[n] : Behind(Now, n, i) => kids[n][i] \in passed[n] \cup heirs[n]
  BY <1>2, <1>3 DEF DoneOK
<1> HIDE DEF Now
<1> QED
  BY <1>2, <1>3, <1>4 DEF PlaceOK, RestOK, WaitBut

\* A node that is not ticked keeps what it has, and so do its children.
LEMMA RawQuiet ==
    ASSUME TreeOK(Now), NEW res, IsResults(res), NEW n \in Nodes \ Going(res), NEW out
    PROVE  RestOK(Raw(res), n) /\ NodeBut(Raw(res), n, out)
<1>1. PICK s : s = Raw(res)
  OBVIOUS
<1>2. /\ s.kids = kids /\ s.status[n] = status[n] /\ s.place[n] = place[n]
      /\ s.passed[n] = passed[n] /\ s.heirs[n] = heirs[n]
      /\ \A m \in Nodes \ Going(res) : s.status[m] = status[m]
  BY <1>1, RawIs
<1>3. \A i \in DOMAIN kids[n] : kids[n][i] \in Nodes => kids[n][i] \notin Going(res)
  <2>1. \A i \in DOMAIN kids[n] : kids[n][i] \in Nodes => kids[n][i] \in Children(kids, n)
    BY BuilderAssumption DEF Children, ToSet
  <2> QED
    BY <2>1, GoingFacts
<1>4. PlaceOK(s, n) /\ RestOK(s, n)
  BY <1>2, NodeFacts DEF PlaceOK, RestOK
<1>5. WaitBut(s, n, out)
  BY <1>2, <1>3, NodeFacts DEF WaitBut
<1>6. DoneOK(s, n)
  <2>1. \A i : Behind(s, n, i) => Behind(Now, n, i)
    BY <1>2 DEF Behind, Now
  <2> QED
    BY <1>2, <2>1, NodeFacts DEF DoneOK
<1> QED
  BY <1>1, <1>4, <1>5, <1>6 DEF NodeBut

LEMMA RawPlace ==
    ASSUME TreeOK(Now), NEW res, IsResults(res), NEW n \in Going(res)
    PROVE  PlaceOK(Raw(res), n) /\ RestOK(Raw(res), n)
<1>1. PICK s : s = Raw(res)
  OBVIOUS
<1>2. s.kids = kids /\ s.status[n] = res[n] /\ s.place[n] = PlaceAfter(n, res)
  BY <1>1, RawIs
<1>3. n \in InTree /\ n \in Nodes
  BY GoingFacts, TreeFacts
<1>4. Stop(n, res) \in 0..Len(kids[n])
  BY <1>3, StopIs, TreeFacts
<1>5. res[n] = "RUNNING" /\ n \notin Leaves => Stop(n, res) # 0
  BY <1>3, ResultFacts, KindFacts
<1>6. n \in Ordered => n \notin Leaves
  BY <1>3, KindFacts
<1>7. /\ s.place[n].cursor = IF n \in Ordered /\ res[n] = "RUNNING" /\ Stop(n, res) # 0
                             THEN Stop(n, res) ELSE 1
      /\ s.place[n].running = IF n \in Reactive /\ res[n] = "RUNNING" THEN Stop(n, res) ELSE 0
  BY <1>2 DEF PlaceAfter
<1>8. Len(kids[n]) \in Nat
  BY <1>3, TreeFacts
<1> QED
  BY <1>1, <1>2, <1>4, <1>7, <1>8 DEF PlaceOK, RestOK

\* What is RUNNING below a ticked node and is not dropped is what it waits for.
LEMMA RawWait ==
    ASSUME TreeOK(Now), NEW res, IsResults(res), NEW n \in Going(res),
           NEW out, Dropped(res) \subseteq out
    PROVE  WaitBut(Raw(res), n, out)
<1>1. PICK s : s = Raw(res)
  OBVIOUS
<1>2. /\ s.kids = kids /\ s.status[n] = res[n] /\ s.place[n] = PlaceAfter(n, res)
      /\ \A m \in Going(res) : s.status[m] = res[m]
      /\ \A m \in Nodes \ Going(res) : s.status[m] = status[m]
  BY <1>1, RawIs
<1>3. n \in InTree /\ n \in Nodes
  BY GoingFacts, TreeFacts
<1>4. Drops(n, res) \subseteq out
  BY DEF Dropped
<1>5. PICK st : st = Stop(n, res)
  OBVIOUS
<1> SUFFICES ASSUME NEW i \in DOMAIN kids[n], kids[n][i] \in (Nodes \ out), s.status[kids[n][i]] = "RUNNING"
             PROVE  /\ res[n] = "RUNNING"
                    /\ n \in Ordered => s.place[n].cursor = i
                    /\ n \in Reactive => s.place[n].running = i
  BY <1>1, <1>2 DEF WaitBut
<1> DEFINE c == kids[n][i]
<1>6. n \notin Leaves /\ i \in 1..Len(kids[n]) /\ i \in Nat /\ Len(kids[n]) \in Nat /\ c \in Children(kids, n)
  <2>1. DOMAIN kids[n] = 1..Len(kids[n]) /\ Len(kids[n]) \in Nat /\ c \in Children(kids, n)
    BY <1>3, TreeFacts
  <2>2. n \notin Leaves
    BY <1>3, <2>1, TreeFacts
  <2> QED
    BY <2>1, <2>2
<1>7. st = 0 \/ (st \in Nat /\ st # 0 /\ st \in DOMAIN kids[n])
  BY <1>3, <1>5, StopIs, TreeFacts
<1>8. CASE c \in Ticks(n, res)
  <2>1. c \in Going(res) /\ res[c] = "RUNNING"
    BY <1>2, <1>8, GoingFacts
  <2>2. Visits(n, i) /\ (st = 0 \/ i <= st)
    BY <1>3, <1>5, <1>8, TicksFacts
  <2>3. res[c] # Pass(n)
    BY <1>3, <2>1, KindFacts
  <2>4. st # 0 /\ ~(i < st)
    BY <1>3, <1>5, <2>2, <2>3, StopIs
  <2>5. i = st
    BY <1>6, <1>7, <2>2, <2>4
  <2>6. res[n] = "RUNNING"
    BY <1>3, <1>5, <1>6, <2>1, <2>4, <2>5, ResultFacts
  <2> QED
    BY <1>2, <1>5, <2>4, <2>5, <2>6 DEF PlaceAfter
<1>9. CASE c \notin Ticks(n, res)
  <2>1. c \notin Going(res)
    BY <1>3, <1>6, <1>9, GoingFacts
  <2>2. status[c] = "RUNNING"
    BY <1>2, <2>1
  <2>3. (n \in Ordered => place[n].cursor = i) /\ (n \in Reactive => place[n].running = i)
    BY <1>3, <2>2, NodeFacts
  <2>4. Visits(n, i)
    BY <1>3, <1>6, <2>3, KindFacts DEF Visits, Fast
  <2>5. st # 0 /\ ~(i <= st)
    BY <1>3, <1>5, <1>9, <2>4, TicksFacts
  <2>6. st < i /\ st \in 1..Len(kids[n]) /\ Visits(n, st)
    BY <1>3, <1>5, <1>6, <1>7, <2>5, StopIs, TreeFacts
  <2>7. CASE n \in Decorators
    <3>1. Len(kids[n]) = 1
      BY <1>3, <2>7, TreeFacts
    <3> QED
      BY <1>6, <2>6, <3>1
  <2>8. CASE n \in Ordered
    <3>1. st >= place[n].cursor
      BY <2>6, <2>8 DEF Visits
    <3> QED
      BY <1>6, <2>3, <2>6, <2>8, <3>1
  <2>9. CASE n \in Reactive
    <3>1. c \notin Drops(n, res)
      BY <1>4
    <3>2. n \notin Ordered
      BY <1>3, <2>9, KindFacts
    <3>3. st # place[n].running
      BY <1>6, <2>3, <2>6, <2>9
    <3>4. Drops(n, res) = {kids[n][j] : j \in st + 1..Len(kids[n])}
      BY <1>5, <2>5, <2>9, <3>2, <3>3 DEF Drops
    <3>5. i \in st + 1..Len(kids[n])
      BY <1>6, <2>6
    <3> QED
      BY <3>1, <3>4, <3>5
  <2> QED
    BY <1>3, <1>6, <2>7, <2>8, <2>9, KindFacts
<1> QED
  BY <1>8, <1>9

\* What a ticked node has behind it passed in this tick, or had passed before.
LEMMA RawDone ==
    ASSUME TreeOK(Now), NEW res, IsResults(res), NEW n \in Going(res)
    PROVE  DoneOK(Raw(res), n)
<1>1. PICK s : s = Raw(res)
  OBVIOUS
<1>2. /\ s.kids = kids /\ s.status[n] = res[n] /\ s.place[n] = PlaceAfter(n, res)
      /\ s.passed[n] = Kept(n, passed[n]) \cup {c \in Ticks(n, res) : res[c] = Pass(n)}
      /\ s.heirs[n] = Kept(n, heirs[n])
  BY <1>1, RawIs
<1>3. n \in InTree /\ n \in Nodes
  BY GoingFacts, TreeFacts
<1>4. PICK st : st = Stop(n, res)
  OBVIOUS
<1> SUFFICES ASSUME NEW i \in DOMAIN kids[n], Behind(s, n, i)
             PROVE  kids[n][i] \in s.passed[n] \cup s.heirs[n]
  BY <1>1, <1>2 DEF DoneOK
<1> DEFINE c == kids[n][i]
<1>5. n \notin Leaves /\ (n \in Ordered \/ n \in Reactive)
  BY <1>3, KindFacts DEF Behind
<1>6. i \in Nat /\ i >= 1 /\ DOMAIN kids[n] = 1..Len(kids[n]) /\ Len(kids[n]) \in Nat
  BY <1>3, TreeFacts
<1>7. st = 0 \/ (st \in Nat /\ i < st)
  <2>1. st = 0 \/ st \in Nat
    BY <1>3, <1>4, <1>6, StopIs
  <2>2. CASE st # 0
    <3>1. res[n] # Pass(n)
      BY <1>3, <1>4, <1>5, <2>2, ResultFacts
    <3>2. /\ res[n] = "RUNNING"
          /\ \/ n \in Ordered /\ i < PlaceAfter(n, res).cursor
             \/ n \in Reactive /\ i < PlaceAfter(n, res).running
      BY <1>2, <3>1 DEF Behind
    <3>3. (n \in Ordered => PlaceAfter(n, res).cursor = st) /\ (n \in Reactive => PlaceAfter(n, res).running = st)
      BY <1>4, <2>2, <3>2 DEF PlaceAfter
    <3> QED
      BY <2>1, <3>2, <3>3
  <2> QED
    BY <2>1, <2>2
<1>8. CASE Visits(n, i)
  <2>1. res[c] = Pass(n)
    BY <1>3, <1>4, <1>7, <1>8, StopIs
  <2>2. i <= st \/ st = 0
    BY <1>6, <1>7
  <2>3. c \in Ticks(n, res)
    BY <1>3, <1>4, <1>8, <2>2, TicksFacts
  <2> QED
    BY <1>2, <2>1, <2>3
<1>9. CASE ~Visits(n, i)
  <2>1. \/ n \in Ordered /\ ~(i >= place[n].cursor)
        \/ n \in Reactive /\ ~(i >= place[n].running)
    BY <1>9 DEF Visits, Fast
  <2>2. place[n].cursor \in Nat /\ place[n].running \in Nat
    BY <1>3, <1>6, NodeFacts
  <2>3. \/ n \in Ordered /\ i < place[n].cursor /\ place[n].cursor # 1
        \/ n \in Reactive /\ i < place[n].running /\ place[n].running # 0
    BY <1>6, <2>1, <2>2
  <2>4. status[n] = "RUNNING"
    BY <1>3, <2>3, NodeFacts
  <2>5. Behind(Now, n, i)
    BY <2>3, <2>4 DEF Behind, Now
  <2>6. c \in passed[n] \cup heirs[n]
    BY <1>3, <2>5, NodeFacts
  <2> QED
    BY <1>2, <2>4, <2>6 DEF Kept
<1> QED
  BY <1>8, <1>9

LEMMA DroppedNodes ==
    ASSUME TreeOK(Now), NEW res
    PROVE  Dropped(res) \in SUBSET Nodes
<1>1. \A n \in Going(res) : Drops(n, res) \subseteq Nodes
  <2> SUFFICES ASSUME NEW n \in Going(res) PROVE Drops(n, res) \subseteq Nodes
    OBVIOUS
  <2>1. n \in InTree /\ InTree \subseteq Nodes
    BY GoingFacts, TreeFacts
  <2>2. \A i \in DOMAIN kids[n] : kids[n][i] \in Nodes
    BY <2>1, TreeFacts
  <2>3. ToSet(kids[n]) \subseteq Nodes
    BY <2>2 DEF ToSet
  <2>4. {kids[n][j] : j \in Stop(n, res) + 1..Len(kids[n])} \subseteq Nodes
    <3>1. \A j \in Stop(n, res) + 1..Len(kids[n]) : j \in DOMAIN kids[n]
      <4>1. Stop(n, res) = 0 \/ Stop(n, res) \in DOMAIN kids[n]
        BY <2>1, StopIs
      <4>2. DOMAIN kids[n] = 1..Len(kids[n]) /\ Len(kids[n]) \in Nat
        BY <2>1, TreeFacts
      <4> QED
        BY <4>1, <4>2
    <3> QED
      BY <2>2, <3>1
  <2> QED
    BY <2>3, <2>4 DEF Drops
<1> QED
  BY <1>1 DEF Dropped

\* A node that is RUNNING after a tick was ticked: its parent waits for it.
LEMMA RunningWasTicked ==
    ASSUME TreeOK(Now), NEW res, IsResults(res), NEW h, h = Halted(Raw(res), Dropped(res)), TreeOK(h),
           NEW m \in Nodes, h.status[m] = "RUNNING"
    PROVE  m \in Going(res) /\ m \notin AllUnder(kids, Dropped(res)) /\ res[m] = "RUNNING"
<1> DEFINE all == AllUnder(kids, Dropped(res))
<1>1. PICK s : s = Raw(res)
  OBVIOUS
<1>2. /\ s \in States /\ s.kids = kids /\ s.root = root
      /\ \A n \in Going(res) : s.status[n] = res[n] /\ s.place[n] = PlaceAfter(n, res)
  BY <1>1, RawIs
<1>3. KidsOK(kids) /\ Dropped(res) \in SUBSET Nodes
  BY TreeFacts, DroppedNodes
<1>4. /\ h.kids = kids /\ h.root = root /\ \A n \in all : h.status[n] = "IDLE"
      /\ \A n \in Nodes \ all : h.status[n] = s.status[n] /\ h.place[n] = s.place[n]
  BY <1>1, <1>2, <1>3, HaltedIs
<1> DEFINE S == {n \in InTree : h.status[n] = "RUNNING" /\ n \notin Going(res)}
           U == {n \in InTree : n \notin S}
<1>5. root \in U
  BY GoingFacts, TreeFacts
<1>6. ASSUME NEW p \in U, NEW c \in Children(kids, p) PROVE c \in U
  <2>1. p \in InTree /\ p \in Nodes /\ c \in InTree /\ c \in Nodes
    BY TreeFacts
  <2> SUFFICES ASSUME c \in S PROVE FALSE
    BY <2>1
  <2>2. h.status[c] = "RUNNING" /\ c \notin Going(res)
    OBVIOUS
  <2>3. PICK i \in DOMAIN kids[p] : kids[p][i] = c
    BY DEF Children, ToSet
  <2>4. WaitBut(h, p, {})
    BY <2>1 DEF TreeOK, NodeOK, NodeBut
  <2>5. /\ h.status[p] = "RUNNING" /\ (p \in Ordered => h.place[p].cursor = i)
        /\ (p \in Reactive => h.place[p].running = i)
    BY <1>4, <2>1, <2>2, <2>3, <2>4 DEF WaitBut
  <2>6. p \in Going(res) /\ p \notin all
    <3>1. p \in Going(res)
      BY <2>1, <2>5
    <3>2. p \notin all
      BY <1>4, <2>5
    <3> QED
      BY <3>1, <3>2
  <2> HIDE DEF S, U, all
  <2>7. /\ res[p] = "RUNNING" /\ (p \in Ordered => PlaceAfter(p, res).cursor = i)
        /\ (p \in Reactive => PlaceAfter(p, res).running = i)
    BY <1>2, <1>4, <2>1, <2>5, <2>6
  <2>8. p \notin Leaves /\ DOMAIN kids[p] = 1..Len(kids[p]) /\ (p \in Decorators => Len(kids[p]) = 1)
    BY <2>1, <2>3, TreeFacts
  <2>9. Stop(p, res) # 0 /\ Stop(p, res) \in DOMAIN kids[p]
    BY <2>1, <2>7, <2>8, ResultFacts, StopIs, KindFacts
  <2>10. Stop(p, res) = i
    <3>1. CASE p \in Ordered
      BY <2>7, <2>9, <3>1 DEF PlaceAfter
    <3>2. CASE p \in Reactive
      BY <2>7, <2>9, <3>2 DEF PlaceAfter
    <3>3. CASE p \in Decorators
      <4>1. DOMAIN kids[p] = 1..1
        BY <2>8, <3>3
      <4> QED
        BY <2>3, <2>9, <4>1
    <3> QED
      BY <2>1, <2>8, <3>1, <3>2, <3>3, KindFacts
  <2>11. Visits(p, i)
    BY <2>1, <2>9, <2>10, StopIs
  <2>12. i <= Stop(p, res)
    BY <2>3, <2>8, <2>10
  <2>13. c \in Ticks(p, res)
    BY <2>1, <2>3, <2>11, <2>12, TicksFacts
  <2> QED
    BY <2>2, <2>6, <2>13, GoingFacts
<1>7. InTree \subseteq U
  <2>1. root \in Nodes /\ InTree = Under(kids, root) /\ U \in SUBSET Nodes
    BY TreeFacts
  <2> HIDE DEF U
  <2> QED
    BY <1>3, <1>5, <1>6, <2>1, UnderLeast
<1>8. m \in InTree
  BY <1>4, TreeFacts DEF TreeOK, IdleOutside
<1>9. m \in Going(res)
  BY <1>7, <1>8
<1>10. m \notin all
  BY <1>4
<1>11. res[m] = "RUNNING"
  BY <1>2, <1>4, <1>9, <1>10
<1> QED
  BY <1>9, <1>10, <1>11

LEMMA TickedOK ==
    ASSUME TreeOK(Now), NEW answer \in Answers
    PROVE  LET t == Ticked(Results(answer)) IN TreeOK(t) /\ ViewFull(t)
<1>1. PICK res : res = Results(answer)
  OBVIOUS
<1>2. IsResults(res)
  BY <1>1, ResultsAre
<1>3. PICK s : s = Raw(res)
  OBVIOUS
<1>4. PICK all : all = AllUnder(kids, Dropped(res))
  OBVIOUS
<1>5. /\ s \in States /\ s.kids = kids /\ s.root = root
      /\ \A n \in Going(res) : s.status[n] = res[n]
      /\ \A n \in Nodes \ Going(res) : s.status[n] = status[n]
      /\ s.shown = (shown \ Going(res)) \cup {n \in Going(res) : res[n] = "RUNNING"}
  BY <1>2, <1>3, RawIs
<1>6. KidsOK(kids) /\ RootOK(kids, root) /\ Dropped(res) \in SUBSET Nodes
  BY TreeFacts, DroppedNodes
<1>7. Dropped(res) \subseteq all /\ all \subseteq Nodes
  BY <1>4, <1>6, AllUnderClosed
<1>8. \A n \in Nodes : RestOK(s, n) /\ NodeBut(s, n, all)
  <2> SUFFICES ASSUME NEW n \in Nodes PROVE RestOK(s, n) /\ NodeBut(s, n, all)
    OBVIOUS
  <2>1. CASE n \in Going(res)
    BY <1>2, <1>3, <1>7, <2>1, RawPlace, RawWait, RawDone DEF NodeBut
  <2>2. CASE n \notin Going(res)
    BY <1>2, <1>3, <2>2, RawQuiet
  <2> QED
    BY <2>1, <2>2
<1>9. ViewOK(s)
  <2>1. \A n \in shown : n \in Nodes /\ status[n] = "RUNNING"
    BY DEF TreeOK, ViewOK, States, Now
  <2> QED
    BY <1>5, <2>1 DEF ViewOK
<1>10. IdleOutside(s, Under(kids, root) \cup all)
  <2>1. \A n \in (Nodes \ Under(kids, root)) : status[n] = "IDLE"
    BY DEF TreeOK, IdleOutside, Now
  <2>2. Going(res) \subseteq Under(kids, root)
    BY GoingFacts, TreeFacts
  <2> QED
    BY <1>5, <2>1, <2>2 DEF IdleOutside
<1>11. PICK h : h = Halted(s, Dropped(res))
  OBVIOUS
<1>12. TreeOK(h)
  BY <1>4, <1>5, <1>6, <1>8, <1>9, <1>10, <1>11, TreeHalted
<1>13. ViewFull(h)
  <2> SUFFICES ASSUME NEW m \in Nodes, h.status[m] = "RUNNING" PROVE m \in h.shown
    BY DEF ViewFull
  <2>1. m \in Going(res) /\ m \notin all /\ res[m] = "RUNNING"
    BY <1>2, <1>3, <1>4, <1>11, <1>12, RunningWasTicked
  <2>2. h.shown = s.shown \ {n \in all : s.status[n] = "RUNNING"}
    BY <1>4, <1>5, <1>6, <1>11, HaltedIs
  <2> QED
    BY <1>5, <2>1, <2>2
<1>14. Ticked(res) = h
  BY <1>3, <1>11, TickedIs
<1> QED
  BY <1>1, <1>12, <1>13, <1>14

(***************************************************************************)
(* The builder.                                                            *)
(***************************************************************************)
\* A node that is nobody's child is given to an open scope, or becomes the root.
LEMMA AttachOK ==
    ASSUME KidsOK(kids), NEW n \in Nodes, IsTop(kids, n), IsWhole(kids, n), n # root,
           root # None => RootOK(kids, root),
           NEW scopes, scopes # <<>> => /\ Last(scopes) \in Nodes \ Leaves /\ Last(scopes) # n
                                        /\ IsTop(kids, Last(scopes)),
           Attach(scopes, n)
    PROVE  /\ KidsOK(kids') /\ (root' # None => RootOK(kids', root'))
           /\ \A m \in Nodes : m # n /\ IsTop(kids, m) => IsTop(kids', m)
           /\ IF scopes = <<>> THEN root' = n ELSE root' = root
<1>1. CASE scopes = <<>>
  BY <1>1 DEF Attach, RootOK
<1>2. CASE scopes # <<>>
  <2> DEFINE top == Last(scopes)
             seq == IF top \in Decorators THEN <<n>> ELSE Append(kids[top], n)
  <2>1. top \in Nodes \ Leaves /\ top # n /\ IsTop(kids, top)
    BY <1>2
  <2>2. kids' = [kids EXCEPT ![top] = seq] /\ root' = root
    BY <1>2 DEF Attach
  <2> HIDE DEF top
  <2>3. kids \in [Nodes -> Seq(Nodes \cup {Hole})] /\ Hole \notin Nodes
    BY BuilderAssumption DEF KidsOK
  <2>4. /\ seq \in Seq(Nodes) /\ Distinct(seq) /\ ToSet(seq) \subseteq Children(kids, top) \cup {n}
        /\ top \in Decorators => Len(seq) = 1
    <3>1. CASE top \in Decorators
      <4>1. seq = <<n>>
        BY <3>1
      <4>2. <<n>> \in Seq(Nodes) /\ Distinct(<<n>>) /\ ToSet(<<n>>) = {n} /\ Len(<<n>>) = 1
        BY DEF Distinct, ToSet
      <4> HIDE DEF seq
      <4> QED
        BY <4>1, <4>2
    <3>2. CASE top \notin Decorators
      <4>1. IsWhole(kids, top)
        BY <2>1, <3>2 DEF KidsOK
      <4>2. Distinct(kids[top]) /\ kids[top] \in Seq(Nodes) /\ ToSet(kids[top]) = Children(kids, top)
        BY <2>1, <4>1, DistinctKids
      <4>3. n \notin ToSet(kids[top])
        BY <2>1 DEF IsTop
      <4>4. seq = Append(kids[top], n)
        BY <3>2
      <4>5. Append(kids[top], n) \in Seq(Nodes) /\ Distinct(Append(kids[top], n)) /\ ToSet(Append(kids[top], n)) = ToSet(kids[top]) \cup {n}
        BY <4>2, <4>3, AppendDistinct
      <4> HIDE DEF seq
      <4> QED
        BY <3>2, <4>2, <4>4, <4>5
    <3> QED
      BY <3>1, <3>2
  <2> HIDE DEF seq
  <2>5. PICK N : N = {n}
    OBVIOUS
  <2>6. top \notin Under(kids, n)
    BY <2>1, TopIsAlone
  <2>7. N \in SUBSET Nodes /\ \A x \in N : IsTop(kids, x) /\ IsWhole(kids, x) /\ top \notin Under(kids, x)
    BY <2>5, <2>6
  <2>8. ToSet(seq) \subseteq Children(kids, top) \cup N
    BY <2>4, <2>5
  <2>9. KidsOK([kids EXCEPT ![top] = seq])
    BY <2>1, <2>4, <2>7, <2>8, Regrown
  <2>10. \A m \in Nodes \ N : IsTop(kids, m) => IsTop([kids EXCEPT ![top] = seq], m)
    BY <2>1, <2>4, <2>7, <2>8, Regrown
  <2>11. KidsOK(kids') /\ \A m \in Nodes : m # n /\ IsTop(kids, m) => IsTop(kids', m)
    BY <2>2, <2>5, <2>9, <2>10
  <2>12. ASSUME root # None PROVE RootOK(kids', root)
    <3>1. RootOK(kids, root)
      BY <2>12
    <3>2. Hole \notin ToSet(seq)
      BY <2>3, <2>4 DEF ToSet
    <3>3. kids'[root] = kids[root] \/ kids'[root] = seq
      BY <2>1, <2>2, <2>3, <3>1 DEF RootOK
    <3> QED
      BY <2>11, <3>1, <3>2, <3>3 DEF RootOK, IsWhole
  <2> QED
    BY <1>2, <2>2, <2>11, <2>12
<1> QED
  BY <1>1, <1>2

LEMMA FrontIs ==
    ASSUME NEW S, NEW seq \in Seq(S), seq # <<>>
    PROVE  /\ Len(seq) \in Nat \ {0} /\ Front(seq) \in Seq(S) /\ Len(Front(seq)) = Len(seq) - 1
           /\ \A i \in 1..Len(seq) - 1 : Front(seq)[i] = seq[i]
           /\ Last(seq) = seq[Len(seq)]
<1> DEFINE len == Len(seq)
           f == SubSeq(seq, 1, len - 1)
<1>1. len \in Nat /\ len # 0 /\ \A i \in 1..len : seq[i] \in S
  BY EmptySeq
<1>2. \A i \in 1..len - 1 : seq[i] \in S
  BY <1>1
<1>3. /\ f \in Seq(S) /\ Len(f) = IF 1 <= len - 1 THEN len - 1 - 1 + 1 ELSE 0
      /\ \A i \in 1..len - 1 - 1 + 1 : f[i] = seq[1 + i - 1]
  <2> HIDE DEF len
  <2>1. 1 \in Int /\ len - 1 \in Int /\ \A i \in 1..len - 1 : seq[i] \in S
    BY <1>1, <1>2
  <2> QED
    BY <2>1, SubSeqProperties
<1>4. Front(seq) = f /\ Last(seq) = seq[len]
  BY DEF Front, Last
<1> HIDE DEF f, len
<1>5. Len(f) = len - 1 /\ \A i \in 1..len - 1 : f[i] = seq[i]
  BY <1>1, <1>3
<1> QED
  BY <1>1, <1>3, <1>4, <1>5 DEF len

LEMMA InitInv == Init => EditsInv
<1> SUFFICES ASSUME Init PROVE EditsInv
  OBVIOUS
<1> USE DEF Init, BuildInit
<1>1. \A n \in Nodes : kids[n] = IF n \in Supplied THEN Empty(n) ELSE Prepared[n]
  OBVIOUS
<1>2. /\ Prepared \in [Nodes \ Supplied -> Seq(Nodes \ Supplied)] /\ Supplied \subseteq Nodes
      /\ Hole \notin Nodes /\ None \notin Nodes
  BY BuilderAssumption
<1>3. \A n \in Nodes : kids[n] \in Seq(Nodes \cup {Hole})
  <2>1. \A n \in Supplied : Empty(n) \in Seq(Nodes \cup {Hole})
    <3> HIDE DEF Init, BuildInit
    <3>1. <<Hole>> \in Seq(Nodes \cup {Hole}) /\ <<>> \in Seq(Nodes \cup {Hole})
      OBVIOUS
    <3> QED
      BY <3>1 DEF Empty
  <2>2. \A n \in Nodes \ Supplied : Prepared[n] \in Seq(Nodes \ Supplied)
    BY <1>2
  <2>3. \A n \in Nodes \ Supplied : Prepared[n] \in Seq(Nodes \cup {Hole})
    BY <1>2, <2>2
  <2> QED
    BY <1>1, <2>1, <2>3
<1>4. kids \in [Nodes -> Seq(Nodes \cup {Hole})] /\ DOMAIN kids = Nodes
  BY <1>3
<1>5. \A n \in Supplied : \A i \in DOMAIN kids[n] : kids[n][i] = Hole
  BY <1>1, <1>2 DEF Empty
<1>6. \A n \in Nodes \ Supplied : kids[n] = Prepared[n] /\ \A i \in DOMAIN kids[n] : kids[n][i] \in Nodes \ Supplied
  <2>1. \A n \in Nodes \ Supplied : Prepared[n] \in Seq(Nodes \ Supplied)
    BY <1>2
  <2> QED
    BY <1>1, <2>1
<1>7. Forest(Prepared) /\ DOMAIN Prepared = Nodes \ Supplied
  BY <1>2, PreparedAssumption
<1> HIDE DEF Init, BuildInit
<1>8. Forest(kids)
  <2>1. ASSUME NEW p \in Nodes, NEW q \in Nodes, NEW i \in DOMAIN kids[p], NEW j \in DOMAIN kids[q],
               kids[p][i] = kids[q][j], kids[p][i] # Hole
        PROVE  p = q /\ i = j
    <3>1. p \in Nodes \ Supplied /\ q \in Nodes \ Supplied
      BY <1>5, <2>1
    <3> QED
      BY <1>6, <1>7, <2>1, <3>1 DEF Forest
  <2>2. ASSUME NEW S \in (SUBSET Nodes) \ {{}} PROVE \E n \in S : ToSet(kids[n]) \cap S = {}
    <3>1. CASE S \cap Supplied # {}
      <4>1. PICK n \in S : n \in Supplied
        BY <3>1
      <4>2. \A i \in DOMAIN kids[n] : kids[n][i] = Hole
        BY <1>5, <4>1
      <4>3. Hole \notin S
        BY <1>2
      <4>4. \A c \in ToSet(kids[n]) : c = Hole
        BY <4>2 DEF ToSet
      <4>5. ToSet(kids[n]) \cap S = {}
        BY <4>3, <4>4
      <4> QED
        BY <4>5
    <3>2. CASE S \cap Supplied = {}
      <4>1. S \in (SUBSET (Nodes \ Supplied)) \ {{}}
        BY <3>2
      <4> QED
        BY <1>6, <1>7, <4>1 DEF Forest
    <3> QED
      BY <3>1, <3>2
  <2>3. ASSUME NEW n \in Nodes
        PROVE  (n \in Decorators => Len(kids[n]) = 1) /\ (n \in Leaves => kids[n] = <<>>)
    <3>1. CASE n \in Supplied
      <4>1. n \in Leaves => n \notin Decorators
        BY KindFacts
      <4> QED
        BY <1>1, <3>1, <4>1 DEF Empty
    <3>2. CASE n \notin Supplied
      BY <1>6, <1>7, <3>2 DEF Forest
    <3> QED
      BY <3>1, <3>2
  <2> QED
    BY <1>4, <2>1, <2>2, <2>3 DEF Forest
<1>9. \A n \in Supplied : IsTop(kids, n)
  <2>1. ASSUME NEW n \in Supplied, NEW p \in Nodes PROVE n \notin ToSet(kids[p])
    <3>1. \A i \in DOMAIN kids[p] : kids[p][i] = Hole \/ kids[p][i] \in Nodes \ Supplied
      BY <1>5, <1>6
    <3>2. \A c \in ToSet(kids[p]) : c = Hole \/ c \in Nodes \ Supplied
      BY <3>1 DEF ToSet
    <3> QED
      BY <1>2, <2>1, <3>2
  <2> QED
    BY <2>1 DEF IsTop
<1>10. ASSUME NEW n \in Nodes PROVE IsWhole(kids, n) \/ (n \in Decorators /\ IsTop(kids, n))
  <2>1. CASE n \in Supplied
    BY <1>1, <1>9, <2>1 DEF Empty, IsWhole, ToSet
  <2>2. CASE n \notin Supplied
    BY <1>2, <1>6, <2>2 DEF IsWhole, ToSet
  <2> QED
    BY <2>1, <2>2
<1>11. KidsOK(kids)
  BY <1>4, <1>8, <1>10 DEF KidsOK
<1> USE DEF Init, BuildInit
<1>12. /\ status \in [Nodes -> Answer \cup {"IDLE"}] /\ place \in [Nodes -> Places] /\ root = None
       /\ passed \in [Nodes -> SUBSET Nodes] /\ heirs \in [Nodes -> SUBSET Nodes] /\ shown \in SUBSET Nodes
  BY DEF Start, Places
<1>13. Now \in States
  BY <1>4, <1>12 DEF Now, States
<1>14. BuilderOK
  <2>1. /\ root = None /\ added = {} /\ stack = <<>> /\ shown = {} /\ pending = <<>> /\ ~applied
        /\ status = [n \in Nodes |-> "IDLE"] /\ place = [n \in Nodes |-> Start]
    OBVIOUS
  <2>2. stack \in Seq(added \ Leaves) /\ Distinct(stack) /\ DOMAIN stack = {}
    BY <2>1 DEF Distinct
  <2> QED
    BY <1>2, <1>9, <2>1, <2>2 DEF BuilderOK
<1>15. ViewFull(Now)
  BY DEF ViewFull, Now
<1>16. Len(pending) <= MaxPending /\ ~built
  BY EditsAssumption
<1> QED
  BY <1>11, <1>13, <1>14, <1>15, <1>16 DEF EditsInv

LEMMA BuildingInv ==
    ASSUME EditsInv, Building, UNCHANGED <<treeVars, pending, applied, edits, cleared>>
    PROVE  EditsInv'
<1>1. ~built /\ BuilderOK /\ KidsOK(kids) /\ Now \in States
  BY DEF EditsInv, Building, Open, AddLeaf, End, Build
<1>2. /\ status' = status /\ place' = place /\ shown' = shown /\ passed' = passed /\ heirs' = heirs
      /\ pending' = pending /\ applied' = applied /\ cleared' = cleared
  BY DEF treeVars
<1>3. /\ status = [n \in Nodes |-> "IDLE"] /\ place = [n \in Nodes |-> Start]
      /\ shown = {} /\ pending = <<>> /\ ~applied /\ added \subseteq Supplied /\ added \subseteq Nodes
      /\ stack \in Seq(added \ Leaves) /\ Distinct(stack)
      /\ \A i \in DOMAIN stack : IsTop(kids, stack[i]) /\ stack[i] # root
      /\ \A n \in Supplied \ added : IsTop(kids, n) /\ n # root
      /\ root # None => RootOK(kids, root)
  BY <1>1, BuilderAssumption DEF BuilderOK
<1>4. root \in Nodes \cup {None} /\ passed \in [Nodes -> SUBSET Nodes] /\ heirs \in [Nodes -> SUBSET Nodes]
      /\ status \in [Nodes -> Answer \cup {"IDLE"}] /\ place \in [Nodes -> Places] /\ shown \in SUBSET Nodes
  BY <1>1 DEF Now, States
<1>5. ViewFull(Now)' /\ Len(pending') <= MaxPending
  BY <1>1, <1>2, <1>3 DEF ViewFull, Now, EditsInv
<1>6. ASSUME KidsOK(kids'), root' \in Nodes \cup {None} PROVE Now' \in States
  BY <1>2, <1>4, <1>6 DEF Now, States, KidsOK
<1>7. ASSUME NEW n \in Nodes, Open(n) PROVE EditsInv'
  <2>1. /\ n \in Supplied /\ n \notin added /\ n \notin Leaves
        /\ stack' = Append(stack, n) /\ added' = added \cup {n}
        /\ kids' = kids /\ root' = root /\ built' = built
    BY <1>7 DEF Open
  <2>2. stack \in Seq(added' \ Leaves) /\ n \in added' \ Leaves
    BY <1>3, <2>1
  <2>3. stack' \in Seq(added' \ Leaves)
    BY <2>1, <2>2
  <2>4. /\ DOMAIN stack = 1..Len(stack) /\ DOMAIN stack' = 1..Len(stack) + 1 /\ Len(stack) \in Nat
        /\ \A i \in 1..Len(stack) : stack'[i] = stack[i] /\ stack[i] \in added
        /\ stack'[Len(stack) + 1] = n
    BY <1>3, <2>1
  <2>5. \A i \in DOMAIN stack' : i \in DOMAIN stack \/ i = Len(stack) + 1
    BY <2>4
  <2>6. Distinct(stack')
    BY <1>3, <2>1, <2>4, <2>5 DEF Distinct
  <2>7. \A i \in DOMAIN stack' : IsTop(kids', stack'[i]) /\ stack'[i] # root'
    BY <1>3, <2>1, <2>4, <2>5
  <2>8. \A m \in Supplied \ added' : IsTop(kids', m) /\ m # root'
    BY <1>3, <2>1
  <2>9. BuilderOK'
    BY <1>2, <1>3, <2>1, <2>3, <2>6, <2>7, <2>8 DEF BuilderOK
  <2> QED
    BY <1>1, <1>4, <1>5, <1>6, <2>1, <2>9 DEF EditsInv
<1>8. ASSUME NEW n \in Nodes, AddLeaf(n) PROVE EditsInv'
  <2>1. n \in Supplied /\ n \in Leaves /\ n \notin added /\ added' = added \cup {n} /\ stack' = stack /\ built' = built
        /\ Attach(stack, n)
    BY <1>8 DEF AddLeaf
  <2>2. IsTop(kids, n) /\ n # root
    BY <1>3, <2>1
  <2>3. IsWhole(kids, n)
    BY <1>1, <2>1, KindFacts DEF KidsOK
  <2>4. stack # <<>> => Last(stack) \in Nodes \ Leaves /\ Last(stack) # n /\ IsTop(kids, Last(stack))
    <3> SUFFICES ASSUME stack # <<>> PROVE Last(stack) \in Nodes \ Leaves /\ Last(stack) # n /\ IsTop(kids, Last(stack))
      OBVIOUS
    <3>1. Len(stack) \in Nat \ {0} /\ Last(stack) = stack[Len(stack)]
      BY <1>3, FrontIs
    <3>2. Len(stack) \in DOMAIN stack
      BY <1>3, <3>1
    <3>3. stack[Len(stack)] \in added \ Leaves
      BY <1>3, <3>2
    <3> QED
      BY <1>3, <2>1, <3>1, <3>2, <3>3
  <2>5. /\ KidsOK(kids') /\ (root' # None => RootOK(kids', root'))
        /\ \A m \in Nodes : m # n /\ IsTop(kids, m) => IsTop(kids', m)
        /\ root' = n \/ root' = root
        /\ stack # <<>> => root' = root
    BY <1>1, <1>3, <2>1, <2>2, <2>3, <2>4, AttachOK
  <2>6. stack \in Seq(added' \ Leaves)
    BY <1>3, <2>1
  <2>7. \A i \in DOMAIN stack : IsTop(kids', stack[i]) /\ stack[i] # root'
    <3>1. \A i \in DOMAIN stack : stack[i] \in added /\ stack # <<>>
      BY <1>3
    <3> QED
      BY <1>3, <2>1, <2>5, <3>1
  <2>8. \A m \in Supplied \ added' : IsTop(kids', m) /\ m # root'
    BY <1>3, <2>1, <2>5, BuilderAssumption
  <2>9. BuilderOK'
    BY <1>2, <1>3, <2>1, <2>5, <2>6, <2>7, <2>8 DEF BuilderOK
  <2> QED
    BY <1>1, <1>4, <1>5, <1>6, <2>1, <2>5, <2>9 DEF EditsInv
<1>9. ASSUME End PROVE EditsInv'
  <2>1. stack # <<>> /\ stack' = Front(stack) /\ added' = added /\ built' = built
        /\ IF kids[Last(stack)] = <<Hole>> THEN UNCHANGED <<kids, root>> ELSE Attach(Front(stack), Last(stack))
    BY <1>9 DEF End
  <2> DEFINE len == Len(stack)
  <2>2. /\ len \in Nat \ {0} /\ Front(stack) \in Seq(added \ Leaves) /\ Len(Front(stack)) = len - 1
        /\ \A i \in 1..len - 1 : Front(stack)[i] = stack[i]
        /\ Last(stack) = stack[len]
    BY <1>3, <2>1, FrontIs
  <2>3. DOMAIN stack = 1..len /\ DOMAIN Front(stack) = 1..len - 1
    BY <1>3, <2>2
  <2>4. PICK n : n = Last(stack)
    OBVIOUS
  <2>5. PICK rest : rest = Front(stack)
    OBVIOUS
  <2> HIDE DEF len
  <2>6. /\ rest \in Seq(added \ Leaves) /\ Distinct(rest)
        /\ \A i \in DOMAIN rest : IsTop(kids, rest[i]) /\ rest[i] # root /\ rest[i] # n /\ rest[i] \in Nodes
    <3>1. len \in DOMAIN stack /\ n = stack[len]
      BY <2>2, <2>3, <2>4
    <3>2. \A i \in DOMAIN rest : i \in DOMAIN stack /\ i # len /\ rest[i] = stack[i]
      BY <2>2, <2>3, <2>5
    <3>3. Distinct(rest)
      BY <1>3, <3>2 DEF Distinct
    <3>4. \A i \in DOMAIN rest : rest[i] # n
      BY <1>3, <3>1, <3>2 DEF Distinct
    <3>5. \A i \in DOMAIN rest : rest[i] \in added
      BY <2>2, <2>5
    <3> QED
      BY <1>3, <2>2, <2>5, <3>2, <3>3, <3>4, <3>5
  <2>7. n \in added /\ n \in Nodes /\ n \notin Leaves /\ IsTop(kids, n) /\ n # root
    <3>1. len \in DOMAIN stack /\ n = stack[len]
      BY <2>2, <2>3, <2>4
    <3>2. stack[len] \in added \ Leaves
      BY <1>3, <3>1
    <3> QED
      BY <1>3, <3>1, <3>2
  <2>8. CASE kids[n] = <<Hole>>
    <3>1. kids' = kids /\ root' = root
      BY <2>1, <2>4, <2>8
    <3>2. BuilderOK'
      BY <1>2, <1>3, <2>1, <2>5, <2>6, <3>1 DEF BuilderOK
    <3> QED
      BY <1>1, <1>4, <1>5, <1>6, <2>1, <3>1, <3>2 DEF EditsInv
  <2>9. CASE kids[n] # <<Hole>>
    <3>1. Attach(rest, n)
      BY <2>1, <2>4, <2>5, <2>9
    <3>2. IsWhole(kids, n)
      <4>1. n \in Decorators => Len(kids[n]) = 1
        BY <1>1, <2>7 DEF KidsOK, Forest
      <4>2. kids[n] \in Seq(Nodes \cup {Hole})
        BY <1>1, <2>7 DEF KidsOK
      <4>3. n \in Decorators => kids[n] = <<kids[n][1]>>
        BY <4>1, <4>2
      <4>4. n \in Decorators => kids[n][1] # Hole
        BY <2>9, <4>3
      <4>5. n \in Decorators => ToSet(kids[n]) = {kids[n][1]}
        BY <4>1, <4>2 DEF ToSet
      <4> QED
        BY <1>1, <2>7, <4>4, <4>5 DEF KidsOK, IsWhole
    <3>3. rest # <<>> => Last(rest) \in Nodes \ Leaves /\ Last(rest) # n /\ IsTop(kids, Last(rest))
      <4> SUFFICES ASSUME rest # <<>> PROVE Last(rest) \in Nodes \ Leaves /\ Last(rest) # n /\ IsTop(kids, Last(rest))
        OBVIOUS
      <4>1. Len(rest) \in Nat \ {0} /\ Last(rest) = rest[Len(rest)]
        BY <2>6, FrontIs
      <4>2. Len(rest) \in DOMAIN rest
        BY <2>6, <4>1
      <4>3. rest[Len(rest)] \in added \ Leaves
        BY <2>6, <4>2
      <4> QED
        BY <2>6, <4>1, <4>2, <4>3
    <3>4. /\ KidsOK(kids') /\ (root' # None => RootOK(kids', root'))
          /\ \A m \in Nodes : m # n /\ IsTop(kids, m) => IsTop(kids', m)
          /\ root' = n \/ root' = root
          /\ rest # <<>> => root' = root
      BY <1>1, <1>3, <2>7, <3>1, <3>2, <3>3, AttachOK
    <3>5. \A i \in DOMAIN rest : IsTop(kids', rest[i]) /\ rest[i] # root'
      BY <2>6, <3>4
    <3>6. \A m \in Supplied \ added : IsTop(kids', m) /\ m # root'
      BY <1>3, <2>7, <3>4, BuilderAssumption
    <3>7. BuilderOK'
      BY <1>2, <1>3, <2>1, <2>5, <2>6, <3>4, <3>5, <3>6 DEF BuilderOK
    <3> QED
      BY <1>1, <1>4, <1>5, <1>6, <2>1, <2>7, <3>4, <3>7 DEF EditsInv
  <2> QED
    BY <2>8, <2>9
<1>10. ASSUME Build PROVE EditsInv'
  <2>1. root # None /\ built' = TRUE /\ kids' = kids /\ root' = root
    BY <1>10 DEF Build
  <2>2. Now' \in States /\ RootOK(kids, root) /\ KidsOK(kids')
    BY <1>1, <1>3, <1>4, <1>6, <2>1
  <2>3. PICK s : s = Now'
    OBVIOUS
  <2>4. /\ s.kids = kids /\ s.root = root /\ s.shown = {} /\ \A n \in Nodes : s.status[n] = "IDLE" /\ s.place[n] = Start
    BY <1>2, <1>3, <2>1, <2>3 DEF Now
  <2>5. ASSUME NEW n \in Nodes PROVE NodeOK(s, n)
    <3>1. Len(kids[n]) \in Nat
      BY <1>1, KidsType
    <3>2. PlaceOK(s, n) /\ RestOK(s, n)
      BY <2>4, <3>1 DEF PlaceOK, RestOK, Start
    <3>3. WaitBut(s, n, {})
      BY <2>4 DEF WaitBut
    <3>4. DoneOK(s, n)
      BY <2>4, KindFacts DEF DoneOK, Behind
    <3> QED
      BY <3>2, <3>3, <3>4 DEF NodeOK, NodeBut
  <2>6. TreeOK(s)
    BY <1>1, <2>2, <2>3, <2>4, <2>5 DEF TreeOK, ViewOK, IdleOutside
  <2>7. ModsOK(kids', root', pending')
    BY <1>2, <1>3 DEF ModsOK
  <2> QED
    BY <1>5, <2>1, <2>2, <2>3, <2>6, <2>7 DEF EditsInv
<1> QED
  BY <1>7, <1>8, <1>9, <1>10 DEF Building

(***************************************************************************)
(* The steps of a built tree.                                              *)
(***************************************************************************)
LEMMA BecomesNow ==
    ASSUME NEW s, s \in States, Becomes(s)
    PROVE  /\ Now' = s
           /\ kids' = s.kids /\ root' = s.root
<1>1. /\ kids' = s.kids /\ root' = s.root /\ status' = s.status /\ place' = s.place
      /\ shown' = s.shown /\ passed' = s.passed /\ heirs' = s.heirs
  BY DEF Becomes
<1>2. s = [kids |-> s.kids, root |-> s.root, status |-> s.status, place |-> s.place,
           shown |-> s.shown, passed |-> s.passed, heirs |-> s.heirs]
  BY DEF States
<1>3. Now' = [kids |-> kids', root |-> root', status |-> status', place |-> place',
              shown |-> shown', passed |-> passed', heirs |-> heirs']
  BY DEF Now
<1> QED
  BY <1>1, <1>2, <1>3

\* What a step of a built tree must leave behind.
LEMMA BuiltInv ==
    ASSUME NEW s, TreeOK(s), Now' = s, kids' = s.kids, root' = s.root, built',
           ModsOK(s.kids, s.root, pending'), Len(pending') <= MaxPending,
           cleared' \/ ViewFull(s)
    PROVE  EditsInv'
<1>1. s \in States /\ KidsOK(s.kids)
  BY DEF TreeOK
<1>2. KidsOK(kids') /\ ModsOK(kids', root', pending')
  BY <1>1
<1>3. TreeOK(Now') /\ Now' \in States /\ (cleared' \/ ViewFull(Now'))
  BY <1>1
<1> QED
  BY <1>2, <1>3 DEF EditsInv

LEMMA BuiltFacts ==
    ASSUME EditsInv, built
    PROVE  /\ TreeOK(Now) /\ ModsOK(kids, root, pending) /\ Now \in States
           /\ Len(pending) <= MaxPending /\ (cleared \/ ViewFull(Now))
           /\ Now.kids = kids /\ Now.root = root
BY DEF EditsInv, Now

LEMMA TickInv == ASSUME EditsInv, Tick PROVE EditsInv'
<1>1. built /\ built' = built /\ cleared' = FALSE /\ pending' = pending
  BY DEF Tick
<1>2. TreeOK(Now) /\ ModsOK(kids, root, pending) /\ Len(pending) <= MaxPending
  BY <1>1, BuiltFacts
<1>3. PICK answer \in Answers : Becomes(Ticked(Results(answer)))
  BY DEF Tick
<1>4. PICK res : res = Results(answer)
  OBVIOUS
<1>5. PICK s : s = Ticked(res)
  OBVIOUS
<1>6. TreeOK(s) /\ ViewFull(s) /\ Becomes(s)
  BY <1>2, <1>3, <1>4, <1>5, TickedOK
<1>7. s.kids = kids /\ s.root = root
  <2>1. IsResults(res)
    BY <1>2, <1>4, ResultsAre
  <2>2. PICK t : t = Raw(res)
    OBVIOUS
  <2>3. t \in States /\ t.kids = kids /\ t.root = root
    BY <1>2, <2>1, <2>2, RawIs
  <2>4. KidsOK(kids) /\ Dropped(res) \in SUBSET Nodes
    BY <1>2, <2>1, TreeFacts, DroppedNodes
  <2>5. s = Halted(t, Dropped(res))
    BY <1>5, <2>2, TickedIs
  <2> QED
    BY <2>3, <2>4, <2>5, HaltedIs
<1>8. s \in States
  BY <1>6 DEF TreeOK
<1>9. Now' = s /\ kids' = s.kids /\ root' = s.root
  BY <1>6, <1>8, BecomesNow
<1> QED
  BY <1>1, <1>2, <1>6, <1>7, <1>9, BuiltInv

LEMMA ApplyInv == ASSUME EditsInv, Apply PROVE EditsInv'
<1>1. built /\ built' = built /\ cleared' = cleared /\ pending' = <<>> /\ Becomes(Edited)
  BY DEF Apply
<1>2. TreeOK(Now) /\ ModsOK(kids, root, pending) /\ (cleared \/ ViewFull(Now))
  BY <1>1, BuiltFacts
<1>3. PICK s : s = Edited
  OBVIOUS
<1>4. TreeOK(s) /\ (ViewFull(Now) => ViewFull(s))
  BY <1>2, <1>3, EditedOK
<1>5. s \in States /\ Becomes(s)
  BY <1>1, <1>3, <1>4 DEF TreeOK
<1>6. Now' = s /\ kids' = s.kids /\ root' = s.root
  BY <1>5, BecomesNow
<1>7. ModsOK(s.kids, s.root, pending') /\ Len(pending') <= MaxPending
  <2>1. <<>> \in Seq(Mods) /\ Len(<<>>) = 0 /\ DOMAIN <<>> = {}
    OBVIOUS
  <2> QED
    BY <1>1, <2>1, EditsAssumption DEF ModsOK
<1> QED
  BY <1>1, <1>2, <1>4, <1>6, <1>7, BuiltInv

\* What is in no tree, and whole, may be installed.
LEMMA SpareIsNew ==
    ASSUME TreeOK(Now), NEW n \in Spare
    PROVE  IsNew(kids, root, n) /\ \A i \in DOMAIN pending : pending[i].new # n
<1>1. KidsOK(kids) /\ root \in InTree /\ InTree = Under(kids, root)
  BY TreeFacts
<1>2. n \in Nodes /\ n \notin InTree /\ IsTop(kids, n)
  BY DEF Spare, Loose, IsTop
<1>3. n # root
  BY <1>1, <1>2
<1>4. n \in Under(kids, n)
  BY <1>1, <1>2, UnderLeast
<1>5. Hole \notin ToSet(kids[n])
  BY <1>4 DEF Spare
<1>6. IsWhole(kids, n)
  BY <1>1, <1>2, <1>5 DEF IsWhole, KidsOK, Forest
<1> QED
  BY <1>2, <1>3, <1>6 DEF IsNew, Spare

LEMMA QueueInv == ASSUME EditsInv, NEW target \in Nodes, Queue(target) PROVE EditsInv'
<1>1. /\ built /\ built' = built /\ cleared' = cleared /\ kids' = kids /\ root' = root /\ status' = status
      /\ place' = place /\ shown' = shown /\ passed' = passed /\ heirs' = heirs /\ Len(pending) < MaxPending
  BY DEF Queue, buildVars, treeVars
<1>2. /\ TreeOK(Now) /\ ModsOK(kids, root, pending) /\ (cleared \/ ViewFull(Now))
      /\ Now.kids = kids /\ Now.root = root
  BY <1>1, BuiltFacts
<1>3. Now' = Now
  BY <1>1 DEF Now
<1>4. PICK mod \in [type : {"Replace"}, target : {target}, at : {0}, new : Spare]
             \cup [type : {"Insert"}, target : {target}, at : Indices, new : Spare]
             \cup [type : {"Remove"}, target : {target}, at : Indices, new : {None}] :
          pending' = Append(pending, mod)
  BY DEF Queue
<1>5. Spare \subseteq Nodes /\ None \notin Nodes
  BY BuilderAssumption DEF Spare, Loose
<1>6. mod \in Mods /\ (mod.new # None => mod.new \in Spare)
  <2>1. CASE mod \in [type : {"Replace"}, target : {target}, at : {0}, new : Spare]
    BY <1>5, <2>1 DEF Mods
  <2>2. CASE mod \in [type : {"Insert"}, target : {target}, at : Indices, new : Spare]
    BY <1>5, <2>2 DEF Mods
  <2>3. CASE mod \in [type : {"Remove"}, target : {target}, at : Indices, new : {None}]
    BY <1>5, <2>3 DEF Mods
  <2> QED
    BY <1>4, <2>1, <2>2, <2>3
<1>7. mod.new # None => IsNew(kids, root, mod.new) /\ \A i \in DOMAIN pending : pending[i].new # mod.new
  BY <1>2, <1>6, SpareIsNew
<1>8. pending \in Seq(Mods) /\ Len(pending) \in Nat /\ DOMAIN pending = 1..Len(pending)
  BY <1>2 DEF ModsOK
<1>9. /\ pending' \in Seq(Mods) /\ Len(pending') = Len(pending) + 1 /\ DOMAIN pending' = 1..Len(pending) + 1
      /\ \A i \in DOMAIN pending : pending'[i] = pending[i]
      /\ pending'[Len(pending) + 1] = mod
      /\ \A i \in DOMAIN pending' : i \in DOMAIN pending \/ i = Len(pending) + 1
  <2> HIDE DEF Mods
  <2> QED
    BY <1>4, <1>6, <1>8
<1>10. ModsOK(kids, root, pending')
  <2> SUFFICES ASSUME NEW i \in DOMAIN pending', pending'[i].new # None
               PROVE  /\ IsNew(kids, root, pending'[i].new)
                      /\ \A j \in DOMAIN pending' : pending'[i].new = pending'[j].new => i = j
    BY <1>9 DEF ModsOK
  <2>1. CASE i \in DOMAIN pending
    BY <1>2, <1>7, <1>9, <2>1 DEF ModsOK
  <2>2. CASE i = Len(pending) + 1
    BY <1>2, <1>7, <1>9, <2>2 DEF ModsOK
  <2> QED
    BY <1>9, <2>1, <2>2
<1>11. Len(pending') <= MaxPending
  BY <1>1, <1>8, <1>9, EditsAssumption
<1> QED
  BY <1>1, <1>2, <1>3, <1>10, <1>11, BuiltInv

LEMMA HotSwapInv == ASSUME EditsInv, NEW target \in Nodes, HotSwap(target) PROVE EditsInv'
<1>1. built /\ built' = built /\ cleared' = cleared /\ pending' = pending /\ target \in InTree
  BY DEF HotSwap
<1>2. /\ TreeOK(Now) /\ ModsOK(kids, root, pending) /\ (cleared \/ ViewFull(Now))
      /\ Len(pending) <= MaxPending
  BY <1>1, BuiltFacts
<1>3. PICK new \in Spare : Becomes(Swapped(Now, target, new))
  BY DEF HotSwap
<1>4. IsNew(kids, root, new) /\ \A i \in DOMAIN pending : pending[i].new # new
  BY <1>2, SpareIsNew
<1>5. PICK now : now = Now
  OBVIOUS
<1>6. now.kids = kids /\ now.root = root /\ target \in Under(now.kids, now.root)
  BY <1>1, <1>2, <1>5, BuiltFacts, TreeFacts
<1>7. PICK s : s = Swapped(now, target, new)
  OBVIOUS
<1>8. /\ TreeOK(s) /\ (ViewFull(now) => ViewFull(s))
      /\ \A m : m # new /\ IsNew(kids, root, m) => IsNew(s.kids, s.root, m)
  <2>1. CASE target = now.root
    BY <1>2, <1>4, <1>5, <1>6, <1>7, <2>1, SwappedRoot
  <2>2. CASE target # now.root
    BY <1>2, <1>4, <1>5, <1>6, <1>7, <2>2, SwappedInside
  <2> QED
    BY <2>1, <2>2
<1>9. s \in States /\ Becomes(s)
  BY <1>3, <1>5, <1>7, <1>8 DEF TreeOK
<1>10. Now' = s /\ kids' = s.kids /\ root' = s.root
  BY <1>9, BecomesNow
<1>11. ModsOK(s.kids, s.root, pending')
  BY <1>1, <1>2, <1>4, <1>8 DEF ModsOK
<1> QED
  BY <1>1, <1>2, <1>5, <1>8, <1>10, <1>11, BuiltInv

LEMMA HaltAllInv == ASSUME EditsInv, HaltAll PROVE EditsInv'
<1>1. /\ built /\ built' = built /\ cleared' = cleared /\ pending' = pending
      /\ Becomes(Halted(Now, {root}))
  BY DEF HaltAll
<1>2. /\ TreeOK(Now) /\ ModsOK(kids, root, pending) /\ (cleared \/ ViewFull(Now))
      /\ Len(pending) <= MaxPending /\ Now \in States /\ Now.kids = kids /\ Now.root = root
  BY <1>1, BuiltFacts
<1>3. KidsOK(kids) /\ {root} \in SUBSET Nodes
  BY <1>2, TreeFacts DEF RootOK
<1>4. PICK now : now = Now
  OBVIOUS
<1>5. PICK roots : roots = {root}
  OBVIOUS
<1>6. PICK s : s = Halted(now, roots)
  OBVIOUS
<1>7. TreeOK(s) /\ (ViewFull(now) => ViewFull(s))
  BY <1>2, <1>3, <1>4, <1>5, <1>6, HaltedOK
<1>8. s.kids = kids /\ s.root = root
  BY <1>2, <1>3, <1>4, <1>5, <1>6, HaltedIs
<1>9. s \in States /\ Becomes(s)
  BY <1>1, <1>4, <1>5, <1>6, <1>7 DEF TreeOK
<1>10. Now' = s /\ kids' = s.kids /\ root' = s.root
  BY <1>9, BecomesNow
<1> QED
  BY <1>1, <1>2, <1>4, <1>7, <1>8, <1>10, BuiltInv

LEMMA ClearInspectorInv == ASSUME EditsInv, ClearInspector PROVE EditsInv'
<1>1. /\ built /\ built' = built /\ cleared' = TRUE /\ pending' = pending /\ shown' = {} /\ kids' = kids
      /\ root' = root /\ status' = status /\ place' = place /\ passed' = passed /\ heirs' = heirs
  BY DEF ClearInspector, buildVars
<1>2. TreeOK(Now) /\ ModsOK(kids, root, pending) /\ Len(pending) <= MaxPending /\ Now \in States
  BY <1>1, BuiltFacts
<1>3. PICK now : now = Now
  OBVIOUS
<1>4. /\ now.kids = kids /\ now.root = root /\ now.status = status /\ now.place = place
      /\ now.passed = passed /\ now.heirs = heirs
  BY <1>3 DEF Now
<1>5. PICK s : s = Now'
  OBVIOUS
<1>6. /\ s.kids = now.kids /\ s.root = now.root /\ s.status = now.status /\ s.place = now.place /\ s.shown = {}
      /\ s.passed = now.passed /\ s.heirs = now.heirs
  BY <1>1, <1>4, <1>5 DEF Now
<1>7. s \in States
  <2>1. s = [kids |-> kids, root |-> root, status |-> status, place |-> place,
             shown |-> {}, passed |-> passed, heirs |-> heirs]
    BY <1>1, <1>5 DEF Now
  <2>2. /\ kids \in [Nodes -> Seq(Nodes \cup {Hole})] /\ root \in Nodes \cup {None}
        /\ status \in [Nodes -> Answer \cup {"IDLE"}] /\ place \in [Nodes -> Places]
        /\ passed \in [Nodes -> SUBSET Nodes] /\ heirs \in [Nodes -> SUBSET Nodes]
    BY <1>2 DEF Now, States
  <2> QED
    BY <2>1, <2>2 DEF States
<1>8. TreeOK(now)
  BY <1>2, <1>3
<1>9. ASSUME NEW n \in Nodes PROVE NodeOK(s, n)
  <2>1. NodeOK(now, n)
    BY <1>8 DEF TreeOK
  <2> QED
    BY <1>6, <2>1 DEF NodeOK, NodeBut, PlaceOK, RestOK, WaitBut, DoneOK, Behind
<1>10. TreeOK(s)
  BY <1>6, <1>7, <1>8, <1>9 DEF TreeOK, ViewOK, IdleOutside
<1> QED
  BY <1>1, <1>2, <1>4, <1>5, <1>6, <1>10, BuiltInv

LEMMA WriteInv == ASSUME EditsInv, Write PROVE EditsInv'
<1>1. /\ built /\ built' = built /\ cleared' = cleared /\ pending' = pending /\ shown' = shown /\ kids' = kids
      /\ root' = root /\ status' = status /\ passed' = passed /\ heirs' = heirs
      /\ place' = [n \in Nodes |-> [place[n] EXCEPT !.dirty = @ \/ place[n].running # 0]]
  BY DEF Write, buildVars
<1>2. /\ TreeOK(Now) /\ ModsOK(kids, root, pending) /\ Len(pending) <= MaxPending
      /\ Now \in States /\ (cleared \/ ViewFull(Now))
  BY <1>1, BuiltFacts
<1>3. PICK now : now = Now
  OBVIOUS
<1>4. /\ now.kids = kids /\ now.root = root /\ now.status = status /\ now.place = place
      /\ now.passed = passed /\ now.heirs = heirs /\ now.shown = shown
  BY <1>3 DEF Now
<1>5. PICK s : s = Now'
  OBVIOUS
<1>6. ASSUME NEW n \in Nodes
      PROVE  /\ place'[n] \in Places /\ place'[n].cursor = place[n].cursor
             /\ place'[n].running = place[n].running
  <2>1. place[n] \in Places
    BY <1>2 DEF Now, States
  <2>2. place'[n] = [place[n] EXCEPT !.dirty = @ \/ place[n].running # 0]
    BY <1>1
  <2>3. place[n].dirty \in BOOLEAN /\ (place[n].running # 0) \in BOOLEAN
    BY <2>1 DEF Places
  <2> QED
    BY <2>1, <2>2, <2>3 DEF Places
<1>7. /\ s.kids = now.kids /\ s.root = now.root /\ s.status = now.status /\ s.shown = now.shown
      /\ s.passed = now.passed /\ s.heirs = now.heirs
      /\ \A n \in Nodes : s.place[n].cursor = now.place[n].cursor /\ s.place[n].running = now.place[n].running
  BY <1>1, <1>4, <1>5, <1>6 DEF Now
<1>8. s \in States
  <2>1. PICK p : p = place'
    OBVIOUS
  <2>2. p \in [Nodes -> Places]
    <3>1. \A n \in Nodes : p[n] \in Places
      BY <1>6, <2>1
    <3>2. p = [n \in Nodes |-> p[n]]
      BY <1>1, <2>1
    <3> QED
      BY <3>1, <3>2
  <2>3. s = [kids |-> kids, root |-> root, status |-> status, place |-> p,
             shown |-> shown, passed |-> passed, heirs |-> heirs]
    BY <1>1, <1>5, <2>1 DEF Now
  <2>4. /\ kids \in [Nodes -> Seq(Nodes \cup {Hole})] /\ root \in Nodes \cup {None}
        /\ status \in [Nodes -> Answer \cup {"IDLE"}] /\ shown \in SUBSET Nodes
        /\ passed \in [Nodes -> SUBSET Nodes] /\ heirs \in [Nodes -> SUBSET Nodes]
    BY <1>2 DEF Now, States
  <2> QED
    BY <2>2, <2>3, <2>4 DEF States
<1>9. TreeOK(now)
  BY <1>2, <1>3
<1>10. ASSUME NEW n \in Nodes PROVE NodeOK(s, n)
  <2>1. NodeOK(now, n)
    BY <1>9 DEF TreeOK
  <2> QED
    BY <1>7, <2>1 DEF NodeOK, NodeBut, PlaceOK, RestOK, WaitBut, DoneOK, Behind
<1>11. TreeOK(s) /\ (ViewFull(now) => ViewFull(s))
  BY <1>7, <1>8, <1>9, <1>10 DEF TreeOK, ViewOK, ViewFull, IdleOutside
<1> QED
  BY <1>1, <1>2, <1>3, <1>4, <1>5, <1>7, <1>11, BuiltInv

LEMMA StutterInv == ASSUME EditsInv, UNCHANGED vars PROVE EditsInv'
<1>1. /\ kids' = kids /\ root' = root /\ status' = status /\ place' = place /\ shown' = shown
      /\ passed' = passed /\ heirs' = heirs /\ pending' = pending /\ applied' = applied /\ cleared' = cleared
      /\ built' = built /\ added' = added /\ stack' = stack
  BY DEF vars, buildVars, treeVars
<1>2. Now' = Now
  BY <1>1 DEF Now
<1>3. BuilderOK => BuilderOK'
  BY <1>1 DEF BuilderOK
<1> QED
  BY <1>1, <1>2, <1>3 DEF EditsInv

LEMMA NextInv == ASSUME EditsInv, [Next]_vars PROVE EditsInv'
<1>1. CASE Building /\ UNCHANGED <<treeVars, pending, applied, edits, cleared>>
  BY <1>1, BuildingInv
<1>2. CASE Tick
  BY <1>2, TickInv
<1>3. CASE Apply
  BY <1>3, ApplyInv
<1>4. CASE HaltAll
  BY <1>4, HaltAllInv
<1>5. CASE ClearInspector
  BY <1>5, ClearInspectorInv
<1>6. CASE Write
  BY <1>6, WriteInv
<1>7. ASSUME NEW n \in Nodes, Queue(n) PROVE EditsInv'
  BY <1>7, QueueInv
<1>8. ASSUME NEW n \in Nodes, HotSwap(n) PROVE EditsInv'
  BY <1>8, HotSwapInv
<1>9. CASE UNCHANGED vars
  BY <1>9, StutterInv
<1> QED
  BY <1>1, <1>2, <1>3, <1>4, <1>5, <1>6, <1>7, <1>8, <1>9 DEF Next

LEMMA EditsInvHolds == Spec => []EditsInv
BY InitInv, NextInv, PTL DEF Spec

(***************************************************************************)
(* The properties.                                                         *)
(***************************************************************************)
LEMMA InvGivesTypes == ASSUME EditsInv PROVE EditsTypeOK
<1>1. Now \in States /\ KidsOK(kids) /\ Len(pending) <= MaxPending
  BY DEF EditsInv
<1>2. /\ kids \in [Nodes -> Seq(Nodes \cup {Hole})] /\ root \in Nodes \cup {None}
      /\ status \in [Nodes -> Answer \cup {"IDLE"}] /\ place \in [Nodes -> Places] /\ shown \subseteq Nodes
  BY <1>1 DEF Now, States
<1>3. built => root # None
  <2>1. built => TreeOK(Now) /\ Now.root = root
    BY DEF EditsInv, Now
  <2> QED
    BY <2>1, BuilderAssumption DEF TreeOK, RootOK
<1>4. ASSUME NEW n \in Nodes
      PROVE  place[n].cursor \in 1..Len(kids[n]) \cup {1} /\ place[n].running \in 0..Len(kids[n])
  <2>1. CASE ~built
    <3>1. place = [m \in Nodes |-> Start] /\ Len(kids[n]) \in Nat
      BY <1>1, <2>1, KidsType DEF EditsInv, BuilderOK
    <3>2. place[n] = Start
      BY <3>1
    <3> QED
      BY <3>1, <3>2 DEF Start
  <2>2. CASE built
    <3>1. PlaceOK(Now, n)
      BY <2>2 DEF EditsInv, TreeOK, NodeOK, NodeBut
    <3> QED
      BY <3>1 DEF PlaceOK, Now
  <2> QED
    BY <2>1, <2>2
<1> QED
  BY <1>1, <1>2, <1>3, <1>4 DEF EditsTypeOK

LEMMA InvGivesOneTree == ASSUME EditsInv PROVE OneTree
<1> SUFFICES ASSUME built, NEW n \in InTree
             PROVE  LET places == UNION {{p} \X {i \in DOMAIN kids[p] : kids[p][i] = n} : p \in Nodes} IN
                    /\ IF n = root THEN places = {} ELSE \E q \in places : places = {q}
                    /\ Hole \notin ToSet(kids[n])
                    /\ n \in Decorators => Len(kids[n]) = 1
                    /\ n \in Leaves => kids[n] = <<>>
  BY DEF OneTree
<1> DEFINE at(p) == {i \in DOMAIN kids[p] : kids[p][i] = n}
           places == UNION {{p} \X at(p) : p \in Nodes}
<1>1. TreeOK(Now)
  BY BuiltFacts
<1>2. /\ KidsOK(kids) /\ RootOK(kids, root) /\ InTree = Under(kids, root) /\ n \in Nodes /\ root \in Nodes
      /\ n \in Leaves => kids[n] = <<>>
      /\ n \in Decorators => Len(kids[n]) = 1
  BY <1>1, TreeFacts DEF RootOK
<1>3. Hole \notin ToSet(kids[n])
  BY <1>2, TreeWhole DEF IsWhole
<1>4. \A q : q \in places <=> \E p \in Nodes : \E i \in at(p) : q = <<p, i>>
  OBVIOUS
<1>5. \A p : \A i : i \in at(p) <=> i \in DOMAIN kids[p] /\ kids[p][i] = n
  OBVIOUS
<1>6. n # Hole
  BY <1>2, BuilderAssumption
<1> HIDE DEF at, places
<1>7. CASE n = root
  <2>1. \A p \in Nodes : n \notin ToSet(kids[p])
    BY <1>2, <1>7 DEF RootOK, IsTop
  <2>2. \A p \in Nodes : at(p) = {}
    BY <1>5, <2>1 DEF ToSet
  <2> QED
    BY <1>2, <1>3, <1>4, <1>7, <2>2 DEF places, at
<1>8. CASE n # root
  <2>1. PICK p \in Under(kids, root) : n \in Children(kids, p)
    BY <1>2, <1>8, UnderStep
  <2>2. p \in Nodes
    BY <1>2, <2>1, UnderLeast
  <2>3. PICK i \in DOMAIN kids[p] : kids[p][i] = n
    BY <1>2, <2>1, <2>2, KidsType
  <2>4. \A q \in Nodes : \A j \in at(q) : q = p /\ j = i
    BY <1>2, <1>5, <1>6, <2>2, <2>3 DEF KidsOK, Forest
  <2>5. i \in at(p)
    BY <1>5, <2>3
  <2>6. <<p, i>> \in places
    BY <1>4, <2>2, <2>5
  <2>7. \A q \in places : q = <<p, i>>
    BY <1>4, <2>4
  <2>8. places = {<<p, i>>}
    BY <2>6, <2>7
  <2> QED
    BY <1>2, <1>3, <1>8, <2>6, <2>8 DEF places, at
<1> QED
  BY <1>7, <1>8

LEMMA InvGivesAllPassed == ASSUME EditsInv PROVE AllPassed
<1> SUFFICES ASSUME NEW n \in Ordered \cup Reactive, status[n] = Pass(n), NEW c \in ToSet(kids[n])
             PROVE  c \in passed[n] \cup heirs[n]
  BY DEF AllPassed
<1>1. n \in Nodes /\ Pass(n) # "IDLE"
  BY KindFacts DEF Ordered, Reactive
<1>2. built
  BY <1>1 DEF EditsInv, BuilderOK
<1>3. DoneOK(Now, n)
  BY <1>1, <1>2, BuiltFacts DEF TreeOK, NodeOK, NodeBut
<1>4. PICK i \in DOMAIN kids[n] : kids[n][i] = c
  BY DEF ToSet
<1> QED
  BY <1>3, <1>4 DEF DoneOK, Behind, Now

LEMMA InvGivesRest == ASSUME EditsInv PROVE DetachedAtRest
<1> SUFFICES ASSUME NEW n \in Nodes \ InTree
             PROVE  status[n] = "IDLE" /\ place[n].cursor = 1 /\ place[n].running = 0
  BY DEF DetachedAtRest
<1>1. CASE ~built
  <2>1. status = [m \in Nodes |-> "IDLE"] /\ place = [m \in Nodes |-> Start]
    BY <1>1 DEF EditsInv, BuilderOK
  <2>2. status[n] = "IDLE" /\ place[n] = Start
    BY <2>1
  <2> QED
    BY <2>2 DEF Start
<1>2. CASE built
  <2>1. TreeOK(Now) /\ Now.status = status /\ Now.place = place /\ Now.kids = kids /\ Now.root = root
    BY <1>2, BuiltFacts DEF Now
  <2>2. status[n] = "IDLE"
    BY <2>1, TreeFacts DEF TreeOK, IdleOutside
  <2>3. PlaceOK(Now, n) /\ RestOK(Now, n)
    BY <2>1 DEF TreeOK, NodeOK, NodeBut
  <2> QED
    BY <2>1, <2>2, <2>3 DEF PlaceOK, RestOK
<1> QED
  BY <1>1, <1>2

LEMMA InvGivesView == ASSUME EditsInv PROVE LiveView
<1>1. CASE ~built
  <2>1. shown = {} /\ status = [m \in Nodes |-> "IDLE"] /\ (root # None => RootOK(kids, root)) /\ KidsOK(kids)
    BY <1>1 DEF EditsInv, BuilderOK
  <2>2. InTree \subseteq Nodes
    BY <2>1, UnderLeast DEF InTree, RootOK
  <2> QED
    BY <2>1, <2>2 DEF LiveView
<1>2. CASE built
  <2>1. /\ TreeOK(Now) /\ Now.status = status /\ Now.shown = shown /\ Now.kids = kids /\ Now.root = root
        /\ (cleared \/ ViewFull(Now))
    BY <1>2, BuiltFacts DEF Now
  <2>2. InTree = Under(kids, root) /\ InTree \subseteq Nodes /\ shown \subseteq Nodes
    BY <2>1, TreeFacts DEF TreeOK, States
  <2>3. \A n \in shown : status[n] = "RUNNING"
    BY <2>1 DEF TreeOK, ViewOK
  <2>4. \A n \in (Nodes \ InTree) : status[n] = "IDLE"
    BY <2>1, <2>2 DEF TreeOK, IdleOutside
  <2>5. cleared \/ \A n \in Nodes : status[n] = "RUNNING" => n \in shown
    BY <2>1 DEF ViewFull
  <2> QED
    BY <2>2, <2>3, <2>4, <2>5 DEF LiveView
<1> QED
  BY <1>1, <1>2

\* Every variable has its type in every state of a tree being built, ticked and
\* modified, and no _current_idx or _running_child_idx is ever left behind the
\* children, whichever of them were removed or exchanged while the node waited.
THEOREM EditsTypeOKHolds == Spec => []EditsTypeOK
BY EditsInvHolds, InvGivesTypes, PTL

\* What build() returns is a tree, and every insertion, removal, replacement and
\* hot swap, from the queue or at once, and in whatever order, leaves a tree: no
\* node has two places, and a decorator has its one child and no placeholder.
THEOREM OneTreeHolds == Spec => []OneTree
BY EditsInvHolds, InvGivesOneTree, PTL

\* A Sequence or ReactiveSequence that stands at SUCCESS, or a Fallback or
\* ReactiveFallback at FAILURE, had that from each of its children, however the
\* children were changed while it was RUNNING; only what replaced a child that
\* had passed is taken at its word.
THEOREM AllPassedHolds == Spec => []AllPassed
BY EditsInvHolds, InvGivesAllPassed, PTL

\* A node that left the tree, with all below it, is IDLE and starts from its first
\* child wherever it is installed again.
THEOREM DetachedAtRestHolds == Spec => []DetachedAtRest
BY EditsInvHolds, InvGivesRest, PTL

\* The Inspector that every node of the tree notifies shows the nodes that are
\* RUNNING in the tree and no others, through every tick, halt and modification;
\* after its reset() it misses some until the next tick.
THEOREM LiveViewHolds == Spec => []LiveView
BY EditsInvHolds, InvGivesView, PTL
=============================================================================
