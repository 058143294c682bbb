----------------------------- MODULE TreeEdits -----------------------------
(***************************************************************************)
(* A Tree of src/bteng/core/tree.py that is changed between its ticks:     *)
(* built by TreeBuilder, ticked under its lock, modified through the queue *)
(* from any thread, halted, and watched by an Inspector                    *)
(* (src/bteng/introspection/inspector.py) that every node was given.  One  *)
(* step is one hold of the tree's lock, so a tick is a single step here;   *)
(* TickMachine takes it apart.                                             *)
(***************************************************************************)
EXTENDS TreeBuilder

CONSTANTS
    Indices,    \* values of TreeModification.child_index
    MaxPending, \* modifications queued at one time
    MaxEdits    \* modifications asked for in one behaviour

ASSUME EditsAssumption ==
    Indices \subseteq Int /\ MaxPending \in Nat \ {0} /\ MaxEdits \in Nat

Answer == {"RUNNING", "SUCCESS", "FAILURE"}
Reactive == {n \in Nodes : Kind[n] \in {"ReactiveSequence", "ReactiveFallback"}}
Ordered  == {n \in Nodes : Kind[n] \in {"Sequence", "Fallback"}}

\* Where a node is in its children: Sequence/Fallback _current_idx, from 1;
\* Reactive* _running_child_idx, 0 for None.  All the leaves have the tree's
\* blackboard, so a Reactive* is subscribed exactly when running is not 0.
Start == [cursor |-> 1, running |-> 0, dirty |-> TRUE]

VARIABLES
    status,     \* TreeNode._status
    place,      \* see Start
    shown,      \* Inspector._running_nodes, which are also those of _active_path
    pending,    \* Tree._pending_mods
    applied,    \* tick_once() applied the modifications and has yet to tick
    edits,      \* modifications asked for so far
    cleared,    \* history: Inspector.reset() came after the last tick
    passed,     \* history: the children that passed in this activation
    heirs       \* history: the children put in the place of one that had passed

treeVars == <<status, place, shown, passed, heirs>>
vars == <<buildVars, treeVars, pending, applied, edits, cleared>>

\* n and all that is below it, by the children that down gives each node.
Below(down, n) == LET B[m \in DOMAIN down] == {m} \cup UNION {B[c] : c \in down[m]} IN B[n]

Under(k, n) == Below([m \in Nodes |-> ToSet(k[m]) \ {Hole}], n)
InTree == IF root = None THEN {} ELSE Under(kids, root)
Loose == {n \in Nodes \ InTree : \A p \in Nodes : n \notin ToSet(kids[p])}

\* The parts of the state a tick, a halt or a modification changes, as a value.
Now == [kids |-> kids, root |-> root, status |-> status, place |-> place,
        shown |-> shown, passed |-> passed, heirs |-> heirs]

\* TLC computes a state once for all the variables when it is bound.
Becomes(state) ==
    \E s \in {state} :
        /\ kids' = s.kids /\ root' = s.root /\ status' = s.status /\ place' = s.place
        /\ shown' = s.shown /\ passed' = s.passed /\ heirs' = s.heirs

Init ==
    /\ BuildInit
    /\ status = [n \in Nodes |-> "IDLE"]
    /\ place = [n \in Nodes |-> Start]
    /\ passed = [n \in Nodes |-> {}] /\ heirs = [n \in Nodes |-> {}]
    /\ shown = {} /\ pending = <<>> /\ applied = FALSE
    /\ cleared = FALSE /\ edits = 0

(***************************************************************************)
(* halt() of every node in a set, with all that is below.                  *)
(***************************************************************************)
\* Mutant of Shown: _notify_halt() only in the node that halt() was called on.
ShownBelow(set, roots, stopped) == set \ (stopped \cap roots)

\* on_node_halt() of every stopped node.
Shown(set, roots, stopped) == set \ stopped

Halted(s, roots) ==
    LET all == UNION {Under(s.kids, n) : n \in roots}
        stopped == {n \in all : s.status[n] = "RUNNING"}
    IN  [s EXCEPT !.status = [n \in Nodes |-> IF n \in all THEN "IDLE" ELSE @[n]],
                  !.place = [n \in Nodes |->
                      [cursor  |-> IF n \in all THEN 1 ELSE @[n].cursor,
                       running |-> IF n \in stopped THEN 0 ELSE @[n].running,
                       dirty   |-> @[n].dirty]],
                  !.shown = Shown(@, roots, stopped),
                  !.passed = [n \in Nodes |-> IF n \in all THEN {} ELSE @[n]],
                  !.heirs = [n \in Nodes |-> IF n \in all THEN {} ELSE @[n]]]

(***************************************************************************)
(* execute_tick() of the root and all below it.  res is what each node     *)
(* answers if it is ticked.  In one tick no node is ticked twice, and what *)
(* is halted is not ticked afterwards: answers depend on the state before  *)
(* the tick and on each other, and all halts can come at the end.          *)
(***************************************************************************)
\* The answer that lets a node's loop go on, and is its own when all gave it.
Pass(n) == CASE Kind[n] \in AllKinds -> "SUCCESS"
             [] Kind[n] \in AnyKinds -> "FAILURE"
             [] OTHER -> "None"
Inverted(r) == CASE r = "SUCCESS" -> "FAILURE" [] r = "FAILURE" -> "SUCCESS" [] OTHER -> r

\* _is_condition_guard().
IsGuard(n) == \A m \in Under(kids, n) : kids[m] = <<>> => Kind[m] = "Condition"

\* ReactiveSequenceNode.tick() takes _fast_tick().
Fast(n) == n \in Reactive /\ ~place[n].dirty /\ place[n].running \in DOMAIN kids[n]

\* The loop of n comes to child i unless an earlier one stops it.
Visits(n, i) == /\ n \in Ordered => i >= place[n].cursor
                /\ Fast(n) => i >= place[n].running \/ IsGuard(kids[n][i])

\* The child at which n stops, 0 if all passed.
Stop(n, res) ==
    LET against == {i \in DOMAIN kids[n] : Visits(n, i) /\ res[kids[n][i]] # Pass(n)}
    IN  IF against = {} THEN 0 ELSE Min(against)

\* What each node answers, when the leaves give these answers.
Results(answer) ==
    LET R[n \in InTree] ==
          IF n \in Leaves THEN answer[n]
          ELSE LET i == Stop(n, R) IN
               IF i = 0 THEN Pass(n)
               ELSE IF n \in Decorators THEN Inverted(R[kids[n][i]]) ELSE R[kids[n][i]]
    IN  [n \in InTree |-> R[n]]

\* The children that n ticks.
Ticks(n, res) == {kids[n][i] : i \in {j \in DOMAIN kids[n] :
                     Visits(n, j) /\ (Stop(n, res) = 0 \/ j <= Stop(n, res))}}

\* The children that n halts: all, or those behind the one it stopped at.
Drops(n, res) ==
    LET i == Stop(n, res) IN
    CASE n \in Ordered  -> IF i = 0 \/ res[n] = "RUNNING" THEN {} ELSE ToSet(kids[n])
      [] n \in Reactive -> IF i = 0 \/ (res[n] = "RUNNING" /\ Fast(n) /\ i = place[n].running)
                           THEN {} ELSE {kids[n][j] : j \in i + 1..Len(kids[n])}
      [] OTHER -> {}

\* Where n, which was ticked, is afterwards.
PlaceAfter(n, res) ==
    LET i == IF res[n] = "RUNNING" THEN Stop(n, res) ELSE 0 IN
    [cursor  |-> IF n \in Ordered /\ i # 0 THEN i ELSE 1,
     running |-> IF n \in Reactive THEN i ELSE 0,
     dirty   |-> place[n].dirty /\ (n \in Reactive => Fast(n))]

\* A history of n, empty in a new activation.
Kept(n, set) == IF status[n] = "RUNNING" THEN set ELSE {}

Ticked(res) ==
    LET ticked == Below([n \in InTree |-> Ticks(n, res)], root)
        s == [kids |-> kids, root |-> root,
              status |-> [n \in Nodes |-> IF n \in ticked THEN res[n] ELSE status[n]],
              place |-> [n \in Nodes |-> IF n \in ticked THEN PlaceAfter(n, res) ELSE place[n]],
              shown |-> (shown \ ticked) \cup {n \in ticked : res[n] = "RUNNING"},
              passed |-> [n \in Nodes |-> IF n \in ticked
                           THEN Kept(n, passed[n]) \cup {c \in Ticks(n, res) : res[c] = Pass(n)}
                           ELSE passed[n]],
              heirs |-> [n \in Nodes |-> IF n \in ticked THEN Kept(n, heirs[n]) ELSE heirs[n]]]
    IN  Halted(s, UNION {Drops(n, res) : n \in ticked})

\* What the leaves may return; a condition hands through whatever NodeStatus its
\* callable gives.  No leaf raises here.
Answers == [Leaves \cap InTree -> Answer]

\* The rest of tick_once(), under the lock.
Tick ==
    /\ built /\ applied
    /\ \E res \in {Results(answer) : answer \in Answers} : Becomes(Ticked(res))
    /\ applied' = FALSE /\ cleared' = FALSE
    /\ UNCHANGED <<stack, added, built, pending, edits>>

(***************************************************************************)
(* Modifications.                                                          *)
(***************************************************************************)
ParentOf(s, n) == {p \in Under(s.kids, s.root) : n \in ToSet(s.kids[p])}

\* Mutant of Swapped: the old node is dropped as it is.
SwappedLive(s, old, new) ==
    IF old = s.root THEN [s EXCEPT !.root = new]
    ELSE [s EXCEPT !.kids = [p \in Nodes |-> IF p \in ParentOf(s, old)
             THEN [i \in DOMAIN @[p] |-> IF @[p][i] = old THEN new ELSE @[p][i]] ELSE @[p]]]

\* REPLACE_NODE, HOT_SWAP_SUBTREE and hot_swap_subtree(): the parent is not
\* halted and keeps its place.
Swapped(s, old, new) ==
    LET h == Halted(s, {old})
        over == ParentOf(s, old)
        takesOver(p) == p \in over /\ old \in s.passed[p] \cup s.heirs[p]
    IN  IF old = s.root THEN [h EXCEPT !.root = new]
        ELSE [h EXCEPT !.kids = [p \in Nodes |-> IF p \in over
                           THEN [i \in DOMAIN @[p] |-> IF @[p][i] = old THEN new ELSE @[p][i]]
                           ELSE @[p]],
                       !.heirs = [p \in Nodes |-> IF takesOver(p) THEN @[p] \cup {new} ELSE @[p]]]

\* Mutant of Inserted: the parent is not halted.
InsertedQuietly(s, p, at, new) ==
    IF p \in Leaves THEN s
    ELSE IF p \in Decorators
         THEN [Halted(s, ToSet(s.kids[p])) EXCEPT !.kids[p] = <<new>>]
         ELSE LET i == IF at < 0 THEN 0 ELSE IF at > Len(s.kids[p]) THEN Len(s.kids[p]) ELSE at
              IN  [s EXCEPT !.kids[p] = InsertAt(@, i + 1, new)]

\* INSERT_CHILD: the index is clamped; a decorator's child makes way.
Inserted(s, p, at, new) ==
    IF p \in Leaves THEN s
    ELSE IF p \in Decorators
         THEN Halted([Halted(s, ToSet(s.kids[p])) EXCEPT !.kids[p] = <<new>>], {p})
         ELSE LET i == IF at < 0 THEN 0 ELSE IF at > Len(s.kids[p]) THEN Len(s.kids[p]) ELSE at
              IN  Halted([s EXCEPT !.kids[p] = InsertAt(@, i + 1, new)], {p})

\* Mutant of Removed: the parent is not halted.
RemovedQuietly(s, p, at) ==
    IF p \in Leaves \cup Decorators \/ at \notin 0..Len(s.kids[p]) - 1 THEN s
    ELSE LET gone == s.kids[p][at + 1] IN
         Halted([s EXCEPT !.kids[p] = RemoveAt(@, at + 1)], {gone})

\* REMOVE_CHILD: refused on a decorator, and for an index out of range.
Removed(s, p, at) ==
    IF p \in Leaves \cup Decorators \/ at \notin 0..Len(s.kids[p]) - 1 THEN s
    ELSE LET gone == s.kids[p][at + 1] IN
         Halted(Halted([s EXCEPT !.kids[p] = RemoveAt(@, at + 1)], {gone}), {p})

\* _apply_modification(): a target that is not in the tree is ignored.
Modified(s, mod) ==
    IF mod.target \notin Under(s.kids, s.root) THEN s
    ELSE CASE mod.type = "Replace" -> Swapped(s, mod.target, mod.new)
           [] mod.type = "Insert"  -> Inserted(s, mod.target, mod.at, mod.new)
           [] mod.type = "Remove"  -> Removed(s, mod.target, mod.at)

\* All of them, in the order in which they were queued.
Edited ==
    LET E[i \in 0..Len(pending)] == IF i = 0 THEN Now ELSE Modified(E[i - 1], pending[i])
    IN  E[Len(pending)]

\* tick_once() begins: apply_pending_modifications().
Apply ==
    /\ built /\ ~applied
    /\ Becomes(Edited)
    /\ pending' = <<>> /\ applied' = TRUE
    /\ UNCHANGED <<stack, added, built, cleared, edits>>

\* A caller installs a node, with all below it, that is in no tree, is whole and
\* was not given away before.
Spare == {n \in Loose : /\ Hole \notin UNION {ToSet(kids[m]) : m \in Under(kids, n)}
                        /\ \A i \in DOMAIN pending : pending[i].new # n}

\* queue_modification(), in any thread, of a node the tree has at that time.
Queue(target) ==
    /\ built /\ target \in InTree /\ Len(pending) < MaxPending
    /\ edits < MaxEdits /\ edits' = edits + 1
    /\ \E mod \in [type : {"Replace"}, target : {target}, at : {0}, new : Spare]
             \cup [type : {"Insert"}, target : {target}, at : Indices, new : Spare]
             \cup [type : {"Remove"}, target : {target}, at : Indices, new : {None}] :
          pending' = Append(pending, mod)
    /\ UNCHANGED <<buildVars, treeVars, applied, cleared>>

\* hot_swap_subtree(), in the thread that ticks.
HotSwap(target) ==
    /\ built /\ ~applied /\ target \in InTree
    /\ edits < MaxEdits /\ edits' = edits + 1
    /\ \E new \in Spare : Becomes(Swapped(Now, target, new))
    /\ UNCHANGED <<stack, added, built, pending, applied, cleared>>

\* halt_all(), in any thread.
HaltAll ==
    /\ built
    /\ Becomes(Halted(Now, {root}))
    /\ UNCHANGED <<stack, added, built, pending, applied, edits, cleared>>

\* Inspector.reset().
ClearInspector ==
    /\ built /\ shown # {}
    /\ shown' = {} /\ cleared' = TRUE
    /\ UNCHANGED <<buildVars, status, place, passed, heirs, pending, applied, edits>>

\* A write to the tree's blackboard: _mark_dirty() of every subscribed node.
Write ==
    /\ built /\ \E n \in Nodes : place[n].running # 0
    /\ place' = [n \in Nodes |-> [place[n] EXCEPT !.dirty = @ \/ place[n].running # 0]]
    /\ UNCHANGED <<buildVars, status, shown, passed, heirs, pending, applied, edits, cleared>>

Next ==
    \/ Building /\ UNCHANGED <<treeVars, pending, applied, edits, cleared>>
    \/ Tick \/ Apply \/ HaltAll \/ ClearInspector \/ Write
    \/ \E n \in Nodes : Queue(n) \/ HotSwap(n)

Spec == Init /\ [][Next]_vars

(***************************************************************************)
(* Properties.                                                             *)
(***************************************************************************)
\* Types; and no place is left outside the children, whatever was removed.
EditsTypeOK ==
    /\ kids \in [Nodes -> Seq(Nodes \cup {Hole})]
    /\ root \in Nodes \cup {None} /\ (built => root # None)
    /\ status \in [Nodes -> Answer \cup {"IDLE"}]
    /\ \A n \in Nodes : /\ place[n].cursor \in 1..Len(kids[n]) \cup {1}
                        /\ place[n].running \in 0..Len(kids[n])
    /\ shown \subseteq Nodes /\ Len(pending) \leq MaxPending

\* What build() gives is a tree, and every modification leaves one: no node is
\* in two places, a decorator has exactly one child and never the placeholder.
OneTree ==
    built =>
        \A n \in InTree :
            LET places == UNION {{p} \X {i \in DOMAIN kids[p] : kids[p][i] = n} : p \in Nodes} IN
            /\ IF n = root THEN places = {} ELSE \E q \in places : places = {q}
            /\ Hole \notin ToSet(kids[n])
            /\ n \in Decorators => Len(kids[n]) = 1
            /\ n \in Leaves => kids[n] = <<>>

\* A Sequence that stands at SUCCESS had it from every child it has now, in the
\* activation that just ended (a Fallback at FAILURE likewise); only a child put
\* in the place of one that had passed is taken at its word.
AllPassed ==
    \A n \in Ordered \cup Reactive :
        status[n] = Pass(n) => ToSet(kids[n]) \subseteq passed[n] \cup heirs[n]

\* What is not in the tree is at rest, from whichever tick, halt or modification
\* it left it, so that it starts from the beginning when it is installed again.
DetachedAtRest ==
    \A n \in Nodes \ InTree :
        status[n] = "IDLE" /\ place[n].cursor = 1 /\ place[n].running = 0

\* Inspector.running_nodes() has no node that is not RUNNING in the tree, and has
\* every one that is; after Inspector.reset() again once the tree was ticked.
LiveView ==
    LET live == {n \in InTree : status[n] = "RUNNING"} IN
    /\ shown \subseteq live
    /\ cleared \/ live \subseteq shown

\* tree.py:279: restarting is defensible, "reporting a final result for unticked
\* children is not".
EveryChildTicked ==
    [][\A n \in Ordered \cup Reactive :
          status[n] # Pass(n) /\ status'[n] = Pass(n) => ToSet(kids'[n]) \subseteq passed'[n]]_vars
=============================================================================
