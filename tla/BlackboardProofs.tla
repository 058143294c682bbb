-------------------------- MODULE BlackboardProofs --------------------------
(***************************************************************************)
(* The safety properties of Blackboard for any remapping, any number of    *)
(* threads and subscribers, collected or not, and (where calls climb and   *)
(* wait) any forest of scopes.                                             *)
(***************************************************************************)
EXTENDS Blackboard, TLAPS, WellFoundedInduction

\* A call is at a key of a scope; only a set() that has written has callbacks to
\* run, and those that it found gone.
InCall ==
    \A t \in Threads :
        /\ at[t].op # "idle" => at[t].scope \in Scopes /\ at[t].key \in Keys
        /\ at[t].op # "notify" => at[t].cbs = {}

IInv == BoardTypeOK /\ InCall /\ CacheIsTable /\ NobodyMissed

CallRecord == [op : {"idle", "set", "notify", "get", "entry", "remove"},
               base : Scopes \cup {None}, asked : Keys \cup {None},
               scope : Scopes \cup {None}, key : Keys \cup {None},
               val : Values \cup {None},
               cbs : SUBSET Subs, dead : SUBSET Subs]

LEMMA AtType == BoardTypeOK => at \in [Threads -> CallRecord]
BY DEF BoardTypeOK, CallRecord

LEMMA IdleType == Idle \in CallRecord
BY DEF Idle, CallRecord

LEMMA BoardInit == Init => IInv
<1> SUFFICES ASSUME Init PROVE IInv
  OBVIOUS
<1>1. \A t \in Threads : at[t] = Idle
  BY DEF Init
<1>2. BoardTypeOK
  BY IdleType DEF Init, BoardTypeOK, Empty, CallRecord
<1>3. InCall
  BY <1>1 DEF InCall, Idle
<1>4. CacheIsTable /\ NobodyMissed
  BY DEF Init, CacheIsTable, Listeners, NobodyMissed
<1> QED
  BY <1>2, <1>3, <1>4 DEF IInv

(***************************************************************************)
(* The steps of a call.                                                    *)
(***************************************************************************)
\* A thread goes up to the parent scope.
LEMMA GoesUpType ==
    ASSUME IInv, NEW t \in Threads, NEW k \in Keys, at[t].op # "idle",
           Outer[at[t].scope] # None, GoesUp(t, k)
    PROVE  /\ at' \in [Threads -> CallRecord] /\ lock' \in [Scopes -> Threads \cup {None}]
           /\ InCall' /\ \A u \in Threads : at'[u].cbs = at[u].cbs
<1>1. at \in [Threads -> CallRecord] /\ at[t] \in CallRecord
  BY AtType DEF IInv
<1>2. at[t].scope \in Scopes /\ Outer[at[t].scope] \in Scopes
  BY ScopeAssumption DEF IInv, InCall
<1>3. at' = [at EXCEPT ![t] = [at[t] EXCEPT !.scope = Outer[at[t].scope], !.key = k]]
  BY <1>1 DEF GoesUp, CallRecord
<1>4. [at[t] EXCEPT !.scope = Outer[at[t].scope], !.key = k] \in CallRecord
  BY <1>1, <1>2 DEF CallRecord
<1>5. at' \in [Threads -> CallRecord]
  BY <1>1, <1>3, <1>4
<1>6. /\ at'[t].scope \in Scopes /\ at'[t].key \in Keys
      /\ at'[t].op = at[t].op /\ at'[t].cbs = at[t].cbs
  BY <1>1, <1>2, <1>3 DEF CallRecord
<1>7. \A u \in Threads \ {t} : at'[u] = at[u]
  BY <1>1, <1>3
<1>8. InCall'
  BY <1>6, <1>7 DEF IInv, InCall
<1>9. lock' \in [Scopes -> Threads \cup {None}]
  BY DEF GoesUp, IInv, BoardTypeOK
<1> QED
  BY <1>5, <1>6, <1>7, <1>8, <1>9

\* A call returns, with no callback left to run.
LEMMA DoneType ==
    ASSUME IInv, NEW t \in Threads, at[t].cbs = {}, Done(t)
    PROVE  /\ at' \in [Threads -> CallRecord] /\ lock' \in [Scopes -> Threads \cup {None}]
           /\ InCall' /\ \A u \in Threads : at'[u].cbs = at[u].cbs
<1>1. at \in [Threads -> CallRecord]
  BY AtType DEF IInv
<1>2. at'[t] = Idle /\ \A u \in Threads \ {t} : at'[u] = at[u]
  BY <1>1 DEF Done
<1>3. at' \in [Threads -> CallRecord]
  BY <1>1, IdleType DEF Done
<1>4. InCall'
  BY <1>2 DEF IInv, InCall, Idle
<1>5. lock' \in [Scopes -> Threads \cup {None}]
  BY DEF Done, IInv, BoardTypeOK
<1>6. \A u \in Threads : at'[u].cbs = at[u].cbs
  <2>1. Idle.cbs = {}
    BY DEF Idle
  <2> QED
    BY <1>2, <2>1
<1> QED
  BY <1>3, <1>4, <1>5, <1>6

\* A step that leaves the subscriptions and what there is to tell alone.
LEMMA NothingToTell ==
    ASSUME IInv, UNCHANGED <<subVars, gone, owing>>,
           \A u \in Threads : at'[u].cbs = at[u].cbs
    PROVE  CacheIsTable' /\ NobodyMissed'
<1>1. CacheIsTable'
  BY DEF IInv, CacheIsTable, Listeners, subVars
<1>2. NobodyMissed'
  BY DEF IInv, NobodyMissed, subVars
<1> QED
  BY <1>1, <1>2

(***************************************************************************)
(* The cases of Next.                                                      *)
(***************************************************************************)
LEMMA CallStep ==
    ASSUME IInv, NEW t \in Threads, NEW s \in Scopes, NEW k \in Keys,
           NEW op \in {"set", "get", "entry", "remove"}, NEW v \in Values \cup {None},
           Call(t, op, s, k, v)
    PROVE  IInv'
<1>1. at \in [Threads -> CallRecord]
  BY AtType DEF IInv
<1> DEFINE new == [op |-> op, base |-> s, asked |-> k, scope |-> s,
                   key |-> k, val |-> v, cbs |-> {}, dead |-> {}]
<1>2. new \in CallRecord /\ new.scope = s /\ new.key = k /\ new.cbs = {}
  BY DEF CallRecord
<1>3. at' = [at EXCEPT ![t] = new]
  BY DEF Call
<1> HIDE DEF new
<1>4. at' \in [Threads -> CallRecord] /\ at'[t] = new /\ \A u \in Threads \ {t} : at'[u] = at[u]
  BY <1>1, <1>2, <1>3
<1>5. BoardTypeOK'
  BY <1>4 DEF Call, IInv, BoardTypeOK, subVars, CallRecord
<1>6. InCall'
  BY <1>2, <1>4 DEF IInv, InCall
<1>7. at[t].cbs = {}
  BY DEF Call, IInv, InCall
<1>8. CacheIsTable' /\ NobodyMissed'
  BY <1>2, <1>4, <1>7, NothingToTell DEF Call
<1> QED
  BY <1>5, <1>6, <1>8 DEF IInv

\* The steps between a call and its effect, and those of a read or a removal.
LEMMA QuietStep ==
    ASSUME IInv, NEW t \in Threads,
           Follows(t) \/ SetReturns(t) \/ Inherits(t) \/ Gets(t) \/ GetsEntry(t) \/ Removes(t)
    PROVE  IInv'
<1>1. UNCHANGED <<subVars, gone, owing>>
  BY DEF Follows, SetReturns, Inherits, Gets, GetsEntry, Removes
<1>2. at[t].op = "notify" => at[t].cbs = {}
  BY DEF Follows, SetReturns, Inherits, Gets, GetsEntry, Removes, Enters
<1>3. at[t].cbs = {}
  BY <1>2 DEF IInv, InCall
<1>4. store' \in [Scopes -> [Keys -> Values \cup {None}]]
  <2>1. store \in [Scopes -> [Keys -> Values \cup {None}]]
    BY DEF IInv, BoardTypeOK
  <2>2. CASE store' = store
    BY <2>1, <2>2
  <2>3. CASE Removes(t)
    BY <2>1, <2>3 DEF Removes
  <2> QED
    BY <2>2, <2>3 DEF Follows, SetReturns, Inherits, Gets, GetsEntry
<1>5. /\ at' \in [Threads -> CallRecord] /\ lock' \in [Scopes -> Threads \cup {None}]
      /\ InCall' /\ \A u \in Threads : at'[u].cbs = at[u].cbs
  <2>1. CASE Follows(t)
    <3>1. at[t].op # "idle" /\ at[t].scope \in Scopes /\ at[t].key \in Keys
      BY <2>1 DEF Follows, IInv, InCall
    <3>2. Remap[at[t].scope][at[t].key] \in Keys /\ Outer[at[t].scope] # None
      BY <2>1, <3>1, ScopeAssumption DEF Follows, Redirected
    <3> QED
      BY <2>1, <3>1, <3>2, GoesUpType DEF Follows
  <2>2. CASE Inherits(t)
    <3>1. at[t].op # "idle" /\ at[t].key \in Keys /\ Outer[at[t].scope] # None
      BY <2>2 DEF Inherits, Enters, IInv, InCall
    <3> QED
      BY <2>2, <3>1, GoesUpType DEF Inherits
  <2>3. CASE SetReturns(t) \/ Gets(t) \/ GetsEntry(t) \/ Removes(t)
    BY <1>3, <2>3, DoneType DEF SetReturns, Gets, GetsEntry, Removes
  <2> QED
    BY <2>1, <2>2, <2>3
<1>6. BoardTypeOK'
  BY <1>1, <1>4, <1>5 DEF IInv, BoardTypeOK, subVars, CallRecord
<1> QED
  BY <1>1, <1>5, <1>6, NothingToTell DEF IInv

\* set() tells those who are on the table when it writes.
LEMMA WriteStep == ASSUME IInv, NEW t \in Threads, Writes(t) PROVE IInv'
<1> DEFINE s == at[t].scope
<1>1. at \in [Threads -> CallRecord] /\ at[t] \in CallRecord
  BY AtType DEF IInv
<1>2. s \in Scopes /\ at[t].key \in Keys /\ at[t].val \in Values \cup {None} /\ at[t].cbs = {}
  BY <1>1 DEF Writes, Enters, IInv, InCall, CallRecord
<1>3. Listeners(s) = callbacks[s] /\ callbacks[s] \in SUBSET Subs
  BY <1>2 DEF IInv, CacheIsTable, BoardTypeOK
<1>4. at' = [at EXCEPT ![t] = [at[t] EXCEPT !.op = "notify", !.cbs = callbacks[s]]]
  BY <1>1, <1>3 DEF Writes, CallRecord
<1>5. [at[t] EXCEPT !.op = "notify", !.cbs = callbacks[s]] \in CallRecord
  BY <1>1, <1>3 DEF CallRecord
<1>6. /\ at' \in [Threads -> CallRecord] /\ \A u \in Threads \ {t} : at'[u] = at[u]
      /\ at'[t].op = "notify" /\ at'[t].scope = s /\ at'[t].key = at[t].key
      /\ at'[t].cbs = callbacks[s]
  BY <1>1, <1>4, <1>5 DEF CallRecord
<1>7. BoardTypeOK'
  <2>1. cache' \in [Scopes -> SUBSET Subs] /\ callbacks' \in [Scopes -> SUBSET Subs]
    BY <1>3 DEF Writes, IInv, BoardTypeOK
  <2>2. store' \in [Scopes -> [Keys -> Values \cup {None}]]
    BY <1>2 DEF Writes, IInv, BoardTypeOK
  <2>3. stale' \subseteq Scopes /\ gone' \subseteq Weak /\ owing' \subseteq Subs
    BY <1>3 DEF Writes, IInv, BoardTypeOK
  <2>4. lock' \in [Scopes -> Threads \cup {None}]
    BY DEF Writes, IInv, BoardTypeOK
  <2> QED
    BY <1>6, <2>1, <2>2, <2>3, <2>4 DEF BoardTypeOK, CallRecord
<1>8. InCall'
  BY <1>2, <1>6 DEF IInv, InCall
<1>9. CacheIsTable'
  BY <1>2, <1>3 DEF Writes, IInv, BoardTypeOK, CacheIsTable, Listeners
<1>10. NobodyMissed'
  <2> SUFFICES ASSUME NEW c \in owing', c \in callbacks'[Where[c]], c \notin gone'
               PROVE  \E u \in Threads : c \in at'[u].cbs
    BY DEF NobodyMissed
  <2>1. callbacks' = callbacks /\ gone' = gone
    BY DEF Writes
  <2>2. CASE c \in owing
    <3>1. PICK u \in Threads : c \in at[u].cbs
      BY <2>1, <2>2 DEF IInv, NobodyMissed
    <3> QED
      BY <1>2, <1>6, <3>1
  <2>3. CASE c \in callbacks[s]
    BY <1>6, <2>3
  <2> QED
    BY <2>2, <2>3 DEF Writes
<1> QED
  BY <1>7, <1>8, <1>9, <1>10 DEF IInv

\* One callback runs, or its owner is found gone.
LEMMA NotifyStep ==
    ASSUME IInv, NEW t \in Threads, NEW c \in Subs, Notifies(t, c) PROVE IInv'
<1> DEFINE new == [at[t] EXCEPT !.cbs = @ \ {c},
                                !.dead = IF c \in gone THEN @ \cup {c} ELSE @]
<1>1. at \in [Threads -> CallRecord] /\ at[t] \in CallRecord
  BY AtType DEF IInv
<1>2. at' = [at EXCEPT ![t] = new]
  BY <1>1 DEF Notifies, CallRecord
<1>3. /\ new \in CallRecord /\ new.cbs = at[t].cbs \ {c}
      /\ new.op = at[t].op /\ new.scope = at[t].scope /\ new.key = at[t].key
  BY <1>1 DEF CallRecord
<1> HIDE DEF new
<1>4. at' \in [Threads -> CallRecord] /\ at'[t] = new /\ \A u \in Threads \ {t} : at'[u] = at[u]
  BY <1>1, <1>2, <1>3
<1>5. BoardTypeOK'
  BY <1>4 DEF Notifies, IInv, BoardTypeOK, subVars, CallRecord
<1>6. InCall'
  BY <1>3, <1>4 DEF IInv, InCall
<1>7. CacheIsTable'
  BY DEF Notifies, IInv, CacheIsTable, Listeners, subVars
<1>8. NobodyMissed'
  BY <1>3, <1>4 DEF Notifies, IInv, NobodyMissed, subVars
<1> QED
  BY <1>5, <1>6, <1>7, <1>8 DEF IInv

LEMMA ReapStep == ASSUME IInv, NEW t \in Threads, Reaps(t) PROVE IInv'
<1> DEFINE new == [at[t] EXCEPT !.dead = {}]
<1>1. at \in [Threads -> CallRecord] /\ at[t] \in CallRecord /\ at[t].scope \in Scopes
  BY AtType DEF IInv, Reaps, Enters, InCall
<1>2. at' = [at EXCEPT ![t] = new]
  BY DEF Reaps
<1>3. /\ new \in CallRecord /\ new.cbs = at[t].cbs
      /\ new.op = at[t].op /\ new.scope = at[t].scope /\ new.key = at[t].key
  BY <1>1 DEF CallRecord
<1> HIDE DEF new
<1>4. at' \in [Threads -> CallRecord] /\ at'[t] = new /\ \A u \in Threads \ {t} : at'[u] = at[u]
  BY <1>1, <1>2, <1>3
<1>5. callbacks' \in [Scopes -> SUBSET Subs] /\ stale' \subseteq Scopes
  BY <1>1 DEF Reaps, IInv, BoardTypeOK
<1>6. BoardTypeOK'
  BY <1>4, <1>5 DEF Reaps, IInv, BoardTypeOK, CallRecord
<1>7. InCall'
  BY <1>3, <1>4 DEF IInv, InCall
<1>8. CacheIsTable'
  BY <1>1 DEF Reaps, IInv, BoardTypeOK, CacheIsTable, Listeners
<1>9. NobodyMissed'
  <2>1. \A x \in Scopes : callbacks'[x] \subseteq callbacks[x]
    BY <1>1 DEF Reaps, IInv, BoardTypeOK
  <2>2. \A c \in owing : Where[c] \in Scopes
    BY SubAssumption DEF IInv, BoardTypeOK
  <2> QED
    BY <1>3, <1>4, <2>1, <2>2 DEF Reaps, IInv, NobodyMissed
<1> QED
  BY <1>6, <1>7, <1>8, <1>9 DEF IInv

\* What others do to the table, the store or an owner, in one step.
LEMMA TableStep ==
    ASSUME IInv, NEW c \in Subs, Subscribe(c) \/ Unsubscribe(c) \/ Collect(c) PROVE IInv'
<1>1. at' = at /\ Where[c] \in Scopes
  BY SubAssumption DEF Subscribe, Unsubscribe, Collect
<1>2. InCall'
  BY <1>1 DEF IInv, InCall
<1>3. /\ callbacks' \in [Scopes -> SUBSET Subs] /\ cache' = cache
      /\ stale' \subseteq Scopes /\ gone' \subseteq Weak /\ owing' \subseteq Subs
  BY <1>1 DEF Subscribe, Unsubscribe, Collect, IInv, BoardTypeOK, subVars
<1>4. BoardTypeOK'
  BY <1>1, <1>3 DEF Subscribe, Unsubscribe, Collect, IInv, BoardTypeOK
<1>5. CacheIsTable'
  BY <1>1 DEF Subscribe, Unsubscribe, Collect, IInv, BoardTypeOK, CacheIsTable, Listeners, subVars
<1>6. NobodyMissed'
  <2>1. \A d \in owing' : d \in owing /\ Where[d] \in Scopes
    BY SubAssumption DEF Subscribe, Unsubscribe, Collect, IInv, BoardTypeOK
  <2>2. \A d \in owing' : d \in gone => d \in gone'
    BY DEF Subscribe, Unsubscribe, Collect
  <2>3. \A d \in owing' : d \in callbacks'[Where[d]] => d \in callbacks[Where[d]]
    BY <1>1, <2>1 DEF Subscribe, Unsubscribe, Collect, IInv, BoardTypeOK, subVars
  <2> QED
    BY <1>1, <2>1, <2>2, <2>3 DEF IInv, NobodyMissed
<1> QED
  BY <1>2, <1>4, <1>5, <1>6 DEF IInv

LEMMA StoreStep == ASSUME IInv, NEW s \in Scopes, Clear(s) \/ Reset(s) PROVE IInv'
<1>1. at' = at /\ gone' = gone /\ owing' = owing /\ lock' = lock
  BY DEF Clear, Reset
<1>2. store' \in [Scopes -> [Keys -> Values \cup {None}]]
  BY DEF Clear, Reset, Empty, IInv, BoardTypeOK
<1>3. /\ callbacks' \in [Scopes -> SUBSET Subs] /\ cache' \in [Scopes -> SUBSET Subs]
      /\ stale' \subseteq Scopes /\ \A x \in Scopes : callbacks'[x] \subseteq callbacks[x]
  BY DEF Clear, Reset, IInv, BoardTypeOK, subVars
<1>4. BoardTypeOK' /\ InCall'
  BY <1>1, <1>2, <1>3 DEF IInv, BoardTypeOK, InCall
<1>5. CacheIsTable'
  BY DEF Clear, Reset, IInv, BoardTypeOK, CacheIsTable, Listeners, subVars
<1>6. NobodyMissed'
  <2>1. \A c \in owing : Where[c] \in Scopes
    BY SubAssumption DEF IInv, BoardTypeOK
  <2> QED
    BY <1>1, <1>3, <2>1 DEF IInv, NobodyMissed
<1> QED
  BY <1>4, <1>5, <1>6 DEF IInv

LEMMA BoardNext == IInv /\ [Next]_vars => IInv'
<1> SUFFICES ASSUME IInv, [Next]_vars PROVE IInv'
  OBVIOUS
<1>1. CASE UNCHANGED vars
  BY <1>1 DEF vars, subVars, IInv, BoardTypeOK, InCall, CacheIsTable, Listeners, NobodyMissed
<1>2. ASSUME NEW t \in Threads, NEW s \in Scopes, NEW k \in Keys,
             \/ \E v \in Values : Call(t, "set", s, k, v)
             \/ \E op \in {"get", "entry", "remove"} : Call(t, op, s, k, None)
      PROVE  IInv'
  BY <1>2, CallStep
<1>3. ASSUME NEW t \in Threads, Step(t) PROVE IInv'
  BY <1>3, QuietStep, WriteStep, NotifyStep, ReapStep DEF Step
<1> QED
  BY <1>1, <1>2, <1>3, TableStep, StoreStep DEF Next

\* The inductive invariant.
THEOREM BoardInvariant == Spec => []IInv
BY BoardInit, BoardNext, PTL DEF Spec

\* The dispatch list that a write uses is the table of subscriptions.
THEOREM CacheIsTableHolds == Spec => []CacheIsTable
<1>1. IInv => CacheIsTable
  BY DEF IInv
<1> QED
  BY <1>1, BoardInvariant, PTL

\* A subscriber that has yet to hear of a write is about to.
THEOREM NobodyMissedHolds == Spec => []NobodyMissed
<1>1. IInv => NobodyMissed
  BY DEF IInv
<1> QED
  BY <1>1, BoardInvariant, PTL

(***************************************************************************)
(* What a call does with the locks.                                        *)
(***************************************************************************)
\* A call of t goes up with its scope locked, stays where it is, or returns.
Climbs(t) == /\ at[t].op # "idle" /\ at'[t].op = at[t].op /\ at'[t].cbs = at[t].cbs /\ MayLock(t, at[t].scope)
             /\ Outer[at[t].scope] # None /\ at'[t].scope = Outer[at[t].scope]
             /\ at[t].cbs = {}
             /\ at[t].op = "get" \/ \E k \in Keys : Redirected(at[t].scope, k)
             /\ lock' = [lock EXCEPT ![at[t].scope] = t]

Remains(t) == /\ at[t].op \in {"set", "notify"} /\ at'[t].op = "notify" /\ at'[t].scope = at[t].scope
              /\ at'[t].cbs \subseteq at[t].cbs \cup Listeners(at[t].scope)
              /\ lock' = lock

Leaves(t) == /\ at'[t] = Idle
             /\ lock' = [s \in Scopes |-> IF lock[s] = t THEN None ELSE lock[s]]

LEMMA StepShape ==
    ASSUME IInv, NEW t \in Threads, Step(t)
    PROVE  /\ \A u \in Threads \ {t} : at'[u] = at[u]
           /\ Climbs(t) \/ Remains(t) \/ Leaves(t)
           /\ callbacks' \in [Scopes -> SUBSET Subs]
           /\ \A s \in Scopes : /\ callbacks'[s] \subseteq callbacks[s]
                                /\ cache'[s] \subseteq cache[s] \cup callbacks[s]
<1>1. at \in [Threads -> CallRecord] /\ at[t] \in CallRecord
  BY AtType DEF IInv
<1>2. callbacks \in [Scopes -> SUBSET Subs] /\ cache \in [Scopes -> SUBSET Subs]
  BY DEF IInv, BoardTypeOK
<1>3. \A u \in Threads \ {t} : at'[u] = at[u]
  BY <1>1 DEF Step, Follows, Writes, Notifies, Reaps, SetReturns, Inherits, Gets, GetsEntry, Removes, GoesUp, Done
<1>4. /\ callbacks' \in [Scopes -> SUBSET Subs]
      /\ \A s \in Scopes : /\ callbacks'[s] \subseteq callbacks[s]
                           /\ cache'[s] \subseteq cache[s] \cup callbacks[s]
  BY <1>2 DEF Step, Follows, Writes, Notifies, Reaps, SetReturns, Inherits, Gets, GetsEntry, Removes, Listeners, subVars
<1>5. CASE Follows(t) \/ Inherits(t)
  <2>1. /\ at[t].op \in {"set", "get", "entry", "remove"} /\ MayLock(t, at[t].scope)
        /\ Outer[at[t].scope] # None /\ \E k : GoesUp(t, k)
        /\ at[t].op = "get" \/ \E k \in Keys : Redirected(at[t].scope, k)
    BY <1>5 DEF Follows, Inherits, Enters, Redirected, IInv, InCall
  <2>2. at[t].cbs = {}
    BY <2>1 DEF IInv, InCall
  <2>3. Climbs(t)
    BY <1>1, <2>1, <2>2 DEF GoesUp, Climbs, CallRecord
  <2> QED
    BY <1>3, <1>4, <2>3
<1>6. CASE Writes(t) \/ (\E c \in Subs : Notifies(t, c)) \/ Reaps(t)
  <2>1. ASSUME Writes(t) PROVE Remains(t)
    BY <1>1, <2>1 DEF Writes, Enters, Remains, CallRecord
  <2>2. ASSUME \E c \in Subs : Notifies(t, c) PROVE Remains(t)
    BY <1>1, <2>2 DEF Notifies, Remains, CallRecord
  <2>3. ASSUME Reaps(t) PROVE Remains(t)
    BY <1>1, <2>3 DEF Reaps, Enters, Remains, CallRecord
  <2> QED
    BY <1>3, <1>4, <1>6, <2>1, <2>2, <2>3
<1>7. CASE SetReturns(t) \/ Gets(t) \/ GetsEntry(t) \/ Removes(t)
  <2>1. Leaves(t)
    BY <1>1, <1>7 DEF SetReturns, Gets, GetsEntry, Removes, Done, Leaves
  <2> QED
    BY <1>3, <1>4, <2>1
<1> QED
  BY <1>5, <1>6, <1>7 DEF Step

\* Where the subscriptions are, and where the locks: a thread in a call is above
\* every scope that it has locked.
ListedWhere ==
    /\ \A s \in Scopes : \A c \in callbacks[s] \cup cache[s] : Where[c] = s
    /\ \A t \in Threads : \A c \in at[t].cbs : Where[c] = at[t].scope

LocksBelow(Depth) ==
    \A s \in Scopes : lock[s] # None =>
        at[lock[s]].op # "idle" /\ Depth[at[lock[s]].scope] < Depth[s]

LEMMA ListedStep == IInv /\ ListedWhere /\ [Next]_vars => ListedWhere'
<1> SUFFICES ASSUME IInv, ListedWhere, [Next]_vars PROVE ListedWhere'
  OBVIOUS
<1>1. at \in [Threads -> CallRecord]
  BY AtType DEF IInv
<1>2. callbacks \in [Scopes -> SUBSET Subs] /\ cache \in [Scopes -> SUBSET Subs]
  BY DEF IInv, BoardTypeOK
<1>3. ASSUME NEW t \in Threads, Step(t) PROVE ListedWhere'
  <2>1. /\ \A u \in Threads \ {t} : at'[u] = at[u]
        /\ Climbs(t) \/ Remains(t) \/ Leaves(t)
        /\ \A s \in Scopes : callbacks'[s] \subseteq callbacks[s] /\ cache'[s] \subseteq cache[s] \cup callbacks[s]
    BY <1>3, StepShape
  <2>2. \A c \in at'[t].cbs : Where[c] = at'[t].scope
    <3>1. CASE Climbs(t)
      BY <3>1 DEF Climbs
    <3>2. CASE Remains(t)
      <4>1. at[t].scope \in Scopes
        BY <3>2 DEF Remains, IInv, InCall
      <4>2. Listeners(at[t].scope) \subseteq callbacks[at[t].scope] \cup cache[at[t].scope]
        BY DEF Listeners
      <4> QED
        BY <3>2, <4>1, <4>2 DEF Remains, ListedWhere
    <3>3. CASE Leaves(t)
      BY <3>3 DEF Leaves, Idle
    <3> QED
      BY <2>1, <3>1, <3>2, <3>3
  <2> QED
    BY <2>1, <2>2 DEF ListedWhere
<1>4. ASSUME NEW t \in Threads, NEW s \in Scopes, NEW k \in Keys,
             \/ \E v \in Values : Call(t, "set", s, k, v)
             \/ \E op \in {"get", "entry", "remove"} : Call(t, op, s, k, None)
      PROVE  ListedWhere'
  <2>1. at'[t].cbs = {} /\ \A u \in Threads \ {t} : at'[u] = at[u]
    BY <1>1, <1>4 DEF Call
  <2>2. callbacks' = callbacks /\ cache' = cache
    BY <1>4 DEF Call, subVars
  <2> QED
    BY <2>1, <2>2 DEF ListedWhere
<1>5. ASSUME NEW c \in Subs, Subscribe(c) \/ Unsubscribe(c) \/ Collect(c) PROVE ListedWhere'
  <2>1. at' = at /\ cache' = cache /\ Where[c] \in Scopes
    BY <1>5, SubAssumption DEF Subscribe, Unsubscribe, Collect, subVars
  <2>2. \A s \in Scopes : \A d \in callbacks'[s] : d \in callbacks[s] \/ (s = Where[c] /\ d = c)
    BY <1>2, <1>5, <2>1 DEF Subscribe, Unsubscribe, Collect, subVars
  <2> QED
    BY <2>1, <2>2 DEF ListedWhere
<1>6. ASSUME NEW r \in Scopes, Clear(r) \/ Reset(r) PROVE ListedWhere'
  <2>1. at' = at /\ \A s \in Scopes : callbacks'[s] \subseteq callbacks[s] /\ cache'[s] \subseteq cache[s]
    BY <1>2, <1>6 DEF Clear, Reset, subVars
  <2> QED
    BY <2>1 DEF ListedWhere
<1>7. CASE UNCHANGED vars
  BY <1>7 DEF vars, subVars, ListedWhere
<1> QED
  BY <1>3, <1>4, <1>5, <1>6, <1>7 DEF Next

LEMMA LocksStep ==
    ASSUME NEW Depth \in [Scopes -> Nat],
           \A s \in Scopes : Outer[s] # None => Depth[Outer[s]] < Depth[s]
    PROVE  IInv /\ LocksBelow(Depth) /\ [Next]_vars => LocksBelow(Depth)'
<1> SUFFICES ASSUME IInv, LocksBelow(Depth), [Next]_vars, NEW r \in Scopes, lock'[r] # None
             PROVE  at'[lock'[r]].op # "idle" /\ Depth[at'[lock'[r]].scope] < Depth[r]
  BY DEF LocksBelow
<1>1. at \in [Threads -> CallRecord] /\ lock \in [Scopes -> Threads \cup {None}]
  BY AtType DEF IInv, BoardTypeOK
<1>2. lock[r] # None => /\ lock[r] \in Threads /\ at[lock[r]].op # "idle"
                        /\ Depth[at[lock[r]].scope] < Depth[r] /\ at[lock[r]].scope \in Scopes
  BY <1>1 DEF LocksBelow, IInv, InCall
<1>3. ASSUME NEW t \in Threads, Step(t)
      PROVE  at'[lock'[r]].op # "idle" /\ Depth[at'[lock'[r]].scope] < Depth[r]
  <2>1. /\ \A u \in Threads \ {t} : at'[u] = at[u]
        /\ Climbs(t) \/ Remains(t) \/ Leaves(t)
    BY <1>3, StepShape
  <2>2. CASE Climbs(t)
    <3>1. at[t].scope \in Scopes /\ Outer[at[t].scope] \in Scopes
      BY <2>2, ScopeAssumption DEF Climbs, IInv, InCall
    <3>2. Depth[at'[t].scope] < Depth[at[t].scope] /\ at'[t].op # "idle"
      BY <2>2, <3>1 DEF Climbs
    <3>3. CASE r = at[t].scope
      BY <1>1, <2>2, <3>1, <3>2, <3>3 DEF Climbs
    <3>4. CASE r # at[t].scope
      <4>1. lock'[r] = lock[r]
        BY <1>1, <2>2, <3>4 DEF Climbs
      <4>2. CASE lock[r] = t
        <5>1. Depth[at'[t].scope] < Depth[at[t].scope] /\ Depth[at[t].scope] < Depth[r]
          BY <1>2, <3>2, <4>1, <4>2
        <5>2. Depth[at'[t].scope] \in Nat /\ Depth[at[t].scope] \in Nat /\ Depth[r] \in Nat
          BY <2>2, <3>1 DEF Climbs
        <5> QED
          BY <3>2, <4>1, <4>2, <5>1, <5>2
      <4>3. CASE lock[r] # t
        BY <1>2, <2>1, <4>1, <4>3
      <4> QED
        BY <4>2, <4>3
    <3> QED
      BY <3>3, <3>4
  <2>3. CASE Remains(t)
    BY <1>2, <2>1, <2>3 DEF Remains
  <2>4. CASE Leaves(t)
    <3>1. lock'[r] = lock[r] /\ lock[r] # t
      BY <2>4 DEF Leaves
    <3> QED
      BY <1>2, <2>1, <3>1
  <2> QED
    BY <2>1, <2>2, <2>3, <2>4
<1>4. ASSUME NEW t \in Threads, NEW s \in Scopes, NEW k \in Keys,
             \/ \E v \in Values : Call(t, "set", s, k, v)
             \/ \E op \in {"get", "entry", "remove"} : Call(t, op, s, k, None)
      PROVE  at'[lock'[r]].op # "idle" /\ Depth[at'[lock'[r]].scope] < Depth[r]
  <2>1. at[t].op = "idle" /\ lock' = lock /\ \A u \in Threads \ {t} : at'[u] = at[u]
    BY <1>1, <1>4 DEF Call
  <2> QED
    BY <1>2, <2>1
<1>5. ASSUME at' = at, lock' = lock PROVE at'[lock'[r]].op # "idle" /\ Depth[at'[lock'[r]].scope] < Depth[r]
  BY <1>2, <1>5
<1> QED
  BY <1>3, <1>4, <1>5 DEF Next, Subscribe, Unsubscribe, Collect, Clear, Reset, vars

\* A call has locked a scope because it was remapped there, unless it is a get().
LocksByRemap ==
    \A s \in Scopes : lock[s] # None =>
        /\ at[lock[s]].op # "idle"
        /\ at[lock[s]].op = "get" \/ \E k \in Keys : Redirected(s, k)

LEMMA RemapStep == IInv /\ LocksByRemap /\ [Next]_vars => LocksByRemap'
<1> DEFINE Kept(r) == /\ at[lock[r]].op # "idle"
                      /\ at[lock[r]].op = "get" \/ \E k \in Keys : Redirected(r, k)
<1> SUFFICES ASSUME IInv, LocksByRemap, [Next]_vars, NEW r \in Scopes, lock'[r] # None
             PROVE  Kept(r)'
  BY DEF LocksByRemap
<1>1. at \in [Threads -> CallRecord] /\ lock \in [Scopes -> Threads \cup {None}]
  BY AtType DEF IInv, BoardTypeOK
<1>2. lock[r] # None => lock[r] \in Threads /\ Kept(r)
  BY <1>1 DEF LocksByRemap
<1>3. ASSUME NEW t \in Threads, Step(t) PROVE Kept(r)'
  <2>1. /\ \A u \in Threads \ {t} : at'[u] = at[u]
        /\ Climbs(t) \/ Remains(t) \/ Leaves(t)
    BY <1>3, StepShape
  <2>2. CASE Climbs(t)
    <3>1. CASE r = at[t].scope
      BY <1>1, <2>2, <3>1 DEF Climbs
    <3>2. CASE r # at[t].scope
      BY <1>1, <1>2, <2>1, <2>2, <3>2 DEF Climbs
    <3> QED
      BY <3>1, <3>2
  <2>3. CASE Remains(t)
    BY <1>2, <2>1, <2>3 DEF Remains
  <2>4. CASE Leaves(t)
    <3>1. lock'[r] = lock[r] /\ lock[r] # t
      BY <2>4 DEF Leaves
    <3> QED
      BY <1>2, <2>1, <3>1
  <2> QED
    BY <2>1, <2>2, <2>3, <2>4
<1>4. ASSUME NEW t \in Threads, NEW s \in Scopes, NEW k \in Keys,
             \/ \E v \in Values : Call(t, "set", s, k, v)
             \/ \E op \in {"get", "entry", "remove"} : Call(t, op, s, k, None)
      PROVE  Kept(r)'
  <2>1. at[t].op = "idle" /\ lock' = lock /\ \A u \in Threads \ {t} : at'[u] = at[u]
    BY <1>1, <1>4 DEF Call
  <2> QED
    BY <1>2, <2>1
<1>5. ASSUME at' = at, lock' = lock PROVE Kept(r)'
  BY <1>2, <1>5
<1> QED
  BY <1>3, <1>4, <1>5 DEF Next, Subscribe, Unsubscribe, Collect, Clear, Reset, vars

\* The natural numbers have least elements.
LEMMA LeastNumber ==
    ASSUME NEW S, S \subseteq Nat, S # {}
    PROVE  \E m \in S : \A k \in S : ~(k < m)
<1>1. PICK m \in S : \A k \in S : <<k, m>> \notin OpToRel(<, Nat)
  BY NatLessThanWellFounded, WFMin, Zenon
<1>2. \A k \in S : <<k, m>> \in Nat \X Nat
  BY <1>1
<1>3. \A k \in S : k < m => <<k, m>> \in OpToRel(<, Nat)
  BY <1>2, Zenon DEF OpToRel
<1> QED
  BY <1>1, <1>3

\* Threads wait for locks in no circle, whatever the forest of scopes and the
\* remapping, as long as a callback reads no scope deeper than the one it listens
\* to, but for those a level below that one that no write comes through.
THEOREM NoDeadlockHolds ==
    ASSUME NEW Depth \in [Scopes -> Nat],
           \A s \in Scopes : Outer[s] # None => Depth[Outer[s]] < Depth[s],
           \A c \in Subs : Looks[c] # None =>
               \/ Depth[Looks[c]] <= Depth[Where[c]]
               \/ /\ Depth[Looks[c]] = Depth[Where[c]] + 1
                  /\ \A k \in Keys : ~Redirected(Looks[c], k)
    PROVE  Spec => []NoDeadlock
<1>1. IInv /\ ListedWhere /\ LocksBelow(Depth) /\ LocksByRemap => NoDeadlock
  <2> SUFFICES ASSUME IInv, ListedWhere, LocksBelow(Depth), LocksByRemap,
                      NEW T \in (SUBSET Threads) \ {{}}
               PROVE  \E t \in T : WaitsFor(t) \cap T = {}
    BY DEF NoDeadlock, LocksBelow
  <2>1. at \in [Threads -> CallRecord] /\ lock \in [Scopes -> Threads \cup {None}]
    BY AtType DEF IInv, BoardTypeOK
  \* How far a call still is from its end: it climbs, and then tells the subscribers.
  <2> DEFINE Left(t) == 2 * Depth[at[t].scope] + (IF at[t].op = "notify" THEN 1 ELSE 0)
  \* Who waits is further from its end than those it waits for.
  <2>2. ASSUME NEW t \in T, NEW u \in WaitsFor(t)
        PROVE  Left(t) \in Nat /\ Left(u) \in Nat /\ Left(u) < Left(t)
    <3>1. at[t].op # "idle" /\ at[t].scope \in Scopes
      <4>1. at[t].op = "idle" => at[t].cbs = {}
        BY DEF IInv, InCall
      <4>2. at[t].op # "idle"
        BY <4>1 DEF WaitsFor
      <4> QED
        BY <4>2 DEF IInv, InCall
    <3>2. PICK s : /\ u = lock[s] /\ u # None
                   /\ \/ s = at[t].scope
                      \/ at[t].op = "notify" /\ \E c \in at[t].cbs : s = Looks[c] /\ s # None
      BY DEF WaitsFor, IInv, InCall
    <3>3. ASSUME NEW r \in Scopes, u = lock[r]
          PROVE  /\ u \in Threads /\ at[u].scope \in Scopes /\ Depth[at[u].scope] < Depth[r]
                 /\ at[u].op = "get" \/ \E k \in Keys : Redirected(r, k)
      BY <2>1, <3>2, <3>3 DEF LocksBelow, LocksByRemap, IInv, InCall
    <3>4. CASE s = at[t].scope
      <4>1. at[u].scope \in Scopes /\ Depth[at[u].scope] < Depth[at[t].scope]
        BY <3>1, <3>2, <3>3, <3>4
      <4> QED
        BY <3>1, <4>1
    <3>5. CASE at[t].op = "notify" /\ \E c \in at[t].cbs : s = Looks[c] /\ s # None
      <4>1. PICK c \in at[t].cbs : s = Looks[c] /\ s # None
        BY <3>5
      <4>2. c \in Subs /\ Where[c] = at[t].scope
        BY <2>1 DEF ListedWhere, CallRecord
      <4>3. s \in Scopes
        BY <4>1, <4>2, SubAssumption
      <4>4. /\ at[u].scope \in Scopes /\ Depth[at[u].scope] < Depth[s]
            /\ at[u].op = "get" \/ \E k \in Keys : Redirected(s, k)
        BY <3>2, <3>3, <4>3
      <4>5. \/ Depth[s] <= Depth[at[t].scope]
            \/ Depth[s] = Depth[at[t].scope] + 1 /\ at[u].op = "get"
        BY <4>1, <4>2, <4>4
      <4> QED
        BY <3>1, <3>5, <4>3, <4>4, <4>5
    <3> QED
      BY <3>2, <3>4, <3>5
  <2> SUFFICES ASSUME \A t \in T : \E u \in WaitsFor(t) : u \in T PROVE FALSE
    OBVIOUS
  <2> DEFINE D == {Left(t) : t \in T}
  <2>3. D \subseteq Nat /\ D # {}
    BY <2>2
  <2>4. PICK m \in D : \A k \in D : ~(k < m)
    <3> HIDE DEF D
    <3> QED
      BY <2>3, LeastNumber
  <2>5. PICK t \in T : m = Left(t)
    BY <2>4
  <2>6. PICK u \in WaitsFor(t) : u \in T
    OBVIOUS
  <2>7. Left(u) \in D /\ Left(u) < m
    BY <2>2, <2>5, <2>6
  <2> QED
    BY <2>4, <2>7
<1>2. Init => ListedWhere /\ LocksBelow(Depth) /\ LocksByRemap
  BY DEF Init, ListedWhere, LocksBelow, LocksByRemap, Idle
<1>3. IInv /\ LocksBelow(Depth) /\ [Next]_vars => LocksBelow(Depth)'
  BY LocksStep
<1> QED
  BY <1>1, <1>2, <1>3, ListedStep, RemapStep, BoardInvariant, PTL DEF Spec

(***************************************************************************)
(* Functions that climb: F[p] is F[up[p]] at some spots and base[p] at the *)
(* others.  In a forest there is one, so that Home and ValueOf are what    *)
(* their definitions say.                                                  *)
(***************************************************************************)
Ranks(Depth) ==
    /\ Depth \in [Scopes -> Nat]
    /\ \A s \in Scopes : Outer[s] # None => Depth[Outer[s]] < Depth[s]

Under(Depth, n) == {p \in Spots : Depth[p[1]] < n}

Climber(f, S, climbs, up, base) == f = [p \in S |-> IF p \in climbs THEN f[up[p]] ELSE base[p]]

LEMMA ClimberUnique ==
    ASSUME NEW Depth \in [Scopes -> Nat], NEW climbs \in SUBSET Spots, NEW up \in [Spots -> Spots], NEW base,
           \A p \in climbs : Depth[up[p][1]] < Depth[p[1]],
           NEW m \in Nat, NEW n \in Nat, NEW f, NEW g,
           Climber(f, Under(Depth, m), climbs, up, base), Climber(g, Under(Depth, n), climbs, up, base),
           NEW p \in Under(Depth, m), p \in Under(Depth, n)
    PROVE  f[p] = g[p]
<1> DEFINE Differ == {q \in Under(Depth, m) \cap Under(Depth, n) : f[q] # g[q]}
           Where2 == {Depth[q[1]] : q \in Differ}
<1>1. \A q \in Spots : Depth[q[1]] \in Nat /\ up[q] \in Spots
  BY DEF Spots
<1>2. Where2 \subseteq Nat
  BY <1>1 DEF Under
<1>3. SUFFICES ASSUME Where2 # {} PROVE FALSE
  OBVIOUS
<1>4. PICK d \in Where2 : \A k \in Where2 : ~(k < d)
  <2> HIDE DEF Where2
  <2> QED
    BY <1>2, <1>3, LeastNumber
<1>5. PICK q \in Differ : d = Depth[q[1]]
  BY <1>4
<1>6. q \in Spots /\ q \in Under(Depth, m) /\ q \in Under(Depth, n) /\ Depth[q[1]] < m /\ Depth[q[1]] < n
  BY <1>5 DEF Under
<1>7. /\ f[q] = IF q \in climbs THEN f[up[q]] ELSE base[q]
      /\ g[q] = IF q \in climbs THEN g[up[q]] ELSE base[q]
  BY <1>6 DEF Climber
<1>8. q \in climbs /\ f[up[q]] # g[up[q]]
  BY <1>5, <1>7
<1>9. up[q] \in Spots /\ Depth[up[q][1]] < Depth[q[1]] /\ Depth[up[q][1]] \in Nat
  BY <1>1, <1>6, <1>8
<1>10. Depth[up[q][1]] < m /\ Depth[up[q][1]] < n
  BY <1>1, <1>6, <1>9
<1>11. up[q] \in Differ
  BY <1>8, <1>9, <1>10 DEF Under
<1> QED
  BY <1>4, <1>5, <1>9, <1>11

LEMMA ClimberBelow ==
    ASSUME NEW Depth \in [Scopes -> Nat], NEW climbs \in SUBSET Spots, NEW up \in [Spots -> Spots], NEW base,
           \A p \in climbs : Depth[up[p][1]] < Depth[p[1]],
           NEW n \in Nat
    PROVE  \E f : Climber(f, Under(Depth, n), climbs, up, base)
<1> DEFINE Bad == {k \in Nat : ~\E f : Climber(f, Under(Depth, k), climbs, up, base)}
<1>1. SUFFICES ASSUME Bad # {} PROVE FALSE
  OBVIOUS
<1>2. PICK m \in Bad : \A k \in Bad : ~(k < m)
  <2>1. Bad \subseteq Nat
    OBVIOUS
  <2> HIDE DEF Bad
  <2> QED
    BY <1>1, <2>1, LeastNumber
<1>3. \A q \in Spots : Depth[q[1]] \in Nat /\ up[q] \in Spots
  BY DEF Spots
<1>4. m # 0
  <2> SUFFICES ASSUME m = 0 PROVE FALSE
    OBVIOUS
  <2>1. Under(Depth, 0) = {}
    BY <1>3 DEF Under
  <2> DEFINE e == [p \in {} |-> None]
  <2>2. e = [p \in {} |-> IF p \in climbs THEN e[up[p]] ELSE base[p]]
    OBVIOUS
  <2> HIDE DEF e
  <2>3. Climber(e, Under(Depth, 0), climbs, up, base)
    BY <2>1, <2>2 DEF Climber
  <2> QED
    BY <2>3
<1>5. m - 1 \in Nat /\ m - 1 < m
  BY <1>4
<1>6. PICK f : Climber(f, Under(Depth, m - 1), climbs, up, base)
  BY <1>2, <1>5
<1> DEFINE g == [p \in Under(Depth, m) |-> IF p \in climbs THEN f[up[p]] ELSE base[p]]
<1>7. ASSUME NEW p \in Under(Depth, m), p \in climbs PROVE f[up[p]] = g[up[p]]
  <2>1. p \in Spots /\ Depth[p[1]] < m /\ up[p] \in Spots /\ Depth[up[p][1]] < Depth[p[1]]
    BY <1>3, <1>7 DEF Under
  <2>2. Depth[up[p][1]] < m - 1 /\ Depth[up[p][1]] < m
    <3>1. Depth[p[1]] \in Nat /\ Depth[up[p][1]] \in Nat /\ m \in Nat
      BY <1>3, <2>1
    <3> QED
      BY <2>1, <3>1
  <2>3. up[p] \in Under(Depth, m - 1) /\ up[p] \in Under(Depth, m)
    BY <2>1, <2>2 DEF Under
  <2>4. f[up[p]] = IF up[p] \in climbs THEN f[up[up[p]]] ELSE base[up[p]]
    BY <1>6, <2>3 DEF Climber
  <2> QED
    BY <2>3, <2>4
<1>8. g = [p \in Under(Depth, m) |-> IF p \in climbs THEN g[up[p]] ELSE base[p]]
  <2> DEFINE h == [p \in Under(Depth, m) |-> IF p \in climbs THEN g[up[p]] ELSE base[p]]
  <2>1. \A p \in Under(Depth, m) : g[p] = h[p]
    BY <1>7
  <2> QED
    BY <2>1
<1>9. Climber(g, Under(Depth, m), climbs, up, base)
  <2> HIDE DEF g
  <2> QED
    BY <1>8 DEF Climber
<1> QED
  BY <1>9

LEMMA ClimberExists ==
    ASSUME NEW Depth \in [Scopes -> Nat], NEW climbs \in SUBSET Spots, NEW up \in [Spots -> Spots], NEW base,
           \A p \in climbs : Depth[up[p][1]] < Depth[p[1]]
    PROVE  \E f : Climber(f, Spots, climbs, up, base)
<1> DEFINE n(p) == Depth[p[1]] + 1
           part(p) == CHOOSE f : Climber(f, Under(Depth, n(p)), climbs, up, base)
           g == [p \in Spots |-> part(p)[p]]
           S(p) == Under(Depth, n(p))
<1>1. \A p \in Spots : Depth[p[1]] \in Nat /\ up[p] \in Spots /\ n(p) \in Nat /\ p \in S(p)
  BY DEF Spots, Under
<1>2. ASSUME NEW p \in Spots PROVE Climber(part(p), S(p), climbs, up, base)
  <2>1. \E f : Climber(f, Under(Depth, n(p)), climbs, up, base)
    BY <1>1, ClimberBelow
  <2> QED
    BY <2>1
<1> HIDE DEF part
<1>3. ASSUME NEW p \in Spots PROVE g[p] = IF p \in climbs THEN g[up[p]] ELSE base[p]
  <2>1. part(p)[p] = IF p \in climbs THEN part(p)[up[p]] ELSE base[p]
    BY <1>1, <1>2 DEF Climber
  <2>2. ASSUME p \in climbs PROVE part(p)[up[p]] = part(up[p])[up[p]]
    <3>1. up[p] \in Spots /\ Depth[up[p][1]] < Depth[p[1]]
      BY <1>1, <2>2
    <3>2. up[p] \in S(p) /\ up[p] \in S(up[p])
      <4>1. Depth[up[p][1]] \in Nat /\ Depth[p[1]] \in Nat
        BY <1>1, <3>1
      <4>2. Depth[up[p][1]] < n(p)
        BY <3>1, <4>1
      <4> QED
        BY <1>1, <3>1, <4>2 DEF Under
    <3>3. Climber(part(p), S(p), climbs, up, base) /\ Climber(part(up[p]), S(up[p]), climbs, up, base)
      BY <1>2, <3>1
    <3>4. n(p) \in Nat /\ n(up[p]) \in Nat
      BY <1>1, <3>1
    <3> HIDE DEF n
    <3> QED
      BY <3>2, <3>3, <3>4, ClimberUnique
  <2> QED
    BY <1>1, <2>1, <2>2
<1>4. g = [p \in Spots |-> IF p \in climbs THEN g[up[p]] ELSE base[p]]
  <2> DEFINE h == [p \in Spots |-> IF p \in climbs THEN g[up[p]] ELSE base[p]]
  <2>1. \A p \in Spots : g[p] = h[p]
    BY <1>3
  <2> QED
    BY <2>1
<1>5. Climber(g, Spots, climbs, up, base)
  <2> HIDE DEF g
  <2> QED
    BY <1>4 DEF Climber
<1> QED
  BY <1>5

\* One scope up, where there is one.
Up == [p \in Spots |-> IF Outer[p[1]] = None THEN p ELSE Above(p)]

LEMMA AboveIsSpot ==
    ASSUME NEW p \in Spots, Outer[p[1]] # None PROVE Above(p) \in Spots
<1>1. p[1] \in Scopes /\ p[2] \in Keys /\ Outer[p[1]] \in Scopes
  BY ScopeAssumption DEF Spots
<1>2. Redirected(p[1], p[2]) => Remap[p[1]][p[2]] \in Keys
  BY <1>1, ScopeAssumption DEF Redirected
<1> QED
  BY <1>1, <1>2 DEF Above, Spots

LEMMA UpRises ==
    ASSUME NEW Depth, Ranks(Depth), NEW p \in Spots, Outer[p[1]] # None
    PROVE  Up[p] = Above(p) /\ Depth[Up[p][1]] < Depth[p[1]]
<1>1. p[1] \in Scopes /\ Up[p] = Above(p) /\ Above(p)[1] = Outer[p[1]]
  BY DEF Spots, Up, Above
<1> QED
  BY <1>1 DEF Ranks

LEMMA UpType == Up \in [Spots -> Spots]
BY AboveIsSpot DEF Up

\* In a forest Home and ValueOf satisfy the equations that define them.
LEMMA HomeEquation ==
    ASSUME NEW Depth, Ranks(Depth), NEW p \in Spots
    PROVE  Home[p] = IF Redirected(p[1], p[2]) THEN Home[Above(p)] ELSE p
<1> DEFINE climbs == {q \in Spots : Redirected(q[1], q[2])}
           base == [q \in Spots |-> q]
<1>1. climbs \in SUBSET Spots /\ \A q \in climbs : Up[q] = Above(q) /\ Depth[Up[q][1]] < Depth[q[1]]
  BY UpRises DEF Redirected
<1>2. Depth \in [Scopes -> Nat]
  BY DEF Ranks
<1>3. PICK f : Climber(f, Spots, climbs, Up, base)
  <2> HIDE DEF climbs, base
  <2> QED
    BY <1>1, <1>2, UpType, ClimberExists
<1>4. f = [q \in Spots |-> IF Redirected(q[1], q[2]) THEN f[Above(q)] ELSE q]
  <2> DEFINE h == [q \in Spots |-> IF q \in climbs THEN f[Up[q]] ELSE base[q]]
             k == [q \in Spots |-> IF Redirected(q[1], q[2]) THEN f[Above(q)] ELSE q]
  <2>1. f = h
    BY <1>3 DEF Climber
  <2>2. \A q \in Spots : h[q] = k[q]
    BY <1>1
  <2>3. h = k
    BY <2>2
  <2> QED
    BY <2>1, <2>3
<1>5. Home = [q \in Spots |-> IF Redirected(q[1], q[2]) THEN Home[Above(q)] ELSE q]
  BY <1>4 DEF Home
<1> QED
  BY <1>5

LEMMA ValueEquation ==
    ASSUME NEW Depth, Ranks(Depth), NEW p \in Spots
    PROVE  ValueOf[p] = IF Redirected(p[1], p[2]) \/ Unset(p)
                        THEN ValueOf[Above(p)] ELSE store[p[1]][p[2]]
<1> DEFINE climbs == {q \in Spots : Redirected(q[1], q[2]) \/ Unset(q)}
           base == [q \in Spots |-> store[q[1]][q[2]]]
<1>1. climbs \in SUBSET Spots /\ \A q \in climbs : Up[q] = Above(q) /\ Depth[Up[q][1]] < Depth[q[1]]
  BY UpRises DEF Redirected, Unset
<1>2. Depth \in [Scopes -> Nat]
  BY DEF Ranks
<1>3. PICK f : Climber(f, Spots, climbs, Up, base)
  <2> HIDE DEF climbs, base
  <2> QED
    BY <1>1, <1>2, UpType, ClimberExists
<1>4. f = [q \in Spots |-> IF Redirected(q[1], q[2]) \/ Unset(q) THEN f[Above(q)] ELSE store[q[1]][q[2]]]
  <2> DEFINE h == [q \in Spots |-> IF q \in climbs THEN f[Up[q]] ELSE base[q]]
             k == [q \in Spots |-> IF Redirected(q[1], q[2]) \/ Unset(q)
                                   THEN f[Above(q)] ELSE store[q[1]][q[2]]]
  <2>1. f = h
    BY <1>3 DEF Climber
  <2>2. \A q \in Spots : h[q] = k[q]
    BY <1>1
  <2>3. h = k
    BY <2>2
  <2> QED
    BY <2>1, <2>3
<1>5. ValueOf = [q \in Spots |-> IF Redirected(q[1], q[2]) \/ Unset(q)
                                 THEN ValueOf[Above(q)] ELSE store[q[1]][q[2]]]
  BY <1>4 DEF ValueOf
<1> QED
  BY <1>5

\* What F makes of each spot of a way up, each as much as of the one above it, it
\* makes of where the way ends.
LEMMA SameAlongTheWay ==
    ASSUME NEW Depth, Ranks(Depth), NEW W \in SUBSET Spots, NEW h \in Spots, NEW F,
           \A p \in W : Outer[p[1]] # None /\ Above(p) \in W \cup {h} /\ F[p] = F[Above(p)],
           NEW a \in W \cup {h}
    PROVE  F[a] = F[h]
<1> DEFINE Other == {p \in W : F[p] # F[h]}
           D == {Depth[p[1]] : p \in Other}
<1>1. \A p \in Spots : Depth[p[1]] \in Nat
  BY DEF Spots, Ranks
<1>2. SUFFICES ASSUME D # {} PROVE FALSE
  OBVIOUS
<1>3. PICK m \in D : \A k \in D : ~(k < m)
  <2>1. D \subseteq Nat
    BY <1>1
  <2> HIDE DEF D
  <2> QED
    BY <1>2, <2>1, LeastNumber
<1>4. PICK p \in Other : m = Depth[p[1]]
  BY <1>3
<1>5. Above(p) \in Other
  BY <1>4
<1>6. Depth[Above(p)[1]] < Depth[p[1]]
  BY <1>4, UpRises
<1> QED
  BY <1>3, <1>4, <1>5, <1>6

\* A call of t that has not acted yet is on its way from the key it was asked for:
\* every scope passed is locked by t, and what sent it on still holds.
Now(t) == <<at[t].scope, at[t].key>>
Asked(t) == <<at[t].base, at[t].asked>>
Searching(t) == at[t].op \in {"set", "get", "entry", "remove"}

Way(t, W) ==
    /\ Asked(t) \in W \cup {Now(t)}
    /\ \A p \in W :
          /\ lock[p[1]] = t
          /\ Outer[p[1]] # None /\ Above(p) \in W \cup {Now(t)}
          /\ Redirected(p[1], p[2]) \/ (at[t].op = "get" /\ Unset(p))

OnTheWay == \A t \in Threads : Searching(t) => \E W \in SUBSET Spots : Way(t, W)

\* What is in a scope that t has locked no other thread changes.
LEMMA LockKeeps ==
    ASSUME IInv, NEW t \in Threads, NEW u \in Threads \ {t}, Step(u),
           NEW s \in Scopes, lock[s] = t
    PROVE  lock'[s] = t /\ store'[s] = store[s]
<1>1. /\ lock \in [Scopes -> Threads \cup {None}] /\ t # None
      /\ store \in [Scopes -> [Keys -> Values \cup {None}]]
  BY ScopeAssumption DEF IInv, BoardTypeOK
<1>2. lock'[s] = t
  <2>1. Climbs(u) \/ Remains(u) \/ Leaves(u)
    BY StepShape
  <2>2. CASE Climbs(u)
    BY <1>1, <2>2 DEF Climbs, MayLock
  <2>3. CASE Remains(u) \/ Leaves(u)
    BY <1>1, <2>3 DEF Remains, Leaves
  <2> QED
    BY <2>1, <2>2, <2>3
<1>3. store'[s] = store[s]
  <2>1. CASE Writes(u) \/ Removes(u)
    <3>1. s # at[u].scope
      BY <1>1, <2>1 DEF Writes, Removes, Enters, MayLock
    <3> QED
      BY <1>1, <2>1, <3>1 DEF Writes, Removes
  <2>2. CASE ~(Writes(u) \/ Removes(u))
    BY <2>2 DEF Step, Follows, Notifies, Reaps, SetReturns, Inherits, Gets, GetsEntry
  <2> QED
    BY <2>1, <2>2
<1> QED
  BY <1>2, <1>3

\* A way that nobody disturbs is one still.
LEMMA WayKept ==
    ASSUME NEW t \in Threads, at'[t] = at[t], NEW W \in SUBSET Spots, Way(t, W),
           \A s \in Scopes : lock[s] = t => lock'[s] = t /\ store'[s] = store[s]
    PROVE  Way(t, W)'
<1>1. \A p \in W : p[1] \in Scopes /\ lock[p[1]] = t
  BY DEF Way, Spots
<1>2. \A p \in W : Unset(p)' <=> Unset(p)
  BY <1>1 DEF Unset
<1> QED
  BY <1>1, <1>2 DEF Way, Asked, Now

\* A step of its own takes a call one scope further, or makes it act.
LEMMA OwnWay ==
    ASSUME IInv, OnTheWay, NEW t \in Threads, Step(t), Searching(t)'
    PROVE  \E W \in SUBSET Spots : Way(t, W)'
<1>1. at \in [Threads -> CallRecord] /\ at[t] \in CallRecord
  BY AtType DEF IInv
<1>2. at'[t].op \notin {"idle", "notify"}
  BY DEF Searching
<1>3. Follows(t) \/ Inherits(t)
  <2>1. \A c \in Subs : ~Notifies(t, c)
    BY <1>1, <1>2 DEF Notifies, CallRecord
  <2>2. ~Reaps(t)
    BY <1>1, <1>2 DEF Reaps, Enters, CallRecord
  <2>3. ~Writes(t)
    BY <1>1, <1>2 DEF Writes, CallRecord
  <2>4. ~SetReturns(t) /\ ~Gets(t) /\ ~GetsEntry(t) /\ ~Removes(t)
    BY <1>1, <1>2 DEF SetReturns, Gets, GetsEntry, Removes, Done, Idle
  <2> QED
    BY <2>1, <2>2, <2>3, <2>4 DEF Step
<1>4. Searching(t) /\ at[t].scope \in Scopes /\ at[t].key \in Keys /\ Outer[at[t].scope] # None
  BY <1>3 DEF Follows, Inherits, Enters, Searching, Redirected, IInv, InCall
<1>5. PICK W \in SUBSET Spots : Way(t, W)
  BY <1>4 DEF OnTheWay
<1>6. Now(t) \in Spots /\ Now(t)[1] = at[t].scope /\ Now(t)[2] = at[t].key
  BY <1>4 DEF Now, Spots
<1>7. /\ at'[t].op = at[t].op /\ Asked(t)' = Asked(t)
      /\ Now(t)' = Above(Now(t))
      /\ Redirected(Now(t)[1], Now(t)[2]) \/ (at[t].op = "get" /\ Unset(Now(t)))
  <2>1. CASE Follows(t)
    BY <1>1, <1>6, <2>1 DEF Follows, GoesUp, CallRecord, Above, Now, Asked
  <2>2. CASE Inherits(t)
    BY <1>1, <1>6, <2>2 DEF Inherits, Enters, Here, GoesUp, CallRecord, Above, Now, Asked, Unset
  <2> QED
    BY <1>3, <2>1, <2>2
<1>8. /\ store' = store /\ lock'[at[t].scope] = t
      /\ \A s \in Scopes : lock[s] = t => lock'[s] = t
  BY <1>3, <1>4 DEF Follows, Inherits, GoesUp, IInv, BoardTypeOK
<1>9. PICK V \in SUBSET Spots : V = W \cup {Now(t)}
  BY <1>6
<1>10. Asked(t)' \in V
  BY <1>5, <1>7, <1>9 DEF Way
<1>11. ASSUME NEW p \in V
       PROVE  /\ lock'[p[1]] = t
              /\ Outer[p[1]] # None /\ Above(p) \in V \cup {Now(t)'}
              /\ Redirected(p[1], p[2]) \/ (at'[t].op = "get" /\ Unset(p)')
  <2>1. Unset(p)' <=> Unset(p)
    BY <1>8 DEF Unset
  <2>2. CASE p \in W
    <3>1. p[1] \in Scopes
      BY <2>2 DEF Spots
    <3> QED
      BY <1>5, <1>7, <1>8, <1>9, <2>1, <2>2, <3>1 DEF Way
  <2>3. CASE p = Now(t)
    BY <1>4, <1>6, <1>7, <1>8, <2>1, <2>3
  <2> QED
    BY <1>9, <2>2, <2>3
<1>12. Way(t, V)'
  BY <1>10, <1>11 DEF Way
<1> QED
  BY <1>12

LEMMA WayStep == IInv /\ OnTheWay /\ [Next]_vars => OnTheWay'
<1> SUFFICES ASSUME IInv, OnTheWay, [Next]_vars, NEW t \in Threads, Searching(t)'
             PROVE  \E W \in SUBSET Spots : Way(t, W)'
  BY DEF OnTheWay
<1>1. at \in [Threads -> CallRecord]
  BY AtType DEF IInv
<1>2. ASSUME at'[t] = at[t],
             \A s \in Scopes : lock[s] = t => lock'[s] = t /\ store'[s] = store[s]
      PROVE  \E W \in SUBSET Spots : Way(t, W)'
  <2>1. PICK W \in SUBSET Spots : Way(t, W)
    BY <1>2 DEF OnTheWay, Searching
  <2> QED
    BY <1>2, <2>1, WayKept
<1>3. ASSUME NEW u \in Threads, Step(u) PROVE \E W \in SUBSET Spots : Way(t, W)'
  <2>1. CASE u = t
    BY <1>3, <2>1, OwnWay
  <2>2. CASE u # t
    <3>1. at'[t] = at[t]
      BY <1>3, <2>2, StepShape
    <3> QED
      BY <1>2, <1>3, <2>2, <3>1, LockKeeps
  <2> QED
    BY <2>1, <2>2
<1>4. ASSUME NEW u \in Threads, NEW s \in Scopes, NEW k \in Keys,
             NEW op \in {"set", "get", "entry", "remove"}, NEW v \in Values \cup {None},
             Call(u, op, s, k, v)
      PROVE  \E W \in SUBSET Spots : Way(t, W)'
  <2>1. CASE u = t
    <3>1. at'[t].base = s /\ at'[t].asked = k /\ at'[t].scope = s /\ at'[t].key = k
      BY <1>1, <1>4, <2>1 DEF Call
    <3>2. Way(t, {})'
      BY <3>1 DEF Way, Asked, Now
    <3> QED
      BY <3>2
  <2>2. CASE u # t
    BY <1>1, <1>2, <1>4, <2>2 DEF Call
  <2> QED
    BY <2>1, <2>2
<1>5. ASSUME NEW r \in Scopes, Clear(r) \/ Reset(r) PROVE \E W \in SUBSET Spots : Way(t, W)'
  <2>1. /\ at' = at /\ lock' = lock /\ lock[r] = None
        /\ \A s \in Scopes \ {r} : store'[s] = store[s]
    BY <1>5 DEF Clear, Reset, Free, IInv, BoardTypeOK
  <2>2. t # None
    BY ScopeAssumption
  <2> QED
    BY <1>2, <2>1, <2>2
<1>6. ASSUME UNCHANGED <<at, lock, store>> PROVE \E W \in SUBSET Spots : Way(t, W)'
  BY <1>2, <1>6
<1> QED
  BY <1>3, <1>4, <1>5, <1>6 DEF Next, Subscribe, Unsubscribe, Collect, vars

\* Every call acts at one moment, on the key that remapping and inheritance make
\* of the one it was asked for, in every forest of scopes.
THEOREM ActsAtOnceHolds ==
    ASSUME NEW Depth \in [Scopes -> Nat],
           \A s \in Scopes : Outer[s] # None => Depth[Outer[s]] < Depth[s]
    PROVE  Spec => ActsAtOnce
<1> DEFINE Acts(t) ==
        LET a == at[t]
            p == <<a.base, a.asked>>
            h == Home[p]
        IN  /\ Gets(t) => store[a.scope][a.key] = ValueOf[p]
            /\ GetsEntry(t) => <<a.scope, a.key>> = h
            /\ Writes(t) => store' = [store EXCEPT ![h[1]][h[2]] = a.val]
            /\ Removes(t) => store' = [store EXCEPT ![h[1]][h[2]] = None]
<1>1. IInv /\ OnTheWay => \A t \in Threads : Acts(t)
  <2> SUFFICES ASSUME IInv, OnTheWay, NEW t \in Threads, Searching(t)
               PROVE  Acts(t)
    BY DEF Gets, GetsEntry, Writes, Removes, Enters, Searching
  <2>1. Ranks(Depth)
    BY DEF Ranks
  <2>2. Now(t) \in Spots /\ Now(t)[1] = at[t].scope /\ Now(t)[2] = at[t].key
    BY DEF Searching, Now, Spots, IInv, InCall
  <2>3. PICK W \in SUBSET Spots : Way(t, W)
    BY DEF OnTheWay
  <2>4. ASSUME at[t].op # "get" PROVE Home[Asked(t)] = Home[Now(t)]
    <3>1. \A p \in W : /\ Outer[p[1]] # None /\ Above(p) \in W \cup {Now(t)}
                       /\ Home[p] = Home[Above(p)]
      BY <2>1, <2>3, <2>4, HomeEquation DEF Way
    <3> QED
      BY <2>1, <2>2, <2>3, <3>1, SameAlongTheWay DEF Way
  <2>5. ValueOf[Asked(t)] = ValueOf[Now(t)]
    <3>1. \A p \in W : /\ Outer[p[1]] # None /\ Above(p) \in W \cup {Now(t)}
                       /\ ValueOf[p] = ValueOf[Above(p)]
      BY <2>1, <2>3, ValueEquation DEF Way
    <3> QED
      BY <2>1, <2>2, <2>3, <3>1, SameAlongTheWay DEF Way
  <2>6. Here(t) => Home[Now(t)] = Now(t)
    BY <2>1, <2>2, HomeEquation DEF Here
  <2>7. Gets(t) => store[at[t].scope][at[t].key] = ValueOf[Now(t)]
    BY <2>1, <2>2, ValueEquation DEF Gets, Here, Unset
  <2>8. GetsEntry(t) \/ Writes(t) \/ Removes(t) => Home[Asked(t)] = Now(t)
    BY <2>4, <2>6 DEF GetsEntry, Writes, Removes, Enters
  <2> QED
    BY <2>2, <2>5, <2>7, <2>8 DEF Asked, Now, Writes, Removes
<1>2. Init => OnTheWay
  BY DEF Init, OnTheWay, Searching, Idle
<1> QED
  BY <1>1, <1>2, WayStep, BoardInvariant, PTL DEF Spec, ActsAtOnce
=============================================================================
