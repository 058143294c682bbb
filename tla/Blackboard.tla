----------------------------- MODULE Blackboard -----------------------------
(***************************************************************************)
(* Blackboard of src/bteng/blackboard/blackboard.py: scopes of a key-value *)
(* store, each with a reentrant lock and subscribers of its own.  A call   *)
(* on a remapped key goes on to the parent scope with the child's lock     *)
(* held, and so does a read of a key the child does not have.              *)
(***************************************************************************)
EXTENDS Naturals, FiniteSets

CONSTANTS
    Scopes, Keys, Values,
    Outer,      \* the parent of each scope, None for a root
    Remap,      \* the parent's key behind a scope's key, None for its own
    Subs,       \* subscriptions that may exist at one time
    Where,      \* the scope each listens to
    Weak,       \* those whose callback is a bound method
    Looks,      \* a scope the callback reads (entry(), keys()), or None
    Threads,
    None

ASSUME ScopeAssumption ==
    /\ Outer \in [Scopes -> Scopes \cup {None}]
    /\ Remap \in [Scopes -> [Keys -> Keys \cup {None}]]
    /\ None \notin Scopes \cup Keys \cup Values \cup Threads

ASSUME SubAssumption ==
    /\ Where \in [Subs -> Scopes] /\ Weak \subseteq Subs
    /\ Looks \in [Subs -> Scopes \cup {None}]

VARIABLES
    store,      \* _entries: the value of each key, None for _UNSET
    lock,       \* which thread holds _lock
    callbacks,  \* _callbacks
    cache,      \* _callbacks_cache
    stale,      \* scopes with _callbacks_dirty set
    at,         \* where each thread is inside a call
    gone,       \* weakly held owners that were collected
    owing       \* history: subscribers yet to hear of a write

subVars == <<callbacks, cache, stale>>
vars == <<store, lock, subVars, at, gone, owing>>

Empty == [k \in Keys |-> None]

\* Between two calls.
Idle == [op |-> "idle", base |-> None, asked |-> None, scope |-> None,
         key |-> None, val |-> None, cbs |-> {}, dead |-> {}]

Init ==
    /\ store = [s \in Scopes |-> Empty]
    /\ lock = [s \in Scopes |-> None]
    /\ callbacks = [s \in Scopes |-> {}]
    /\ cache = [s \in Scopes |-> {}]
    /\ stale = Scopes
    /\ at = [t \in Threads |-> Idle]
    /\ gone = {} /\ owing = {}

(***************************************************************************)
(* A call: set(), get() (and has()), entry() or remove().  Of what is done *)
(* under one scope's lock nothing shows before the lock is let go, so that *)
(* each scope on the way takes one step.                                   *)
(***************************************************************************)
Call(t, op, s, k, v) ==
    /\ at[t].op = "idle"
    /\ (v # None) <=> (op = "set")
    /\ at' = [at EXCEPT ![t] = [op |-> op, base |-> s, asked |-> k, scope |-> s,
                                key |-> k, val |-> v, cbs |-> {}, dead |-> {}]]
    /\ UNCHANGED <<store, lock, subVars, gone, owing>>

\* The lock is reentrant.
MayLock(t, s) == lock[s] \in {None, t}

\* Thread t, in a call of op, gets the lock of the scope it has come to.
Enters(t, op) == at[t].op = op /\ MayLock(t, at[t].scope)

Redirected(s, k) == Remap[s][k] # None /\ Outer[s] # None

\* On to the parent's key, inside the `with self._lock` of this scope.
GoesUp(t, k) ==
    /\ lock' = [lock EXCEPT ![at[t].scope] = t]
    /\ at' = [at EXCEPT ![t].scope = Outer[at[t].scope], ![t].key = k]

\* The call returns through every `with` it is in.
Done(t) ==
    /\ at' = [at EXCEPT ![t] = Idle]
    /\ lock' = [s \in Scopes |-> IF lock[s] = t THEN None ELSE lock[s]]

Follows(t) ==
    /\ at[t].op \in {"set", "get", "entry", "remove"} /\ MayLock(t, at[t].scope)
    /\ Redirected(at[t].scope, at[t].key)
    /\ GoesUp(t, Remap[at[t].scope][at[t].key])
    /\ UNCHANGED <<store, subVars, gone, owing>>

Here(t) == ~Redirected(at[t].scope, at[t].key)

\* _callbacks_cache as a write leaves it.
Listeners(s) == IF s \in stale THEN callbacks[s] ELSE cache[s]

\* Mutant of Writes: the callbacks run inside the `with self._lock` of the write.
WritesLocked(t) ==
    LET s == at[t].scope IN
    /\ Enters(t, "set") /\ Here(t)
    /\ store' = [store EXCEPT ![s][at[t].key] = at[t].val]
    /\ cache' = [cache EXCEPT ![s] = Listeners(s)]
    /\ stale' = stale \ {s}
    /\ at' = [at EXCEPT ![t].op = "notify", ![t].cbs = Listeners(s)]
    /\ owing' = owing \cup (callbacks[s] \ gone)
    /\ lock' = [lock EXCEPT ![s] = t]
    /\ UNCHANGED <<callbacks, gone>>

\* set() stores the value, and takes the list of those to tell.
Writes(t) ==
    LET s == at[t].scope IN
    /\ Enters(t, "set") /\ Here(t)
    /\ store' = [store EXCEPT ![s][at[t].key] = at[t].val]
    /\ cache' = [cache EXCEPT ![s] = Listeners(s)]
    /\ stale' = stale \ {s}
    /\ at' = [at EXCEPT ![t].op = "notify", ![t].cbs = Listeners(s)]
    /\ owing' = owing \cup (callbacks[s] \ gone)
    /\ UNCHANGED <<lock, callbacks, gone>>

\* Mutant of Notifies: the loop ends at an owner that is gone.
NotifiesUntilGone(t, c) ==
    /\ at[t].op = "notify" /\ c \in at[t].cbs
    /\ IF c \in gone
       THEN at' = [at EXCEPT ![t].cbs = {}, ![t].dead = @ \cup {c}]
       ELSE at' = [at EXCEPT ![t].cbs = @ \ {c}]
    /\ owing' = owing \ {c}
    /\ UNCHANGED <<store, lock, subVars, gone>>

\* A callback runs: the written scope is not locked any more, but those of a
\* remapped key on the way to it are.
Notifies(t, c) ==
    /\ at[t].op = "notify" /\ c \in at[t].cbs
    /\ c \notin gone /\ Looks[c] # None => MayLock(t, Looks[c])
    /\ at' = [at EXCEPT ![t].cbs = @ \ {c},
                        ![t].dead = IF c \in gone THEN @ \cup {c} ELSE @]
    /\ owing' = owing \ {c}
    /\ UNCHANGED <<store, lock, subVars, gone>>

\* _reap(), of what is still subscribed.
Reaps(t) ==
    LET s == at[t].scope IN
    /\ Enters(t, "notify") /\ at[t].cbs = {} /\ at[t].dead # {}
    /\ callbacks' = [callbacks EXCEPT ![s] = @ \ at[t].dead]
    /\ stale' = IF callbacks[s] \cap at[t].dead # {} THEN stale \cup {s} ELSE stale
    /\ at' = [at EXCEPT ![t].dead = {}]
    /\ UNCHANGED <<store, lock, cache, gone, owing>>

SetReturns(t) ==
    /\ at[t].op = "notify" /\ at[t].cbs = {} /\ at[t].dead = {}
    /\ Done(t)
    /\ UNCHANGED <<store, subVars, gone, owing>>

\* Mutant of Inherits: the parent is asked when the child's lock is free again.
InheritsUnlocked(t) ==
    LET s == at[t].scope IN
    /\ Enters(t, "get") /\ Here(t)
    /\ store[s][at[t].key] = None /\ Outer[s] # None
    /\ at' = [at EXCEPT ![t].scope = Outer[s]]
    /\ UNCHANGED <<store, lock, subVars, gone, owing>>

\* get() of a key that is not set here: the parent's, with this scope locked.
Inherits(t) ==
    LET s == at[t].scope IN
    /\ Enters(t, "get") /\ Here(t)
    /\ store[s][at[t].key] = None /\ Outer[s] # None
    /\ GoesUp(t, at[t].key)
    /\ UNCHANGED <<store, subVars, gone, owing>>

\* What is here is returned, if it is only that there is nothing.
Gets(t) ==
    LET s == at[t].scope IN
    /\ Enters(t, "get") /\ Here(t)
    /\ store[s][at[t].key] # None \/ Outer[s] = None
    /\ Done(t)
    /\ UNCHANGED <<store, subVars, gone, owing>>

\* entry() honours remapping, and does not inherit.
GetsEntry(t) ==
    /\ Enters(t, "entry") /\ Here(t)
    /\ Done(t)
    /\ UNCHANGED <<store, subVars, gone, owing>>

Removes(t) ==
    /\ Enters(t, "remove") /\ Here(t)
    /\ store' = [store EXCEPT ![at[t].scope][at[t].key] = None]
    /\ Done(t)
    /\ UNCHANGED <<subVars, gone, owing>>

(***************************************************************************)
(* Calls that touch one scope and take one step, from any thread that      *)
(* holds no lock.                                                          *)
(***************************************************************************)
Free(s) == lock[s] = None

Unknown(c) == /\ c \notin callbacks[Where[c]] \cup cache[Where[c]]
              /\ \A t \in Threads : c \notin at[t].cbs \cup at[t].dead

\* subscribe(), with an id (and an owner) not seen before.
Subscribe(c) ==
    /\ Free(Where[c]) /\ Unknown(c)
    /\ callbacks' = [callbacks EXCEPT ![Where[c]] = @ \cup {c}]
    /\ stale' = stale \cup {Where[c]}
    /\ gone' = gone \ {c} /\ owing' = owing \ {c}
    /\ UNCHANGED <<store, lock, cache, at>>

\* Mutant of Unsubscribe: the dispatch list is not rebuilt.
UnsubscribeCached(c) ==
    /\ Free(Where[c]) /\ c \in callbacks[Where[c]]
    /\ callbacks' = [callbacks EXCEPT ![Where[c]] = @ \ {c}]
    /\ UNCHANGED <<store, lock, cache, stale, at, gone, owing>>

Unsubscribe(c) ==
    /\ Free(Where[c]) /\ c \in callbacks[Where[c]]
    /\ callbacks' = [callbacks EXCEPT ![Where[c]] = @ \ {c}]
    /\ stale' = stale \cup {Where[c]}
    /\ UNCHANGED <<store, lock, cache, at, gone, owing>>

\* The owner of a bound method, which _hold() holds weakly, is collected.
Collect(c) ==
    /\ c \in Weak \ gone
    /\ gone' = gone \cup {c}
    /\ UNCHANGED <<store, lock, subVars, at, owing>>

Clear(s) ==
    /\ Free(s)
    /\ store' = [store EXCEPT ![s] = Empty]
    /\ UNCHANGED <<lock, subVars, at, gone, owing>>

\* Blackboard.reset() of a named global, which is a root.
Reset(s) ==
    /\ Free(s) /\ Outer[s] = None
    /\ store' = [store EXCEPT ![s] = Empty]
    /\ callbacks' = [callbacks EXCEPT ![s] = {}]
    /\ cache' = [cache EXCEPT ![s] = {}]
    /\ stale' = stale \cup {s}
    /\ UNCHANGED <<lock, at, gone, owing>>

\* A call goes on.
Step(t) ==
    \/ Follows(t)
    \/ Writes(t) \/ (\E c \in Subs : Notifies(t, c)) \/ Reaps(t) \/ SetReturns(t)
    \/ Inherits(t) \/ Gets(t) \/ GetsEntry(t)
    \/ Removes(t)

Next ==
    \/ \E t \in Threads, s \in Scopes, k \in Keys :
          \/ \E v \in Values : Call(t, "set", s, k, v)
          \/ \E op \in {"get", "entry", "remove"} : Call(t, op, s, k, None)
    \/ \E t \in Threads : Step(t)
    \/ \E c \in Subs : Subscribe(c) \/ Unsubscribe(c) \/ Collect(c)
    \/ \E s \in Scopes : Clear(s) \/ Reset(s)

Spec == Init /\ [][Next]_vars

(***************************************************************************)
(* Properties.                                                             *)
(***************************************************************************)
\* Types of the variables.
BoardTypeOK ==
    /\ store \in [Scopes -> [Keys -> Values \cup {None}]]
    /\ lock \in [Scopes -> Threads \cup {None}]
    /\ {callbacks, cache} \subseteq [Scopes -> SUBSET Subs]
    /\ stale \subseteq Scopes
    /\ at \in [Threads -> [op : {"idle", "set", "notify", "get", "entry", "remove"},
                           base : Scopes \cup {None}, asked : Keys \cup {None},
                           scope : Scopes \cup {None}, key : Keys \cup {None},
                           val : Values \cup {None},
                           cbs : SUBSET Subs, dead : SUBSET Subs]]
    /\ gone \subseteq Weak /\ owing \subseteq Subs

\* The key of the parent scope that stands behind a key of a scope.
Spots == Scopes \X Keys
Above(p) == <<Outer[p[1]], IF Redirected(p[1], p[2]) THEN Remap[p[1]][p[2]] ELSE p[2]>>

\* Where a scope's key is kept, and what get() of it is.
Home[p \in Spots] == IF Redirected(p[1], p[2]) THEN Home[Above(p)] ELSE p

Unset(p) == store[p[1]][p[2]] = None /\ Outer[p[1]] # None

ValueOf == LET V[p \in Spots] == IF Redirected(p[1], p[2]) \/ Unset(p)
                                  THEN V[Above(p)] ELSE store[p[1]][p[2]]
           IN  V

\* Every call acts at one moment, on the key that remapping and inheritance make
\* of the one it was asked for: what a get() that has climbed through the scopes
\* finds is what the key is worth at that moment, no mixture of before and after.
ActsAtOnce ==
    [][\A t \in Threads :
          LET a == at[t]
              p == <<a.base, a.asked>>
              h == Home[p]
          IN  /\ Gets(t) => store[a.scope][a.key] = ValueOf[p]
              /\ GetsEntry(t) => <<a.scope, a.key>> = h
              /\ Writes(t) => store' = [store EXCEPT ![h[1]][h[2]] = a.val]
              /\ Removes(t) => store' = [store EXCEPT ![h[1]][h[2]] = None]]_vars

\* The dispatch list that a write will use is the table of subscriptions: who
\* has unsubscribed, or was cut off by reset(), is not called by a later write,
\* and who has subscribed is.
CacheIsTable == \A s \in Scopes : Listeners(s) = callbacks[s]

\* Nobody misses a write: a subscriber that has not heard of one is on the list
\* of a thread that is about to tell it, unless it has gone or unsubscribed.
NobodyMissed ==
    \A c \in owing : \/ \E t \in Threads : c \in at[t].cbs
                     \/ c \notin callbacks[Where[c]] \/ c \in gone

\* The thread that t waits for.
WaitsFor(t) ==
    LET wanted == IF at[t].op \in {"set", "get", "entry", "remove"}
                       \/ (at[t].op = "notify" /\ at[t].cbs = {} /\ at[t].dead # {})
                  THEN {at[t].scope}
                  ELSE {Looks[c] : c \in at[t].cbs} \ {None}
    IN  {lock[s] : s \in wanted} \ {t, None}

\* Every call can return: only a thread inside a call holds locks, and threads do
\* not wait for each other in a circle, though callbacks run, and read scopes,
\* under the locks of the scopes that a remapped key went through.  "Callbacks are
\* invoked after the write lock is released" (blackboard/blackboard.py:404).
NoDeadlock ==
    \/ \A s \in Scopes : lock[s] = None
    \/ /\ \A s \in Scopes : lock[s] # None => at[lock[s]].op # "idle"
       /\ \A T \in (SUBSET Threads) \ {{}} : \E t \in T : WaitsFor(t) \cap T = {}
=============================================================================
