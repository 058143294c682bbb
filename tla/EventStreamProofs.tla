------------------------- MODULE EventStreamProofs -------------------------
(***************************************************************************)
(* SentInOrder and NewestKept for a queue of any length, any number of     *)
(* records and of calls of stop().                                         *)
(***************************************************************************)
EXTENDS EventStream, TLAPS

USE EventStreamAssumption

\* Records wait in the order of their ticks, after the one in the thread's hands
\* and the last one sent, and before the one the callback still holds.
Waiting(i) == i \in 1..Len(queue) /\ queue[i] # STOP

Latest == IF ticker = "idle" THEN rec ELSE rec - 1

Ordered ==
    /\ \A i, j \in 1..Len(queue) : i < j /\ Waiting(i) /\ Waiting(j) => queue[i] < queue[j]
    /\ \A i \in 1..Len(queue) : Waiting(i) =>
          queue[i] > sent /\ queue[i] <= Latest /\ (thread = "send" => queue[i] > taken)

Held ==
    /\ sent <= Latest
    /\ thread = "send" => taken > sent /\ taken <= Latest

IInv == StreamTypeOK /\ Ordered /\ Held /\ NewestKept

LEMMA StreamInit == Init => IInv
<1> SUFFICES ASSUME Init PROVE IInv
  OBVIOUS
<1>1. queue \in Seq(Nat) /\ Len(queue) = 0
  BY DEF Init
<1>2. StreamTypeOK
  <2>1. Len(queue) <= QueueMax
    BY <1>1
  <2>2. stops \in 0..MaxStops
    BY DEF Init
  <2> QED
    BY <1>1, <2>1, <2>2, Zenon DEF Init, StreamTypeOK
<1>3. Ordered
  BY <1>1 DEF Ordered
<1>4. Held /\ NewestKept
  BY DEF Init, Held, NewestKept, Latest
<1> QED
  BY <1>2, <1>3, <1>4 DEF IInv

\* A queue that a step leaves alone stays ordered while nothing it is compared
\* with moves past it.
LEMMA QueueKept ==
    ASSUME IInv, queue' = queue, StreamTypeOK', Held',
           sent' = sent \/ (thread = "send" /\ sent' = taken),
           thread' = "send" => thread = "send" /\ taken' = taken,
           Latest <= Latest'
    PROVE  Ordered'
<1>1. Latest \in Int /\ Latest' \in Int
  BY DEF IInv, StreamTypeOK, Latest
<1>2. \A i \in 1..Len(queue) : queue[i] \in Nat
  BY DEF IInv, StreamTypeOK
<1> QED
  BY <1>1, <1>2 DEF IInv, Ordered, Held, Waiting, StreamTypeOK

LEMMA TailOrdered ==
    ASSUME IInv, queue # <<>>, queue' = Tail(queue), sent' = sent, Latest' = Latest,
           thread' = "send" => \/ thread = "send" /\ taken' = taken
                               \/ taken' = Head(queue) /\ Head(queue) # STOP
    PROVE  Ordered'
<1>1. queue \in Seq(Nat) /\ Len(queue) \in Nat
  BY DEF IInv, StreamTypeOK
<1>2. Len(queue') = Len(queue) - 1 /\ \A i \in 1..Len(queue') : queue'[i] = queue[i + 1]
  BY <1>1
<1>3. \A i \in 1..Len(queue') : i + 1 \in 1..Len(queue) /\ (Waiting(i)' => Waiting(i + 1))
  BY <1>1, <1>2 DEF Waiting
<1>4. \A i, j \in 1..Len(queue') : i < j => i + 1 < j + 1
  BY <1>1, <1>2
<1>5. \A i, j \in 1..Len(queue') : i < j /\ Waiting(i)' /\ Waiting(j)' => queue'[i] < queue'[j]
  BY <1>2, <1>3, <1>4 DEF IInv, Ordered
<1>6. ASSUME NEW i \in 1..Len(queue'), Waiting(i)'
      PROVE  queue'[i] > sent' /\ queue'[i] <= Latest' /\ (thread' = "send" => queue'[i] > taken')
  <2>1. queue'[i] = queue[i + 1] /\ Waiting(i + 1) /\ i + 1 \in 1..Len(queue)
    BY <1>2, <1>3, <1>6
  <2>2. queue[i + 1] > sent /\ queue[i + 1] <= Latest /\ (thread = "send" => queue[i + 1] > taken)
    BY <2>1 DEF IInv, Ordered
  <2>3. Head(queue) # STOP => queue[i + 1] > Head(queue)
    <3>1. 1 \in 1..Len(queue) /\ 1 < i + 1 /\ Head(queue) = queue[1]
      BY <1>1, <1>2, <1>6
    <3>2. queue[1] # STOP => queue[1] < queue[i + 1]
      BY <2>1, <3>1 DEF IInv, Ordered, Waiting
    <3>3. queue[1] \in Nat /\ queue[i + 1] \in Nat
      BY <1>1, <2>1, <3>1
    <3> QED
      BY <3>1, <3>2, <3>3
  <2> QED
    BY <2>1, <2>2, <2>3
<1> QED
  BY <1>5, <1>6 DEF Ordered

\* Append() adds the sentinel, or the record that came after all that wait.
LEMMA AppendOrdered ==
    ASSUME IInv, NEW x \in Nat, queue' = Append(queue, x), sent' = sent, taken' = taken,
           thread' = thread, Latest <= Latest',
           StreamTypeOK', x = STOP \/ (Latest < x /\ x <= Latest')
    PROVE  Ordered'
<1>1. /\ queue \in Seq(Nat) /\ Len(queue) \in Nat /\ sent \in Nat /\ taken \in Nat
      /\ Latest \in Int /\ Latest' \in Int
  BY DEF IInv, StreamTypeOK, Latest
<1>2. /\ Len(queue') = Len(queue) + 1 /\ queue'[Len(queue) + 1] = x
      /\ \A i \in 1..Len(queue) : queue'[i] = queue[i] /\ queue[i] \in Nat
  BY <1>1
<1>3. \A i \in 1..Len(queue') : i \in 1..Len(queue) \/ i = Len(queue) + 1
  BY <1>1, <1>2
<1>4. \A i \in 1..Len(queue) : Waiting(i)' => Waiting(i) /\ queue[i] <= Latest /\ queue[i] > sent
  BY <1>1, <1>2 DEF Waiting, IInv, Ordered
<1>5. ASSUME NEW i \in 1..Len(queue'), NEW j \in 1..Len(queue'), i < j, Waiting(i)', Waiting(j)'
      PROVE  queue'[i] < queue'[j]
  <2>1. i \in 1..Len(queue)
    BY <1>1, <1>2, <1>5
  <2>2. CASE j \in 1..Len(queue)
    BY <1>2, <1>4, <1>5, <2>1, <2>2 DEF IInv, Ordered
  <2>3. CASE j = Len(queue) + 1
    <3>1. queue'[i] = queue[i] /\ queue[i] \in Nat /\ queue[i] <= Latest
      BY <1>2, <1>4, <1>5, <2>1
    <3>2. queue'[j] = x /\ Latest < x
      BY <1>2, <1>5, <2>3 DEF Waiting
    <3> QED
      BY <1>1, <3>1, <3>2
  <2> QED
    BY <1>3, <2>2, <2>3
<1>6. ASSUME NEW i \in 1..Len(queue'), Waiting(i)'
      PROVE  queue'[i] > sent' /\ queue'[i] <= Latest' /\ (thread' = "send" => queue'[i] > taken')
  <2>1. CASE i \in 1..Len(queue)
    BY <1>1, <1>2, <1>4, <1>6, <2>1 DEF IInv, Ordered
  <2>2. CASE i = Len(queue) + 1
    <3>1. queue'[i] = x /\ Latest < x /\ x <= Latest'
      BY <1>2, <1>6, <2>2 DEF Waiting
    <3>2. sent <= Latest /\ (thread = "send" => taken <= Latest)
      BY DEF IInv, Held
    <3> QED
      BY <1>1, <3>1, <3>2
  <2> QED
    BY <1>3, <2>1, <2>2
<1> QED
  BY <1>5, <1>6 DEF Ordered

\* The callback, the program and the thread, step by step.
LEMMA StreamNext == IInv /\ [Next]_vars => IInv'
<1> SUFFICES ASSUME IInv, [Next]_vars PROVE IInv'
  OBVIOUS
<1>1. StreamTypeOK'
  <2>1. queue' \in Seq(Nat) /\ Len(queue') <= QueueMax
    <3>1. queue \in Seq(Nat) /\ Len(queue) \in Nat /\ Len(queue) <= QueueMax /\ rec \in Nat
      BY DEF IInv, StreamTypeOK
    <3>2. CASE queue' = queue
      BY <3>1, <3>2
    <3>3. CASE queue # <<>> /\ queue' = Tail(queue)
      BY <3>1, <3>3
    <3>4. CASE ~Full /\ queue' \in {Append(queue, STOP), Append(queue, rec)}
      BY <3>1, <3>4 DEF Full, STOP
    <3> QED
      BY <3>2, <3>3, <3>4 DEF Next, vars, Stopping, OnRecord, Run, publisher, run, Attach, Start,
         Stop, SetEvent, PutStop, Join, Tick, PutNowait, DropOldest, PutAgain, Bind, TestStop,
         Get, Send
  <2>2. Head(queue) \in Nat \/ queue = <<>>
    BY DEF IInv, StreamTypeOK
  <2>3. attached' \in BOOLEAN /\ stopEvent' \in BOOLEAN
    BY Zenon DEF IInv, StreamTypeOK, Next, vars, Stopping, OnRecord, Run, publisher, run, Attach,
       Start, Stop, SetEvent, PutStop, Join, Tick, PutNowait, DropOldest, PutAgain, Bind,
       TestStop, Get, Send
  <2>4. rec' \in Nat /\ taken' \in Nat /\ sent' \in Nat /\ stops' \in 0..MaxStops
    BY <2>2 DEF IInv, StreamTypeOK, Next, vars, Stopping, OnRecord, Run, publisher, run, Attach,
       Start, Stop, SetEvent, PutStop, Join, Tick, PutNowait, DropOldest, PutAgain, Bind,
       TestStop, Get, Send
  <2>5. /\ thread' \in {"dead", "bind", "test", "get", "send"}
        /\ ticker' \in {"idle", "put", "drop", "again"}
        /\ caller' \in {"idle", "event", "put", "join"}
    BY DEF IInv, StreamTypeOK, Next, vars, Stopping, OnRecord, Run, publisher, run, Attach,
       Start, Stop, SetEvent, PutStop, Join, Tick, PutNowait, DropOldest, PutAgain, Bind,
       TestStop, Get, Send
  <2> QED
    BY <2>1, <2>3, <2>4, <2>5 DEF StreamTypeOK
<1> DEFINE Numbers == /\ rec \in Nat /\ taken \in Nat /\ sent \in Nat
                      /\ Latest \in Int /\ Latest' \in Int
<1>2. Numbers
  BY <1>1 DEF IInv, StreamTypeOK, Latest
<1> HIDE DEF Numbers
<1>3. CASE Attach \/ Stop \/ SetEvent \/ Join \/ Start \/ Bind \/ TestStop \/ UNCHANGED vars
  <2>1. /\ queue' = queue /\ sent' = sent /\ taken' = taken /\ rec' = rec /\ ticker' = ticker
        /\ thread' = "send" => thread = "send"
    BY <1>3 DEF Attach, Stop, SetEvent, Join, Start, Bind, TestStop, vars, publisher, run
  <2>2. Latest' = Latest /\ Held' /\ NewestKept'
    BY <2>1 DEF IInv, Held, NewestKept, Full, Latest
  <2>3. Ordered'
    BY <1>1, <1>2, <2>1, <2>2, QueueKept DEF Numbers
  <2> QED
    BY <1>1, <2>2, <2>3 DEF IInv
<1>4. CASE Tick
  <2>1. /\ queue' = queue /\ sent' = sent /\ taken' = taken /\ thread' = thread
        /\ ticker = "idle" /\ rec' = rec + 1 /\ ticker' \in {"put", "idle"}
    BY <1>4 DEF Tick, publisher, run
  <2>2. Latest <= Latest'
    BY <1>2, <2>1 DEF Latest, Numbers
  <2>3. Held' /\ NewestKept'
    BY <1>2, <2>1, <2>2 DEF IInv, Held, NewestKept, Numbers
  <2>4. Ordered'
    BY <1>1, <2>1, <2>2, <2>3, QueueKept
  <2> QED
    BY <1>1, <2>3, <2>4 DEF IInv
<1>5. CASE PutStop
  <2>1. queue' = Append(queue, STOP) /\ ~Full /\ UNCHANGED <<run, ticker, rec>>
    BY <1>5 DEF PutStop
  <2>2. Latest' = Latest /\ Held'
    BY <2>1 DEF Latest, Held, IInv, run
  <2>3. NewestKept'
    <3>1. queue \in Seq(Nat) /\ Len(queue) \in Nat
      BY DEF IInv, StreamTypeOK
    <3> QED
      BY <2>1, <3>1 DEF NewestKept, Full, STOP
  <2>4. Ordered'
    BY <1>1, <1>2, <2>1, <2>2, AppendOrdered DEF run, STOP, Numbers
  <2> QED
    BY <1>1, <2>2, <2>3, <2>4 DEF IInv
<1>6. CASE (PutNowait \/ PutAgain) /\ ~Full
  <2>1. /\ queue' = Append(queue, rec) /\ UNCHANGED <<run, rec>>
        /\ ticker # "idle" /\ ticker' = "idle"
    BY <1>6 DEF PutNowait, PutAgain
  <2>2. Latest < rec /\ rec <= Latest' /\ Latest <= Latest'
    BY <1>2, <2>1 DEF Latest, Numbers
  <2>3. Held' /\ NewestKept'
    BY <1>2, <2>1, <2>2 DEF IInv, Held, NewestKept, Numbers, run
  <2>4. Ordered'
    BY <1>1, <1>2, <2>1, <2>2, AppendOrdered DEF run, Numbers
  <2> QED
    BY <1>1, <2>3, <2>4 DEF IInv
<1>7. CASE (PutNowait \/ PutAgain) /\ Full
  <2>1. /\ queue' = queue /\ UNCHANGED <<run, rec>>
        /\ ticker # "idle" /\ ticker' \in {"idle", "drop"}
    BY <1>7 DEF PutNowait, PutAgain
  <2>2. Latest <= Latest'
    BY <1>2, <2>1 DEF Latest, Numbers
  <2>3. Held' /\ NewestKept'
    BY <1>2, <2>1, <2>2 DEF IInv, Held, NewestKept, Numbers, run
  <2>4. Ordered'
    BY <1>1, <2>1, <2>2, <2>3, QueueKept DEF run
  <2> QED
    BY <1>1, <2>3, <2>4 DEF IInv
<1>8. CASE DropOldest
  <2>1. /\ queue' = IF queue = <<>> THEN queue ELSE Tail(queue)
        /\ UNCHANGED <<run, rec>> /\ ticker = "drop" /\ ticker' = "again"
    BY <1>8 DEF DropOldest
  <2>2. Latest' = Latest
    BY <2>1 DEF Latest
  <2>3. Held'
    BY <2>1, <2>2 DEF IInv, Held, run
  <2>4. NewestKept'
    <3>1. queue \in Seq(Nat) /\ Len(queue) \in Nat /\ Len(queue) <= QueueMax
      BY DEF IInv, StreamTypeOK
    <3>2. Len(queue') < QueueMax /\ Len(queue') \in Nat
      BY <2>1, <3>1
    <3> QED
      BY <3>2 DEF NewestKept, Full
  <2>5. Ordered'
    <3>1. CASE queue = <<>>
      BY <1>1, <1>2, <2>1, <2>2, <2>3, <3>1, QueueKept DEF run, Numbers
    <3>2. CASE queue # <<>>
      BY <2>1, <2>2, <3>2, TailOrdered DEF run
    <3> QED
      BY <3>1, <3>2
  <2> QED
    BY <1>1, <2>3, <2>4, <2>5 DEF IInv
<1>9. CASE Get
  <2>1. /\ queue # <<>> /\ queue' = Tail(queue) /\ taken' = Head(queue) /\ sent' = sent
        /\ thread' = IF Head(queue) = STOP THEN "dead" ELSE "send"
        /\ ticker' = ticker /\ rec' = rec
    BY <1>9 DEF Get
  <2>2. Latest' = Latest
    BY <2>1 DEF Latest
  <2>3. queue \in Seq(Nat) /\ Len(queue) \in Nat /\ Len(queue) <= QueueMax
    BY DEF IInv, StreamTypeOK
  <2>4. Held'
    <3>1. 1 \in 1..Len(queue) /\ Head(queue) = queue[1]
      BY <2>1, <2>3
    <3>2. Head(queue) # STOP => Head(queue) > sent /\ Head(queue) <= Latest
      BY <3>1 DEF IInv, Ordered, Waiting
    <3> QED
      BY <2>1, <2>2, <3>2 DEF IInv, Held
  <2>5. NewestKept'
    <3>1. Len(queue') < QueueMax /\ Len(queue') \in Nat
      BY <2>1, <2>3
    <3> QED
      BY <3>1 DEF NewestKept, Full
  <2>6. Ordered'
    BY <2>1, <2>2, TailOrdered
  <2> QED
    BY <1>1, <2>4, <2>5, <2>6 DEF IInv
<1>10. CASE Send
  <2>1. /\ thread = "send" /\ thread' \in {"test", "dead"} /\ sent' \in {taken, sent} /\ taken' = taken
        /\ UNCHANGED <<queue, ticker, rec>>
    BY <1>10 DEF Send
  <2>2. Latest' = Latest /\ Held' /\ NewestKept'
    BY <2>1 DEF IInv, Held, NewestKept, Full, Latest
  <2>3. Ordered'
    BY <1>1, <1>2, <2>1, <2>2, QueueKept DEF Numbers
  <2> QED
    BY <1>1, <2>2, <2>3 DEF IInv
<1> QED
  BY <1>3, <1>4, <1>5, <1>6, <1>7, <1>8, <1>9, <1>10 DEF Next, Stopping, OnRecord, Run

THEOREM StreamInvariant == Spec => []IInv
BY StreamInit, StreamNext, PTL DEF Spec

\* The latest record always finds its place but for the sentinel of stop().
THEOREM NewestIsKept == Spec => []NewestKept
<1>1. IInv => NewestKept
  BY DEF IInv
<1> QED
  BY <1>1, StreamInvariant, PTL

\* Every record that leaves the socket is later than the one before.
THEOREM SentAscending == Spec => SentInOrder
<1>1. IInv /\ [Next]_vars => [sent' # sent => sent' > sent]_vars
  <2> SUFFICES ASSUME IInv, Next, sent' # sent PROVE sent' > sent
    OBVIOUS
  <2>1. Send
    BY DEF Next, Stopping, OnRecord, Run, publisher, run, Attach, Start, Stop, SetEvent, PutStop,
       Join, Tick, PutNowait, DropOldest, PutAgain, Bind, TestStop, Get
  <2> QED
    BY <2>1 DEF Send, IInv, Held
<1> QED
  BY <1>1, StreamInvariant, PTL DEF Spec, SentInOrder
=============================================================================
