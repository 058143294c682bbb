---------------------------- MODULE EventStream ----------------------------
(***************************************************************************)
(* ZmqPublisher on an Inspector: the thread that ticks hands each record   *)
(* to the subscribers it saw under the lock, the publisher's callback puts *)
(* it on a bounded queue, the publisher's thread takes it off and sends    *)
(* it, and the program attaches, starts and stops the publisher meanwhile. *)
(*                                                                         *)
(* A record is its number.  The join in stop() is taken to last until the  *)
(* thread ended (its three seconds are far more than bind and a send that  *)
(* does not block take).  Bounds: MaxTicks records, MaxStops calls of      *)
(* stop().                                                                 *)
(***************************************************************************)
EXTENDS Integers, Sequences

CONSTANTS QueueMax, MaxTicks, MaxStops

ASSUME EventStreamAssumption == QueueMax \in Nat \ {0} /\ MaxTicks \in Nat /\ MaxStops \in Nat

VARIABLES
    attached,   \* _on_record is one of the inspector's subscribers
    queue,
    stopEvent,
    thread,     \* where _run() is; "dead" also before the first start()
    taken,      \* the record _run() holds
    ticker,     \* where on_node_tick() is in the publisher's callback
    rec,        \* the record of the last tick
    caller,     \* where the program is in stop()
    stops,      \* calls of stop() so far
    sent        \* the last record the socket accepted

vars == <<attached, queue, stopEvent, thread, taken, ticker, rec, caller, stops, sent>>
publisher == <<attached, stopEvent, caller, stops>>
run == <<thread, taken, sent>>

STOP == 0    \* the sentinel; records count from 1
Full == Len(queue) = QueueMax

Init ==
    /\ attached = FALSE /\ queue = <<>> /\ stopEvent = FALSE
    /\ thread = "dead" /\ taken = 0 /\ sent = 0
    /\ ticker = "idle" /\ rec = 0
    /\ caller = "idle" /\ stops = 0

(***************************************************************************)
(* The program's calls.                                                    *)
(***************************************************************************)
Attach ==
    /\ caller = "idle" /\ ~attached
    /\ attached' = TRUE
    /\ UNCHANGED <<queue, stopEvent, caller, stops, run, ticker, rec>>

\* start() on a publisher whose thread is alive changes nothing.
Start ==
    /\ caller = "idle" /\ thread = "dead"
    /\ stopEvent' = FALSE /\ thread' = "bind"
    /\ UNCHANGED <<attached, queue, caller, stops, taken, sent, ticker, rec>>

Stop ==
    /\ caller = "idle" /\ stops < MaxStops
    /\ attached' = FALSE
    /\ caller' = "event" /\ stops' = stops + 1
    /\ UNCHANGED <<queue, stopEvent, run, ticker, rec>>

SetEvent ==
    /\ caller = "event"
    /\ stopEvent' = TRUE /\ caller' = "put"
    /\ UNCHANGED <<attached, queue, stops, run, ticker, rec>>

\* Mutant of PutStop: the event alone is to end the thread.
PutNothing ==
    /\ caller = "put"
    /\ caller' = "join"
    /\ UNCHANGED <<attached, queue, stopEvent, stops, run, ticker, rec>>

\* queue.put() waits for room.
PutStop ==
    /\ caller = "put" /\ ~Full
    /\ queue' = Append(queue, STOP) /\ caller' = "join"
    /\ UNCHANGED <<attached, stopEvent, stops, run, ticker, rec>>

Join ==
    /\ caller = "join" /\ thread = "dead"
    /\ caller' = "idle"
    /\ UNCHANGED <<attached, queue, stopEvent, stops, run, ticker, rec>>

(***************************************************************************)
(* The thread that ticks.  The callbacks run after the inspector's lock is *)
(* released: one that is unsubscribed meanwhile still gets this record.    *)
(***************************************************************************)
Tick ==
    /\ ticker = "idle" /\ rec < MaxTicks
    /\ rec' = rec + 1
    /\ ticker' = IF attached THEN "put" ELSE "idle"
    /\ UNCHANGED <<publisher, queue, run>>

PutNowait ==
    /\ ticker = "put"
    /\ ticker' = IF Full THEN "drop" ELSE "idle"
    /\ queue' = IF Full THEN queue ELSE Append(queue, rec)
    /\ UNCHANGED <<publisher, run, rec>>

\* Mutant of DropOldest: nothing is dropped.
DropNothing == ticker = "drop" /\ ticker' = "again" /\ UNCHANGED <<publisher, run, rec, queue>>

DropOldest ==
    /\ ticker = "drop"
    /\ ticker' = "again"
    /\ queue' = IF queue = <<>> THEN queue ELSE Tail(queue)
    /\ UNCHANGED <<publisher, run, rec>>

PutAgain ==
    /\ ticker = "again"
    /\ ticker' = "idle"
    /\ queue' = IF Full THEN queue ELSE Append(queue, rec)
    /\ UNCHANGED <<publisher, run, rec>>

(***************************************************************************)
(* The publisher's thread, _run().                                         *)
(***************************************************************************)
\* An address in use ends the thread before its loop.
Bind ==
    /\ thread = "bind"
    /\ thread' \in {"test", "dead"}
    /\ UNCHANGED <<publisher, queue, taken, sent, ticker, rec>>

TestStop ==
    /\ thread = "test"
    /\ thread' = IF stopEvent THEN "dead" ELSE "get"
    /\ UNCHANGED <<publisher, queue, taken, sent, ticker, rec>>

\* queue.get() waits for a record.
Get ==
    /\ thread = "get" /\ queue # <<>>
    /\ queue' = Tail(queue)
    /\ thread' = IF Head(queue) = STOP THEN "dead" ELSE "send"
    /\ taken' = Head(queue)
    /\ UNCHANGED <<publisher, sent, ticker, rec>>

\* Mutant of Send: a record that would block is queued again.
SendRequeues ==
    /\ thread = "send"
    /\ thread' = "test"
    /\ \/ sent' = taken /\ queue' = queue
       \/ sent' = sent /\ ~Full /\ queue' = Append(queue, taken)
    /\ UNCHANGED <<publisher, taken, ticker, rec>>

\* NOBLOCK: the socket accepts the record, or raises Again and it is lost.  Another
\* error, or a record that json.dumps() refuses, ends the thread.
Send ==
    /\ thread = "send"
    /\ \/ thread' = "test" /\ sent' \in {taken, sent}
       \/ thread' = "dead" /\ sent' = sent
    /\ UNCHANGED <<publisher, queue, taken, ticker, rec>>

Stopping == SetEvent \/ PutStop \/ Join
OnRecord == PutNowait \/ DropOldest \/ PutAgain
Run == Bind \/ TestStop \/ Get \/ Send

Next == Attach \/ Start \/ Stop \/ Tick \/ Stopping \/ OnRecord \/ Run

Spec == Init /\ [][Next]_vars

\* Each thread goes on unless its queue or its join makes it wait.
FairSpec == Spec /\ WF_vars(Stopping) /\ WF_vars(OnRecord) /\ WF_vars(Run)

(***************************************************************************)
(* Properties.                                                             *)
(***************************************************************************)
\* Types of the variables; the queue is bounded.
StreamTypeOK ==
    /\ attached \in BOOLEAN /\ stopEvent \in BOOLEAN
    /\ queue \in Seq(Nat) /\ Len(queue) <= QueueMax
    /\ thread \in {"dead", "bind", "test", "get", "send"}
    /\ ticker \in {"idle", "put", "drop", "again"}
    /\ caller \in {"idle", "event", "put", "join"}
    /\ rec \in Nat /\ taken \in Nat /\ sent \in Nat /\ stops \in 0..MaxStops

\* What leaves the socket is in the order of the ticks, nothing twice, although
\* the ticking thread takes from the queue too and a restarted publisher finds
\* what an earlier one left.
SentInOrder == [][sent' # sent => sent' > sent]_vars

\* Dropping the oldest makes room: the latest record is refused only if stop()
\* put its sentinel into the very place.
NewestKept == ticker = "again" /\ Full => queue[QueueMax] = STOP

\* stop() ends the thread, wherever it is: waiting for a record, sending, or
\* with the sentinel behind a full queue or dropped by a late record.
ThreadEnds == stopEvent ~> thread = "dead"

(***************************************************************************)
(* What the documentation says and the code does not do.                   *)
(***************************************************************************)
\* zmq_publisher.py:75, stop(): "Unsubscribe from inspector, drain queue, and
\* close socket."  On a publisher that runs, stop() comes to its end.
StopReturns == caller = "event" /\ thread # "dead" ~> caller = "idle"
=============================================================================
