------------------------------ MODULE WorkQueue ------------------------------
(***************************************************************************)
(* The controller's work queue: two lanes, a goroutine that empties each,  *)
(* a consumer goroutine that prefers the fast one and fills a third queue, *)
(* and the workers that take keys from there.  All three queues are        *)
(* client-go's workqueue.Typed, whose critical sections are one action     *)
(* each.  The delayed re-add of a key whose run failed is one more add to  *)
(* the fast lane, and ignored, as any other, once that is shutting down.   *)
(***************************************************************************)
EXTENDS Sequences

CONSTANTS Workers, None,
  FastKeys, SlowKeys     \* the keys that events enqueue, and those that resyncs do

Keys == FastKeys \cup SlowKeys

ASSUME KeysAssumption == None \notin Keys
ASSUME WorkersAssumption == Workers # {}

VARIABLES
  lane,       \* "fast", "slow" and "consumer" -> a Typed queue
  mover,      \* lane -> the goroutine that takes keys out of it
  consumer,   \* the consumer goroutine: its select, and the channels open to it
  worker      \* worker -> where it is and with which key

vars == <<lane, mover, consumer, worker>>

Sources == {"fast", "slow"}
Lanes   == Sources \cup {"consumer"}

Lane   == [queue: Seq(Keys), dirty: SUBSET Keys, processing: SUBSET Keys, down: BOOLEAN]
Mover  == [pc: {"get", "done", "send", "closed"}, key: Keys \cup {None}]
Worker == [pc: {"get", "run", "exited"}, key: Keys \cup {None}]

-------------------------------------------------------------------------------
(* workqueue.Typed *)

PushAlways(q, k) ==               \* mutant: does not ask whether k is being processed
  IF q.down \/ k \in q.dirty THEN q
  ELSE [q EXCEPT !.dirty = @ \cup {k}, !.queue = Append(@, k)]

Add(q, k) ==
  IF q.down \/ k \in q.dirty THEN q
  ELSE [q EXCEPT !.dirty = @ \cup {k},
                 !.queue = IF k \in q.processing THEN @ ELSE Append(@, k)]

Get(q) == [q EXCEPT !.queue = Tail(@), !.dirty = @ \ {Head(q.queue)},
                    !.processing = @ \cup {Head(q.queue)}]

DoneOnce(q, k) == [q EXCEPT !.processing = @ \ {k}]     \* mutant: forgets the re-add

Done(q, k) == [q EXCEPT !.processing = @ \ {k},
                        !.queue = IF k \in q.dirty THEN Append(@, k) ELSE @]

ShuttingDown == lane["fast"].down \/ lane["slow"].down

-------------------------------------------------------------------------------
EmptyLane == [queue |-> <<>>, dirty |-> {}, processing |-> {}, down |-> FALSE]

Init ==
  /\ lane = [l \in Lanes |-> EmptyLane]
  /\ mover = [l \in Sources |-> [pc |-> "get", key |-> None]]
  /\ consumer = [select |-> "fast", open |-> Sources]
  /\ worker = [w \in Workers |-> [pc |-> "get", key |-> None]]

AddTo(l, k) == lane' = [lane EXCEPT ![l] = Add(@, k)]

\* An event or a retry enqueues a key; a resync or a promotion enqueues it in the slow lane.
Enqueue(k)     == k \in FastKeys /\ AddTo("fast", k) /\ UNCHANGED <<mover, consumer, worker>>
EnqueueSlow(k) == k \in SlowKeys /\ AddTo("slow", k) /\ UNCHANGED <<mover, consumer, worker>>

\* The fast lane is closed before the slow one.
ShutDown(l) ==
  /\ l = "slow" => lane["fast"].down
  /\ lane' = [lane EXCEPT ![l].down = TRUE]
  /\ UNCHANGED <<mover, consumer, worker>>

\* process: take a key, be done with it at once, and offer it on the channel.
MoverGets(l) ==
  /\ mover[l].pc = "get"
  /\ \/ /\ lane[l].queue # <<>>
        /\ lane' = [lane EXCEPT ![l] = Get(@)]
        /\ mover' = [mover EXCEPT ![l] = [pc |-> "done", key |-> Head(lane[l].queue)]]
     \/ /\ lane[l].queue = <<>> /\ lane[l].down
        /\ mover' = [mover EXCEPT ![l].pc = "closed"]
        /\ UNCHANGED lane
  /\ UNCHANGED <<consumer, worker>>

MoverDone(l) ==
  /\ mover[l].pc = "done"
  /\ lane' = [lane EXCEPT ![l] = Done(@, mover[l].key)]
  /\ mover' = [mover EXCEPT ![l].pc = "send"]
  /\ UNCHANGED <<consumer, worker>>

RunningBoth == consumer.open = Sources        \* mutant: stops with the first lane
RunningOn   == TRUE                           \* mutant: stops with neither

\* The flags the consumer's loop runs for.
Running == consumer.open # {}

\* The first select looks at the fast channel only, if that is still open.
LookAgain == consumer.select = "fast" /\ "fast" \in consumer.open

Receives(l) ==
  /\ Running
  /\ l \in consumer.open /\ (LookAgain => l = "fast")
  /\ consumer.select # "stopped"
  /\ \/ /\ mover[l].pc = "send"
        /\ AddTo("consumer", mover[l].key)
        /\ mover' = [mover EXCEPT ![l] = [pc |-> "get", key |-> None]]
        /\ consumer' = [consumer EXCEPT !.select = "fast"]
     \/ /\ mover[l].pc = "closed"
        /\ consumer' = [select |-> "fast", open |-> consumer.open \ {l}]
        /\ UNCHANGED <<lane, mover>>
  /\ UNCHANGED worker

\* Nothing is offered on the fast channel: the default of the first select.
FastIsEmpty ==
  /\ Running /\ LookAgain
  /\ mover["fast"].pc \notin {"send", "closed"}
  /\ consumer' = [consumer EXCEPT !.select = "both"]
  /\ UNCHANGED <<lane, mover, worker>>

ConsumerStops ==
  /\ ~ Running /\ consumer.select # "stopped"
  /\ consumer' = [consumer EXCEPT !.select = "stopped"]
  /\ lane' = [lane EXCEPT !["consumer"].down = TRUE]
  /\ UNCHANGED <<mover, worker>>

\* processNextWorkItem
WorkerGets(w) ==
  /\ worker[w].pc = "get"
  /\ LET q == lane["consumer"] IN
     \/ /\ q.queue # <<>>
        /\ lane' = [lane EXCEPT !["consumer"] = Get(@)]
        /\ worker' = [worker EXCEPT ![w] = [pc |-> "run", key |-> Head(q.queue)]]
     \/ /\ q.queue = <<>> /\ q.down
        /\ worker' = [worker EXCEPT ![w].pc = "exited"]
        /\ UNCHANGED lane
  /\ UNCHANGED <<mover, consumer>>

\* The key is done, whatever Reconcile returned.
WorkerDone(w) ==
  /\ worker[w].pc = "run"
  /\ lane' = [lane EXCEPT !["consumer"] = Done(@, worker[w].key)]
  /\ worker' = [worker EXCEPT ![w] = [pc |-> "get", key |-> None]]
  /\ UNCHANGED <<mover, consumer>>

-------------------------------------------------------------------------------
Mover1(l)   == MoverGets(l) \/ MoverDone(l)
Consumer1   == (\E l \in Sources : Receives(l)) \/ FastIsEmpty \/ ConsumerStops
Worker1(w)  == WorkerGets(w) \/ WorkerDone(w)

Next ==
  \/ \E k \in Keys : Enqueue(k) \/ EnqueueSlow(k)
  \/ \E l \in Sources : ShutDown(l) \/ Mover1(l)
  \/ Consumer1
  \/ \E w \in Workers : Worker1(w)

Spec == Init /\ [][Next]_vars

\* Every goroutine keeps running, Reconcile returns, and a shutdown that has begun
\* goes on.  Nothing is assumed of those who enqueue.
Fairness ==
  /\ \A l \in Sources : WF_vars(Mover1(l))
  /\ WF_vars(Consumer1)
  /\ \A w \in Workers : WF_vars(Worker1(w))
  /\ WF_vars(lane["fast"].down /\ ShutDown("slow"))

FairSpec == Spec /\ Fairness

-------------------------------------------------------------------------------
\* As queue.go:191 has it, each element of queue is dirty and not being processed,
\* and a dirty key waits only for its own processing to end.
WellFormed(q) ==
  /\ {q.queue[i] : i \in DOMAIN q.queue} = q.dirty \ q.processing
  /\ \A i, j \in DOMAIN q.queue : q.queue[i] = q.queue[j] => i = j

TypeOK ==
  /\ lane \in [Lanes -> Lane] /\ \A l \in Lanes : WellFormed(lane[l])
  /\ mover \in [Sources -> Mover]
  /\ consumer \in [select: {"fast", "both", "stopped"}, open: SUBSET Sources]
  /\ worker \in [Workers -> Worker]

\* On its way from a lane to the workers: in the lane, or in its goroutine's hand.
Underway(l) == lane[l].dirty \cup ({mover[l].key} \ {None})
Waiting     == Underway("fast") \cup Underway("slow") \cup lane["consumer"].dirty

RunsKey(k) == \E w \in Workers : worker[w].key = k

\* The three queues, two movers and a consumer are one queue of keys: a key never
\* runs twice at once though it may sit in both lanes, and a key added while it is
\* processed, moved or offered is not dropped.
Abstract == INSTANCE KeyedWork WITH
  due <- Waiting, running <- [w \in Workers |-> worker[w].key]

ImplementsKeyedWork == Abstract!Spec

\* A key added to the fast lane is run, whatever else is added to either lane.
FastIsServed == \A k \in Keys : k \in Underway("fast") ~> RunsKey(k)

\* A key in the slow lane is run as well if the fast lane comes to rest.
SlowIsServed ==
  <>[](Underway("fast") = {}) => \A k \in Keys : k \in Underway("slow") ~> RunsKey(k)

\* A shutdown ends: the lanes are emptied in whatever order, and the workers exit ...
ShutDownEnds == ShuttingDown ~> \A w \in Workers : worker[w].pc = "exited"

\* ... after they have run every key that was accepted before.
NothingLeftBehind == (\A w \in Workers : worker[w].pc = "exited") => Waiting = {}

===============================================================================
