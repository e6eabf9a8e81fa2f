--------------------------- MODULE WorkQueueProofs ---------------------------
(***************************************************************************)
(* For any keys and any number of workers: the three queues keep what      *)
(* client-go's comments say of them, the controller's queue is a queue of  *)
(* keys as KeyedWork specifies it, and a shutdown leaves no key behind.    *)
(***************************************************************************)
EXTENDS WorkQueue, SequenceTheorems, TLAPS

(* The operations of a Typed queue *)

Elements(s) == {s[i] : i \in DOMAIN s}
Distinct(s) == \A i, j \in DOMAIN s : s[i] = s[j] => i = j

\* The fields of a queue.
LEMMA LaneFields ==
  ASSUME NEW q \in Lane
  PROVE  /\ q.queue \in Seq(Keys) /\ q.dirty \in SUBSET Keys
         /\ q.processing \in SUBSET Keys /\ q.down \in BOOLEAN
         /\ q = [queue |-> q.queue, dirty |-> q.dirty, processing |-> q.processing, down |-> q.down]
  BY DEF Lane

\* A key that is not in a queue can be appended to it.
LEMMA AppendDistinct ==
  ASSUME NEW s \in Seq(Keys), NEW k \in Keys, Distinct(s), k \notin Elements(s)
  PROVE  /\ Append(s, k) \in Seq(Keys) /\ Distinct(Append(s, k))
         /\ Elements(Append(s, k)) = Elements(s) \cup {k}
  <1>1. /\ Append(s, k) \in Seq(Keys) /\ Len(Append(s, k)) = Len(s) + 1 /\ Len(s) \in Nat
        /\ DOMAIN s = 1 .. Len(s) /\ DOMAIN Append(s, k) = 1 .. Len(s) + 1
        /\ \A i \in 1 .. Len(s) : Append(s, k)[i] = s[i]
        /\ Append(s, k)[Len(s) + 1] = k
    BY AppendProperties, LenProperties
  <1> DEFINE t == Append(s, k)
  <1> HIDE DEF t
  <1>2. Elements(t) = Elements(s) \cup {k}
    <2>1. 1 .. Len(s) + 1 = (1 .. Len(s)) \cup {Len(s) + 1}
      BY <1>1
    <2> QED BY <1>1, <2>1 DEF Elements, t
  <1>3. Distinct(t)
    BY <1>1 DEF Distinct, Elements, t
  <1> QED BY <1>1, <1>2, <1>3 DEF t

\* The head of a queue is gone from its tail.
LEMMA TailDistinct ==
  ASSUME NEW s \in Seq(Keys), s # <<>>, Distinct(s)
  PROVE  /\ Head(s) \in Elements(s) /\ Head(s) \in Keys
         /\ Tail(s) \in Seq(Keys) /\ Distinct(Tail(s))
         /\ Elements(Tail(s)) = Elements(s) \ {Head(s)}
  <1>1. /\ Tail(s) \in Seq(Keys) /\ Len(s) \in Nat \ {0} /\ Len(Tail(s)) = Len(s) - 1
        /\ DOMAIN s = 1 .. Len(s) /\ DOMAIN Tail(s) = 1 .. Len(s) - 1
        /\ \A i \in 1 .. Len(s) - 1 : Tail(s)[i] = s[i + 1]
        /\ Head(s) = s[1] /\ s[1] \in Keys
    <2>1. /\ Head(s) = s[1] /\ Tail(s) \in Seq(Keys) /\ Len(Tail(s)) = Len(s) - 1
          /\ \A i \in 1 .. Len(Tail(s)) : Tail(s)[i] = s[i + 1]
      BY HeadTailProperties
    <2>2. Len(s) \in Nat \ {0} /\ DOMAIN s = 1 .. Len(s)
      BY LenProperties, EmptySeq
    <2>3. s[1] \in Keys
      BY <2>2, ElementOfSeq
    <2>4. DOMAIN Tail(s) = 1 .. Len(Tail(s))
      BY <2>1, LenProperties
    <2> QED BY <2>1, <2>2, <2>3, <2>4
  <1> DEFINE t == Tail(s)
  <1> HIDE DEF t
  <1>2. Distinct(t)
    BY <1>1 DEF Distinct, t
  <1>3. Elements(t) = Elements(s) \ {Head(s)}
    <2>1. \A i \in DOMAIN t : t[i] \in Elements(s) /\ t[i] # Head(s)
      BY <1>1 DEF Distinct, Elements, t
    <2>2. \A i \in DOMAIN s : s[i] # Head(s) => i - 1 \in DOMAIN t /\ s[i] = t[i - 1]
      BY <1>1 DEF t
    <2> QED BY <2>1, <2>2 DEF Elements
  <1>4. Head(s) \in Elements(s)
    BY <1>1 DEF Elements
  <1> QED BY <1>1, <1>2, <1>3, <1>4 DEF t

\* A queue holds the dirty keys that are not being processed, each once.
LEMMA WellFormedLane ==
  ASSUME NEW q
  PROVE  WellFormed(q) <=> Elements(q.queue) = q.dirty \ q.processing /\ Distinct(q.queue)
  BY DEF WellFormed, Elements, Distinct

\* Add keeps a queue well formed, and is dropped if the queue shuts down.
LEMMA AddLane ==
  ASSUME NEW q \in Lane, WellFormed(q), NEW k \in Keys
  PROVE  /\ Add(q, k) \in Lane /\ WellFormed(Add(q, k))
         /\ Add(q, k).processing = q.processing /\ Add(q, k).down = q.down
         /\ Add(q, k).dirty = IF q.down THEN q.dirty ELSE q.dirty \cup {k}
         /\ q.down => Add(q, k) = q
  <1>1. CASE q.down \/ k \in q.dirty
    <2>1. Add(q, k) = q
      BY <1>1 DEF Add
    <2>2. k \in q.dirty => q.dirty \cup {k} = q.dirty
      OBVIOUS
    <2> QED BY <1>1, <2>1, <2>2
  <1>2. CASE ~ (q.down \/ k \in q.dirty)
    <2> DEFINE a == Add(q, k)
    <2>1. a = [q EXCEPT !.dirty = @ \cup {k},
                        !.queue = IF k \in q.processing THEN @ ELSE Append(@, k)]
      BY <1>2, Zenon DEF Add
    <2>2. a = [queue |-> IF k \in q.processing THEN q.queue ELSE Append(q.queue, k),
               dirty |-> q.dirty \cup {k}, processing |-> q.processing, down |-> q.down]
      BY <2>1, LaneFields, Zenon
    <2> HIDE DEF a
    <2>3. /\ a.queue = IF k \in q.processing THEN q.queue ELSE Append(q.queue, k)
          /\ a.dirty = q.dirty \cup {k} /\ a.processing = q.processing /\ a.down = q.down
      BY <2>2
    <2>4. k \notin Elements(q.queue) /\ Distinct(q.queue) /\ q.queue \in Seq(Keys)
          /\ Elements(q.queue) = q.dirty \ q.processing
      BY <1>2, WellFormedLane, LaneFields
    <2>5. /\ a.queue \in Seq(Keys) /\ Distinct(a.queue)
          /\ Elements(a.queue) = a.dirty \ a.processing
      BY <2>3, <2>4, AppendDistinct
    <2>6. a \in Lane
      BY <2>2, <2>3, <2>5, LaneFields DEF Lane
    <2>7. WellFormed(a)
      BY <2>5, WellFormedLane
    <2> QED BY <1>2, <2>3, <2>6, <2>7 DEF a
  <1> QED BY <1>1, <1>2

\* So does Get, which moves a key from dirty to processing.
LEMMA GetLane ==
  ASSUME NEW q \in Lane, WellFormed(q), q.queue # <<>>
  PROVE  /\ Head(q.queue) \in q.dirty /\ Head(q.queue) \notin q.processing
         /\ Head(q.queue) \in Keys
         /\ Get(q) \in Lane /\ WellFormed(Get(q)) /\ Get(q).down = q.down
         /\ Get(q).dirty = q.dirty \ {Head(q.queue)}
         /\ Get(q).processing = q.processing \cup {Head(q.queue)}
  <1> DEFINE g == Get(q)
             h == Head(q.queue)
  <1>1. g = [queue |-> Tail(q.queue), dirty |-> q.dirty \ {h},
             processing |-> q.processing \cup {h}, down |-> q.down]
    <2>1. g = [q EXCEPT !.queue = Tail(@), !.dirty = @ \ {h}, !.processing = @ \cup {h}]
      BY Zenon DEF Get
    <2> QED BY <2>1, LaneFields, Zenon
  <1>2. /\ Elements(q.queue) = q.dirty \ q.processing /\ Distinct(q.queue)
        /\ q.queue \in Seq(Keys)
    BY WellFormedLane, LaneFields
  <1>3. /\ h \in Elements(q.queue) /\ h \in Keys /\ Tail(q.queue) \in Seq(Keys)
        /\ Distinct(Tail(q.queue)) /\ Elements(Tail(q.queue)) = Elements(q.queue) \ {h}
    BY <1>2, TailDistinct
  <1> HIDE DEF g, h
  <1>4. g \in Lane
    BY <1>1, <1>3, LaneFields DEF Lane
  <1>5. WellFormed(g)
    <2>1. g.queue = Tail(q.queue) /\ g.dirty = q.dirty \ {h} /\ g.processing = q.processing \cup {h}
      BY <1>1
    <2> QED BY <2>1, <1>2, <1>3, WellFormedLane
  <1> QED BY <1>1, <1>2, <1>3, <1>4, <1>5 DEF g, h

\* So does Done, which requeues a key that became dirty meanwhile.
LEMMA DoneLane ==
  ASSUME NEW q \in Lane, WellFormed(q), NEW k \in q.processing
  PROVE  /\ Done(q, k) \in Lane /\ WellFormed(Done(q, k))
         /\ Done(q, k).dirty = q.dirty /\ Done(q, k).down = q.down
         /\ Done(q, k).processing = q.processing \ {k}
  <1> DEFINE d == Done(q, k)
  <1>1. d = [queue |-> IF k \in q.dirty THEN Append(q.queue, k) ELSE q.queue,
             dirty |-> q.dirty, processing |-> q.processing \ {k}, down |-> q.down]
    <2>1. d = [q EXCEPT !.processing = @ \ {k},
                        !.queue = IF k \in q.dirty THEN Append(@, k) ELSE @]
      BY Zenon DEF Done
    <2> QED BY <2>1, LaneFields, Zenon
  <1>2. /\ Elements(q.queue) = q.dirty \ q.processing /\ Distinct(q.queue)
        /\ q.queue \in Seq(Keys) /\ k \in Keys /\ k \notin Elements(q.queue)
    BY WellFormedLane, LaneFields
  <1> HIDE DEF d
  <1>3. /\ d.queue = IF k \in q.dirty THEN Append(q.queue, k) ELSE q.queue
        /\ d.dirty = q.dirty /\ d.processing = q.processing \ {k} /\ d.down = q.down
    BY <1>1
  <1>4. /\ d.queue \in Seq(Keys) /\ Distinct(d.queue)
        /\ Elements(d.queue) = d.dirty \ d.processing
    BY <1>2, <1>3, AppendDistinct
  <1>5. d \in Lane
    BY <1>1, <1>3, <1>4, LaneFields DEF Lane
  <1>6. WellFormed(d)
    BY <1>4, WellFormedLane
  <1> QED BY <1>3, <1>5, <1>6 DEF d

-------------------------------------------------------------------------------
(* The invariant *)

\* A goroutine has a key from the moment it takes one until it hands it on, and a key
\* is processed in a lane while someone holds it there.
MoverHolds(l) ==
  /\ mover[l].key # None <=> mover[l].pc \in {"done", "send"}
  /\ lane[l].processing = IF mover[l].pc = "done" THEN {mover[l].key} ELSE {}

WorkersHold ==
  /\ \A w \in Workers : worker[w].key # None <=> worker[w].pc = "run"
  /\ \A v, w \in Workers : worker[v].key # None /\ worker[v].key = worker[w].key => v = w
  /\ lane["consumer"].processing = {worker[w].key : w \in Workers} \ {None}

Holding == (\A l \in Sources : MoverHolds(l)) /\ WorkersHold

\* What closes closes in order: a lane, its goroutine, the consumer, the third queue, the
\* workers; and nothing that is closed has work left.
Closing ==
  /\ \A l \in Sources :
       /\ mover[l].pc = "closed" => lane[l].down /\ lane[l].queue = <<>>
       /\ l \notin consumer.open => mover[l].pc = "closed"
  /\ lane["consumer"].down => consumer.select = "stopped"
  /\ consumer.select = "stopped" => consumer.open = {}
  /\ \A w \in Workers : worker[w].pc = "exited" => lane["consumer"].down
  /\ (\A w \in Workers : worker[w].pc = "exited") => lane["consumer"].queue = <<>>

IInv == TypeOK /\ Holding /\ Closing

USE DEF Sources, Lanes

\* Where a lane has changed, and where none has.
LEMMA OneLane ==
  ASSUME TypeOK, NEW l \in Lanes, NEW q \in Lane, WellFormed(q), lane' = [lane EXCEPT ![l] = q]
  PROVE  /\ lane'[l] = q /\ \A m \in Lanes \ {l} : lane'[m] = lane[m]
         /\ lane' \in [Lanes -> Lane] /\ \A m \in Lanes : WellFormed(lane'[m])
  BY DEF TypeOK

\* Workers hold what they hold while nothing of theirs changes.
LEMMA WorkersHoldStill ==
  ASSUME WorkersHold, UNCHANGED worker, lane'["consumer"].processing = lane["consumer"].processing
  PROVE  WorkersHold'
  BY DEF WorkersHold

\* The invariant holds of empty queues.
LEMMA InitIInv == Init => IInv
  <1> SUFFICES ASSUME Init PROVE IInv
    OBVIOUS
  <1>1. EmptyLane \in Lane /\ WellFormed(EmptyLane)
    <2>1. EmptyLane.queue = <<>> /\ EmptyLane.dirty = {} /\ EmptyLane.processing = {}
      BY DEF EmptyLane
    <2>2. Elements(EmptyLane.queue) = {} /\ Distinct(EmptyLane.queue)
      BY <2>1 DEF Elements, Distinct
    <2> QED BY <2>1, <2>2, WellFormedLane DEF EmptyLane, Lane
  <1>2. TypeOK
    BY <1>1 DEF Init, TypeOK, Mover, Worker
  <1>3. Holding
    BY DEF Init, Holding, MoverHolds, WorkersHold, EmptyLane
  <1>4. Closing
    BY WorkersAssumption DEF Init, Closing, EmptyLane
  <1> QED BY <1>2, <1>3, <1>4 DEF IInv

\* A key is added to a lane, closed or not.
LEMMA AddKeeps ==
  ASSUME IInv, NEW l \in Sources, NEW k \in Keys, AddTo(l, k),
         UNCHANGED <<mover, consumer, worker>>
  PROVE  IInv'
  <1> DEFINE q == Add(lane[l], k)
  <1>0. q \in Lane /\ WellFormed(q)
    BY AddLane DEF IInv, TypeOK
  <1>1. /\ lane[l].down => q = lane[l]
        /\ q.processing = lane[l].processing /\ q.down = lane[l].down
    BY AddLane DEF IInv, TypeOK
  <1>2. lane' = [lane EXCEPT ![l] = q] /\ TypeOK
    BY DEF AddTo, IInv
  <1> HIDE DEF q
  <1>3. /\ lane'[l] = q /\ \A m \in Lanes \ {l} : lane'[m] = lane[m]
        /\ lane' \in [Lanes -> Lane] /\ \A m \in Lanes : WellFormed(lane'[m])
    BY <1>0, <1>2, OneLane
  <1>4. TypeOK'
    BY <1>2, <1>3 DEF TypeOK
  <1>5. Holding'
    BY <1>1, <1>3, WorkersHoldStill DEF IInv, Holding, MoverHolds
  <1>6. Closing'
    BY <1>1, <1>3 DEF IInv, Closing
  <1> QED BY <1>4, <1>5, <1>6 DEF IInv

\* Closing a lane keeps it.
LEMMA ShutDownKeeps ==
  ASSUME IInv, NEW l \in Sources, ShutDown(l)
  PROVE  IInv'
  <1> DEFINE q == [lane[l] EXCEPT !.down = TRUE]
  <1>0. lane[l] \in Lane
    BY DEF IInv, TypeOK
  <1>1. /\ q.queue = lane[l].queue /\ q.dirty = lane[l].dirty
        /\ q.processing = lane[l].processing /\ q.down = TRUE /\ q \in Lane
    BY <1>0 DEF Lane
  <1>2. WellFormed(q)
    BY <1>1, WellFormedLane DEF IInv, TypeOK
  <1>3. lane' = [lane EXCEPT ![l] = q] /\ UNCHANGED <<mover, consumer, worker>> /\ TypeOK
    BY DEF ShutDown, IInv
  <1> HIDE DEF q
  <1>4. /\ lane'[l] = q /\ \A m \in Lanes \ {l} : lane'[m] = lane[m]
        /\ lane' \in [Lanes -> Lane] /\ \A m \in Lanes : WellFormed(lane'[m])
    BY <1>1, <1>2, <1>3, OneLane
  <1>5. TypeOK'
    BY <1>3, <1>4 DEF TypeOK
  <1>6. Holding'
    BY <1>1, <1>3, <1>4, WorkersHoldStill DEF IInv, Holding, MoverHolds
  <1>7. Closing'
    BY <1>1, <1>3, <1>4 DEF IInv, Closing
  <1> QED BY <1>5, <1>6, <1>7 DEF IInv

\* A goroutine's step.
LEMMA MoverKeeps ==
  ASSUME IInv, NEW l \in Sources, NEW q \in Lane, WellFormed(q), NEW m \in Mover,
         lane' = [lane EXCEPT ![l] = q], mover' = [mover EXCEPT ![l] = m],
         UNCHANGED <<consumer, worker>>, q.down = lane[l].down, mover[l].pc # "closed",
         m.key # None <=> m.pc \in {"done", "send"},
         q.processing = IF m.pc = "done" THEN {m.key} ELSE {},
         m.pc = "closed" => q.down /\ q.queue = <<>>
  PROVE  IInv'
  <1>1. /\ lane'[l] = q /\ \A n \in Lanes \ {l} : lane'[n] = lane[n]
        /\ lane' \in [Lanes -> Lane] /\ \A n \in Lanes : WellFormed(lane'[n])
    BY OneLane DEF IInv
  <1>2. /\ mover'[l] = m /\ \A n \in Sources \ {l} : mover'[n] = mover[n]
        /\ mover' \in [Sources -> Mover]
    BY DEF IInv, TypeOK
  <1>3. TypeOK'
    BY <1>1, <1>2 DEF IInv, TypeOK
  <1>4. \A n \in Sources : MoverHolds(n)'
    <2> SUFFICES ASSUME NEW n \in Sources PROVE MoverHolds(n)'
      OBVIOUS
    <2>1. CASE n = l
      BY <1>1, <1>2, <2>1 DEF MoverHolds
    <2>2. CASE n # l
      BY <1>1, <1>2, <2>2 DEF IInv, Holding, MoverHolds
    <2> QED BY <2>1, <2>2
  <1>5. Holding'
    BY <1>1, <1>4, WorkersHoldStill DEF IInv, Holding
  <1>6. Closing'
    BY <1>1, <1>2 DEF IInv, Closing
  <1> QED BY <1>3, <1>5, <1>6 DEF IInv

\* A lane's goroutine takes a key, or finds the lane closed.
LEMMA MoverGetsKeeps ==
  ASSUME IInv, NEW l \in Sources, MoverGets(l)
  PROVE  IInv'
  <1>1. /\ mover[l].pc = "get" /\ UNCHANGED <<consumer, worker>> /\ lane[l] \in Lane
        /\ WellFormed(lane[l]) /\ lane[l].processing = {} /\ mover[l].key = None
        /\ mover[l] \in Mover /\ lane = [lane EXCEPT ![l] = lane[l]]
    BY DEF MoverGets, IInv, TypeOK, Holding, MoverHolds
  <1>2. CASE /\ lane[l].queue # <<>>
             /\ lane' = [lane EXCEPT ![l] = Get(@)]
             /\ mover' = [mover EXCEPT ![l] = [pc |-> "done", key |-> Head(lane[l].queue)]]
    <2> DEFINE q == Get(lane[l])
               m == [pc |-> "done", key |-> Head(lane[l].queue)]
    <2>1. /\ q \in Lane /\ WellFormed(q) /\ q.down = lane[l].down
          /\ q.processing = {m.key} /\ m.key \in Keys
      BY <1>1, <1>2, GetLane
    <2>2. lane' = [lane EXCEPT ![l] = q] /\ mover' = [mover EXCEPT ![l] = m]
      BY <1>2
    <2>3. m \in Mover /\ m.key # None /\ m.pc = "done"
      BY <2>1, KeysAssumption DEF Mover
    <2> HIDE DEF q, m
    <2> QED BY <1>1, <2>1, <2>2, <2>3, MoverKeeps
  <1>3. CASE /\ lane[l].queue = <<>> /\ lane[l].down
             /\ mover' = [mover EXCEPT ![l].pc = "closed"] /\ UNCHANGED lane
    <2> DEFINE m == [mover[l] EXCEPT !.pc = "closed"]
    <2>1. m \in Mover /\ m.pc = "closed" /\ m.key = None
      BY <1>1 DEF Mover
    <2>2. mover' = [mover EXCEPT ![l] = m] /\ lane' = [lane EXCEPT ![l] = lane[l]]
      BY <1>1, <1>3
    <2> HIDE DEF m
    <2>3. /\ m.key # None <=> m.pc \in {"done", "send"}
          /\ lane[l].processing = IF m.pc = "done" THEN {m.key} ELSE {}
          /\ m.pc = "closed" => lane[l].down /\ lane[l].queue = <<>>
      BY <1>1, <1>3, <2>1
    <2> QED BY <1>1, <2>1, <2>2, <2>3, MoverKeeps, Zenon
  <1> QED BY <1>2, <1>3 DEF MoverGets

\* It is done with the key before it offers it.
LEMMA MoverDoneKeeps ==
  ASSUME IInv, NEW l \in Sources, MoverDone(l)
  PROVE  IInv'
  <1> DEFINE k == mover[l].key
             m == [mover[l] EXCEPT !.pc = "send"]
             q == Done(lane[l], k)
  <1>1. /\ lane[l] \in Lane /\ WellFormed(lane[l]) /\ lane[l].processing = {k}
        /\ mover[l] \in Mover /\ mover[l].pc = "done" /\ k # None
    BY DEF MoverDone, IInv, TypeOK, Holding, MoverHolds
  <1>2. m \in Mover /\ m.pc = "send" /\ m.key = k
    BY <1>1 DEF Mover
  <1>3. /\ mover' = [mover EXCEPT ![l] = m] /\ lane' = [lane EXCEPT ![l] = q]
        /\ UNCHANGED <<consumer, worker>>
    BY DEF MoverDone
  <1> HIDE DEF k, m
  <1>4. q \in Lane /\ WellFormed(q) /\ q.down = lane[l].down /\ q.processing = {}
    BY <1>1, DoneLane
  <1> HIDE DEF q
  <1> QED BY <1>1, <1>2, <1>3, <1>4, MoverKeeps

\* The consumer receives a key: it goes to the third queue, which is open.
LEMMA ReceivesKeeps ==
  ASSUME IInv, NEW l \in Sources, Receives(l)
  PROVE  IInv'
  <1>1. /\ consumer.open # {} /\ l \in consumer.open /\ consumer.select # "stopped"
        /\ UNCHANGED worker /\ ~ lane["consumer"].down
    BY DEF Receives, Running, IInv, Closing
  <1>2. CASE /\ mover[l].pc = "send" /\ AddTo("consumer", mover[l].key)
             /\ mover' = [mover EXCEPT ![l] = [pc |-> "get", key |-> None]]
             /\ consumer' = [consumer EXCEPT !.select = "fast"]
    <2> DEFINE k == mover[l].key
               q == Add(lane["consumer"], k)
               m == [pc |-> "get", key |-> None]
    <2>1. k \in Keys
      BY <1>2 DEF IInv, TypeOK, Mover, Holding, MoverHolds
    <2>2. /\ q \in Lane /\ WellFormed(q) /\ q.down = lane["consumer"].down
          /\ q.processing = lane["consumer"].processing
      BY <2>1, AddLane DEF IInv, TypeOK
    <2>3. lane' = [lane EXCEPT !["consumer"] = q]
      BY <1>2 DEF AddTo
    <2>4. m \in Mover /\ m.pc = "get" /\ m.key = None /\ mover' = [mover EXCEPT ![l] = m]
      BY <1>2 DEF Mover
    <2>5. consumer'.open = consumer.open /\ consumer'.select = "fast"
          /\ consumer' \in [select: {"fast", "both", "stopped"}, open: SUBSET Sources]
      BY <1>2 DEF IInv, TypeOK
    <2> HIDE DEF k, q, m
    <2>6. /\ lane'["consumer"] = q /\ \A n \in Sources : lane'[n] = lane[n]
          /\ lane' \in [Lanes -> Lane] /\ \A n \in Lanes : WellFormed(lane'[n])
      BY <2>2, <2>3, OneLane DEF IInv
    <2>7. /\ mover'[l] = m /\ \A n \in Sources \ {l} : mover'[n] = mover[n]
          /\ mover' \in [Sources -> Mover]
      BY <2>4 DEF IInv, TypeOK
    <2>8. TypeOK'
      BY <1>1, <2>5, <2>6, <2>7 DEF IInv, TypeOK
    <2>9. Holding'
      <3>1. \A n \in Sources : MoverHolds(n)
        BY DEF IInv, Holding
      <3>2. MoverHolds(l)'
        BY <1>2, <2>4, <2>6, <2>7, <3>1 DEF MoverHolds
      <3>3. \A n \in Sources \ {l} : MoverHolds(n)'
        BY <2>6, <2>7, <3>1, SMTT(30) DEF MoverHolds
      <3>4. WorkersHold'
        BY <1>1, <2>2, <2>6, WorkersHoldStill DEF IInv, Holding
      <3> QED BY <3>2, <3>3, <3>4 DEF Holding
    <2>10. Closing'
      <3>1. \A n \in Sources :
              /\ mover'[n].pc = "closed" => lane'[n].down /\ lane'[n].queue = <<>>
              /\ n \notin consumer'.open => mover'[n].pc = "closed"
        BY <1>1, <2>4, <2>5, <2>6, <2>7 DEF IInv, Closing
      <3>2. ~ lane'["consumer"].down
        BY <1>1, <2>2, <2>6
      <3>3. \A w \in Workers : worker'[w].pc # "exited"
        BY <1>1 DEF IInv, Closing
      <3> QED BY <2>5, <3>1, <3>2, <3>3, WorkersAssumption DEF Closing
    <2> QED BY <2>8, <2>9, <2>10 DEF IInv
  <1>3. CASE /\ mover[l].pc = "closed"
             /\ consumer' = [select |-> "fast", open |-> consumer.open \ {l}]
             /\ UNCHANGED <<lane, mover>>
    <2>1. consumer'.open = consumer.open \ {l} /\ consumer'.select = "fast"
          /\ consumer' \in [select: {"fast", "both", "stopped"}, open: SUBSET Sources]
      BY <1>3 DEF IInv, TypeOK
    <2>2. TypeOK'
      BY <1>1, <1>3, <2>1 DEF IInv, TypeOK
    <2>3. Holding'
      BY <1>1, <1>3 DEF IInv, Holding, MoverHolds, WorkersHold
    <2>4. Closing'
      BY <1>1, <1>3, <2>1 DEF IInv, Closing
    <2> QED BY <2>2, <2>3, <2>4 DEF IInv
  <1> QED BY <1>2, <1>3 DEF Receives

\* The consumer closes the third queue when both channels are closed.
LEMMA ConsumerStopsKeeps ==
  ASSUME IInv, ConsumerStops
  PROVE  IInv'
  <1> DEFINE q == [lane["consumer"] EXCEPT !.down = TRUE]
  <1>0. lane["consumer"] \in Lane
    BY DEF IInv, TypeOK
  <1>1. /\ q.queue = lane["consumer"].queue /\ q.dirty = lane["consumer"].dirty
        /\ q.processing = lane["consumer"].processing /\ q.down = TRUE /\ q \in Lane
    BY <1>0 DEF Lane
  <1>2. WellFormed(q)
    BY <1>1, WellFormedLane DEF IInv, TypeOK
  <1>3. lane' = [lane EXCEPT !["consumer"] = q] /\ UNCHANGED <<mover, worker>>
    BY DEF ConsumerStops
  <1>4. /\ consumer'.open = {} /\ consumer.open = {} /\ consumer'.select = "stopped"
        /\ consumer' \in [select: {"fast", "both", "stopped"}, open: SUBSET Sources]
    BY DEF ConsumerStops, Running, IInv, TypeOK
  <1> HIDE DEF q
  <1>5. /\ lane'["consumer"] = q /\ \A m \in Sources : lane'[m] = lane[m]
        /\ lane' \in [Lanes -> Lane] /\ \A m \in Lanes : WellFormed(lane'[m])
    BY <1>1, <1>2, <1>3, OneLane DEF IInv
  <1>6. TypeOK'
    BY <1>3, <1>4, <1>5 DEF IInv, TypeOK
  <1>7. Holding'
    BY <1>1, <1>3, <1>5, WorkersHoldStill DEF IInv, Holding, MoverHolds
  <1>8. Closing'
    BY <1>1, <1>3, <1>4, <1>5 DEF IInv, Closing
  <1> QED BY <1>6, <1>7, <1>8 DEF IInv

\* The consumer turns to both channels.
LEMMA FastIsEmptyKeeps ==
  ASSUME IInv, FastIsEmpty
  PROVE  IInv'
  <1>1. /\ consumer'.open = consumer.open /\ consumer'.select = "both"
        /\ consumer' \in [select: {"fast", "both", "stopped"}, open: SUBSET Sources]
        /\ UNCHANGED <<lane, mover, worker>> /\ consumer.select # "stopped"
    BY DEF FastIsEmpty, LookAgain, IInv, TypeOK
  <1>2. TypeOK'
    BY <1>1 DEF IInv, TypeOK
  <1>3. Holding'
    BY <1>1 DEF IInv, Holding, MoverHolds, WorkersHold
  <1>4. Closing'
    BY <1>1 DEF IInv, Closing
  <1> QED BY <1>2, <1>3, <1>4 DEF IInv

\* What a worker holds is what is processed in the third queue.
LEMMA WorkerKeeps ==
  ASSUME IInv, NEW w \in Workers, NEW q \in Lane, WellFormed(q), NEW x \in Worker,
         lane' = [lane EXCEPT !["consumer"] = q], worker' = [worker EXCEPT ![w] = x],
         UNCHANGED <<mover, consumer>>, q.down = lane["consumer"].down,
         x.key # None <=> x.pc = "run",
         x.key # None => x.key \notin lane["consumer"].processing,
         q.processing = (lane["consumer"].processing \ {worker[w].key}) \cup ({x.key} \ {None}),
         x.pc = "exited" => q.down /\ q.queue = <<>>
  PROVE  IInv'
  <1>1. /\ lane'["consumer"] = q /\ \A n \in Sources : lane'[n] = lane[n]
        /\ lane' \in [Lanes -> Lane] /\ \A n \in Lanes : WellFormed(lane'[n])
    BY OneLane DEF IInv
  <1>2. /\ worker'[w] = x /\ \A v \in Workers \ {w} : worker'[v] = worker[v]
        /\ worker' \in [Workers -> Worker]
    BY DEF IInv, TypeOK
  <1>3. TypeOK'
    BY <1>1, <1>2 DEF IInv, TypeOK
  <1>4. \A n \in Sources : MoverHolds(n)'
    BY <1>1 DEF IInv, Holding, MoverHolds
  <1>5. WorkersHold'
    <2>1. \A v \in Workers : worker'[v].key # None <=> worker'[v].pc = "run"
      BY <1>2 DEF IInv, Holding, WorkersHold
    <2>2. \A v \in Workers : worker[v].key # None => worker[v].key \in lane["consumer"].processing
      BY DEF IInv, Holding, WorkersHold
    <2>3. \A u, v \in Workers :
            worker'[u].key # None /\ worker'[u].key = worker'[v].key => u = v
      BY <1>2, <2>2 DEF IInv, Holding, WorkersHold
    <2>4. lane'["consumer"].processing = {worker'[v].key : v \in Workers} \ {None}
      <3>1. lane["consumer"].processing = {worker[v].key : v \in Workers} \ {None}
        BY DEF IInv, Holding, WorkersHold
      <3>2. \A v \in Workers \ {w} : worker[v].key # None => worker[v].key # worker[w].key
        BY DEF IInv, Holding, WorkersHold
      <3> QED BY <1>1, <1>2, <3>1, <3>2
    <2> QED BY <2>1, <2>3, <2>4 DEF WorkersHold
  <1>6. Closing'
    <2>1. \A v \in Workers : worker'[v].pc = "exited" => lane'["consumer"].down
      BY <1>1, <1>2 DEF IInv, Closing
    <2>2. (\A v \in Workers : worker'[v].pc = "exited") => lane'["consumer"].queue = <<>>
      BY <1>1, <1>2
    <2> QED BY <1>1, <2>1, <2>2 DEF IInv, Closing
  <1> QED BY <1>3, <1>4, <1>5, <1>6 DEF IInv, Holding

\* A worker takes a key, or leaves when the third queue is closed and empty.
LEMMA WorkerGetsKeeps ==
  ASSUME IInv, NEW w \in Workers, WorkerGets(w)
  PROVE  IInv'
  <1>1. /\ lane["consumer"] \in Lane /\ WellFormed(lane["consumer"])
        /\ worker[w] \in Worker /\ worker[w].pc = "get" /\ worker[w].key = None
        /\ None \notin lane["consumer"].processing /\ UNCHANGED <<mover, consumer>>
    BY KeysAssumption DEF WorkerGets, IInv, TypeOK, Holding, WorkersHold
  <1>2. CASE /\ lane["consumer"].queue # <<>>
             /\ lane' = [lane EXCEPT !["consumer"] = Get(@)]
             /\ worker' = [worker EXCEPT ![w] = [pc |-> "run", key |-> Head(lane["consumer"].queue)]]
    <2> DEFINE q == Get(lane["consumer"])
               x == [pc |-> "run", key |-> Head(lane["consumer"].queue)]
    <2>1. /\ q \in Lane /\ WellFormed(q) /\ q.down = lane["consumer"].down
          /\ q.processing = lane["consumer"].processing \cup {x.key}
          /\ x.key \in Keys /\ x.key \notin lane["consumer"].processing
      BY <1>1, <1>2, GetLane
    <2>2. x \in Worker /\ x.pc = "run" /\ x.key # None
      BY <2>1, KeysAssumption DEF Worker
    <2>3. lane' = [lane EXCEPT !["consumer"] = q] /\ worker' = [worker EXCEPT ![w] = x]
      BY <1>2
    <2> HIDE DEF q, x
    <2>4. q.processing =
            (lane["consumer"].processing \ {worker[w].key}) \cup ({x.key} \ {None})
      BY <1>1, <2>1, <2>2
    <2> QED BY <1>1, <2>1, <2>2, <2>3, <2>4, WorkerKeeps
  <1>3. CASE /\ lane["consumer"].queue = <<>> /\ lane["consumer"].down
             /\ worker' = [worker EXCEPT ![w].pc = "exited"] /\ UNCHANGED lane
    <2> DEFINE x == [worker[w] EXCEPT !.pc = "exited"]
               q == lane["consumer"]
    <2>1. x \in Worker /\ x.pc = "exited" /\ x.key = None
      BY <1>1 DEF Worker
    <2>2. lane' = [lane EXCEPT !["consumer"] = q] /\ worker' = [worker EXCEPT ![w] = x]
      BY <1>3 DEF IInv, TypeOK
    <2>3. q \in Lane /\ WellFormed(q) /\ q.down = lane["consumer"].down /\ q.down /\ q.queue = <<>>
      BY <1>1, <1>3
    <2>4. q.processing =
            (lane["consumer"].processing \ {worker[w].key}) \cup ({x.key} \ {None})
      BY <1>1, <2>1
    <2> HIDE DEF q, x
    <2> QED BY <1>1, <2>1, <2>2, <2>3, <2>4, WorkerKeeps
  <1> QED BY <1>2, <1>3 DEF WorkerGets

\* A worker is done with its key.
LEMMA WorkerDoneKeeps ==
  ASSUME IInv, NEW w \in Workers, WorkerDone(w)
  PROVE  IInv'
  <1> DEFINE k == worker[w].key
             q == Done(lane["consumer"], k)
             x == [pc |-> "get", key |-> None]
  <1>1. /\ lane["consumer"] \in Lane /\ WellFormed(lane["consumer"])
        /\ k \in lane["consumer"].processing /\ UNCHANGED <<mover, consumer>>
    BY DEF WorkerDone, IInv, TypeOK, Holding, WorkersHold
  <1>2. x \in Worker /\ x.pc = "get" /\ x.key = None
    BY DEF Worker
  <1>3. lane' = [lane EXCEPT !["consumer"] = q] /\ worker' = [worker EXCEPT ![w] = x]
    BY DEF WorkerDone
  <1> HIDE DEF k, x
  <1>4. /\ q \in Lane /\ WellFormed(q) /\ q.down = lane["consumer"].down
        /\ q.processing = lane["consumer"].processing \ {k}
    BY <1>1, DoneLane
  <1> HIDE DEF q
  <1>5. q.processing = (lane["consumer"].processing \ {worker[w].key}) \cup ({x.key} \ {None})
    BY <1>2, <1>4 DEF k
  <1> QED BY <1>1, <1>2, <1>3, <1>4, <1>5, WorkerKeeps

\* Every step keeps the invariant.
LEMMA Inductive == IInv /\ [Next]_vars => IInv'
  <1> SUFFICES ASSUME IInv, [Next]_vars PROVE IInv'
    OBVIOUS
  <1>1. ASSUME NEW k \in Keys, Enqueue(k) \/ EnqueueSlow(k) PROVE IInv'
    BY <1>1, AddKeeps DEF Enqueue, EnqueueSlow
  <1>2. ASSUME NEW l \in Sources, ShutDown(l) \/ Mover1(l) PROVE IInv'
    BY <1>2, ShutDownKeeps, MoverGetsKeeps, MoverDoneKeeps DEF Mover1
  <1>3. CASE Consumer1
    BY <1>3, ReceivesKeeps, FastIsEmptyKeeps, ConsumerStopsKeeps DEF Consumer1
  <1>4. ASSUME NEW w \in Workers, Worker1(w) PROVE IInv'
    BY <1>4, WorkerGetsKeeps, WorkerDoneKeeps DEF Worker1
  <1>5. CASE UNCHANGED vars
    <2>1. UNCHANGED <<lane, mover, consumer, worker>>
      BY <1>5 DEF vars
    <2>2. TypeOK' /\ Closing'
      BY <2>1 DEF IInv, TypeOK, Closing
    <2>3. Holding'
      BY <2>1 DEF IInv, Holding, MoverHolds, WorkersHold
    <2> QED BY <2>2, <2>3 DEF IInv
  <1> QED BY <1>1, <1>2, <1>3, <1>4, <1>5 DEF Next

\* So the invariant holds throughout.
LEMMA IInvHolds == Spec => []IInv
  BY InitIInv, Inductive, PTL DEF Spec

-------------------------------------------------------------------------------
(* The properties *)

\* Every lane stays as queue.go:191 describes it.
THEOREM TypeOKHolds == Spec => []TypeOK
  BY IInvHolds, PTL DEF IInv

\* When the workers have exited there is no key left in any of the three queues, nor in
\* the hand of a goroutine between them.
THEOREM NothingLeftBehindHolds == Spec => []NothingLeftBehind
  <1>1. IInv => NothingLeftBehind
    <2> SUFFICES ASSUME IInv, \A w \in Workers : worker[w].pc = "exited" PROVE Waiting = {}
      BY DEF NothingLeftBehind
    <2>1. /\ consumer.open = {} /\ lane["consumer"].queue = <<>>
          /\ \A l \in Sources : mover[l].pc = "closed" /\ lane[l].queue = <<>>
      BY WorkersAssumption DEF IInv, Closing
    <2>2. \A l \in Sources : mover[l].key = None /\ lane[l].processing = {}
      BY <2>1 DEF IInv, Holding, MoverHolds
    <2>3. lane["consumer"].processing = {}
      BY DEF IInv, Holding, WorkersHold
    <2>4. \A l \in Lanes : lane[l].dirty = {}
      <3> SUFFICES ASSUME NEW l \in Lanes PROVE lane[l].dirty = {}
        OBVIOUS
      <3>1. Elements(lane[l].queue) = lane[l].dirty \ lane[l].processing
        BY WellFormedLane DEF IInv, TypeOK
      <3>2. Elements(lane[l].queue) = {}
        BY <2>1 DEF Elements
      <3> QED BY <2>2, <2>3, <3>1, <3>2
    <2> QED BY <2>2, <2>4 DEF Waiting, Underway
  <1> QED BY <1>1, IInvHolds, PTL

\* What is on its way, when one lane has changed.
LEMMA StillWaiting ==
  ASSUME \A l \in Lanes : lane'[l].dirty = lane[l].dirty,
         \A l \in Sources : mover'[l].key = mover[l].key
  PROVE  UNCHANGED Waiting
  BY DEF Waiting, Underway

\* Three queues, two goroutines that empty one and a consumer are together what a
\* reconciler relies on: a queue of keys of which no two workers have the same, and that
\* loses none.
THEOREM ImplementsKeyedWorkHolds == Spec => ImplementsKeyedWork
  <1> DEFINE running == [w \in Workers |-> worker[w].key]
             ANext   == [Abstract!Next]_<<Waiting, running>>
  <1>1. Init => Abstract!Init
    <2> SUFFICES ASSUME Init PROVE Waiting = {} /\ running = [w \in Workers |-> None]
      BY DEF Abstract!Init
    <2>1. Waiting = {}
      BY DEF Init, EmptyLane, Waiting, Underway
    <2>2. running = [w \in Workers |-> None]
      BY DEF Init
    <2> QED BY <2>1, <2>2
  <1>2. IInv /\ [Next]_vars => ANext
    <2> SUFFICES ASSUME IInv, [Next]_vars PROVE ANext
      OBVIOUS
    <2>1. ASSUME NEW k \in Keys, NEW l \in Sources, AddTo(l, k),
                 UNCHANGED <<mover, consumer, worker>>
          PROVE  ANext
      <3> DEFINE q == Add(lane[l], k)
      <3>1. q \in Lane /\ WellFormed(q)
            /\ q.dirty = IF lane[l].down THEN lane[l].dirty ELSE lane[l].dirty \cup {k}
        BY AddLane DEF IInv, TypeOK
      <3>2. lane' = [lane EXCEPT ![l] = q] /\ TypeOK
        BY <2>1 DEF AddTo, IInv
      <3> HIDE DEF q
      <3>3. lane'[l] = q /\ \A m \in Lanes \ {l} : lane'[m] = lane[m]
        BY <3>1, <3>2, OneLane
      <3>4. Waiting' \in {Waiting, Waiting \cup {k}}
        BY <2>1, <3>1, <3>3 DEF Waiting, Underway
      <3>5. UNCHANGED running
        BY <2>1
      <3> QED BY <3>4, <3>5 DEF Abstract!Next, Abstract!Ask
    <2>2. ASSUME NEW k \in Keys, Enqueue(k) \/ EnqueueSlow(k) PROVE ANext
      BY <2>1, <2>2 DEF Enqueue, EnqueueSlow
    <2>3. ASSUME NEW l \in Sources, ShutDown(l) PROVE ANext
      <3>1. \A m \in Lanes : lane'[m].dirty = lane[m].dirty
        BY <2>3 DEF ShutDown, IInv, TypeOK, Lane
      <3>2. UNCHANGED <<mover, worker>>
        BY <2>3 DEF ShutDown
      <3> QED BY <3>1, <3>2, StillWaiting
    <2>4. ASSUME NEW l \in Sources, MoverGets(l) PROVE ANext
      <3>1. UNCHANGED worker /\ mover[l].key = None /\ mover[l].pc = "get"
        BY <2>4 DEF MoverGets, IInv, Holding, MoverHolds
      <3>2. CASE /\ lane[l].queue # <<>>
                 /\ lane' = [lane EXCEPT ![l] = Get(@)]
                 /\ mover' = [mover EXCEPT ![l] = [pc |-> "done", key |-> Head(lane[l].queue)]]
        <4> DEFINE q == Get(lane[l])
                   k == Head(lane[l].queue)
        <4>1. q \in Lane /\ WellFormed(q) /\ k \in lane[l].dirty /\ k \in Keys
              /\ q.dirty = lane[l].dirty \ {k}
          BY <3>2, GetLane DEF IInv, TypeOK
        <4>2. lane' = [lane EXCEPT ![l] = q] /\ TypeOK
          BY <3>2 DEF IInv
        <4> HIDE DEF q, k
        <4>3. lane'[l] = q /\ \A m \in Lanes \ {l} : lane'[m] = lane[m]
          BY <4>1, <4>2, OneLane
        <4>4. mover'[l].key = k /\ \A m \in Sources \ {l} : mover'[m] = mover[m]
          BY <3>2 DEF IInv, TypeOK, k
        <4>5. Underway(l)' = Underway(l)
          BY <3>1, <4>1, <4>3, <4>4, KeysAssumption DEF Underway
        <4>6. \A m \in Sources \ {l} : Underway(m)' = Underway(m)
          BY <4>3, <4>4 DEF Underway
        <4> QED BY <3>1, <4>3, <4>5, <4>6 DEF Waiting
      <3>3. CASE /\ mover' = [mover EXCEPT ![l].pc = "closed"] /\ UNCHANGED lane
        <4>1. \A m \in Sources : mover'[m].key = mover[m].key
          BY <3>3 DEF IInv, TypeOK, Mover
        <4> QED BY <3>1, <3>3, <4>1, StillWaiting
      <3> QED BY <2>4, <3>2, <3>3 DEF MoverGets
    <2>5. ASSUME NEW l \in Sources, MoverDone(l) PROVE ANext
      <3> DEFINE q == Done(lane[l], mover[l].key)
      <3>1. q \in Lane /\ WellFormed(q) /\ q.dirty = lane[l].dirty
        BY <2>5, DoneLane DEF MoverDone, IInv, TypeOK, Holding, MoverHolds
      <3>2. lane' = [lane EXCEPT ![l] = q] /\ TypeOK
        BY <2>5 DEF MoverDone, IInv
      <3> HIDE DEF q
      <3>3. \A m \in Lanes : lane'[m].dirty = lane[m].dirty
        BY <3>1, <3>2, OneLane
      <3>4. \A m \in Sources : mover'[m].key = mover[m].key
        BY <2>5 DEF MoverDone, IInv, TypeOK, Mover
      <3> QED BY <2>5, <3>3, <3>4, StillWaiting DEF MoverDone
    <2>6. ASSUME NEW l \in Sources, Receives(l) PROVE ANext
      <3>1. ~ lane["consumer"].down /\ UNCHANGED worker
        BY <2>6 DEF Receives, IInv, Closing
      <3>2. CASE /\ mover[l].pc = "send" /\ AddTo("consumer", mover[l].key)
                 /\ mover' = [mover EXCEPT ![l] = [pc |-> "get", key |-> None]]
        <4> DEFINE k == mover[l].key
                   q == Add(lane["consumer"], k)
        <4>1. k \in Keys
          BY <3>2 DEF IInv, TypeOK, Mover, Holding, MoverHolds
        <4>2. q \in Lane /\ WellFormed(q) /\ q.dirty = lane["consumer"].dirty \cup {k}
          <5>1. lane["consumer"] \in Lane /\ WellFormed(lane["consumer"])
            BY DEF IInv, TypeOK
          <5> QED BY <3>1, <4>1, <5>1, AddLane
        <4>3. lane' = [lane EXCEPT !["consumer"] = q] /\ TypeOK
          BY <3>2 DEF AddTo, IInv
        <4>4. mover'[l].key = None /\ \A m \in Sources \ {l} : mover'[m] = mover[m]
          BY <3>2 DEF IInv, TypeOK
        <4> HIDE DEF q
        <4>5. lane'["consumer"] = q /\ \A m \in Sources : lane'[m] = lane[m]
          BY <4>2, <4>3, OneLane
        <4>6. Underway(l) = Underway(l)' \cup {k}
          BY <4>1, <4>4, <4>5, KeysAssumption DEF Underway
        <4>7. \A m \in Sources \ {l} : Underway(m)' = Underway(m)
          BY <4>4, <4>5 DEF Underway
        <4>8. lane'["consumer"].dirty = lane["consumer"].dirty \cup {k}
          BY <4>2, <4>5
        <4> HIDE DEF k
        <4> QED BY <3>1, <4>6, <4>7, <4>8 DEF Waiting
      <3>3. CASE UNCHANGED <<lane, mover>>
        BY <3>1, <3>3 DEF Waiting, Underway
      <3> QED BY <2>6, <3>2, <3>3 DEF Receives
    <2>7. CASE FastIsEmpty
      BY <2>7 DEF FastIsEmpty, Waiting, Underway
    <2>8. CASE ConsumerStops
      <3>1. \A m \in Lanes : lane'[m].dirty = lane[m].dirty
        BY <2>8 DEF ConsumerStops, IInv, TypeOK, Lane
      <3>2. UNCHANGED <<mover, worker>>
        BY <2>8 DEF ConsumerStops
      <3> QED BY <3>1, <3>2, StillWaiting
    <2>9. ASSUME NEW w \in Workers, WorkerGets(w) PROVE ANext
      <3>1. /\ UNCHANGED mover /\ worker[w].key = None /\ worker[w] \in Worker
            /\ lane["consumer"] \in Lane /\ WellFormed(lane["consumer"])
        BY <2>9 DEF WorkerGets, IInv, TypeOK, Holding, WorkersHold
      <3>2. CASE /\ lane["consumer"].queue # <<>>
                 /\ lane' = [lane EXCEPT !["consumer"] = Get(@)]
                 /\ worker' = [worker EXCEPT ![w] = [pc |-> "run", key |-> Head(lane["consumer"].queue)]]
        <4> DEFINE q == Get(lane["consumer"])
                   k == Head(lane["consumer"].queue)
        <4>1. /\ q \in Lane /\ WellFormed(q) /\ q.dirty = lane["consumer"].dirty \ {k}
              /\ k \in lane["consumer"].dirty /\ k \in Keys
              /\ k \notin lane["consumer"].processing
          BY <3>1, <3>2, GetLane
        <4>2. lane' = [lane EXCEPT !["consumer"] = q] /\ TypeOK
          BY <3>2 DEF IInv
        <4>3. worker' = [worker EXCEPT ![w] = [pc |-> "run", key |-> k]]
          BY <3>2
        <4> HIDE DEF q, k
        <4>4. lane'["consumer"] = q /\ \A m \in Sources : lane'[m] = lane[m]
          BY <4>1, <4>2, OneLane
        <4>5. Waiting' \in {Waiting, Waiting \ {k}} /\ k \in Waiting
          BY <3>1, <4>1, <4>4 DEF Waiting, Underway
        <4>6. running' = [running EXCEPT ![w] = k]
          BY <4>3 DEF IInv, TypeOK
        <4>7. running[w] = None /\ \A v \in Workers : running[v] # k
          BY <3>1, <4>1, KeysAssumption DEF IInv, Holding, WorkersHold
        <4>8. \E j \in Keys : Abstract!Start(w, j)
          BY <4>1, <4>5, <4>6, <4>7 DEF Abstract!Start
        <4> QED BY <4>8, Zenon DEF Abstract!Next
      <3>3. CASE /\ worker' = [worker EXCEPT ![w].pc = "exited"] /\ UNCHANGED lane
        <4>1. \A v \in Workers : worker'[v].key = worker[v].key
          BY <3>3 DEF IInv, TypeOK, Worker
        <4>2. UNCHANGED Waiting
          BY <3>1, <3>3 DEF Waiting, Underway
        <4> QED BY <4>1, <4>2
      <3> QED BY <2>9, <3>2, <3>3 DEF WorkerGets
    <2>10. ASSUME NEW w \in Workers, WorkerDone(w) PROVE ANext
      <3> DEFINE k == worker[w].key
                 q == Done(lane["consumer"], k)
      <3>1. /\ lane["consumer"] \in Lane /\ WellFormed(lane["consumer"]) /\ k # None
            /\ k \in lane["consumer"].processing /\ UNCHANGED mover
        BY <2>10 DEF WorkerDone, IInv, TypeOK, Holding, WorkersHold
      <3>2. lane' = [lane EXCEPT !["consumer"] = q] /\ TypeOK
        BY <2>10 DEF WorkerDone, IInv
      <3>3. worker' = [worker EXCEPT ![w] = [pc |-> "get", key |-> None]]
        BY <2>10 DEF WorkerDone
      <3>4. q \in Lane /\ WellFormed(q) /\ q.dirty = lane["consumer"].dirty
        BY <3>1, DoneLane
      <3> HIDE DEF q
      <3>5. UNCHANGED Waiting
        BY <3>1, <3>2, <3>4, OneLane, StillWaiting
      <3>6. running' = [running EXCEPT ![w] = None] /\ running[w] # None
        BY <3>1, <3>3 DEF IInv, TypeOK
      <3> QED BY <3>5, <3>6 DEF Abstract!Next, Abstract!Finish
    <2>11. CASE UNCHANGED vars
      BY <2>11 DEF vars, Waiting, Underway
    <2> QED BY <2>2, <2>3, <2>4, <2>5, <2>6, <2>7, <2>8, <2>9, <2>10, <2>11
            DEF Next, Mover1, Consumer1, Worker1
  <1> QED BY <1>1, <1>2, IInvHolds, PTL DEF Spec, ImplementsKeyedWork, Abstract!Spec
===============================================================================
