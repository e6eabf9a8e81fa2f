------------------------------ MODULE KeyedWork ------------------------------
(***************************************************************************)
(* What a reconciler may rely on of its work queue, whatever the queue is  *)
(* made of: a key asked for is due until some worker starts with it, and   *)
(* no two workers have the same key.  A key may be run more often than it  *)
(* was asked for.  KedaReconciler takes its queue to be of this kind.      *)
(***************************************************************************)
CONSTANTS Keys, Workers, None     \* None is no key

VARIABLES due, running    \* the keys to be run; worker -> its key or None

Init == due = {} /\ running = [w \in Workers |-> None]

Ask(k) == due' = due \cup {k} /\ UNCHANGED running

Start(w, k) ==
  /\ k \in due /\ running[w] = None
  /\ \A v \in Workers : running[v] # k
  /\ running' = [running EXCEPT ![w] = k]
  /\ due' \in {due, due \ {k}}

Finish(w) ==
  /\ running[w] # None
  /\ running' = [running EXCEPT ![w] = None]
  /\ UNCHANGED due

Next == \/ \E k \in Keys : Ask(k)
        \/ \E w \in Workers : Finish(w) \/ \E k \in Keys : Start(w, k)

Spec == Init /\ [][Next]_<<due, running>>
===============================================================================
