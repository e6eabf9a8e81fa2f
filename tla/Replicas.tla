------------------------------- MODULE Replicas -------------------------------
(***************************************************************************)
(* Several replicas of the autoscaler and one PodAutoscaler (PA) that may  *)
(* be deleted and created again under its name.  One replica holds the     *)
(* lease, but a run that has begun is not stopped when its replica is      *)
(* demoted, and the promotion is a goroutine that may run after the        *)
(* demotion; each replica acts on caches of its own.  What a run does is   *)
(* cut down to the ScaledObject (SO); the rest is KedaReconciler's.        *)
(***************************************************************************)
EXTENDS Naturals

CONSTANTS Replicas, None,
  MaxEdits, MaxLosses      \* bound the edits of the PA and the lost leases

ASSUME ReplicasAssumption == None \notin Replicas /\ {MaxEdits, MaxLosses} \subseteq Nat

VARIABLES
  pa,          \* at the API server: the PA's uid and what it asks for
  so,          \* at the API server: the SO's owner and what it says
  lease,       \* the replica that holds it
  elector,     \* replica -> "waits", "leads"; "renews" until the goroutine has run
  late,        \* the replicas whose promotion is late: they have been demoted before
  leading,     \* the replicas whose LeaderAwareFuncs have the bucket
  cache,       \* replica -> the PA and SO its informers know; is that SO the latest?
  run,         \* replica -> the run under way
  lateWrites,  \* replica -> the SO's it has written since it was demoted
  edits, losses

election == <<lease, elector, late, leading>>
vars == <<pa, so, election, cache, run, lateWrites, edits, losses>>

Uids == 0 .. MaxEdits
Old  == MaxEdits + 1     \* what an SO may say that an earlier process made
PA   == [uid: Uids, spec: Uids]
SO   == [owner: Uids, spec: Uids \cup {Old}]

Idle == [pc |-> "idle", pa |-> None, so |-> None, latest |-> FALSE]

Init ==
  /\ pa = [uid |-> 0, spec |-> 0] /\ so \in {None, [owner |-> 0, spec |-> Old]}
  /\ lease = None /\ elector = [r \in Replicas |-> "waits"] /\ late = {} /\ leading = {}
  /\ cache = [r \in Replicas |-> [pa |-> None, so |-> None, latest |-> so = None]]
  /\ run = [r \in Replicas |-> Idle]
  /\ lateWrites = [r \in Replicas |-> 0] /\ edits = 0 /\ losses = 0

-------------------------------------------------------------------------------
(* Election *)

Acquire(r) ==
  /\ lease = None /\ elector[r] = "waits"
  /\ lease' = r /\ elector' = [elector EXCEPT ![r] = "renews"]
  /\ UNCHANGED <<pa, so, late, leading, cache, run, lateWrites, edits, losses>>

\* OnStartedLeading: the bucket is entered, and the PAs in the store are listed for the queue.
Promote(r) ==
  /\ elector[r] = "renews" \/ r \in late
  /\ IF r \in late THEN late' = late \ {r} /\ UNCHANGED elector
     ELSE elector' = [elector EXCEPT ![r] = "leads"] /\ UNCHANGED late
  /\ leading' = leading \cup {r}
  /\ lateWrites' = [lateWrites EXCEPT ![r] = 0]
  /\ UNCHANGED <<pa, so, lease, cache, run, edits, losses>>

\* The lease runs out or is given up; another replica may have it at once.
LoseLease ==
  /\ lease # None /\ losses < MaxLosses /\ losses' = losses + 1
  /\ lease' = None
  /\ UNCHANGED <<pa, so, elector, late, leading, cache, run, lateWrites, edits>>

\* OnStoppedLeading, whether or not the promotion has run.
Demote(r) ==
  /\ elector[r] # "waits" /\ lease # r
  /\ late' = IF elector[r] = "renews" THEN late \cup {r} ELSE late
  /\ elector' = [elector EXCEPT ![r] = "waits"]
  /\ leading' = leading \ {r}
  /\ UNCHANGED <<pa, so, lease, cache, run, lateWrites, edits, losses>>

-------------------------------------------------------------------------------
(* Events *)

ObservePA(r) ==
  /\ cache[r].pa # pa
  /\ cache' = [cache EXCEPT ![r].pa = pa]
  /\ UNCHANGED <<pa, so, election, run, lateWrites, edits, losses>>

\* Nothing is enqueued for a ScaledObject.
ObserveSO(r) ==
  /\ ~ cache[r].latest
  /\ cache' = [cache EXCEPT ![r] = [pa |-> @.pa, so |-> so, latest |-> TRUE]]
  /\ UNCHANGED <<pa, so, election, run, lateWrites, edits, losses>>

-------------------------------------------------------------------------------
(* A run *)

MayRunAlways(r) == TRUE             \* mutant: does not ask who leads
MayRun(r)       == r \in leading

\* The key comes up again and again: with an event, a retry, a promotion, and every
\* resync period of the informers.  A replica that does not lead skips it.
Start(r) ==
  /\ run[r] = Idle /\ MayRun(r)
  /\ run' = [run EXCEPT ![r].pc = "pa"]
  /\ UNCHANGED <<pa, so, election, cache, lateWrites, edits, losses>>

ReadPA(r) ==
  /\ run[r].pc = "pa"
  /\ run' = [run EXCEPT ![r] = IF cache[r].pa = None THEN Idle
                               ELSE [Idle EXCEPT !.pc = "so", !.pa = cache[r].pa]]
  /\ UNCHANGED <<pa, so, election, cache, lateWrites, edits, losses>>

ReadSO(r) ==
  /\ run[r].pc = "so"
  /\ run' = [run EXCEPT ![r] = [pc |-> "write", pa |-> @.pa,
                                so |-> cache[r].so, latest |-> cache[r].latest]]
  /\ UNCHANGED <<pa, so, election, cache, lateWrites, edits, losses>>

\* The SO changes: no copy of it is the latest any more.
SOBecomes(v, runs) ==
  /\ so' = v
  /\ cache' = [q \in Replicas |-> [cache[q] EXCEPT !.latest = FALSE]]
  /\ run' = [q \in Replicas |-> [runs[q] EXCEPT !.latest = FALSE]]

\* Is the SO this PA's, and not that of another with its name?
Owned(s, p) == s.owner = p.uid

NeedsUpdateNever(s, p) == FALSE     \* mutant: an SO that is there is left alone
NeedsUpdate(s, p)      == s.spec # p.spec

\* Whether the run has something to send to the API server, and whether that takes it:
\* a Create if there is no SO, an Update of the version that was read.
Sends(r) ==
  LET c == run[r] IN
  IF c.so = None THEN TRUE ELSE Owned(c.so, c.pa) /\ NeedsUpdate(c.so, c.pa)

\* What a run makes of its PA; the mutant gives it no controller.
DesiredUnowned(p) == [owner |-> None, spec |-> p.spec]
Desired(p)        == [owner |-> p.uid, spec |-> p.spec]

AcceptsAny(r) == (run[r].so = None) = (so = None)    \* mutant: whatever the version
Accepts(r)    == IF run[r].so = None THEN so = None ELSE run[r].latest /\ so # None

\* An Update keeps the owner.  What is not accepted is an error, as is an SO that is not
\* owned: the key is added again.
Write(r) ==
  /\ run[r].pc = "write"
  /\ LET c == run[r]
         ended == [run EXCEPT ![r] = Idle] IN
     \/ /\ Sends(r) /\ Accepts(r)
        /\ SOBecomes(IF so = None THEN Desired(c.pa) ELSE [so EXCEPT !.spec = c.pa.spec], ended)
        /\ lateWrites' = IF r \in leading THEN lateWrites ELSE [lateWrites EXCEPT ![r] = @ + 1]
     \/ /\ ~ (Sends(r) /\ Accepts(r))
        /\ run' = ended
        /\ UNCHANGED <<so, cache, lateWrites>>
  /\ UNCHANGED <<pa, election, edits, losses>>

-------------------------------------------------------------------------------
(* The environment *)

ChangePA ==
  /\ edits < MaxEdits /\ edits' = edits + 1
  /\ \/ pa # None /\ pa' = [pa EXCEPT !.spec = edits + 1]
     \/ pa # None /\ pa' = None
     \/ pa = None /\ pa' = [uid |-> edits + 1, spec |-> edits + 1]
  /\ UNCHANGED <<so, election, cache, run, lateWrites, losses>>

\* The garbage collector.
Collect ==
  /\ so # None /\ ~ (pa # None /\ pa.uid = so.owner)
  /\ SOBecomes(None, run)
  /\ UNCHANGED <<pa, election, lateWrites, edits, losses>>

-------------------------------------------------------------------------------
Runs(r) == Start(r) \/ ReadPA(r) \/ ReadSO(r) \/ Write(r)

Next ==
  \/ LoseLease \/ ChangePA \/ Collect
  \/ \E r \in Replicas : \/ Acquire(r) \/ Promote(r) \/ Demote(r)
                         \/ ObservePA(r) \/ ObserveSO(r) \/ Runs(r)

Spec == Init /\ [][Next]_vars

\* Informers deliver, goroutines go on, the garbage collector comes round, a lease that
\* is free is acquired, and every resync period ends.  The steps that are taken finitely
\* often share a condition.
Fairness ==
  /\ WF_vars(Collect)
  /\ WF_vars(\E r \in Replicas : Acquire(r) \/ Promote(r) \/ Demote(r) \/ ObservePA(r))
  /\ \A r \in Replicas : WF_vars(ObserveSO(r)) /\ WF_vars(Runs(r))

FairSpec == Spec /\ Fairness

-------------------------------------------------------------------------------
Copies   == [pa: PA \cup {None}, so: SO \cup {None}, latest: BOOLEAN]
Runnings == [pc: {"idle", "pa", "so", "write"}, pa: PA \cup {None}, so: SO \cup {None},
             latest: BOOLEAN]

TypeOK ==
  /\ pa \in PA \cup {None} /\ so \in SO \cup {None} /\ lease \in Replicas \cup {None}
  /\ elector \in [Replicas -> {"waits", "renews", "leads"}]
  /\ late \subseteq Replicas /\ leading \subseteq Replicas
  /\ cache \in [Replicas -> Copies] /\ run \in [Replicas -> Runnings]
  /\ lateWrites \in [Replicas -> Nat] /\ edits \in Uids /\ losses \in 0 .. MaxLosses

\* Only a run for the PA that owns an SO changes it: a PA that is created again does not
\* write to the SO of the one before it, which is not collected yet, and a late run for
\* the one before does not write to the SO that was made in the meantime.
OnlyForItsOwner ==
  [][so # None /\ so' # None /\ so' # so =>
       \E r \in Replicas : run[r].pc = "write" /\ run'[r] = Idle /\ run[r].pa.uid = so.owner]_vars

\* A replica that is demoted writes the SO once more at most: in the run it was in.
OneLateWrite == \A r \in Replicas : lateWrites[r] <= 1

\* However replicas overlap and whatever an old leader, or one that was promoted after
\* its demotion, writes last: the SO ends up as the PA that exists asks for, and an SO
\* made for a PA that is gone does not stay.
Settled   == IF pa = None THEN so = None ELSE so = Desired(pa)
Converges == <>[]Settled
===============================================================================
