---------------------------- MODULE ReplicasProofs ----------------------------
(***************************************************************************)
(* For any number of replicas, edits and lost leases: an SO is written for *)
(* its owner only, and once at most by a replica after its demotion.       *)
(***************************************************************************)
EXTENDS Replicas, TLAPS

\* What is taken for the latest SO is it, so that an Update that is accepted changes the
\* SO whose owner the run has compared with its PA.
Latest ==
  \A r \in Replicas :
    /\ cache[r].latest => cache[r].so = so
    /\ run[r].latest => run[r].so = so
    /\ run[r].pc \in {"so", "write"} => run[r].pa # None

\* A replica that has written since its demotion has no run left, and begins none.
Late ==
  \A r \in Replicas :
    /\ r \in leading => lateWrites[r] = 0
    /\ lateWrites[r] \in {0, 1} /\ (lateWrites[r] = 1 => run[r].pc = "idle")

IInv == TypeOK /\ Latest /\ Late

-------------------------------------------------------------------------------
(* The operators *)

\* Idle is a run, that has nothing.
LEMMA IdleFields ==
  Idle \in Runnings /\ Idle.pc = "idle" /\ Idle.latest = FALSE
  BY DEF Idle, Runnings

\* What the parts of a copy or of a run are.
LEMMA Fields ==
  /\ \A c \in Copies : /\ c.pa \in PA \cup {None} /\ c.so \in SO \cup {None}
                       /\ c.latest \in BOOLEAN
  /\ \A c \in Runnings : /\ c.pc \in {"idle", "pa", "so", "write"} /\ c.latest \in BOOLEAN
                         /\ c.pa \in PA \cup {None} /\ c.so \in SO \cup {None}
  BY DEF Copies, Runnings

\* A PA and an SO are told from no PA and no SO, for None is neither.
LEMMA Objects ==
  /\ \A p \in PA : p.uid \in Uids /\ p.spec \in Uids
  /\ \A s \in SO : s.owner \in Uids
  /\ \A p \in PA : Desired(p) \in SO
  /\ \A s \in SO : \A p \in PA : [s EXCEPT !.spec = p.spec] \in SO
  BY DEF PA, SO, Desired

\* When the SO changes, nobody has the latest one, and nothing else of the copies and
\* the runs changes.
LEMMA Becomes ==
  ASSUME NEW v \in SO \cup {None}, NEW runs \in [Replicas -> Runnings],
         cache \in [Replicas -> Copies], SOBecomes(v, runs)
  PROVE  /\ so' \in SO \cup {None} /\ so' = v
         /\ cache' \in [Replicas -> Copies] /\ run' \in [Replicas -> Runnings]
         /\ \A q \in Replicas :
              /\ cache'[q].latest = FALSE /\ run'[q].latest = FALSE
              /\ run'[q].pc = runs[q].pc /\ run'[q].pa = runs[q].pa
  <1>1. \A q \in Replicas :
          /\ cache'[q] = [cache[q] EXCEPT !.latest = FALSE]
          /\ run'[q] = [runs[q] EXCEPT !.latest = FALSE]
    BY DEF SOBecomes
  <1>4. cache' = [q \in Replicas |-> cache'[q]] /\ run' = [q \in Replicas |-> run'[q]]
    BY DEF SOBecomes
  <1>5. ASSUME NEW q \in Replicas
        PROVE  /\ cache'[q] \in Copies /\ run'[q] \in Runnings
               /\ cache'[q].latest = FALSE /\ run'[q].latest = FALSE
               /\ run'[q].pc = runs[q].pc /\ run'[q].pa = runs[q].pa
    <2>1. /\ cache[q] \in Copies /\ cache'[q] = [cache[q] EXCEPT !.latest = FALSE]
          /\ runs[q] \in Runnings /\ run'[q] = [runs[q] EXCEPT !.latest = FALSE]
      BY <1>1
    <2> QED BY <2>1 DEF Copies, Runnings
  <1> QED BY <1>4, <1>5 DEF SOBecomes

-------------------------------------------------------------------------------
(* A write *)

\* What Write sends is an SO, and if there is one already it belongs to the PA of the run.
LEMMA Sent ==
  ASSUME IInv, NEW r \in Replicas, run[r].pc = "write", Sends(r), Accepts(r)
  PROVE  /\ run[r].pa \in PA
         /\ so # None => so \in SO /\ run[r].pa.uid = so.owner
         /\ (IF so = None THEN Desired(run[r].pa) ELSE [so EXCEPT !.spec = run[r].pa.spec]) \in SO
  <1>1. run[r] \in Runnings /\ so \in SO \cup {None}
    BY DEF TypeOK, IInv
  <1>2. run[r].pa \in PA
    BY <1>1, Fields DEF IInv, Latest
  <1>3. ASSUME so # None PROVE so \in SO /\ run[r].pa.uid = so.owner
    <2>1. run[r].latest /\ run[r].so # None
      BY <1>3 DEF Accepts
    <2>2. run[r].so = so
      BY <2>1 DEF IInv, Latest
    <2> QED BY <1>1, <1>3, <2>1, <2>2 DEF Sends, Owned
  <1> QED BY <1>2, <1>3, Objects

-------------------------------------------------------------------------------
(* One action at a time *)

\* Every step of a replica, the election, users or the garbage collector keeps the invariant.
LEMMA Steps ==
  ASSUME IInv, Next
  PROVE  IInv'
  <1>0. /\ pa \in PA \cup {None} /\ so \in SO \cup {None} /\ lease \in Replicas \cup {None}
        /\ elector \in [Replicas -> {"waits", "renews", "leads"}]
        /\ late \subseteq Replicas /\ leading \subseteq Replicas
        /\ cache \in [Replicas -> Copies] /\ run \in [Replicas -> Runnings]
        /\ lateWrites \in [Replicas -> Nat] /\ edits \in Uids /\ losses \in 0 .. MaxLosses
    BY DEF TypeOK, IInv
  <1>1. CASE LoseLease
    <2>1. losses' \in 0 .. MaxLosses
      BY <1>0, <1>1, ReplicasAssumption DEF LoseLease
    <2> QED BY <1>0, <1>1, <2>1 DEF TypeOK, LoseLease, IInv, Latest, Late
  <1>2. CASE ChangePA
    <2>1. edits' \in Uids /\ edits + 1 \in Uids
      BY <1>0, <1>2, ReplicasAssumption DEF ChangePA, Uids
    <2>2. pa' \in PA \cup {None}
      <3>1. CASE pa # None /\ pa' = [pa EXCEPT !.spec = edits + 1]
        BY <1>0, <2>1, <3>1 DEF PA
      <3>2. CASE pa' = [uid |-> edits + 1, spec |-> edits + 1]
        BY <2>1, <3>2 DEF PA
      <3> QED BY <1>2, <3>1, <3>2 DEF ChangePA
    <2> QED BY <1>0, <1>2, <2>1, <2>2 DEF TypeOK, ChangePA, IInv, Latest, Late, election
  <1>3. CASE Collect
    <2>1. SOBecomes(None, run) /\ UNCHANGED <<pa, election, lateWrites, edits, losses>>
      BY <1>3 DEF Collect
    <2>2. TypeOK'
      BY <1>0, <2>1, Becomes DEF TypeOK, election
    <2>3. Latest' /\ Late'
      BY <1>0, <2>1, Becomes DEF IInv, Latest, Late, election
    <2> QED BY <2>2, <2>3 DEF IInv
  <1>4. ASSUME NEW r \in Replicas, Acquire(r)
        PROVE  IInv'
    BY <1>0, <1>4 DEF TypeOK, Acquire, IInv, Latest, Late
  <1>5. ASSUME NEW r \in Replicas, Promote(r)
        PROVE  IInv'
    <2>1. TypeOK'
      BY <1>0, <1>5 DEF TypeOK, Promote
    <2>2. Latest' /\ Late'
      BY <1>0, <1>5 DEF Promote, IInv, Latest, Late
    <2> QED BY <2>1, <2>2 DEF IInv
  <1>6. ASSUME NEW r \in Replicas, Demote(r)
        PROVE  IInv'
    <2>1. TypeOK'
      BY <1>0, <1>6 DEF TypeOK, Demote
    <2>2. Latest' /\ Late'
      BY <1>6 DEF Demote, IInv, Latest, Late
    <2> QED BY <2>1, <2>2 DEF IInv
  <1>7. ASSUME NEW r \in Replicas, ObservePA(r)
        PROVE  IInv'
    <2>1. [cache[r] EXCEPT !.pa = pa] \in Copies /\ [cache[r] EXCEPT !.pa = pa].so = cache[r].so
          /\ [cache[r] EXCEPT !.pa = pa].latest = cache[r].latest
      BY <1>0 DEF Copies
    <2>2. /\ cache' = [cache EXCEPT ![r] = [cache[r] EXCEPT !.pa = pa]]
          /\ UNCHANGED <<pa, so, election, run, lateWrites, edits, losses>>
      BY <1>7 DEF ObservePA
    <2>3. cache' \in [Replicas -> Copies]
      BY <1>0, <2>1, <2>2
    <2>4. \A q \in Replicas : cache'[q].latest = cache[q].latest /\ cache'[q].so = cache[q].so
      BY <1>0, <2>1, <2>2
    <2> QED BY <1>0, <2>2, <2>3, <2>4 DEF TypeOK, IInv, Latest, Late, election
  <1>8. ASSUME NEW r \in Replicas, ObserveSO(r)
        PROVE  IInv'
    <2> DEFINE c == [pa |-> cache[r].pa, so |-> so, latest |-> TRUE]
    <2>1. c \in Copies /\ c.so = so
      BY <1>0 DEF Copies
    <2>2. /\ cache' = [cache EXCEPT ![r] = c]
          /\ UNCHANGED <<pa, so, election, run, lateWrites, edits, losses>>
      BY <1>8 DEF ObserveSO
    <2> HIDE DEF c
    <2>3. cache' \in [Replicas -> Copies]
      BY <1>0, <2>1, <2>2
    <2>4. \A q \in Replicas : cache'[q].latest => cache'[q].so = so
      BY <1>0, <2>1, <2>2 DEF IInv, Latest
    <2> QED BY <1>0, <2>2, <2>3, <2>4 DEF TypeOK, IInv, Latest, Late, election
  <1>9. ASSUME NEW r \in Replicas, Start(r)
        PROVE  IInv'
    <2> DEFINE s == [run[r] EXCEPT !.pc = "pa"]
    <2>1. s \in Runnings /\ s.pc = "pa" /\ s.latest = run[r].latest /\ s.so = run[r].so
      BY <1>0 DEF Runnings
    <2>2. /\ run' = [run EXCEPT ![r] = s] /\ r \in leading
          /\ UNCHANGED <<pa, so, election, cache, lateWrites, edits, losses>>
      BY <1>9 DEF Start, MayRun
    <2> HIDE DEF s
    <2>3. TypeOK'
      BY <1>0, <2>1, <2>2 DEF TypeOK, election
    <2>4. Latest' /\ Late'
      BY <1>0, <2>1, <2>2 DEF IInv, Latest, Late, election
    <2> QED BY <2>3, <2>4 DEF IInv
  <1>10. ASSUME NEW r \in Replicas, ReadPA(r)
         PROVE  IInv'
    <2> DEFINE i == [Idle EXCEPT !.pc = "so", !.pa = cache[r].pa]
               s == IF cache[r].pa = None THEN Idle ELSE i
    <2>0. /\ i = [Idle EXCEPT !.pc = "so", !.pa = cache[r].pa]
          /\ Idle = [pc |-> "idle", pa |-> None, so |-> None, latest |-> FALSE]
          /\ s = IF cache[r].pa = None THEN Idle ELSE i
      BY DEF Idle
    <2>1. /\ run' = [run EXCEPT ![r] = s] /\ run[r].pc = "pa"
          /\ UNCHANGED <<pa, so, election, cache, lateWrites, edits, losses>>
      BY <1>10 DEF ReadPA
    <2> HIDE DEF i, s
    <2>2. i = [pc |-> "so", pa |-> cache[r].pa, so |-> None, latest |-> FALSE]
      BY <2>0, Zenon
    <2>3. s \in Runnings /\ s.latest = FALSE /\ (s.pc \in {"so", "write"} => s.pa # None)
      <3>1. CASE cache[r].pa = None
        BY <2>0, <3>1, IdleFields
      <3>2. CASE cache[r].pa # None
        <4>1. s = [pc |-> "so", pa |-> cache[r].pa, so |-> None, latest |-> FALSE]
          BY <2>0, <2>2, <3>2
        <4>2. cache[r].pa \in PA \cup {None}
          BY <1>0, Fields
        <4> QED BY <3>2, <4>1, <4>2 DEF Runnings
      <3> QED BY <3>1, <3>2
    <2>4. TypeOK'
      BY <1>0, <2>3, <2>1 DEF TypeOK, election
    <2>5. Latest' /\ Late'
      BY <1>0, <2>3, <2>1 DEF IInv, Latest, Late, election
    <2> QED BY <2>4, <2>5 DEF IInv
  <1>11. ASSUME NEW r \in Replicas, ReadSO(r)
         PROVE  IInv'
    <2> DEFINE s == [pc |-> "write", pa |-> run[r].pa, so |-> cache[r].so,
                     latest |-> cache[r].latest]
    <2>1. s \in Runnings /\ (s.latest => s.so = so) /\ s.pa = run[r].pa
      BY <1>0, Fields DEF Runnings, IInv, Latest
    <2>2. /\ run' = [run EXCEPT ![r] = s] /\ run[r].pc = "so"
          /\ UNCHANGED <<pa, so, election, cache, lateWrites, edits, losses>>
      BY <1>11 DEF ReadSO
    <2> HIDE DEF s
    <2>3. TypeOK'
      BY <1>0, <2>1, <2>2 DEF TypeOK, election
    <2>4. Latest' /\ Late'
      BY <1>0, <2>1, <2>2 DEF IInv, Latest, Late, election
    <2> QED BY <2>3, <2>4 DEF IInv
  <1>12. ASSUME NEW r \in Replicas, Write(r)
         PROVE  IInv'
    <2> DEFINE ended == [run EXCEPT ![r] = Idle]
               v == IF so = None THEN Desired(run[r].pa) ELSE [so EXCEPT !.spec = run[r].pa.spec]
    <2>1. /\ ended \in [Replicas -> Runnings] /\ ended[r] = Idle
          /\ \A q \in Replicas \ {r} : ended[q] = run[q]
      BY <1>0, IdleFields
    <2>2. /\ run[r].pc = "write" /\ lateWrites[r] = 0
          /\ UNCHANGED <<pa, election, edits, losses>>
      BY <1>12 DEF Write, IInv, Late
    <2>3. CASE Sends(r) /\ Accepts(r)
      <3>1. SOBecomes(v, ended)
            /\ lateWrites' = IF r \in leading THEN lateWrites ELSE [lateWrites EXCEPT ![r] = @ + 1]
        BY <1>12, <2>3 DEF Write
      <3>2. v \in SO
        BY <2>2, <2>3, Sent
      <3> HIDE DEF ended, v
      <3>3. /\ so' \in SO \cup {None} /\ cache' \in [Replicas -> Copies]
            /\ run' \in [Replicas -> Runnings]
            /\ \A q \in Replicas :
                 /\ cache'[q].latest = FALSE /\ run'[q].latest = FALSE
                 /\ run'[q].pc = ended[q].pc /\ run'[q].pa = ended[q].pa
        BY <1>0, <2>1, <3>1, <3>2, Becomes
      <3>4. /\ lateWrites' \in [Replicas -> Nat]
            /\ \A q \in Replicas \ {r} : lateWrites'[q] = lateWrites[q]
            /\ lateWrites'[r] \in {0, 1} /\ (r \in leading => lateWrites'[r] = 0)
        BY <1>0, <2>2, <3>1
      <3>5. TypeOK'
        BY <1>0, <2>2, <3>3, <3>4 DEF TypeOK, election
      <3>6. Latest'
        BY <2>1, <3>3, IdleFields DEF IInv, Latest
      <3>7. Late'
        BY <2>1, <2>2, <3>3, <3>4, IdleFields DEF IInv, Late, election
      <3> QED BY <3>5, <3>6, <3>7 DEF IInv
    <2>4. CASE ~ (Sends(r) /\ Accepts(r))
      <3>1. run' = ended /\ UNCHANGED <<so, cache, lateWrites>>
        BY <1>12, <2>4 DEF Write
      <3> HIDE DEF ended
      <3>2. TypeOK'
        BY <1>0, <2>1, <2>2, <3>1 DEF TypeOK, election
      <3>3. Latest' /\ Late'
        BY <2>1, <2>2, <3>1, IdleFields DEF IInv, Latest, Late, election
      <3> QED BY <3>2, <3>3 DEF IInv
    <2> QED BY <2>3, <2>4
  <1> QED BY <1>1, <1>2, <1>3, <1>4, <1>5, <1>6, <1>7, <1>8, <1>9, <1>10, <1>11, <1>12
          DEF Next, Runs

-------------------------------------------------------------------------------
(* Theorems *)

\* So the invariant holds throughout.
LEMMA IInvHolds == Spec => []IInv
  <1>1. Init => IInv
    <2>1. ASSUME Init PROVE TypeOK
      <3>1. /\ [uid |-> 0, spec |-> 0] \in PA /\ [owner |-> 0, spec |-> Old] \in SO /\ 0 \in Uids
            /\ 0 \in 0 .. MaxLosses
        BY ReplicasAssumption DEF PA, SO, Uids
      <3>2. cache \in [Replicas -> Copies] /\ run \in [Replicas -> Runnings]
        BY <2>1, <3>1, IdleFields DEF Init, Copies
      <3> QED BY <2>1, <3>1, <3>2 DEF TypeOK, Init
    <2>2. ASSUME Init PROVE Latest /\ Late
      BY <2>2, IdleFields DEF Init, Latest, Late
    <2> QED BY <2>1, <2>2 DEF IInv
  <1>2. IInv /\ [Next]_vars => IInv'
    <2>1. CASE Next
      BY <2>1, Steps
    <2>2. ASSUME IInv, UNCHANGED vars
          PROVE  IInv'
      BY <2>2 DEF vars, election, IInv, TypeOK, Latest, Late
    <2> QED BY <2>1, <2>2
  <1> QED BY <1>1, <1>2, PTL DEF Spec

\* The election, the copies and the runs of the replicas are well formed.
THEOREM TypeOKHolds == Spec => []TypeOK
  BY IInvHolds, PTL DEF IInv

\* A replica writes the SO at most once after its demotion, however late it learns of it.
THEOREM OneLateWriteHolds == Spec => []OneLateWrite
  <1>1. ASSUME IInv PROVE OneLateWrite
    <2>1. SUFFICES ASSUME NEW r \in Replicas PROVE lateWrites[r] <= 1
      BY DEF OneLateWrite
    <2>2. lateWrites[r] = 0 \/ lateWrites[r] = 1
      BY <1>1 DEF IInv, Late
    <2> QED BY <2>2
  <1> QED BY <1>1, IInvHolds, PTL

\* An SO that is there is changed by a run for the PA that owns it and by nothing else.
THEOREM OnlyForItsOwnerHolds == Spec => OnlyForItsOwner
  <1> DEFINE ByItsOwner ==
        so # None /\ so' # None /\ so' # so =>
          \E r \in Replicas : run[r].pc = "write" /\ run'[r] = Idle /\ run[r].pa.uid = so.owner
  <1>1. IInv /\ [Next]_vars => ByItsOwner
    <2> SUFFICES ASSUME IInv, [Next]_vars, so # None, so' # None, so' # so
                 PROVE  \E r \in Replicas : /\ run[r].pc = "write" /\ run'[r] = Idle
                                            /\ run[r].pa.uid = so.owner
      OBVIOUS
    <2>1. PICK r \in Replicas : Write(r)
      BY DEF Next, vars, Runs, LoseLease, ChangePA, Collect, SOBecomes, Acquire, Promote, Demote,
             ObservePA, ObserveSO, Start, ReadPA, ReadSO
    <2>2. run[r].pc = "write" /\ Sends(r) /\ Accepts(r)
      BY <2>1 DEF Write
    <2>3. run'[r] = Idle
      <3>1. run' = [q \in Replicas |-> [[run EXCEPT ![r] = Idle][q] EXCEPT !.latest = FALSE]]
        BY <2>1, <2>2 DEF Write, SOBecomes
      <3>2. run \in [Replicas -> Runnings]
        BY DEF TypeOK, IInv
      <3>3. run'[r] = [Idle EXCEPT !.latest = FALSE]
        BY <3>1, <3>2
      <3> QED BY <3>3 DEF Idle
    <2> QED BY <2>2, <2>3, Sent
  <1> QED BY <1>1, IInvHolds, PTL DEF Spec, OnlyForItsOwner
===============================================================================
