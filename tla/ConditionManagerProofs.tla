------------------------ MODULE ConditionManagerProofs ------------------------
(***************************************************************************)
(* The condition algebra is right for every set of dependents, not only    *)
(* for the pod autoscaler's three.                                         *)
(***************************************************************************)
EXTENDS ConditionManager, TLAPS

\* Ready agrees with the dependents of an initialised copy, except that it may
\* be Unknown above happy dependents after a new generation.
ReadySummarises(c) ==
  /\ c[Happy] = "False" <=> SomeDependent(c, "False")
  /\ c[Happy] = "True" => Summary(c) = "True"

\* Before initialisation, Ready agrees with the dependents that are set.
StoredSummarises(c) ==
  /\ c[Happy] = "False" <=> SomeDependent(c, "False")
  /\ c[Happy] = "True" => ~ SomeDependent(c, "Unknown")

\* A stored Ready that is undecided has an undecided dependent below it.
StoredHasCause(c) ==
  c[Happy] \in {"Unset", "Unknown"} =>
    SomeDependent(c, "Unknown") \/ SomeDependent(c, "Unset")

NothingUnset(c) == \A t \in Types : c[t] # "Unset"

IInv ==
  /\ TypeOK
  /\ IF initialized
     THEN NothingUnset(conds) /\ ReadySummarises(conds)
     ELSE StoredSummarises(conds) /\ StoredHasCause(conds)
  /\ initialized /\ conds[Happy] = "Unknown"
       => SomeDependent(conds, "Unknown") \/ bumped

-------------------------------------------------------------------------------
\* InitializeConditions turns any stored conditions into initialised ones, and
\* can only leave Ready Unknown over an Unknown dependent if it was so before
\* or Ready was never set.
LEMMA InitializeSummarises ==
  ASSUME NEW c \in [Types -> Statuses], StoredSummarises(c)
  PROVE  /\ InitializeConditions(c) \in [Types -> Statuses]
         /\ NothingUnset(InitializeConditions(c))
         /\ ReadySummarises(InitializeConditions(c))
  BY DependentsAssumption
  DEF InitializeConditions, StoredSummarises, ReadySummarises, NothingUnset,
      Types, Statuses, SomeDependent, Summary, Happy

\* Marking a dependent recomputes Ready from scratch.
LEMMA MarkSummarises ==
  ASSUME NEW c \in [Types -> Statuses], NothingUnset(c), ReadySummarises(c),
         NEW d \in Dependents,
         NEW r, r \in {MarkTrue(c, d), MarkFalse(c, d), MarkUnknown(c, d)}
  PROVE  /\ r \in [Types -> Statuses]
         /\ NothingUnset(r)
         /\ ReadySummarises(r)
         /\ r[Happy] = "Unknown" => SomeDependent(r, "Unknown")
  <1>0. d # Happy /\ d \in Types /\ Happy \in Types
    BY DependentsAssumption DEF Types
  <1>1. CASE r = MarkTrue(c, d)
    <2> DEFINE s == [c EXCEPT ![d] = "True"]
    <2>1. s \in [Types -> Statuses] /\ \A t \in Types : s[t] # "Unset"
      BY DEF NothingUnset, Statuses
    <2>2. r = [s EXCEPT ![Happy] = Summary(s)]
      BY <1>0, <1>1 DEF MarkTrue, RecomputeHappiness
    <2>3. Summary(s) \in {"True", "False", "Unknown"}
      BY DEF Summary
    <2>4. \A t \in Types : r[t] = IF t = Happy THEN Summary(s) ELSE s[t]
      BY <2>1, <2>2
    <2>5. r \in [Types -> Statuses] /\ NothingUnset(r)
      BY <2>1, <2>2, <2>3 DEF Statuses, NothingUnset
    <2>6. \A d2 \in Dependents : r[d2] = s[d2] /\ s[d2] # "Unset"
      BY <2>1, <2>4, DependentsAssumption DEF Types
    <2>7. \A v \in Statuses : SomeDependent(r, v) <=> SomeDependent(s, v)
      BY <2>6 DEF SomeDependent
    <2>8. Summary(r) = Summary(s) /\ ~ SomeDependent(s, "Unset")
      BY <2>6, <2>7 DEF Summary, SomeDependent, Statuses
    <2>9. r[Happy] = Summary(s)
      BY <2>4, <1>0
    <2> HIDE DEF s
    <2>10. QED
      BY <2>5, <2>7, <2>8, <2>9 DEF ReadySummarises, Summary, Statuses
  <1>2. CASE r = MarkFalse(c, d)
    <2>1. r = [c EXCEPT ![d] = "False", ![Happy] = "False"]
      BY <1>2 DEF MarkFalse
    <2>2. r \in [Types -> Statuses] /\ NothingUnset(r)
      BY <2>1 DEF NothingUnset, Statuses
    <2>3. r[Happy] = "False" /\ r[d] = "False"
      BY <2>1, <1>0
    <2>4. QED
      BY <2>2, <2>3 DEF ReadySummarises, SomeDependent
  <1>3. CASE r = MarkUnknown(c, d)
    <2> DEFINE s == [c EXCEPT ![d] = "Unknown"]
    <2>1. s \in [Types -> Statuses] /\ s[d] = "Unknown"
             /\ \A t \in Types : s[t] # "Unset"
      BY <1>0 DEF NothingUnset, Statuses
    <2>2. CASE SomeDependent(s, "False")
      <3>1. r = [s EXCEPT ![Happy] = "False"]
        BY <1>3, <2>2, DependentsAssumption DEF MarkUnknown, MarkFalse
      <3>2. r \in [Types -> Statuses] /\ NothingUnset(r) /\ r[Happy] = "False"
        BY <3>1, <2>1, <1>0 DEF NothingUnset, Statuses
      <3>3. SomeDependent(r, "False")
        BY <3>1, <2>1, <2>2, DependentsAssumption DEF SomeDependent, Types
      <3>4. QED
        BY <3>2, <3>3 DEF ReadySummarises
    <2>3. CASE ~ SomeDependent(s, "False")
      <3>1. r = [s EXCEPT ![Happy] = "Unknown"]
        BY <1>3, <2>3 DEF MarkUnknown
      <3>2. r \in [Types -> Statuses] /\ NothingUnset(r) /\ r[Happy] = "Unknown"
        BY <3>1, <2>1, <1>0 DEF NothingUnset, Statuses
      <3>3. SomeDependent(r, "Unknown") /\ ~ SomeDependent(r, "False")
        BY <3>1, <2>1, <2>3, <1>0, DependentsAssumption DEF SomeDependent, Types
      <3>4. QED
        BY <3>2, <3>3 DEF ReadySummarises
    <2>4. QED BY <2>2, <2>3
  <1>4. QED BY <1>1, <1>2, <1>3

\* Resetting Ready for a new generation cannot hide a failed dependent.
LEMMA ResetSummarises ==
  ASSUME NEW c \in [Types -> Statuses], NothingUnset(c), ReadySummarises(c)
  PROVE  /\ MarkUnknown(c, Happy) \in [Types -> Statuses]
         /\ NothingUnset(MarkUnknown(c, Happy))
         /\ ReadySummarises(MarkUnknown(c, Happy))
  BY DependentsAssumption
  DEF MarkUnknown, MarkFalse, ReadySummarises, NothingUnset,
      Types, Statuses, SomeDependent, Happy

-------------------------------------------------------------------------------
\* Whatever an older release has stored satisfies the invariant.
LEMMA InitIInv == Init => IInv
  <1> SUFFICES ASSUME Init PROVE IInv
    OBVIOUS
  <1>1. PICK Known \in SUBSET Dependents : StoredBy(Known, conds)
    BY DEF Init
  <1>2. StoredSummarises(conds)
    BY <1>1, DependentsAssumption
    DEF StoredBy, StoredSummarises, SomeDependent, Init, Types, Statuses
  <1>3. StoredHasCause(conds)
    BY <1>1, DependentsAssumption
    DEF StoredBy, StoredHasCause, SomeDependent, Init, Types, Statuses
  <1>4. QED
    BY <1>2, <1>3 DEF Init, IInv, TypeOK

\* Whatever is stored, a fresh initialisation sees stored conditions that agree.
LEMMA StoredAgrees == IInv => StoredSummarises(conds)
  BY DEF IInv, StoredSummarises, ReadySummarises, Summary

\* Every call of the lifecycle preserves the invariant.
LEMMA StepIInv == IInv /\ [Next]_vars => IInv'
  <1> SUFFICES ASSUME IInv, [Next]_vars PROVE IInv'
    OBVIOUS
  <1>0. conds \in [Types -> Statuses] /\ StoredSummarises(conds)
    BY StoredAgrees DEF IInv, TypeOK
  <1>1. CASE Start
    <2>1. /\ conds' \in [Types -> Statuses]
          /\ NothingUnset(conds')
          /\ ReadySummarises(conds')
      BY <1>0, <1>1, InitializeSummarises DEF Start
    <2>2. ASSUME conds'[Happy] = "Unknown"
          PROVE SomeDependent(conds', "Unknown") \/ bumped'
      <3>1. CASE initialized
        BY <2>2, <3>1, <1>1, <1>0
        DEF IInv, Start, InitializeConditions, NothingUnset, SomeDependent, Types
      <3>2. CASE ~ initialized
        <4>1. StoredHasCause(conds) /\ conds[Happy] \in {"Unset", "Unknown"}
          BY <2>2, <3>2, <1>1, <1>0, DependentsAssumption
          DEF IInv, Start, InitializeConditions, Types, Statuses
        <4>2. SomeDependent(conds', "Unknown")
          BY <4>1, <1>1, <1>0, DependentsAssumption
          DEF Start, StoredHasCause, InitializeConditions, SomeDependent, Types
        <4>3. QED BY <4>2
      <3>3. QED BY <3>1, <3>2
    <2>3. QED BY <2>1, <2>2, <1>1 DEF IInv, TypeOK, NothingUnset, Start
  <1>2. CASE StartNewGeneration
    BY <1>0, <1>2, InitializeSummarises, ResetSummarises
    DEF StartNewGeneration, IInv, TypeOK, NothingUnset
  <1>3. CASE \E d \in Dependents :
               DependentTrue(d) \/ DependentFalse(d) \/ DependentUnknown(d)
    <2>1. PICK d \in Dependents :
            DependentTrue(d) \/ DependentFalse(d) \/ DependentUnknown(d)
      BY <1>3
    <2>2. /\ initialized /\ initialized' = initialized /\ bumped' = FALSE
          /\ conds' \in {MarkTrue(conds, d), MarkFalse(conds, d), MarkUnknown(conds, d)}
      BY <2>1 DEF DependentTrue, DependentFalse, DependentUnknown
    <2>3. /\ conds' \in [Types -> Statuses]
          /\ NothingUnset(conds')
          /\ ReadySummarises(conds')
          /\ conds'[Happy] = "Unknown" => SomeDependent(conds', "Unknown")
      BY <2>2, <1>0, MarkSummarises DEF IInv
    <2>4. QED BY <2>2, <2>3 DEF IInv, TypeOK, NothingUnset
  <1>4. CASE UNCHANGED vars
    BY <1>4 DEF vars, IInv, TypeOK, NothingUnset, ReadySummarises,
                StoredSummarises, StoredHasCause, SomeDependent, Summary
  <1>5. QED BY <1>1, <1>2, <1>3, <1>4 DEF Next

\* So the invariant holds throughout.
LEMMA Inductive == Spec => []IInv
  BY InitIInv, StepIInv, PTL DEF Spec

\* For every set of dependents: the conditions stay in their types, and no lifecycle
\* call leaves a condition out.
THEOREM TypeCorrect == Spec => []TypeOK
  <1>1. IInv => TypeOK
    BY DEF IInv
  <1>2. QED BY <1>1, Inductive, PTL

\* For every set of dependents: Ready=True implies that each of them is True.
THEOREM ReadyMeansAllTrueHolds == Spec => []ReadyMeansAllTrue
  <1>1. IInv => ReadyMeansAllTrue
    <2> SUFFICES ASSUME IInv, initialized, conds[Happy] = "True",
                        NEW d \in Dependents
                 PROVE conds[d] = "True"
      BY DEF ReadyMeansAllTrue
    <2>1. Summary(conds) = "True" /\ conds[d] \in Statuses /\ conds[d] # "Unset"
      BY DEF IInv, TypeOK, ReadySummarises, NothingUnset, Types
    <2>2. QED
      BY <2>1 DEF Summary, SomeDependent, Statuses
  <1>2. QED BY <1>1, Inductive, PTL

\* For every set of dependents: Ready is False exactly while one of them is.
THEOREM FailureIsVisibleHolds == Spec => []FailureIsVisible
  <1>1. IInv => FailureIsVisible
    BY DEF IInv, ReadySummarises, FailureIsVisible
  <1>2. QED BY <1>1, Inductive, PTL

\* For every set of dependents: Ready=Unknown always has a cause.
THEOREM UnknownHasCauseHolds == Spec => []UnknownHasCause
  <1>1. IInv => UnknownHasCause
    BY DEF IInv, UnknownHasCause
  <1>2. QED BY <1>1, Inductive, PTL
===============================================================================
