---------------------------- MODULE InjectionProofs ----------------------------
(***************************************************************************)
(* Injection panics for the programs that lack something and for no other, *)
(* and finds, makes and starts what it should, for every program that is   *)
(* closed under imports, every list of selectors and every namespace.      *)
(***************************************************************************)
EXTENDS Injection, TLAPS

\* The packages whose injectors the registry that is set up gets.
Mine == {p \in initialized : p.registry = registry}

\* Those of a phase, and those that have not been run yet.
OfPhase(i) == {p \in Mine : Phase(p) = i}
Held(q)    == {q[j] : j \in DOMAIN q}
Waiting(i) == Held(injectors[i])

\* What Get finds under a key.
Value(k) == [client |-> registry, selector |-> k[2],
             namespace |-> IF k[1] = "client" THEN "" ELSE namespace, layer |-> k[1]]

IsInformer(k) == k[1] \notin {"client", "factory"}

Given ==
  /\ program \in Programs /\ selectors \in SelectorLists
  /\ registry \in {"Default", "Fake"}

\* Injectors wait in the list of their phase until the phase comes, and all of them,
\* since no phase begins before every package is initialized.
ListsOK ==
  /\ phase \in 0 .. 5 /\ initialized \subseteq program
  /\ phase > 0 => initialized = program
  /\ injectors \in [1 .. 4 -> Seq(Packages)]
  /\ \A i \in 1 .. 4 :
       /\ Waiting(i) \subseteq OfPhase(i)
       /\ i > phase => Waiting(i) = OfPhase(i)
       /\ i < phase => Waiting(i) = {}

\* Whoever does not wait any more has made what it provides ...
MadeOK ==
  \A p \in Mine : p \notin Waiting(Phase(p)) =>
    \A s \in Each(p) : Key(p, s) \in DOMAIN context

\* ... and had what it needs.
Supplied(p) ==
  p.filtered => /\ selectors # None
                /\ registry = "Fake" /\ selectors # <<>> => FakeFilteredFactory \in program

RunOK == \A p \in Mine : p \notin Waiting(Phase(p)) => Supplied(p)

\* What is in the context is what its key stands for; a factory for a selector is there
\* only if the filtered factory is linked.
ContextOK ==
  /\ \A k \in DOMAIN context : context[k] = Value(k)
  /\ informers = {context[k] : k \in {k \in DOMAIN context : IsInformer(k)}}
  /\ \A s \in Selectors :
       FactoryKey(s) \in DOMAIN context => Package(registry, "factory", TRUE) \in program

\* A process that panics does so in a phase and lacks something.
PanicOK ==
  /\ panicked \in BOOLEAN
  /\ panicked => phase \in 1 .. 4 /\ ~ Complete
  /\ ~ panicked => MadeOK /\ RunOK

IInv == Given /\ ListsOK /\ ContextOK /\ PanicOK

-------------------------------------------------------------------------------
(* The operators. *)

\* What is linked are packages, with what they import.
LEMMA Linked ==
  ASSUME Given
  PROVE  /\ program \subseteq Packages
         /\ \A p \in program : Imports(p) \subseteq program
  BY InjectionAssumption DEF Given

\* Every package has a phase: clients, factories, informers, filtered informers.
LEMMA Phases ==
  ASSUME NEW p \in Packages
  PROVE  /\ Phase(p) \in 1 .. 4
         /\ p.layer = "client" <=> Phase(p) = 1
         /\ p.layer = "factory" <=> Phase(p) = 2
         /\ p.layer \notin {"client", "factory"} <=> Phase(p) \in {3, 4}
         /\ p.filtered \in BOOLEAN /\ (p.layer = "client" => ~ p.filtered)
  BY DEF Packages, ObjectKinds, Phase

\* The key of what a package makes for a selector names its layer and the selector.
LEMMA Keys ==
  ASSUME NEW p \in Packages, NEW s \in Each(p)
  PROVE  Key(p, s) = <<p.layer, s>>
  BY DEF Key, ClientKey, FactoryKey, InformerKey, Each, Packages

\* Whoever is run for a selector is run for one of those that are given.
LEMMA SelectorsGiven ==
  ASSUME Given, NEW p, p.filtered, selectors # None, NEW s \in Each(p)
  PROVE  s \in Selectors /\ s # None /\ selectors # <<>>
  <1>1. selectors \in Seq(Selectors)
    BY InjectionAssumption DEF Given
  <1>2. PICK i \in DOMAIN selectors : s = selectors[i]
    BY DEF Each
  <1>3. s \in Selectors /\ selectors # <<>>
    BY <1>1, <1>2
  <1>4. QED BY <1>3, InjectionAssumption

\* What a sequence holds: its head and what its tail holds.
LEMMA TailHolds ==
  ASSUME NEW S, NEW q \in Seq(S), q # <<>>
  PROVE  /\ Head(q) \in S /\ Tail(q) \in Seq(S)
         /\ Head(q) \in Held(q) /\ Held(Tail(q)) \subseteq Held(q)
         /\ \A e \in Held(q) : e # Head(q) => e \in Held(Tail(q))
  <1>1. Len(q) \in Nat /\ Len(q) >= 1 /\ DOMAIN q = 1 .. Len(q)
    OBVIOUS
  <1>2. /\ Tail(q) \in Seq(S) /\ Len(Tail(q)) = Len(q) - 1
        /\ \A j \in 1 .. Len(q) - 1 : Tail(q)[j] = q[j + 1]
        /\ Head(q) = q[1] /\ Head(q) \in S
    BY <1>1
  <1>3. DOMAIN Tail(q) = 1 .. Len(q) - 1
    BY <1>2
  <1>4. ASSUME NEW j \in DOMAIN q, q[j] # Head(q)
        PROVE  q[j] \in Held(Tail(q))
    <2>1. j \in 2 .. Len(q)
      BY <1>1, <1>2, <1>4
    <2>2. j - 1 \in DOMAIN Tail(q) /\ Tail(q)[j - 1] = q[j]
      BY <1>1, <1>2, <1>3, <2>1
    <2>3. QED BY <2>2 DEF Held
  <1>5. ASSUME NEW j \in DOMAIN Tail(q)
        PROVE  Tail(q)[j] \in Held(q)
    <2>1. j + 1 \in DOMAIN q /\ Tail(q)[j] = q[j + 1]
      BY <1>1, <1>2, <1>3
    <2>2. QED BY <2>1 DEF Held
  <1>6. Head(q) \in Held(q)
    BY <1>1, <1>2 DEF Held
  <1>7. QED BY <1>2, <1>4, <1>5, <1>6 DEF Held

\* What is appended is held besides what was there.
LEMMA AppendHolds ==
  ASSUME NEW S, NEW q \in Seq(S), NEW e \in S
  PROVE  /\ Append(q, e) \in Seq(S)
         /\ Held(Append(q, e)) = Held(q) \cup {e}
  <1>1. Len(q) \in Nat /\ DOMAIN q = 1 .. Len(q)
    OBVIOUS
  <1>2. /\ Append(q, e) \in Seq(S) /\ Len(Append(q, e)) = Len(q) + 1
        /\ \A j \in 1 .. Len(q) : Append(q, e)[j] = q[j]
        /\ Append(q, e)[Len(q) + 1] = e
    BY <1>1
  <1>3. DOMAIN Append(q, e) = 1 .. Len(q) + 1
    BY <1>2
  <1>4. QED BY <1>1, <1>2, <1>3 DEF Held

-------------------------------------------------------------------------------
(* What an injector finds. *)

\* What the packages of earlier phases provide is in the context.
LEMMA Provided ==
  ASSUME IInv, ~ panicked, NEW p \in program, p.registry = registry, phase > Phase(p),
         NEW s \in Each(p)
  PROVE  Key(p, s) \in DOMAIN context
  <1>1. p \in Packages /\ Phase(p) \in 1 .. 4
    BY Linked, Phases DEF IInv
  <1>2. phase \in 0 .. 5 /\ phase > 0
    BY <1>1 DEF IInv, ListsOK
  <1>3. p \in Mine
    BY <1>2 DEF IInv, ListsOK, Mine
  <1>4. Waiting(Phase(p)) = {}
    BY <1>1, <1>2 DEF IInv, ListsOK
  <1>5. QED BY <1>3, <1>4 DEF IInv, PanicOK, MadeOK

\* The injector of a package finds what it takes: its imports provide it, a phase before,
\* or for a fake filtered informer the fake factory that it is supplied with.
LEMMA TakesThere ==
  ASSUME IInv, ~ panicked, NEW p \in Mine, Phase(p) = phase, Supplied(p), NEW s \in Each(p)
  PROVE  Takes(p, s) \subseteq DOMAIN context
  <1>1. /\ p \in program /\ p \in Packages /\ p.registry = registry
        /\ registry \in {"Default", "Fake"}
    BY Linked DEF IInv, ListsOK, Mine, Given
  <1>2. Imports(p) \subseteq program
    BY <1>1, Linked DEF IInv
  <1>3. CASE p.layer = "client"
    BY <1>3 DEF Takes
  <1>4. CASE p.layer = "factory"
    <2> DEFINE c == Package(registry, "client", FALSE)
    <2>1. c \in program
      BY <1>1, <1>2, <1>4 DEF Imports, Client, FakeClient
    <2>2. /\ c.registry = registry /\ Phase(c) = 1 /\ None \in Each(c)
          /\ Key(c, None) = ClientKey
      BY DEF Package, Phase, Each, Key
    <2>3. phase > 1
      BY <1>1, <1>4, Phases
    <2> HIDE DEF c
    <2>4. Key(c, None) \in DOMAIN context
      BY <2>1, <2>2, <2>3, Provided
    <2>5. QED BY <1>4, <2>2, <2>4 DEF Takes
  <1>5. CASE p.layer \notin {"client", "factory"}
    <2> DEFINE f == Package(registry, "factory", p.filtered)
    <2>1. f \in program
      <3>1. CASE registry = "Default"
        BY <1>1, <1>2, <1>5, <3>1, Phases
        DEF Imports, Package, Factory, FilteredFactory
      <3>2. CASE registry = "Fake" /\ ~ p.filtered
        BY <1>1, <1>2, <1>5, <3>2
        DEF Imports, Package, FakeFactory
      <3>3. CASE registry = "Fake" /\ p.filtered
        <4>1. selectors # None
          BY <3>3 DEF Supplied
        <4>2. selectors # <<>>
          BY <3>3, <4>1, SelectorsGiven DEF IInv
        <4>3. FakeFilteredFactory \in program
          BY <3>3, <4>2 DEF Supplied
        <4>4. p.filtered = TRUE
          BY <1>1, <3>3, Phases
        <4>5. QED BY <3>3, <4>3, <4>4 DEF Package, FakeFilteredFactory
      <3>4. QED BY <1>1, <3>1, <3>2, <3>3
    <2>2. /\ f.registry = registry /\ Phase(f) = 2 /\ s \in Each(f)
          /\ Key(f, s) = FactoryKey(s)
      BY DEF Package, Phase, Each, Key
    <2>3. phase > 2
      BY <1>1, <1>5, Phases
    <2> HIDE DEF f
    <2>4. Key(f, s) \in DOMAIN context
      BY <2>1, <2>2, <2>3, Provided
    <2>5. QED BY <1>5, <2>2, <2>4 DEF Takes
  <1>6. QED BY <1>3, <1>4, <1>5

\* An injector that misses something is one of a program that is not complete.
LEMMA MissesIncomplete ==
  ASSUME IInv, ~ panicked, NEW p \in Mine, Phase(p) = phase, Misses(p)
  PROVE  ~ Complete
  <1> SUFFICES ASSUME Complete PROVE FALSE
    OBVIOUS
  <1>1. p \in program /\ p.registry = registry
    BY DEF IInv, ListsOK, Mine
  <1>2. Supplied(p)
    BY <1>1 DEF Complete, Supplied
  <1>3. ~ (p.filtered /\ selectors = None)
    BY <1>2 DEF Supplied
  <1>4. \A s \in Each(p) : Takes(p, s) \subseteq DOMAIN context
    BY <1>2, TakesThere
  <1>5. QED BY <1>3, <1>4 DEF Misses

\* One that misses nothing is supplied with what it needs.
LEMMA SuppliedIfFound ==
  ASSUME IInv, NEW p \in Mine, ~ Misses(p)
  PROVE  Supplied(p)
  <1> SUFFICES ASSUME p.filtered
               PROVE  /\ selectors # None
                      /\ registry = "Fake" /\ selectors # <<>> => FakeFilteredFactory \in program
    BY DEF Supplied
  <1>1. p \in program /\ p \in Packages /\ p.registry = registry
    BY Linked DEF IInv, ListsOK, Mine
  <1>2. selectors # None
    BY DEF Misses
  <1>3. ASSUME registry = "Fake", selectors # <<>>
        PROVE  FakeFilteredFactory \in program
    <2>1. CASE p.layer = "factory"
      <3>1. p = FakeFilteredFactory
        BY <1>1, <1>3, <2>1 DEF Packages, FakeFilteredFactory, Package
      <3>2. QED BY <1>1, <3>1
    <2>2. CASE p.layer # "factory"
      <3>1. p.layer \notin {"client", "factory"}
        BY <1>1, <2>2, Phases
      <3>2. selectors \in Seq(Selectors)
        BY <1>2, InjectionAssumption DEF IInv, Given
      <3>3. 1 \in DOMAIN selectors /\ selectors[1] \in Selectors
        BY <1>3, <3>2
      <3>4. selectors[1] \in Each(p)
        BY <3>3 DEF Each
      <3>5. FactoryKey(selectors[1]) \in DOMAIN context
        BY <3>1, <3>4 DEF Misses, Takes
      <3>6. Package(registry, "factory", TRUE) \in program
        BY <3>3, <3>5 DEF IInv, ContextOK
      <3>7. QED BY <1>3, <3>6 DEF Package, FakeFilteredFactory
    <2>3. QED BY <2>1, <2>2
  <1>4. QED BY <1>2, <1>3

\* What an injector makes of what it found is what its key stands for.
LEMMA MakesValue ==
  ASSUME IInv, NEW p \in Mine, NEW s \in Each(p), Takes(p, s) \subseteq DOMAIN context
  PROVE  Makes(p, s) = Value(Key(p, s))
  <1>1. p \in Packages /\ p.registry = registry
    BY Linked DEF IInv, ListsOK, Mine
  <1>2. Key(p, s) = <<p.layer, s>>
    BY <1>1, Keys
  <1>3. Value(Key(p, s)) = [client |-> registry, selector |-> s,
                            namespace |-> IF p.layer = "client" THEN "" ELSE namespace,
                            layer |-> p.layer]
    BY <1>2 DEF Value
  <1>4. CASE p.layer = "client"
    <2>1. s = None
      BY <1>1, <1>4, Phases DEF Each
    <2>2. QED BY <1>1, <1>3, <1>4, <2>1 DEF Makes
  <1>5. CASE p.layer = "factory"
    <2>1. context[ClientKey] = Value(ClientKey)
      BY <1>5 DEF Takes, IInv, ContextOK
    <2>2. Value(ClientKey).client = registry
      BY DEF Value
    <2>3. QED BY <1>3, <1>5, <2>1, <2>2 DEF Makes, SelectorVal
  <1>6. CASE p.layer \notin {"client", "factory"}
    <2>1. context[FactoryKey(s)] = Value(FactoryKey(s))
      BY <1>6 DEF Takes, IInv, ContextOK
    <2>2. context[FactoryKey(s)] =
            [client |-> registry, selector |-> s, namespace |-> namespace, layer |-> "factory"]
      BY <2>1 DEF Value, FactoryKey
    <2>3. Makes(p, s) = [context[FactoryKey(s)] EXCEPT !.layer = p.layer]
      BY <1>6 DEF Makes
    <2>4. Makes(p, s) = [client |-> registry, selector |-> s, namespace |-> namespace,
                         layer |-> p.layer]
      BY <2>2, <2>3
    <2>5. QED BY <1>3, <1>6, <2>4
  <1>7. QED BY <1>4, <1>5, <1>6

-------------------------------------------------------------------------------
(* The steps. *)

\* At first nothing is initialized, registered or made.
LEMMA IInvInit == Init => IInv
  <1> SUFFICES ASSUME Init PROVE IInv
    OBVIOUS
  <1>1. Given /\ panicked = FALSE
    BY DEF Init, Given
  <1>2. Mine = {} /\ \A i \in 1 .. 4 : Waiting(i) = {} /\ OfPhase(i) = {}
    BY DEF Init, Mine, Waiting, Held, OfPhase
  <1>3. ListsOK
    <2>1. injectors \in [1 .. 4 -> Seq(Packages)]
      BY DEF Init
    <2>2. phase = 0 /\ initialized = {}
      BY DEF Init
    <2>3. phase \in 0 .. 5 /\ initialized \subseteq program /\ ~ phase > 0
      BY <2>2
    <2>4. \A i \in 1 .. 4 : /\ Waiting(i) \subseteq OfPhase(i)
                            /\ Waiting(i) = OfPhase(i) /\ Waiting(i) = {}
      BY <1>2
    <2>5. QED BY <2>1, <2>3, <2>4 DEF ListsOK
  <1>4. PanicOK
    BY <1>1, <1>2 DEF PanicOK, MadeOK, RunOK
  <1>5. DOMAIN context = {} /\ informers = {}
    BY DEF Init
  <1>6. ContextOK
    BY <1>5 DEF ContextOK
  <1>7. QED BY <1>1, <1>3, <1>4, <1>6 DEF IInv

\* A package that is initialized puts its injector into the list of its phase.
LEMMA InitPackageOK ==
  ASSUME IInv, NEW p \in program, InitPackage(p)
  PROVE  IInv'
  <1>1. /\ phase = 0 /\ phase' = 0 /\ initialized' = initialized \cup {p}
        /\ UNCHANGED <<program, selectors, namespace, registry, context, informers, panicked>>
    BY DEF InitPackage, given
  <1>2. p \in Packages /\ Phase(p) \in 1 .. 4
    BY Linked, Phases DEF IInv
  <1>3. Given' /\ panicked' = FALSE
    BY <1>1 DEF IInv, Given, PanicOK
  <1>4. ContextOK'
    BY <1>1 DEF IInv, ContextOK, Value, FactoryKey
  <1>5. /\ injectors' \in [1 .. 4 -> Seq(Packages)]
        /\ \A i \in 1 .. 4 : Waiting(i)' = OfPhase(i)'
    <2>1. /\ injectors \in [1 .. 4 -> Seq(Packages)]
          /\ \A i \in 1 .. 4 : Waiting(i) = OfPhase(i)
      BY <1>1 DEF IInv, ListsOK
    <2>2. CASE p.registry = registry
      <3>1. injectors' = [injectors EXCEPT ![Phase(p)] = Append(injectors[Phase(p)], p)]
        BY <2>2 DEF InitPackage
      <3>2. /\ Append(injectors[Phase(p)], p) \in Seq(Packages)
            /\ Held(Append(injectors[Phase(p)], p)) = Waiting(Phase(p)) \cup {p}
        <4>1. injectors[Phase(p)] \in Seq(Packages)
          BY <1>2, <2>1
        <4>2. QED BY <1>2, <4>1, AppendHolds DEF Waiting
      <3>3. /\ Waiting(Phase(p))' = Waiting(Phase(p)) \cup {p}
            /\ \A i \in 1 .. 4 : i # Phase(p) => Waiting(i)' = Waiting(i)
        BY <1>2, <2>1, <3>1, <3>2 DEF Waiting
      <3>4. \A i \in 1 .. 4 :
              OfPhase(i)' = IF i = Phase(p) THEN OfPhase(i) \cup {p} ELSE OfPhase(i)
        BY <1>1, <2>2 DEF OfPhase, Mine
      <3>5. QED BY <2>1, <3>1, <3>2, <3>3, <3>4
    <2>3. CASE p.registry # registry
      <3>1. injectors' = injectors
        BY <2>3 DEF InitPackage
      <3>2. Mine' = Mine
        BY <1>1, <2>3 DEF Mine
      <3>3. QED BY <2>1, <3>1, <3>2 DEF Waiting, OfPhase
    <2>4. QED BY <2>2, <2>3
  <1>6. ListsOK'
    BY <1>1, <1>5 DEF IInv, ListsOK
  <1>7. PanicOK'
    <2>1. \A q \in Mine' : Phase(q) \in 1 .. 4
      BY <1>1, Linked, Phases DEF IInv, ListsOK, Mine
    <2>2. \A q \in Mine' : q \in Waiting(Phase(q))'
      BY <1>5, <2>1 DEF OfPhase
    <2>3. QED BY <1>3, <2>2 DEF PanicOK, MadeOK, RunOK
  <1>8. QED BY <1>3, <1>4, <1>6, <1>7 DEF IInv

\* A phase ends when nobody waits in it any more.
LEMMA NextPhaseOK ==
  ASSUME IInv, NextPhase
  PROVE  IInv'
  <1>1. /\ phase \in 0 .. 4 /\ phase' = phase + 1
        /\ UNCHANGED <<program, selectors, namespace, registry, initialized, injectors,
                       context, informers, panicked>>
    BY DEF NextPhase, given, IInv, ListsOK
  <1>2. Given' /\ panicked = FALSE /\ panicked' = FALSE
    BY <1>1 DEF IInv, Given, PanicOK, NextPhase
  <1>3. ContextOK'
    BY <1>1 DEF IInv, ContextOK, Value, FactoryKey
  <1>4. \A i \in 1 .. 4 : Waiting(i)' = Waiting(i) /\ OfPhase(i)' = OfPhase(i)
    BY <1>1 DEF Waiting, OfPhase, Mine
  <1>5. phase > 0 => Waiting(phase) = {}
    BY <1>1 DEF NextPhase, Waiting, Held
  <1>6. initialized = program
    BY <1>1 DEF NextPhase, IInv, ListsOK
  <1>7. ListsOK'
    BY <1>1, <1>4, <1>5, <1>6 DEF IInv, ListsOK
  <1>8. PanicOK'
    BY <1>1, <1>2 DEF IInv, PanicOK, MadeOK, RunOK, Supplied, Mine, Waiting, Each
  <1>9. QED BY <1>2, <1>3, <1>7, <1>8 DEF IInv

\* An injector leaves its list.  If it misses nothing, what it provides enters the context;
\* if it misses something, the process panics.
LEMMA InjectOK ==
  ASSUME IInv, Inject
  PROVE  IInv'
  <1> DEFINE p    == Head(injectors[phase])
             keys == {Key(p, s) : s \in Each(p)}
  <1>1. /\ phase \in 1 .. 4 /\ phase' = phase /\ injectors[phase] # <<>> /\ ~ panicked
        /\ UNCHANGED <<program, selectors, namespace, registry, initialized>>
        /\ injectors' = [injectors EXCEPT ![phase] = Tail(injectors[phase])]
    BY DEF Inject, given
  <1>2. /\ injectors \in [1 .. 4 -> Seq(Packages)] /\ injectors[phase] \in Seq(Packages)
        /\ \A i \in 1 .. 4 : Waiting(i) \subseteq OfPhase(i)
        /\ initialized \subseteq program /\ initialized = program
    BY <1>1 DEF IInv, ListsOK
  <1>3. /\ Tail(injectors[phase]) \in Seq(Packages) /\ p \in Packages
        /\ p \in Waiting(phase)
        /\ Held(Tail(injectors[phase])) \subseteq Waiting(phase)
        /\ \A q \in Waiting(phase) : q # p => q \in Held(Tail(injectors[phase]))
    BY <1>1, <1>2, TailHolds DEF Waiting
  <1>4. p \in Mine /\ Phase(p) = phase
    BY <1>1, <1>2, <1>3 DEF OfPhase
  <1>5. /\ Waiting(phase)' = Held(Tail(injectors[phase]))
        /\ \A i \in 1 .. 4 : i # phase => Waiting(i)' = Waiting(i)
        /\ \A i \in 1 .. 4 : OfPhase(i)' = OfPhase(i)
    BY <1>1, <1>2 DEF Waiting, OfPhase, Mine
  <1> HIDE DEF p
  <1>6. Given'
    BY <1>1 DEF IInv, Given
  <1>7. ListsOK'
    <2>1. injectors' \in [1 .. 4 -> Seq(Packages)]
      BY <1>1, <1>2, <1>3
    <2>2. Waiting(phase)' \subseteq Waiting(phase)
      BY <1>3, <1>5
    <2>3. \A i \in 1 .. 4 : Waiting(i)' \subseteq Waiting(i)
      BY <1>1, <1>5, <2>2
    <2>4. QED BY <1>1, <1>5, <2>1, <2>3 DEF IInv, ListsOK
  <1>8. CASE Misses(p)
    <2>1. /\ panicked' = TRUE /\ UNCHANGED <<context, informers>>
      BY <1>8 DEF Inject, p
    <2>2. ~ Complete
      BY <1>1, <1>4, <1>8, MissesIncomplete
    <2>3. PanicOK'
      BY <1>1, <2>1, <2>2 DEF PanicOK, Complete
    <2>4. ContextOK'
      BY <1>1, <2>1 DEF IInv, ContextOK, Value, FactoryKey
    <2>5. QED BY <1>6, <1>7, <2>3, <2>4 DEF IInv
  <1>9. CASE ~ Misses(p)
    <2>1. \A s \in Each(p) : Takes(p, s) \subseteq DOMAIN context /\ Makes(p, s) = Value(Key(p, s))
      BY <1>4, <1>9, MakesValue DEF Misses
    <2>2. /\ panicked' = panicked
          /\ context' = [k \in keys \cup DOMAIN context |->
               IF k \in keys THEN Makes(p, CHOOSE s \in Each(p) : Key(p, s) = k) ELSE context[k]]
          /\ informers' = IF p.layer \in {"client", "factory"} THEN informers
                          ELSE informers \cup {Makes(p, s) : s \in Each(p)}
      BY <1>1, <1>9 DEF Inject, p
    <2>3. \A k \in keys : Makes(p, CHOOSE s \in Each(p) : Key(p, s) = k) = Value(k)
      <3> SUFFICES ASSUME NEW s0 \in Each(p)
                   PROVE  Makes(p, CHOOSE s \in Each(p) : Key(p, s) = Key(p, s0)) = Value(Key(p, s0))
        OBVIOUS
      <3> DEFINE s1 == CHOOSE s \in Each(p) : Key(p, s) = Key(p, s0)
      <3>1. s1 \in Each(p) /\ Key(p, s1) = Key(p, s0)
        OBVIOUS
      <3> HIDE DEF s1
      <3>2. Makes(p, s1) = Value(Key(p, s0))
        BY <2>1, <3>1
      <3>3. QED BY <3>2 DEF s1
    <2> HIDE DEF keys
    <2>4. /\ DOMAIN context' = keys \cup DOMAIN context
          /\ \A k \in keys \cup DOMAIN context : context'[k] = Value(k)
          /\ \A k \in DOMAIN context : context'[k] = context[k]
      BY <2>2, <2>3 DEF IInv, ContextOK
    <2>5. MadeOK'
      <3> SUFFICES ASSUME NEW q \in Mine', q \notin Waiting(Phase(q))', NEW s \in Each(q)'
                   PROVE  Key(q, s) \in DOMAIN context'
        BY DEF MadeOK
      <3>1. q \in Mine /\ s \in Each(q) /\ Phase(q) \in 1 .. 4
        BY <1>1, <1>2, Linked, Phases DEF Mine, Each, IInv
      <3>2. CASE q \notin Waiting(Phase(q))
        BY <1>1, <2>4, <3>1, <3>2 DEF IInv, PanicOK, MadeOK
      <3>3. CASE q \in Waiting(Phase(q))
        <4>1. Phase(q) = phase
          BY <1>5, <3>1, <3>3
        <4>2. q = p
          BY <1>1, <1>3, <1>5, <3>3, <4>1
        <4>3. QED BY <2>4, <3>1, <4>2 DEF keys
      <3>4. QED BY <3>2, <3>3
    <2>6. ContextOK'
      <3>1. \A k : Value(k)' = Value(k)
        BY <1>1 DEF Value
      <3>2. \A k \in DOMAIN context' : context'[k] = Value(k)'
        BY <2>4, <3>1
      <3>3. informers' = {context'[k] : k \in {k \in DOMAIN context' : IsInformer(k)}}
        <4>1. \A k \in keys : IsInformer(k) <=> p.layer \notin {"client", "factory"}
          BY <1>3, Keys DEF keys, IsInformer
        <4>2. informers = {context[k] : k \in {k \in DOMAIN context : IsInformer(k)}}
          BY DEF IInv, ContextOK
        <4>3. {Makes(p, s) : s \in Each(p)} = {context'[k] : k \in keys}
          BY <2>1, <2>4 DEF keys
        <4>4. CASE p.layer \in {"client", "factory"}
          <5>1. {k \in DOMAIN context' : IsInformer(k)} = {k \in DOMAIN context : IsInformer(k)}
            BY <2>4, <4>1, <4>4
          <5>2. QED BY <2>2, <2>4, <4>2, <4>4, <5>1
        <4>5. CASE p.layer \notin {"client", "factory"}
          <5>1. {k \in DOMAIN context' : IsInformer(k)}
                  = {k \in DOMAIN context : IsInformer(k)} \cup keys
            BY <2>4, <4>1, <4>5
          <5>2. informers' = informers \cup {context'[k] : k \in keys}
            BY <2>2, <4>3, <4>5
          <5>3. informers = {context'[k] : k \in {k \in DOMAIN context : IsInformer(k)}}
            BY <2>4, <4>2
          <5>4. QED BY <5>1, <5>2, <5>3
        <4>6. QED BY <4>4, <4>5
      <3>4. ASSUME NEW s \in Selectors, FactoryKey(s) \in DOMAIN context'
            PROVE  Package(registry, "factory", TRUE) \in program
        <4>1. CASE FactoryKey(s) \in DOMAIN context
          BY <4>1 DEF IInv, ContextOK
        <4>2. CASE FactoryKey(s) \in keys
          <5>1. PICK s0 \in Each(p) : FactoryKey(s) = Key(p, s0)
            BY <4>2 DEF keys
          <5>2. FactoryKey(s) = <<p.layer, s0>>
            BY <1>3, <5>1, Keys
          <5>3. p.layer = "factory" /\ s \in Each(p) /\ s # None
            BY <5>2, InjectionAssumption DEF FactoryKey
          <5>4. p.filtered
            BY <5>3 DEF Each
          <5>5. p = Package(registry, "factory", TRUE)
            BY <1>3, <1>4, <5>3, <5>4 DEF Packages, Package, Mine
          <5>6. QED BY <1>2, <1>4, <5>5 DEF Mine
        <4>3. QED BY <2>4, <3>4, <4>1, <4>2
      <3>5. \A s \in Selectors :
              FactoryKey(s)' \in DOMAIN context' => Package(registry', "factory", TRUE) \in program'
        BY <1>1, <3>4 DEF FactoryKey
      <3>6. QED BY <3>2, <3>3, <3>5 DEF ContextOK, FactoryKey
    <2>7. RunOK'
      <3> SUFFICES ASSUME NEW q \in Mine', q \notin Waiting(Phase(q))'
                   PROVE  Supplied(q)'
        BY DEF RunOK
      <3>1. q \in Mine /\ Phase(q) \in 1 .. 4
        BY <1>1, <1>2, Linked, Phases DEF Mine, IInv
      <3>2. CASE q \notin Waiting(Phase(q))
        BY <1>1, <3>1, <3>2 DEF IInv, PanicOK, RunOK, Supplied
      <3>3. CASE q \in Waiting(Phase(q))
        <4>1. Phase(q) = phase
          BY <1>5, <3>1, <3>3
        <4>2. q = p
          BY <1>1, <1>3, <1>5, <3>3, <4>1
        <4>3. Supplied(p)
          BY <1>4, <1>9, SuppliedIfFound
        <4>4. QED BY <1>1, <4>2, <4>3 DEF Supplied
      <3>4. QED BY <3>2, <3>3
    <2>8. PanicOK'
      BY <1>1, <2>2, <2>5, <2>7 DEF IInv, PanicOK
    <2>9. QED BY <1>6, <1>7, <2>6, <2>8 DEF IInv
  <1>10. QED BY <1>8, <1>9

-------------------------------------------------------------------------------
\* The invariant of injection: whoever has been run has made what its key stands for.
THEOREM IInvHolds == Spec => []IInv
  <1>1. IInv /\ [Next]_vars => IInv'
    <2> SUFFICES ASSUME IInv, [Next]_vars PROVE IInv'
      OBVIOUS
    <2>1. CASE \E p \in program : InitPackage(p)
      BY <2>1, InitPackageOK
    <2>2. CASE NextPhase
      BY <2>2, NextPhaseOK
    <2>3. CASE Inject
      BY <2>3, InjectOK
    <2>4. CASE UNCHANGED vars
      <3>1. UNCHANGED <<program, selectors, namespace, registry, initialized, injectors, phase,
                        context, informers, panicked>>
        BY <2>4 DEF vars, given
      <3>2. Given'
        BY <3>1 DEF IInv, Given
      <3>3. ListsOK'
        BY <3>1 DEF IInv, ListsOK, Waiting, OfPhase, Mine
      <3>4. PanicOK'
        BY <3>1 DEF IInv, PanicOK, MadeOK, RunOK, Supplied, Complete, Mine, Waiting, Each
      <3>5. ContextOK'
        BY <3>1 DEF IInv, ContextOK, Value, FactoryKey
      <3>6. QED BY <3>2, <3>3, <3>4, <3>5 DEF IInv
    <2>5. QED BY <2>1, <2>2, <2>3, <2>4 DEF Next
  <1>2. QED BY <1>1, IInvInit, PTL DEF Spec

\* The process panics for what is incomplete, and for nothing else, in whatever order Go
\* initializes the packages.
THEOREM PanicsIfIncompleteHolds == Spec => []PanicsIfIncomplete
  <1>1. IInv => PanicsIfIncomplete
    <2> SUFFICES ASSUME IInv PROVE PanicsIfIncomplete
      OBVIOUS
    <2>1. panicked => ~ Complete
      BY DEF IInv, PanicOK
    <2>2. ASSUME phase = 5 PROVE Complete
      <3>1. initialized = program /\ \A i \in 1 .. 4 : Waiting(i) = {}
        BY <2>2 DEF IInv, ListsOK
      <3>2. RunOK
        BY <2>2 DEF IInv, PanicOK
      <3>3. ASSUME NEW p \in program, p.registry = registry
            PROVE  Supplied(p)
        <4>1. p \in Mine /\ Phase(p) \in 1 .. 4
          BY <3>1, <3>3, Linked, Phases DEF IInv, Mine
        <4>2. QED BY <3>1, <3>2, <4>1 DEF RunOK
      <3>4. QED BY <3>3 DEF Supplied, Complete
    <2>3. QED BY <2>1, <2>2 DEF PanicsIfIncomplete
  <1>2. QED BY <1>1, IInvHolds, PTL

\* Get of a package returns a factory or informer of its own for each selector.
THEOREM GetsItsOwnHolds == Spec => []GetsItsOwn
  <1>1. IInv => GetsItsOwn
    <2> SUFFICES ASSUME IInv, phase = 5, ~ panicked, NEW p \in program, p.registry = registry,
                        p.layer # "client", NEW s \in Each(p)
                 PROVE  /\ Key(p, s) \in DOMAIN context
                        /\ context[Key(p, s)] = [client |-> registry, selector |-> s,
                                                 namespace |-> namespace, layer |-> p.layer]
      BY DEF GetsItsOwn
    <2>1. p \in Packages /\ Phase(p) \in 1 .. 4 /\ Key(p, s) = <<p.layer, s>>
      BY Linked, Phases, Keys DEF IInv
    <2>2. Key(p, s) \in DOMAIN context
      BY <2>1, Provided
    <2>3. context[Key(p, s)] = Value(<<p.layer, s>>)
      BY <2>1, <2>2 DEF IInv, ContextOK
    <2>4. QED BY <2>2, <2>3 DEF Value
  <1>2. QED BY <1>1, IInvHolds, PTL

\* The informers that will be started are those that can be got from the context.
THEOREM EachIsStartedHolds == Spec => []EachIsStarted
  <1>1. IInv => EachIsStarted
    BY DEF IInv, ContextOK, EachIsStarted, IsInformer
  <1>2. QED BY <1>1, IInvHolds, PTL
===============================================================================
