------------------------------- MODULE Injection -------------------------------
(***************************************************************************)
(* The clients, factories and informers of KEDA's objects that a process   *)
(* finds in its context.  Each package under pkg/client/injection          *)
(* registers an injector when Go initializes it, in any order that imports *)
(* allow; SetupInformers then runs the injectors of a registry, phase by   *)
(* phase.  An injector panics if what it takes from the context is not     *)
(* there.  The fake packages do the same for tests, in a registry of their *)
(* own but under the keys of the real ones.                                *)
(***************************************************************************)
EXTENDS Naturals, Sequences

CONSTANTS
  Programs,       \* the sets of packages that are linked together
  Selectors,      \* the label selectors
  SelectorLists,  \* what is given to WithSelectors; None: it was not called
  Namespaces,     \* what is given to WithNamespaceScope; "": no scope
  None

-------------------------------------------------------------------------------
(* Packages: the registry they register with and what they provide, for all *)
(* objects or filtered by selectors.                                        *)

ObjectKinds ==
  {"ScaledObject", "ScaledJob", "TriggerAuthentication", "ClusterTriggerAuthentication"}

\* There is no filtered client: it is the factory that lists.
Packages ==
  { p \in [registry: {"Default", "Fake"}, layer: {"client", "factory"} \cup ObjectKinds,
           filtered: BOOLEAN] : p.layer = "client" => ~ p.filtered }

Package(registry, layer, filtered) ==
  [registry |-> registry, layer |-> layer, filtered |-> filtered]

Client              == Package("Default", "client", FALSE)
Factory             == Package("Default", "factory", FALSE)
FilteredFactory     == Package("Default", "factory", TRUE)
FakeClient          == Package("Fake", "client", FALSE)
FakeFactory         == Package("Fake", "factory", FALSE)
FakeFilteredFactory == Package("Fake", "factory", TRUE)

ScaledObjects                         == Package("Default", "ScaledObject", FALSE)
ScaledJobs                            == Package("Default", "ScaledJob", FALSE)
TriggerAuthentications                == Package("Default", "TriggerAuthentication", FALSE)
ClusterTriggerAuthentications         == Package("Default", "ClusterTriggerAuthentication", FALSE)
FilteredScaledObjects                 == Package("Default", "ScaledObject", TRUE)
FilteredScaledJobs                    == Package("Default", "ScaledJob", TRUE)
FilteredTriggerAuthentications        == Package("Default", "TriggerAuthentication", TRUE)
FilteredClusterTriggerAuthentications == Package("Default", "ClusterTriggerAuthentication", TRUE)
FakeScaledObjects                     == Package("Fake", "ScaledObject", FALSE)
FakeScaledJobs                        == Package("Fake", "ScaledJob", FALSE)
FakeTriggerAuthentications            == Package("Fake", "TriggerAuthentication", FALSE)
FakeClusterTriggerAuthentications     == Package("Fake", "ClusterTriggerAuthentication", FALSE)
FakeFilteredScaledObjects             == Package("Fake", "ScaledObject", TRUE)
FakeFilteredScaledJobs                == Package("Fake", "ScaledJob", TRUE)
FakeFilteredTriggerAuthentications    == Package("Fake", "TriggerAuthentication", TRUE)
FakeFilteredClusterTriggerAuthentications ==
  Package("Fake", "ClusterTriggerAuthentication", TRUE)

\* A fake imports the real package, and the fake of what its injector takes; only the
\* fake filtered informers take it from the real factory and import no fake one.
Imports(p) ==
  CASE p.layer = "client"  -> IF p.registry = "Default" THEN {} ELSE {Client}
    [] p.layer = "factory" -> IF p.registry = "Default" THEN {Client}
                              ELSE {[p EXCEPT !.registry = "Default"], FakeClient}
    [] OTHER -> IF p.registry = "Default" THEN {IF p.filtered THEN FilteredFactory ELSE Factory}
                ELSE {[p EXCEPT !.registry = "Default"],
                      IF p.filtered THEN FilteredFactory ELSE FakeFactory}

\* Go links with a package all that it imports, and asks for no more.
ASSUME InjectionAssumption ==
  /\ \A program \in Programs :
       program \subseteq Packages /\ \A p \in program : Imports(p) \subseteq program
  /\ SelectorLists \subseteq Seq(Selectors) \cup {None} /\ None \notin Selectors

VARIABLES
  program, selectors, namespace, registry,    \* what is linked, given, and set up
  initialized,     \* the packages whose init has run
  injectors,       \* phase -> the registered injectors, by their packages
  phase,           \* 0 while packages are initialized; 5 when all is set up
  context,         \* key -> what is in the context
  informers,       \* those that will be started
  panicked

given == <<program, selectors, namespace, registry>>
vars  == <<given, initialized, injectors, phase, context, informers, panicked>>

Init ==
  /\ program \in Programs /\ selectors \in SelectorLists /\ namespace \in Namespaces
  /\ registry \in {"Default", "Fake"}
  /\ initialized = {} /\ injectors = [i \in 1 .. 4 |-> <<>>] /\ phase = 0
  /\ context = <<>> /\ informers = {} /\ panicked = FALSE

-------------------------------------------------------------------------------
OnePhase(p) == 1           \* mutant: injectors run in the order of registration
Phase(p) ==
  CASE p.layer = "client" -> 1 [] p.layer = "factory" -> 2 [] OTHER -> IF p.filtered THEN 4 ELSE 3

\* The init function of a package, after those of its imports.
InitPackage(p) ==
  /\ phase = 0 /\ p \in program \ initialized /\ Imports(p) \subseteq initialized
  /\ initialized' = initialized \cup {p}
  /\ injectors' = IF p.registry = registry
                  THEN [injectors EXCEPT ![Phase(p)] = Append(@, p)] ELSE injectors
  /\ UNCHANGED <<given, phase, context, informers, panicked>>

NextPhase ==
  /\ ~ panicked
  /\ IF phase = 0 THEN initialized = program ELSE phase <= 4 /\ injectors[phase] = <<>>
  /\ phase' = phase + 1
  /\ UNCHANGED <<given, initialized, injectors, context, informers, panicked>>

\* The loop over the selectors that were given: what is not filtered is made once.
Each(p) == IF p.filtered THEN {selectors[i] : i \in DOMAIN selectors} ELSE {None}

\* The keys of the context: a struct of each package, with a field for the selector in
\* those that are filtered.
ClientKey                  == <<"client", None>>
FactoryKey(s)              == <<"factory", s>>
InformerKeyOfKind(kind, s) == <<kind, None>>     \* mutant: forgets the selector
InformerKey(kind, s)       == <<kind, s>>

Key(p, s) == CASE p.layer = "client"  -> ClientKey
               [] p.layer = "factory" -> FactoryKey(s)
               [] OTHER               -> InformerKey(p.layer, s)

\* What an injector takes from the context ...
Takes(p, s) ==
  CASE p.layer = "client"  -> {}
    [] p.layer = "factory" -> {ClientKey}
    [] OTHER               -> {FactoryKey(s)}

\* The selector that a filtered factory lists with, by a closure over a variable of the
\* loop's body; the mutant declares it before the loop, which leaves it at the last.
LastSelector(s) == IF s = None THEN None ELSE selectors[Len(selectors)]
SelectorVal(s)  == s

\* ... and what it makes of it: a client, a factory of that client, an informer of that
\* factory.
Makes(p, s) ==
  CASE p.layer = "client" ->
         [client |-> p.registry, selector |-> None, namespace |-> "", layer |-> "client"]
    [] p.layer = "factory" ->
         [client |-> context[ClientKey].client, selector |-> SelectorVal(s),
          namespace |-> namespace, layer |-> "factory"]
    [] OTHER -> [context[FactoryKey(s)] EXCEPT !.layer = p.layer]

\* An injector panics without the selectors that it asks for, or what it takes for one.
Misses(p) ==
  (p.filtered /\ selectors = None) \/ \E s \in Each(p) : ~ Takes(p, s) \subseteq DOMAIN context

\* SetupInformers runs the next injector.
Inject ==
  /\ phase \in 1 .. 4 /\ injectors[phase] # <<>> /\ ~ panicked
  /\ injectors' = [injectors EXCEPT ![phase] = Tail(@)]
  /\ LET p == Head(injectors[phase]) IN
     IF Misses(p)
     THEN panicked' = TRUE /\ UNCHANGED <<context, informers>>
     ELSE LET keys == {Key(p, s) : s \in Each(p)} IN
          /\ context' = [k \in keys \cup DOMAIN context |->
               IF k \in keys THEN Makes(p, CHOOSE s \in Each(p) : Key(p, s) = k) ELSE context[k]]
          /\ informers' = IF p.layer \in {"client", "factory"} THEN informers
                          ELSE informers \cup {Makes(p, s) : s \in Each(p)}
          /\ UNCHANGED panicked
  /\ UNCHANGED <<given, initialized, phase>>

Next == NextPhase \/ Inject \/ \E p \in program : InitPackage(p)
Spec == Init /\ [][Next]_vars

-------------------------------------------------------------------------------
\* What a program must have for the registry that is set up: selectors, if anything in it is
\* filtered, and the fake filtered factory, which no import of a fake filtered informer links.
Complete ==
  \A p \in program : p.registry = registry /\ p.filtered =>
    /\ selectors # None
    /\ registry = "Fake" /\ selectors # <<>> => FakeFilteredFactory \in program

\* Whatever is linked, and in whatever order Go initializes it, the process panics for what is
\* incomplete, and for nothing else: no order makes an injector look for what is not there yet,
\* and none lets a process run without what it lacks.
PanicsIfIncomplete == (panicked => ~ Complete) /\ (phase = 5 => Complete)

\* What Get of a package returns: for each selector a factory or informer of its own,
\* which lists with that selector, in the namespace the process is scoped to, with the
\* client of the registry that is set up.
GetsItsOwn ==
  phase = 5 /\ ~ panicked =>
    \A p \in program : p.registry = registry /\ p.layer # "client" =>
      \A s \in Each(p) : /\ Key(p, s) \in DOMAIN context
                         /\ context[Key(p, s)] = [client |-> registry, selector |-> s,
                                                        namespace |-> namespace, layer |-> p.layer]

\* An informer that can be got from the context is one that will be started, and none
\* is started that cannot be got: a lister that is never filled would go unnoticed.
EachIsStarted ==
  phase = 5 /\ ~ panicked =>
    informers = {context[k] : k \in {k \in DOMAIN context : k[1] \notin {"client", "factory"}}}
===============================================================================
