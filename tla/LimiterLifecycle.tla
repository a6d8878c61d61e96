-------------------------- MODULE LimiterLifecycle --------------------------
(***************************************************************************)
(* From the first setter call to the last destructor.                      *)
(*                                                                         *)
(* An application calls the setters of one builder and Build in any order; *)
(* an object that gets built is constructed, used and destroyed step by    *)
(* step, and the builder may then be used again.  Meanwhile the thread of  *)
(* the OpenTelemetry SDK collects metrics: it calls back into the object   *)
(* through the instruments that are registered at that moment.             *)
(*                                                                         *)
(* The SDK is external: it calls the callbacks with its registry locked,   *)
(* and AddCallback and the destructor of an instrument take the same lock. *)
(* Members are constructed in the order of their declaration and destroyed *)
(* in the reverse order; a virtual call in a constructor or destructor     *)
(* goes to the class whose turn it is.                                     *)
(***************************************************************************)
EXTENDS Builders

CONSTANT MaxCalls   \* bound on the calls on the builder after the required ones

ASSUME LifecycleAssumption == MaxCalls \in Nat

VARIABLES
  class,      \* the class that is built
  builder,    \* the builder's fields
  log,        \* history: the calls made on the builder, successful Builds too
  object,     \* the Params the object was built from, or << >> if none exists
  script,     \* the steps its constructor or destructor has left
  phase,      \* "none", "constructing", "live" or "destroying"
  alive,      \* the members that are constructed
  derived,    \* do virtual calls go to AbstractPartitionedLimiter?
  registered, \* the instruments whose callback is registered
  collecting, \* the instruments the collection under way has still to visit
  registry,   \* is the SDK's registry locked by a collection?
  observing,  \* the instrument whose callback runs, or None
  reading,    \* the members that callback reads
  mu          \* who holds CodelFilter::mu_: "caller", "observer" or None

setup == <<class, builder, log>>
body == <<object, script, phase, alive, derived, registered>>
sdk == <<collecting, registry, observing, reading>>
vars == <<setup, body, sdk, mu>>

None == "none"

\* The calls without which Build would refuse.
Required(c) ==
  CASE c = "SimpleLimiter" -> <<[field |-> "limit", arg |-> "limit"]>>
    [] c = "AbstractPartitionedLimiter" ->
         <<[field |-> "limit", arg |-> "limit"],
           [field |-> "partition", arg |-> <<"a", 2>>],
           [field |-> "resolver", arg |-> "resolver"]>>
    [] c \in {"BlockingLimiter", "LifoBlockingLimiter"} ->
         <<[field |-> "delegate", arg |-> "limiter"]>>
    [] OTHER -> << >>

\* A new builder after those calls; there are none, one or three of them.
Prepared(c) ==
  LET new == Fresh[c]
      calls == Required(c)
  IN  IF Len(calls) = 0 THEN new
      ELSE IF Len(calls) = 1 THEN Apply(new, calls[1])
      ELSE Apply(Apply(Apply(new, calls[1]), calls[2]), calls[3])

Init ==
  /\ class \in Class
  /\ log = Required(class)
  /\ builder = Prepared(class)
  /\ object = << >>
  /\ script = << >>
  /\ phase = "none"
  /\ alive = {}
  /\ derived = FALSE
  /\ registered = {}
  /\ collecting = {}
  /\ registry = FALSE
  /\ observing = None
  /\ reading = {}
  /\ mu = None

----------------------------------------------------------------------------
(* The scripts of construction and destruction.                            *)

Do(what, which) == <<[do |-> what, with |-> which]>>

\* AbstractLimiter: the members callbacks read; all are declared, and so
\* constructed, before the instruments.
BaseMembers == {"inflight", "limit", "id", "outcome_counts"}

DerivedMembers == {"partitions"}

FilterMembers == {"drop_count", "dropping", "mu", "id"}

\* The instruments, in the order of declaration and of registration.
BaseInstruments == <<"limit_gauge", "inflight_counter", "call_counter">>

FilterInstruments == <<"drops_instrument", "dropping_instrument">>

Each(what, instruments) ==
  [i \in DOMAIN instruments |-> [do |-> what, with |-> instruments[i]]]

\* RegisterObservableInstruments does nothing without a MeterProvider.
Register(params, instruments) ==
  IF params.meter_provider = Null THEN << >> ELSE Each("register", instruments)

Constructor(c, params) ==
  LET base == Do("construct", BaseMembers) \o Register(params, BaseInstruments)
  IN CASE c = "SimpleLimiter" -> base
       [] c = "AbstractPartitionedLimiter" ->
            base \o Do("enter", "AbstractPartitionedLimiter")
                 \o Do("construct", DerivedMembers)
                 \o Register(params, <<"partition_limit_gauge">>)
       [] c = "CodelFilter" -> Do("construct", FilterMembers)
                               \o Register(params, FilterInstruments)
       [] OTHER -> << >>

BaseTeardown_MembersFirst ==
  Do("destroy", BaseMembers) \o Each("unregister", Reverse(BaseInstruments))

BaseTeardown_LeaksCounter ==
  Each("unregister", <<"inflight_counter", "limit_gauge">>)
  \o Do("destroy", BaseMembers)

\* ~AbstractLimiter: the instruments are declared last and go first.
BaseTeardown ==
  Each("unregister", Reverse(BaseInstruments)) \o Do("destroy", BaseMembers)

Destructor(c) ==
  CASE c = "SimpleLimiter" -> BaseTeardown
    [] c = "AbstractPartitionedLimiter" ->
         Do("unregister", "partition_limit_gauge")
         \o Do("destroy", DerivedMembers)
         \o Do("leave", "AbstractPartitionedLimiter")
         \o BaseTeardown
    [] c = "CodelFilter" ->
         Each("unregister", Reverse(FilterInstruments))
         \o Do("destroy", FilterMembers)
    [] OTHER -> << >>

----------------------------------------------------------------------------
(* The application.                                                        *)

\* A setter call; every builder may be changed at any time.
Set(c) ==
  /\ phase = "none"
  /\ Len(log) < MaxCalls + Len(Required(class))
  /\ builder' = Apply(builder, c)
  /\ log' = Append(log, c)
  /\ UNCHANGED <<class, body, sdk, mu>>

FailedBuild_Moves == AfterBuild(class, builder)

\* What a Build that reports an error leaves in the builder.
FailedBuild == Resolved(class, builder)

BuildFails ==
  /\ phase = "none"
  /\ ~Valid(class, builder)
  /\ builder' = FailedBuild
  /\ UNCHANGED <<class, log, body, sdk, mu>>

BuildSucceeds ==
  /\ phase = "none"
  /\ Valid(class, builder)
  /\ Len(log) <= MaxCalls + Len(Required(class))
  /\ builder' = AfterBuild(class, builder)
  /\ log' = Append(log, [field |-> "build", arg |-> "ok"])
  /\ object' = Params(class, builder)
  /\ script' = Constructor(class, object')
  /\ phase' = "constructing"
  /\ UNCHANGED <<class, alive, derived, registered, sdk, mu>>

\* The object is destroyed when nobody uses it any more.
BeginDestroy ==
  /\ phase = "live"
  /\ mu # "caller"
  /\ script' = Destructor(class)
  /\ phase' = "destroying"
  /\ UNCHANGED <<setup, object, alive, derived, registered, sdk, mu>>

\* ShouldDrop and the accessors of CodelFilter hold mu_ for a while.
LockFilter ==
  /\ class = "CodelFilter"
  /\ phase = "live"
  /\ mu = None
  /\ mu' = "caller"
  /\ UNCHANGED <<setup, body, sdk>>

UnlockFilter ==
  /\ mu = "caller"
  /\ mu' = None
  /\ UNCHANGED <<setup, body, sdk>>

----------------------------------------------------------------------------
(* Constructor and destructor steps.                                       *)

Step(what) == script # << >> /\ Head(script).do = what /\ script' = Tail(script)

With == Head(script).with

MemberStep ==
  /\ \/ Step("construct") /\ alive' = alive \union With
     \/ Step("destroy") /\ alive' = alive \ With
  /\ UNCHANGED <<setup, object, phase, derived, registered, sdk, mu>>

VirtualStep ==
  /\ \/ Step("enter") /\ derived' = TRUE
     \/ Step("leave") /\ derived' = FALSE
  /\ UNCHANGED <<setup, object, phase, alive, registered, sdk, mu>>

\* AddCallback, and the destructor of an instrument, wait for a collection.
InstrumentStep ==
  /\ ~registry
  /\ \/ Step("register") /\ registered' = registered \union {With}
     \/ Step("unregister") /\ registered' = registered \ {With}
  /\ UNCHANGED <<setup, object, phase, alive, derived, sdk, mu>>

Constructed ==
  /\ phase = "constructing"
  /\ script = << >>
  /\ phase' = "live"
  /\ UNCHANGED <<setup, object, script, alive, derived, registered, sdk, mu>>

Destroyed ==
  /\ phase = "destroying"
  /\ script = << >>
  /\ phase' = "none"
  /\ object' = << >>
  /\ UNCHANGED <<setup, script, alive, derived, registered, sdk, mu>>

----------------------------------------------------------------------------
(* The collection thread.                                                  *)

BeginCollection ==
  /\ ~registry
  /\ registered # {}
  /\ registry' = TRUE
  /\ collecting' = registered
  /\ UNCHANGED <<setup, body, observing, reading, mu>>

\* The members a callback reads; OnObserveInflight is virtual.
Reads(i) ==
  CASE i = "limit_gauge" -> {"limit", "id"}
    [] i = "inflight_counter" ->
         {"inflight", "id"} \union (IF derived THEN DerivedMembers ELSE {})
    [] i = "call_counter" -> {"outcome_counts", "id"}
    [] i = "partition_limit_gauge" -> {"partitions", "id"}
    [] i = "drops_instrument" -> {"drop_count", "id"}
    [] i = "dropping_instrument" -> {"mu", "dropping", "id"}

\* ObserveDropping takes mu_ for its reads.
Observe(i) ==
  /\ observing = None
  /\ i \in collecting
  /\ \/ i # "dropping_instrument" /\ UNCHANGED mu
     \/ i = "dropping_instrument" /\ mu = None /\ mu' = "observer"
  /\ observing' = i
  /\ reading' = Reads(i)
  /\ UNCHANGED <<setup, body, collecting, registry>>

ObserverUnlocks_Never == mu

ObserverUnlocks == IF mu = "observer" THEN None ELSE mu

ObserveReturns ==
  /\ observing # None
  /\ collecting' = collecting \ {observing}
  /\ observing' = None
  /\ reading' = {}
  /\ mu' = ObserverUnlocks
  /\ UNCHANGED <<setup, body, registry>>

EndCollection ==
  /\ registry
  /\ collecting = {}
  /\ registry' = FALSE
  /\ UNCHANGED <<setup, body, collecting, observing, reading, mu>>

----------------------------------------------------------------------------
Application ==
  \/ \E c \in Calls[class] : Set(c)
  \/ BuildFails \/ BuildSucceeds
  \/ BeginDestroy \/ LockFilter \/ UnlockFilter

Lifetime == \/ MemberStep \/ VirtualStep \/ InstrumentStep
            \/ Constructed \/ Destroyed

Collection == \/ BeginCollection \/ EndCollection \/ ObserveReturns
              \/ \E i \in collecting : Observe(i)

Next == Application \/ Lifetime \/ Collection

Spec == Init /\ [][Next]_vars

\* A constructor or destructor and a collection under way keep running, and
\* both locks are granted eventually.  Nobody has to begin a collection.
Fairness ==
  /\ SF_vars(Lifetime)
  /\ WF_vars(UnlockFilter)
  /\ WF_vars(EndCollection) /\ WF_vars(ObserveReturns)
  /\ SF_vars(\E i \in collecting : Observe(i))

FairSpec == Spec /\ Fairness

----------------------------------------------------------------------------
(* Properties.                                                             *)

\* Every variable keeps its type, and nothing stays registered, observed or
\* constructed once an object is gone.
TypeOK ==
  /\ class \in Class
  /\ DOMAIN builder = DOMAIN Fresh[class]
  /\ phase \in {"none", "constructing", "live", "destroying"}
  /\ derived \in BOOLEAN /\ registry \in BOOLEAN
  /\ collecting \subseteq registered
  /\ observing \in collecting \union {None}
  /\ mu \in {"caller", "observer", None}
  /\ phase = "none" =>
       /\ object = << >> /\ alive = {} /\ registered = {} /\ ~registry
       /\ reading = {} /\ mu = None

\* The calls made before the Build that made the object, and the last of them
\* about a field, of those that count.
Before == 1 .. Len(log) - 1

LastBuild == Max({0} \union {i \in Before : log[i].field = "build"})

About(field, from) == {i \in Before : i > from /\ log[i].field = field}

AboutName(field, name) == {i \in About(field, 0) : log[i].arg[1] = name}

\* The setter of a field, and the field's value when it was not called.
SetterOf(f) == IF f \in {"timeout_fn", "fixed_timeout"} THEN "backlog_timeout"
               ELSE f

Default(f) == Params(class, Fresh[class])[f]

\* The value asked for by the last call of the setter of f; what a previous
\* Build moved out is back at its default unless it was set again.
Asked(f) ==
  LET calls == About(SetterOf(f), IF f \in MovedFrom[class] THEN LastBuild ELSE 0)
      arg == log[Max(calls)].arg
  IN  IF calls = {} \/ (f = "queue_size_fn" /\ arg = Null) THEN Default(f)
      ELSE IF f = "fixed_timeout" /\ arg \notin Fixed THEN Null
      ELSE arg

\* The partitions asked for: one for each name, in the order of their first
\* declaration, with the last share and the last reject delay given for it.
AskedPartitions(ps) ==
  LET declared == 1 .. Len(ps) - 1
      named(i) == AboutName("partition", ps[i].name)
      delays(i) == AboutName("reject_delay", ps[i].name)
  IN  /\ ps[Len(ps)].name = Unknown
      /\ {ps[i].name : i \in declared}
           = {log[i].arg[1] : i \in About("partition", 0)}
      /\ \A i, j \in declared : i < j => Min(named(i)) < Min(named(j))
      /\ \A i \in declared :
           /\ ps[i].percent = log[Max(named(i))].arg[2]
           /\ ps[i].reject_delay =
                IF delays(i) = {} THEN 0 ELSE log[Max(delays(i))].arg[2]

\* The resolvers asked for since the previous Build, which moved the earlier
\* ones out, in the order of the calls: the one of the k-th call runs as k-th.
AskedResolvers(rs) ==
  LET calls == About("resolver", LastBuild)
  IN  /\ Len(rs) = Cardinality(calls)
      /\ \A i \in calls : rs[Cardinality({j \in calls : j <= i})] = log[i].arg

\* An object is built the way the last call of each setter asked for, no matter
\* in which order they came, how many Builds failed before and what a failed
\* Build had already written into the builder.
BuiltAsAsked ==
  phase # "none" =>
    /\ \A f \in DOMAIN object \ {"partitions", "partition_resolvers"} :
         object[f] = Asked(f)
    /\ class = "AbstractPartitionedLimiter" =>
         /\ AskedPartitions(object.partitions)
         /\ AskedResolvers(object.partition_resolvers)

\* A callback reads only members that are constructed and not yet destroyed,
\* with one exception: OnObserveInflight, registered by the base class's
\* constructor and unregistered by its destructor, may be dispatched to
\* AbstractPartitionedLimiter before partitions_ is there or after it is gone.
ObserversReadLiveMembers ==
  reading \subseteq
    alive \union (IF observing = "inflight_counter" THEN DerivedMembers ELSE {})

\* A constructor and a destructor end although they wait for collections, and
\* the observer of CodelFilter waits for mu_ with the registry locked.
LifetimeProgresses ==
  phase \in {"constructing", "destroying"} ~> phase \in {"live", "none"}
=============================================================================
