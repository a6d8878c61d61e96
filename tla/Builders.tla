------------------------------ MODULE Builders ------------------------------
(***************************************************************************)
(* The Builder classes: what each setter stores, what Build insists on,    *)
(* what it hands to the constructor and what it moves out of the builder.  *)
(*                                                                         *)
(* A builder is a record of its private fields, a setter call a record of  *)
(* the field it is about and its argument.  Null stands for a null         *)
(* pointer, an empty function and an empty string, which is also what the  *)
(* libraries leave behind in a moved-from one.  Durations and sizes are    *)
(* small numbers, shares integers over ShareBase.                          *)
(***************************************************************************)
EXTENDS Integers, Sequences, FiniteSets, FiniteSetsExt, SequencesExt

ShareBase == 4

Null == "null"

Unknown == "unknown"   \* kUnknownPartitionName

kMaxTimeout == 3

Class == {"SimpleLimiter", "AbstractPartitionedLimiter", "BlockingLimiter",
          "LifoBlockingLimiter", "CodelFilter", "WindowedLimit",
          "Gradient2Limit"}

\* A call of the setter of field, with one of args.
Call(field, args) == [field : {field}, arg : args]

----------------------------------------------------------------------------
(* For each builder its fields with their initial values, its setters with *)
(* arguments for the ways through Build, and what Build insists on.  An    *)
(* empty partition name is refused like the reserved one, which stands for *)
(* both; a share that is not a number is not among the arguments.          *)

SimpleFields == [limit |-> Null, id |-> Null, bypass_predicate |-> Null,
                 meter_provider |-> Null]

SimpleCalls == Call("limit", {"limit"}) \union Call("id", {"id"})
               \union Call("bypass_predicate", {"bypass"})
               \union Call("meter_provider", {"meter"})

SimpleValid(s) == s.limit # Null

PartitionedFields ==
  [limit |-> Null, id |-> Null, bypass_predicate |-> Null,
   meter_provider |-> Null, partition_specs |-> << >>,
   pending_reject_delays |-> << >>, partition_resolvers |-> << >>,
   max_delayed_threads |-> 100, sleep_fn |-> Null]

PartitionedCalls ==
  SimpleCalls
  \union Call("partition", {<<"a", 1>>, <<"a", -1>>, <<"b", 3>>, <<Unknown, 0>>})
  \union Call("reject_delay", {<<"a", 1>>, <<"b", 1>>, <<"b", 2>>})
  \union Call("resolver", {"resolver", Null})
  \union Call("max_delayed_threads", {-1})
  \union Call("sleep_fn", {"sleep"})

Named(specs, name) == {i \in DOMAIN specs : specs[i].name = name}

SumFits(specs) ==
  FoldLeft(LAMBDA sum, spec : sum + spec.percent, 0, specs) <= ShareBase

\* The checks up to the resolution of reject delays.
SharesValid(s) ==
  /\ s.limit # Null
  /\ s.partition_specs # << >>
  /\ s.partition_resolvers # << >>
  /\ s.max_delayed_threads >= 0
  /\ \A i \in DOMAIN s.partition_specs :
       LET spec == s.partition_specs[i]
       IN  spec.name # Unknown /\ spec.percent \in 0 .. ShareBase
  /\ SumFits(s.partition_specs)

\* How many pending reject delays come before the first undeclared name.
Resolvable(s) ==
  LET pending == s.pending_reject_delays
      undeclared == {i \in DOMAIN pending :
                       Named(s.partition_specs, pending[i][1]) = {}}
  IN  IF undeclared = {} THEN Len(pending) ELSE Min(undeclared) - 1

PartitionedValid(s) ==
  /\ SharesValid(s)
  /\ Resolvable(s) = Len(s.pending_reject_delays)
  /\ Null \notin ToSet(s.partition_resolvers)

BlockingFields == [delegate |-> Null, timeout |-> kMaxTimeout]

BlockingCalls == Call("delegate", {"limiter"}) \union Call("timeout", {0, 1, 4})

BlockingValid(s) == s.delegate # Null /\ s.timeout \in 1 .. kMaxTimeout

LifoFields == [delegate |-> Null, backlog_size |-> 100, timeout_fn |-> "second",
               fixed_timeout |-> "second"]

LifoCalls ==
  Call("delegate", {"limiter"}) \union Call("backlog_size", {0, 1})
  \union Call("backlog_timeout", {"zero", "minute", "day", "fn", Null})

\* "day" is beyond kMaxTimeout; a timeout function is not bounded.
LifoValid(s) == /\ s.delegate # Null
                /\ s.backlog_size >= 1
                /\ s.timeout_fn # Null
                /\ s.fixed_timeout \notin {"zero", "day"}

CodelFields == [target |-> 5, interval |-> 100, clock |-> Null, id |-> Null,
                meter_provider |-> Null]

CodelCalls == Call("target", {0, 1}) \union Call("interval", {0, 1})
              \union Call("clock", {"clock"}) \union Call("id", {"id"})
              \union Call("meter_provider", {"meter"})

CodelValid(s) == s.target > 0 /\ s.interval > 0

WindowedFields ==
  [min_window_time_ns |-> 2, max_window_time_ns |-> 2, window_size |-> 10,
   min_rtt_threshold_ns |-> 1, sample_window_factory |-> Null]

WindowedCalls ==
  Call("min_window_time_ns", {0, 3}) \union Call("max_window_time_ns", {0, 3})
  \union Call("window_size", {0, 1}) \union Call("min_rtt_threshold_ns", {-1, 0})
  \union Call("sample_window_factory", {"percentile"})

WindowedValid(s) == /\ s.min_window_time_ns > 0 /\ s.max_window_time_ns > 0
                    /\ s.min_window_time_ns <= s.max_window_time_ns
                    /\ s.window_size >= 1
                    /\ s.min_rtt_threshold_ns >= 0

Gradient2Fields ==
  [initial_limit |-> 20, min_limit |-> 20, max_concurrency |-> 200,
   queue_size_fn |-> "sqrt", rtt_tolerance |-> 3, smoothing |-> 1,
   long_window |-> 600, id |-> Null, meter_provider |-> Null]

Gradient2Calls ==
  Call("initial_limit", {1}) \union Call("min_limit", {1})
  \union Call("max_concurrency", {9}) \union Call("queue_size_fn", {"4", Null})
  \union Call("rtt_tolerance", {2}) \union Call("smoothing", {0})
  \union Call("long_window", {1}) \union Call("id", {"id"})
  \union Call("meter_provider", {"meter"})

Fresh == [SimpleLimiter |-> SimpleFields,
          AbstractPartitionedLimiter |-> PartitionedFields,
          BlockingLimiter |-> BlockingFields,
          LifoBlockingLimiter |-> LifoFields,
          CodelFilter |-> CodelFields,
          WindowedLimit |-> WindowedFields,
          Gradient2Limit |-> Gradient2Fields]

Calls == [SimpleLimiter |-> SimpleCalls,
          AbstractPartitionedLimiter |-> PartitionedCalls,
          BlockingLimiter |-> BlockingCalls,
          LifoBlockingLimiter |-> LifoCalls,
          CodelFilter |-> CodelCalls,
          WindowedLimit |-> WindowedCalls,
          Gradient2Limit |-> Gradient2Calls]

Valid(class, s) ==
  CASE class = "SimpleLimiter" -> SimpleValid(s)
    [] class = "AbstractPartitionedLimiter" -> PartitionedValid(s)
    [] class = "BlockingLimiter" -> BlockingValid(s)
    [] class = "LifoBlockingLimiter" -> LifoValid(s)
    [] class = "CodelFilter" -> CodelValid(s)
    [] class = "WindowedLimit" -> WindowedValid(s)
    [] class = "Gradient2Limit" -> TRUE

----------------------------------------------------------------------------
(* What the setters do.                                                    *)

Fixed == {"zero", "second", "minute", "day"}   \* arguments that are durations

\* FindOrAddPartitionSpec(name).percent = percent
Partition(specs, name, percent) ==
  IF Named(specs, name) = {}
  THEN Append(specs, [name |-> name, percent |-> percent, reject_delay |-> 0])
  ELSE [i \in DOMAIN specs |->
          IF specs[i].name = name THEN [specs[i] EXCEPT !.percent = percent]
                                  ELSE specs[i]]

\* The builder s after the setter call c.
Apply(s, c) ==
  CASE c.field = "partition" ->
         [s EXCEPT !.partition_specs = Partition(@, c.arg[1], c.arg[2])]
    [] c.field = "reject_delay" ->
         [s EXCEPT !.pending_reject_delays = Append(@, c.arg)]
    [] c.field = "resolver" ->
         [s EXCEPT !.partition_resolvers = Append(@, c.arg)]
    [] c.field = "backlog_timeout" ->
         [s EXCEPT !.timeout_fn = c.arg,
                   !.fixed_timeout = IF c.arg \in Fixed THEN c.arg ELSE Null]
    [] c.field = "queue_size_fn" ->
         [s EXCEPT !.queue_size_fn = IF c.arg = Null THEN "sqrt" ELSE c.arg]
    [] OTHER -> [s EXCEPT ![c.field] = c.arg]

----------------------------------------------------------------------------
(* Build.                                                                  *)

\* Reject delays are written in the order they were given: the last one for a
\* name stays, and a partition without one keeps what it has.
Delayed(specs, pending) ==
  LET given(i) == {k \in DOMAIN pending : pending[k][1] = specs[i].name}
  IN  [i \in DOMAIN specs |->
         IF given(i) = {} THEN specs[i]
         ELSE [specs[i] EXCEPT !.reject_delay = pending[Max(given(i))][2]]]

\* A Build that gets as far as the reject delays writes them into its specs,
\* also when it fails after that.
Resolved(class, s) ==
  IF class = "AbstractPartitionedLimiter" /\ SharesValid(s)
  THEN [s EXCEPT !.partition_specs =
          Delayed(@, SubSeq(s.pending_reject_delays, 1, Resolvable(s)))]
  ELSE s

\* The fields a successful Build moves from; the others are copied.
SimpleMoves == DOMAIN SimpleFields

PartitionedMoves == SimpleMoves \union {"partition_resolvers", "sleep_fn"}

BlockingMoves == {"delegate"}

LifoMoves == {"delegate", "timeout_fn"}

CodelMoves == {"clock", "id", "meter_provider"}

MovedFrom == [SimpleLimiter |-> SimpleMoves,
              AbstractPartitionedLimiter |-> PartitionedMoves,
              BlockingLimiter |-> BlockingMoves,
              LifoBlockingLimiter |-> LifoMoves,
              CodelFilter |-> CodelMoves,
              WindowedLimit |-> {},
              Gradient2Limit |-> {}]

\* What a moved-from field holds.
Emptied(f) == IF f = "partition_resolvers" THEN << >> ELSE Null

AfterBuild(class, s) ==
  [f \in DOMAIN s |-> IF f \in MovedFrom[class] THEN Emptied(f)
                      ELSE Resolved(class, s)[f]]

OrElse(value, default) == IF value = Null THEN default ELSE value

\* The Params a successful Build constructs the object from.
PartitionedParams(s) ==
  [f \in (DOMAIN s \ {"partition_specs", "pending_reject_delays"})
           \union {"partitions"} |->
     CASE f = "partitions" ->
            Append(Resolved("AbstractPartitionedLimiter", s).partition_specs,
                   [name |-> Unknown, percent |-> 0, reject_delay |-> 0])
       [] f = "sleep_fn" -> OrElse(s.sleep_fn, "sleep_for")
       [] OTHER -> s[f]]

CodelParams(s) == [s EXCEPT !.clock = OrElse(@, "absl::Now")]

WindowedParams(s) == [s EXCEPT !.sample_window_factory = OrElse(@, "average")]

Params(class, s) ==
  CASE class = "AbstractPartitionedLimiter" -> PartitionedParams(s)
    [] class = "CodelFilter" -> CodelParams(s)
    [] class = "WindowedLimit" -> WindowedParams(s)
    [] OTHER -> s
=============================================================================
