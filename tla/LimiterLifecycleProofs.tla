----------------------- MODULE LimiterLifecycleProofs -----------------------
(***************************************************************************)
(* Proofs about LimiterLifecycle: nothing of an object outlives it, and    *)
(* the callbacks read live members, for any number of calls on the builder *)
(* and any collections.                                                    *)
(*                                                                         *)
(* The argument follows the script.  Whatever is registered needs only     *)
(* members that are alive; what a constructor has still to register needs  *)
(* members that are alive or that it constructs before; what a destructor  *)
(* finds registered it removes before it destroys what the callback needs. *)
(* A collection keeps the registry locked, so that no instrument goes away *)
(* under it.                                                               *)
(*                                                                         *)
(* What is built follows the log of the calls.  Every field of the builder *)
(* holds what the last call of its setter gave, counted from the last      *)
(* successful Build for a field that Build moves out; the partitions, the  *)
(* pending delays and the resolvers are lists in step with the calls that  *)
(* fill them (Tracks).  A setter, a Build that fails and a Build that      *)
(* succeeds keep this, and a Build that succeeds therefore gives what was  *)
(* asked for.                                                              *)
(***************************************************************************)
EXTENDS LimiterLifecycle, SequenceTheorems, FiniteSetTheorems,
        WellFoundedInduction, TLAPS

----------------------------------------------------------------------------
(* The inductive invariant.                                                *)

\* The members callbacks read, and the instruments, of an object of class c.
Members(c) ==
  CASE c = "SimpleLimiter" -> BaseMembers
    [] c = "AbstractPartitionedLimiter" -> BaseMembers \union DerivedMembers
    [] c = "CodelFilter" -> FilterMembers
    [] OTHER -> {}

\* The instruments of an object of class c.
Instruments(c) ==
  CASE c = "SimpleLimiter" -> {"limit_gauge", "inflight_counter", "call_counter"}
    [] c = "AbstractPartitionedLimiter" ->
         {"limit_gauge", "inflight_counter", "call_counter",
          "partition_limit_gauge"}
    [] c = "CodelFilter" -> {"drops_instrument", "dropping_instrument"}
    [] OTHER -> {}

\* What a callback reads, without the partitions the virtual call may lead to.
Needs(i) ==
  CASE i = "limit_gauge" -> {"limit", "id"}
    [] i = "inflight_counter" -> {"inflight", "id"}
    [] i = "call_counter" -> {"outcome_counts", "id"}
    [] i = "partition_limit_gauge" -> {"partitions", "id"}
    [] i = "drops_instrument" -> {"drop_count", "id"}
    [] i = "dropping_instrument" -> {"mu", "dropping", "id"}

\* A step of a script.
Word == {"construct", "destroy", "enter", "leave", "register", "unregister"}

Instrument == {"limit_gauge", "inflight_counter", "call_counter",
               "partition_limit_gauge", "drops_instrument",
               "dropping_instrument"}

Operand == Instrument \union {"AbstractPartitionedLimiter"}
             \union SUBSET (BaseMembers \union DerivedMembers \union FilterMembers)

Op == [do : Word, with : Operand]

\* The script s constructs members of class c, and registers its instruments
\* after the members they need, of which those in A are there already.
Constructs(c, s, A) ==
  \A i \in DOMAIN s :
    \/ s[i].do = "enter"
    \/ s[i].do = "construct" /\ s[i].with \subseteq Members(c)
    \/ /\ s[i].do = "register" /\ s[i].with \in Instruments(c)
       /\ \A m \in Needs(s[i].with) :
            m \in A \/ \E j \in 1 .. i - 1 :
                         s[j].do = "construct" /\ m \in s[j].with

\* The script s destroys the members in A and unregisters the instruments in R,
\* each before a member that it needs.
Destroys(s, A, R) ==
  /\ \A i \in DOMAIN s : s[i].do \in {"leave", "destroy", "unregister"}
  /\ \A m \in A : \E i \in DOMAIN s : s[i].do = "destroy" /\ m \in s[i].with
  /\ \A n \in R : \E i \in DOMAIN s :
       /\ s[i].do = "unregister" /\ s[i].with = n
       /\ \A j \in 1 .. i - 1 :
            s[j].do = "destroy" => Needs(n) \cap s[j].with = {}

\* Where the object is in its life, and what its script has still to do.
Scripted ==
  /\ script \in Seq(Op)
  /\ alive \subseteq Members(class)
  /\ registered \subseteq Instruments(class)
  /\ \A n \in registered : Needs(n) \subseteq alive
  /\ phase \in {"none", "live"} => script = << >>
  /\ phase = "constructing" => Constructs(class, script, alive)
  /\ phase = "destroying" => Destroys(script, alive, registered)
  /\ phase = "none" => object = << >> /\ alive = {} /\ registered = {}

\* A collection has the registry locked and something to visit; mu_ is taken
\* by the users of a live filter and by its observer.
Collects ==
  /\ registry => registered # {}
  /\ ~registry => collecting = {}
  /\ collecting \subseteq registered
  /\ observing \in collecting \union {None}
  /\ observing = None => reading = {}
  /\ observing # None =>
       reading \subseteq Needs(observing) \union
         (IF observing = "inflight_counter" THEN DerivedMembers ELSE {})
  /\ mu = "caller" => phase = "live"
  /\ mu = "observer" => observing = "dropping_instrument"

\* The types of the state.
Types ==
  /\ class \in Class
  /\ DOMAIN builder = DOMAIN Fresh[class]
  /\ phase \in {"none", "constructing", "live", "destroying"}
  /\ derived \in BOOLEAN /\ registry \in BOOLEAN
  /\ mu \in {"caller", "observer", None}

\* The invariant.
LifeInv == Types /\ Scripted /\ Collects

----------------------------------------------------------------------------
(* Scripts.                                                                *)

\* One step, and one step for each of several instruments.
LEMMA DoScript ==
  ASSUME NEW what \in Word, NEW which \in Operand
  PROVE  /\ Do(what, which) \in Seq(Op) /\ Len(Do(what, which)) = 1
         /\ Do(what, which)[1] = [do |-> what, with |-> which]
         /\ DOMAIN Do(what, which) = {1}
<1>1. [do |-> what, with |-> which] \in Op
  BY DEF Op
<1>2. QED
  BY <1>1 DEF Do

\* One op of the same kind for each instrument, in their order.
LEMMA EachScript ==
  ASSUME NEW what \in Word, NEW ins \in Seq(Instrument)
  PROVE  /\ Each(what, ins) \in Seq(Op) /\ Len(Each(what, ins)) = Len(ins)
         /\ DOMAIN Each(what, ins) = 1 .. Len(ins)
         /\ \A i \in 1 .. Len(ins) :
              Each(what, ins)[i] = [do |-> what, with |-> ins[i]]
<1>1. \A i \in 1 .. Len(ins) : [do |-> what, with |-> ins[i]] \in Op
  BY DEF Op, Operand
<1>2. DOMAIN ins = 1 .. Len(ins) /\ Len(ins) \in Nat
  OBVIOUS
<1>3. Each(what, ins) = [i \in 1 .. Len(ins) |-> [do |-> what, with |-> ins[i]]]
  BY <1>2 DEF Each
<1>4. Each(what, ins) \in [1 .. Len(ins) -> Op]
  BY <1>1, <1>3
<1>5. QED
  BY <1>2, <1>3, <1>4

\* The entries of two scripts run one after the other.
LEMMA Joined ==
  ASSUME NEW s \in Seq(Op), NEW t \in Seq(Op)
  PROVE  /\ s \o t \in Seq(Op)
         /\ DOMAIN (s \o t) = 1 .. Len(s) + Len(t)
         /\ \A i \in DOMAIN s : i \in DOMAIN (s \o t) /\ (s \o t)[i] = s[i]
         /\ \A i \in DOMAIN t : /\ Len(s) + i \in DOMAIN (s \o t)
                                /\ (s \o t)[Len(s) + i] = t[i]
         /\ \A i \in DOMAIN (s \o t) :
              \/ i \in DOMAIN s
              \/ \E k \in DOMAIN t : i = Len(s) + k
<1>1. /\ s \o t \in Seq(Op) /\ Len(s \o t) = Len(s) + Len(t)
      /\ \A i \in 1 .. Len(s) + Len(t) :
           (s \o t)[i] = IF i <= Len(s) THEN s[i] ELSE t[i - Len(s)]
  BY ConcatProperties
<1>2. /\ Len(s) \in Nat /\ Len(t) \in Nat
      /\ DOMAIN s = 1 .. Len(s) /\ DOMAIN t = 1 .. Len(t)
      /\ DOMAIN (s \o t) = 1 .. Len(s) + Len(t)
  BY <1>1
<1>3. ASSUME NEW i \in DOMAIN s PROVE i \in DOMAIN (s \o t) /\ (s \o t)[i] = s[i]
  BY <1>1, <1>2
<1>4. ASSUME NEW i \in DOMAIN t
      PROVE  Len(s) + i \in DOMAIN (s \o t) /\ (s \o t)[Len(s) + i] = t[i]
  <2>1. Len(s) + i \in 1 .. Len(s) + Len(t) /\ ~(Len(s) + i <= Len(s))
        /\ Len(s) + i - Len(s) = i
    BY <1>2
  <2>2. QED
    BY <1>1, <1>2, <2>1
<1>5. ASSUME NEW i \in DOMAIN (s \o t), i \notin DOMAIN s
      PROVE  \E k \in DOMAIN t : i = Len(s) + k
  <2>1. i - Len(s) \in DOMAIN t /\ i = Len(s) + (i - Len(s))
    BY <1>2, <1>5
  <2>2. QED
    BY <2>1
<1>6. QED
  BY <1>1, <1>2, <1>3, <1>4, <1>5

\* What comes later may rely on what was constructed before.
LEMMA ConstructsJoined ==
  ASSUME NEW c, NEW A, NEW B, NEW s \in Seq(Op), NEW t \in Seq(Op),
         Constructs(c, s, A), Constructs(c, t, B),
         \A m \in B : m \in A \/ \E j \in DOMAIN s :
                                   s[j].do = "construct" /\ m \in s[j].with
  PROVE  Constructs(c, s \o t, A)
<1> DEFINE u == s \o t
<1>1. /\ \A i \in DOMAIN s : i \in DOMAIN u /\ u[i] = s[i]
      /\ \A i \in DOMAIN t : Len(s) + i \in DOMAIN u /\ u[Len(s) + i] = t[i]
      /\ \A i \in DOMAIN u : \/ i \in DOMAIN s
                             \/ \E k \in DOMAIN t : i = Len(s) + k
  BY Joined
<1>2. /\ Len(s) \in Nat /\ DOMAIN s = 1 .. Len(s)
      /\ Len(t) \in Nat /\ DOMAIN t = 1 .. Len(t)
  OBVIOUS
<1> HIDE DEF u
<1> SUFFICES ASSUME NEW i \in DOMAIN u
             PROVE  \/ u[i].do = "enter"
                    \/ u[i].do = "construct" /\ u[i].with \subseteq Members(c)
                    \/ /\ u[i].do = "register" /\ u[i].with \in Instruments(c)
                       /\ \A m \in Needs(u[i].with) :
                            m \in A \/ \E j \in 1 .. i - 1 :
                               u[j].do = "construct" /\ m \in u[j].with
  BY DEF Constructs, u
<1>3. CASE i \in DOMAIN s
  <2>1. u[i] = s[i] /\ \A j \in 1 .. i - 1 : u[j] = s[j]
    BY <1>1, <1>2, <1>3
  <2>2. QED
    BY <1>3, <2>1 DEF Constructs
<1>4. ASSUME NEW k \in DOMAIN t, i = Len(s) + k
      PROVE  \/ u[i].do = "enter"
             \/ u[i].do = "construct" /\ u[i].with \subseteq Members(c)
             \/ /\ u[i].do = "register" /\ u[i].with \in Instruments(c)
                /\ \A m \in Needs(u[i].with) :
                     m \in A \/ \E j \in 1 .. i - 1 :
                        u[j].do = "construct" /\ m \in u[j].with
  <2>1. u[i] = t[k]
    BY <1>1, <1>4
  <2>2. ASSUME NEW m \in B
        PROVE  m \in A \/ \E j \in 1 .. i - 1 :
                            u[j].do = "construct" /\ m \in u[j].with
    <3>1. \A j \in DOMAIN s : j \in 1 .. i - 1 /\ u[j] = s[j]
      BY <1>1, <1>2, <1>4
    <3>2. QED
      BY <2>2, <3>1
  <2>3. ASSUME NEW j \in 1 .. k - 1
        PROVE  Len(s) + j \in 1 .. i - 1 /\ u[Len(s) + j] = t[j]
    <3>1. j \in DOMAIN t /\ Len(s) + j \in 1 .. i - 1
      BY <1>2, <1>4
    <3>2. QED
      BY <1>1, <3>1
  <2>4. ASSUME NEW m, NEW j \in 1 .. k - 1, t[j].do = "construct", m \in t[j].with
        PROVE  \E l \in 1 .. i - 1 : u[l].do = "construct" /\ m \in u[l].with
    BY <2>3, <2>4
  <2>5. QED
    BY SMTT(60), <2>1, <2>2, <2>4 DEF Constructs
<1>5. QED
  BY <1>1, <1>3, <1>4

\* What is unregistered later does not need what was destroyed before.
LEMMA DestroysJoined ==
  ASSUME NEW A, NEW B, NEW R, NEW Q, NEW s \in Seq(Op), NEW t \in Seq(Op),
         Destroys(s, A, R), Destroys(t, B, Q),
         \A n \in Q, j \in DOMAIN s :
           s[j].do = "destroy" => Needs(n) \cap s[j].with = {}
  PROVE  Destroys(s \o t, A \union B, R \union Q)
<1> DEFINE u == s \o t
<1>1. /\ \A i \in DOMAIN s : i \in DOMAIN u /\ u[i] = s[i]
      /\ \A i \in DOMAIN t : Len(s) + i \in DOMAIN u /\ u[Len(s) + i] = t[i]
      /\ \A i \in DOMAIN u : \/ i \in DOMAIN s
                             \/ \E k \in DOMAIN t : i = Len(s) + k
  BY Joined
<1>2. /\ Len(s) \in Nat /\ DOMAIN s = 1 .. Len(s)
      /\ Len(t) \in Nat /\ DOMAIN t = 1 .. Len(t)
  OBVIOUS
<1> HIDE DEF u
<1>3. \A i \in DOMAIN u : u[i].do \in {"leave", "destroy", "unregister"}
  BY <1>1 DEF Destroys
<1>4. ASSUME NEW m \in A \union B
      PROVE  \E i \in DOMAIN u : u[i].do = "destroy" /\ m \in u[i].with
  <2>1. CASE m \in A
    BY <1>1, <2>1 DEF Destroys
  <2>2. CASE m \in B
    <3>1. PICK k \in DOMAIN t : t[k].do = "destroy" /\ m \in t[k].with
      BY <2>2 DEF Destroys
    <3>2. QED
      BY <1>1, <3>1
  <2>3. QED
    BY <2>1, <2>2
<1>5. ASSUME NEW n \in R \union Q
      PROVE  \E i \in DOMAIN u :
               /\ u[i].do = "unregister" /\ u[i].with = n
               /\ \A j \in 1 .. i - 1 :
                    u[j].do = "destroy" => Needs(n) \cap u[j].with = {}
  <2>1. CASE n \in R
    <3>1. PICK k \in DOMAIN s :
            /\ s[k].do = "unregister" /\ s[k].with = n
            /\ \A j \in 1 .. k - 1 :
                 s[j].do = "destroy" => Needs(n) \cap s[j].with = {}
      BY <2>1 DEF Destroys
    <3>2. \A j \in 1 .. k - 1 : u[j] = s[j]
      BY <1>1, <1>2
    <3>3. QED
      BY <1>1, <3>1, <3>2
  <2>2. CASE n \in Q
    <3>1. PICK k \in DOMAIN t :
            /\ t[k].do = "unregister" /\ t[k].with = n
            /\ \A j \in 1 .. k - 1 :
                 t[j].do = "destroy" => Needs(n) \cap t[j].with = {}
      BY <2>2 DEF Destroys
    <3>2. ASSUME NEW j \in 1 .. (Len(s) + k) - 1, u[j].do = "destroy"
          PROVE  Needs(n) \cap u[j].with = {}
      <4>1. CASE j \in DOMAIN s
        BY <1>1, <2>2, <3>2, <4>1
      <4>2. CASE j \notin DOMAIN s
        <5>1. j - Len(s) \in 1 .. k - 1 /\ j - Len(s) \in DOMAIN t
              /\ j = Len(s) + (j - Len(s))
          BY <1>2, <4>2
        <5>2. u[j] = t[j - Len(s)]
          BY <1>1, <5>1
        <5>3. QED
          BY <3>1, <3>2, <5>1, <5>2
      <4>3. QED
        BY <4>1, <4>2
    <3>3. QED
      BY <1>1, <3>1, <3>2
  <2>3. QED
    BY <2>1, <2>2
<1>6. QED
  BY <1>3, <1>4, <1>5 DEF Destroys, u

\* The words and names in the scripts.
LEMMA Names ==
  /\ \A w \in {"construct", "destroy", "enter", "leave", "register",
               "unregister"} : w \in Word
  /\ BaseMembers \in Operand /\ DerivedMembers \in Operand
  /\ FilterMembers \in Operand
  /\ "AbstractPartitionedLimiter" \in Operand
  /\ "partition_limit_gauge" \in Operand
  /\ BaseInstruments \in Seq(Instrument) /\ Len(BaseInstruments) = 3
  /\ FilterInstruments \in Seq(Instrument) /\ Len(FilterInstruments) = 2
<1>1. \A w \in {"construct", "destroy", "enter", "leave", "register",
                "unregister"} : w \in Word
  BY DEF Word
<1>2. BaseMembers \in Operand /\ DerivedMembers \in Operand
      /\ FilterMembers \in Operand /\ "AbstractPartitionedLimiter" \in Operand
      /\ "partition_limit_gauge" \in Operand
  BY DEF Operand, Instrument
<1>3. BaseInstruments \in Seq(Instrument) /\ Len(BaseInstruments) = 3
  BY DEF BaseInstruments, Instrument
<1>4. FilterInstruments \in Seq(Instrument) /\ Len(FilterInstruments) = 2
  BY DEF FilterInstruments, Instrument
<1>5. QED
  BY <1>1, <1>2, <1>3, <1>4

\* Steps that neither construct nor register, or that construct.
LEMMA ConstructsDo ==
  ASSUME NEW c, NEW what \in Word, NEW which \in Operand,
         \/ what = "enter"
         \/ what = "construct" /\ which \subseteq Members(c)
  PROVE  Constructs(c, Do(what, which), {})
<1>1. /\ DOMAIN Do(what, which) = {1}
      /\ Do(what, which)[1] = [do |-> what, with |-> which]
  BY DoScript
<1>2. QED
  BY <1>1 DEF Constructs

\* Instruments that need members which are there already.
LEMMA ConstructsRegister ==
  ASSUME NEW c, NEW A, NEW params, NEW ins \in Seq(Instrument),
         \A i \in 1 .. Len(ins) :
           ins[i] \in Instruments(c) /\ Needs(ins[i]) \subseteq A
  PROVE  Register(params, ins) \in Seq(Op) /\ Constructs(c, Register(params, ins), A)
<1>1. CASE params.meter_provider = Null
  <2>1. Register(params, ins) = << >>
    BY <1>1 DEF Register
  <2>2. << >> \in Seq(Op) /\ DOMAIN << >> = {}
    OBVIOUS
  <2>3. QED
    BY <2>1, <2>2 DEF Constructs
<1>2. CASE params.meter_provider # Null
  <2>1. Register(params, ins) = Each("register", ins)
    BY <1>2 DEF Register
  <2>2. /\ Each("register", ins) \in Seq(Op)
        /\ DOMAIN Each("register", ins) = 1 .. Len(ins)
        /\ \A i \in 1 .. Len(ins) :
             Each("register", ins)[i] = [do |-> "register", with |-> ins[i]]
    BY EachScript, Names
  <2>3. \A i \in 1 .. Len(ins) :
          /\ Each("register", ins)[i].do = "register"
          /\ Each("register", ins)[i].with \in Instruments(c)
          /\ \A m \in Needs(Each("register", ins)[i].with) : m \in A
    <3> SUFFICES ASSUME NEW i \in 1 .. Len(ins)
                 PROVE  /\ Each("register", ins)[i].do = "register"
                        /\ Each("register", ins)[i].with \in Instruments(c)
                        /\ \A m \in Needs(Each("register", ins)[i].with) : m \in A
      OBVIOUS
    <3>1. Each("register", ins)[i] = [do |-> "register", with |-> ins[i]]
      BY <2>2, Zenon
    <3>2. /\ Each("register", ins)[i].do = "register"
          /\ Each("register", ins)[i].with = ins[i]
      BY <3>1
    <3>3. QED
      BY <3>2
  <2>4. Constructs(c, Each("register", ins), A)
    BY <2>2, <2>3 DEF Constructs
  <2>5. QED
    BY <2>1, <2>2, <2>4
<1>3. QED
  BY <1>1, <1>2

\* The base class registers its instruments after its members.
LEMMA BaseConstructor ==
  ASSUME NEW c \in {"SimpleLimiter", "AbstractPartitionedLimiter"}, NEW params
  PROVE  LET base == Do("construct", BaseMembers)
                       \o Register(params, BaseInstruments)
         IN  /\ base \in Seq(Op) /\ Constructs(c, base, {})
             /\ 1 \in DOMAIN base
             /\ base[1] = [do |-> "construct", with |-> BaseMembers]
<1> DEFINE s == Do("construct", BaseMembers)
           t == Register(params, BaseInstruments)
<1>1. s \in Seq(Op) /\ DOMAIN s = {1}
      /\ s[1] = [do |-> "construct", with |-> BaseMembers]
  BY DoScript, Names
<1>2. Constructs(c, s, {})
  <2>1. BaseMembers \subseteq Members(c)
    BY DEF Members
  <2>2. QED
    BY <2>1, ConstructsDo, Names
<1>3. t \in Seq(Op) /\ Constructs(c, t, BaseMembers)
  <2>1. \A i \in 1 .. Len(BaseInstruments) :
          /\ BaseInstruments[i] \in Instruments(c)
          /\ Needs(BaseInstruments[i]) \subseteq BaseMembers
    <3>1. /\ BaseInstruments[1] = "limit_gauge"
          /\ BaseInstruments[2] = "inflight_counter"
          /\ BaseInstruments[3] = "call_counter"
          /\ 1 .. Len(BaseInstruments) = {1, 2, 3}
      BY DEF BaseInstruments
    <3>2. {"limit_gauge", "inflight_counter", "call_counter"}
            \subseteq Instruments(c)
      BY DEF Instruments
    <3>3. /\ Needs("limit_gauge") \subseteq BaseMembers
          /\ Needs("inflight_counter") \subseteq BaseMembers
          /\ Needs("call_counter") \subseteq BaseMembers
      BY DEF Needs, BaseMembers
    <3>4. QED
      BY <3>1, <3>2, <3>3
  <2>2. QED
    BY <2>1, ConstructsRegister, Names
<1> HIDE DEF s, t
<1>4. Constructs(c, s \o t, {})
  BY <1>1, <1>2, <1>3, ConstructsJoined
<1>5. QED
  BY <1>1, <1>3, <1>4, Joined DEF s, t

\* Every constructor registers an instrument after the members it needs.
LEMMA ConstructorOrdered ==
  ASSUME NEW c \in Class, NEW params
  PROVE  Constructor(c, params) \in Seq(Op) /\ Constructs(c, Constructor(c, params), {})
<1> DEFINE base == Do("construct", BaseMembers) \o Register(params, BaseInstruments)
<1>1. CASE c = "SimpleLimiter"
  <2>1. Constructor(c, params) = base
    BY <1>1 DEF Constructor
  <2>2. QED
    BY <1>1, <2>1, BaseConstructor
<1>2. CASE c = "AbstractPartitionedLimiter"
  <2> DEFINE e == Do("enter", "AbstractPartitionedLimiter")
             d == Do("construct", DerivedMembers)
             r == Register(params, <<"partition_limit_gauge">>)
  <2>0. Constructor(c, params) = ((base \o e) \o d) \o r
    BY <1>2 DEF Constructor
  <2>1. /\ base \in Seq(Op) /\ Constructs(c, base, {}) /\ 1 \in DOMAIN base
        /\ base[1] = [do |-> "construct", with |-> BaseMembers]
    BY <1>2, BaseConstructor
  <2>2. e \in Seq(Op) /\ Constructs(c, e, {})
    BY DoScript, ConstructsDo, Names
  <2>3. /\ d \in Seq(Op) /\ Constructs(c, d, {}) /\ 1 \in DOMAIN d
        /\ d[1] = [do |-> "construct", with |-> DerivedMembers]
    <3>1. DerivedMembers \subseteq Members(c)
      BY <1>2 DEF Members
    <3>2. QED
      BY <3>1, DoScript, ConstructsDo, Names
  <2>4. r \in Seq(Op) /\ Constructs(c, r, {"partitions", "id"})
    <3>1. /\ <<"partition_limit_gauge">> \in Seq(Instrument)
          /\ Len(<<"partition_limit_gauge">>) = 1
          /\ <<"partition_limit_gauge">>[1] = "partition_limit_gauge"
      BY DEF Instrument
    <3>2. "partition_limit_gauge" \in Instruments(c)
      BY <1>2 DEF Instruments
    <3>3. Needs("partition_limit_gauge") \subseteq {"partitions", "id"}
      BY DEF Needs
    <3>4. \A i \in 1 .. Len(<<"partition_limit_gauge">>) : i = 1
      OBVIOUS
    <3>5. QED
      BY <3>1, <3>2, <3>3, <3>4, ConstructsRegister
  <2> HIDE DEF base, e, d, r
  <2>5. base \o e \in Seq(Op) /\ Constructs(c, base \o e, {})
        /\ 1 \in DOMAIN (base \o e) /\ (base \o e)[1] = base[1]
    BY <2>1, <2>2, Joined, ConstructsJoined
  <2> DEFINE f == base \o e
             g == f \o d
  <2>6. f \in Seq(Op) /\ Constructs(c, f, {}) /\ 1 \in DOMAIN f /\ f[1] = base[1]
    BY <2>5
  <2> HIDE DEF f
  <2>7. Constructs(c, g, {})
    BY <2>3, <2>6, ConstructsJoined
  <2>8. /\ g \in Seq(Op) /\ 1 \in DOMAIN g /\ g[1] = base[1]
         /\ Len(f) + 1 \in DOMAIN g /\ g[Len(f) + 1] = d[1]
    BY <2>3, <2>6, Joined
  <2> HIDE DEF g
  <2>9. \A m \in {"partitions", "id"} : \E j \in DOMAIN g :
          g[j].do = "construct" /\ m \in g[j].with
    <3>1. "id" \in BaseMembers /\ "partitions" \in DerivedMembers
      BY DEF BaseMembers, DerivedMembers
    <3>2. /\ g[1].do = "construct" /\ g[1].with = BaseMembers
          /\ g[Len(f) + 1].do = "construct" /\ g[Len(f) + 1].with = DerivedMembers
      BY <2>1, <2>3, <2>8
    <3>3. QED
      BY <2>8, <3>1, <3>2
  <2>10. Constructs(c, g \o r, {})
    BY <2>4, <2>7, <2>8, <2>9, ConstructsJoined
  <2>11. g \o r \in Seq(Op)
    BY <2>4, <2>8, Joined
  <2>12. QED
    BY <2>0, <2>10, <2>11 DEF f, g
<1>3. CASE c = "CodelFilter"
  <2> DEFINE s == Do("construct", FilterMembers)
             t == Register(params, FilterInstruments)
  <2>0. Constructor(c, params) = s \o t
    BY <1>3 DEF Constructor
  <2>1. /\ s \in Seq(Op) /\ DOMAIN s = {1}
        /\ s[1] = [do |-> "construct", with |-> FilterMembers]
    BY DoScript, Names
  <2>2. Constructs(c, s, {})
    <3>1. FilterMembers \subseteq Members(c)
      BY <1>3 DEF Members
    <3>2. QED
      BY <3>1, ConstructsDo, Names
  <2>3. t \in Seq(Op) /\ Constructs(c, t, FilterMembers)
    <3>1. /\ FilterInstruments[1] = "drops_instrument"
          /\ FilterInstruments[2] = "dropping_instrument"
          /\ 1 .. Len(FilterInstruments) = {1, 2}
      BY DEF FilterInstruments
    <3>2. {"drops_instrument", "dropping_instrument"} \subseteq Instruments(c)
      BY <1>3 DEF Instruments
    <3>3. /\ Needs("drops_instrument") \subseteq FilterMembers
          /\ Needs("dropping_instrument") \subseteq FilterMembers
      BY DEF Needs, FilterMembers
    <3>4. \A i \in 1 .. Len(FilterInstruments) :
            /\ FilterInstruments[i] \in Instruments(c)
            /\ Needs(FilterInstruments[i]) \subseteq FilterMembers
      BY <3>1, <3>2, <3>3
    <3>5. QED
      BY <3>4, ConstructsRegister, Names
  <2> HIDE DEF s, t
  <2>4. Constructs(c, s \o t, {})
    BY <2>1, <2>2, <2>3, ConstructsJoined
  <2>5. QED
    BY <2>0, <2>1, <2>3, <2>4, Joined
<1>4. CASE c \notin {"SimpleLimiter", "AbstractPartitionedLimiter", "CodelFilter"}
  <2>1. Constructor(c, params) = << >>
    BY <1>4 DEF Constructor
  <2>2. << >> \in Seq(Op) /\ DOMAIN << >> = {}
    OBVIOUS
  <2>3. QED
    BY <2>1, <2>2 DEF Constructs
<1>5. QED
  BY <1>1, <1>2, <1>3, <1>4

\* One step of a destructor.
LEMMA DestroysDo ==
  /\ \A n \in Instrument : Do("unregister", n) \in Seq(Op)
                           /\ Destroys(Do("unregister", n), {}, {n})
  /\ \A M \in Operand : Do("destroy", M) \in Seq(Op)
                        /\ Destroys(Do("destroy", M), M, {})
  /\ \A x \in Operand : Do("leave", x) \in Seq(Op)
                        /\ Destroys(Do("leave", x), {}, {})
<1>1. ASSUME NEW n \in Instrument
      PROVE  Do("unregister", n) \in Seq(Op)
             /\ Destroys(Do("unregister", n), {}, {n})
  <2>1. "unregister" \in Word /\ n \in Operand
    BY Names DEF Operand
  <2>2. /\ Do("unregister", n) \in Seq(Op) /\ DOMAIN Do("unregister", n) = {1}
        /\ Do("unregister", n)[1] = [do |-> "unregister", with |-> n]
    BY <2>1, DoScript
  <2>3. QED
    BY <2>2 DEF Destroys
<1>2. ASSUME NEW M \in Operand
      PROVE  Do("destroy", M) \in Seq(Op) /\ Destroys(Do("destroy", M), M, {})
  <2>1. /\ Do("destroy", M) \in Seq(Op) /\ DOMAIN Do("destroy", M) = {1}
        /\ Do("destroy", M)[1] = [do |-> "destroy", with |-> M]
    BY DoScript, Names
  <2>2. QED
    BY <2>1 DEF Destroys
<1>3. ASSUME NEW x \in Operand
      PROVE  Do("leave", x) \in Seq(Op) /\ Destroys(Do("leave", x), {}, {})
  <2>1. /\ Do("leave", x) \in Seq(Op) /\ DOMAIN Do("leave", x) = {1}
        /\ Do("leave", x)[1] = [do |-> "leave", with |-> x]
    BY DoScript, Names
  <2>2. QED
    BY <2>1 DEF Destroys
<1>4. QED
  BY <1>1, <1>2, <1>3

\* The instruments go in the reverse order of their declaration.
LEMMA DestroysEach ==
  ASSUME NEW ins \in Seq(Instrument)
  PROVE  /\ Each("unregister", Reverse(ins)) \in Seq(Op)
         /\ Destroys(Each("unregister", Reverse(ins)), {},
                     {ins[i] : i \in 1 .. Len(ins)})
         /\ \A j \in DOMAIN Each("unregister", Reverse(ins)) :
              Each("unregister", Reverse(ins))[j].do = "unregister"
<1> DEFINE rev == Reverse(ins)
           s == Each("unregister", rev)
<1>1. Len(ins) \in Nat /\ DOMAIN ins = 1 .. Len(ins)
  OBVIOUS
<1>2. rev = [i \in 1 .. Len(ins) |-> ins[(Len(ins) - i) + 1]]
  BY DEF Reverse
<1>3. \A i \in 1 .. Len(ins) : /\ (Len(ins) - i) + 1 \in 1 .. Len(ins)
                               /\ (Len(ins) - ((Len(ins) - i) + 1)) + 1 = i
  BY <1>1
<1>4. rev \in [1 .. Len(ins) -> Instrument]
  BY <1>1, <1>2, <1>3
<1>5. rev \in Seq(Instrument) /\ Len(rev) = Len(ins)
  BY <1>1, <1>4
<1>6. \A i \in 1 .. Len(ins) : rev[(Len(ins) - i) + 1] = ins[i]
  BY <1>2, <1>3
<1> HIDE DEF rev
<1>7. /\ s \in Seq(Op) /\ DOMAIN s = 1 .. Len(ins)
      /\ \A i \in 1 .. Len(ins) : s[i] = [do |-> "unregister", with |-> rev[i]]
  BY <1>5, EachScript, Names
<1> HIDE DEF s
<1>8. ASSUME NEW i \in 1 .. Len(ins)
      PROVE  s[i].do = "unregister" /\ s[i].with = rev[i]
  <2>1. s[i] = [do |-> "unregister", with |-> rev[i]]
    BY <1>7, Zenon
  <2>2. QED
    BY <2>1
<1>9. ASSUME NEW i \in 1 .. Len(ins)
      PROVE  \E k \in DOMAIN s :
               /\ s[k].do = "unregister" /\ s[k].with = ins[i]
               /\ \A j \in 1 .. k - 1 :
                    s[j].do = "destroy" => Needs(ins[i]) \cap s[j].with = {}
  <2>1. (Len(ins) - i) + 1 \in DOMAIN s
    BY <1>3, <1>7
  <2>2. /\ s[(Len(ins) - i) + 1].do = "unregister"
        /\ s[(Len(ins) - i) + 1].with = ins[i]
    BY <1>3, <1>6, <1>8
  <2>3. \A j \in 1 .. ((Len(ins) - i) + 1) - 1 : s[j].do = "unregister"
    BY <1>1, <1>8
  <2>4. QED
    BY <2>1, <2>2, <2>3
<1>10. Destroys(s, {}, {ins[i] : i \in 1 .. Len(ins)})
  BY <1>7, <1>8, <1>9 DEF Destroys
<1>11. QED
  BY <1>7, <1>8, <1>10 DEF s, rev

\* ~AbstractLimiter removes its instruments, and then destroys its members.
LEMMA BaseDestructor ==
  /\ BaseTeardown \in Seq(Op)
  /\ Destroys(BaseTeardown, BaseMembers,
              {"limit_gauge", "inflight_counter", "call_counter"})
<1> DEFINE s == Each("unregister", Reverse(BaseInstruments))
           t == Do("destroy", BaseMembers)
           R == {BaseInstruments[i] : i \in 1 .. Len(BaseInstruments)}
<1>1. s \in Seq(Op) /\ Destroys(s, {}, R)
  BY DestroysEach, Names
<1>2. t \in Seq(Op) /\ Destroys(t, BaseMembers, {})
  BY DestroysDo, Names
<1>3. R = {"limit_gauge", "inflight_counter", "call_counter"}
  <2>1. /\ BaseInstruments[1] = "limit_gauge"
        /\ BaseInstruments[2] = "inflight_counter"
        /\ BaseInstruments[3] = "call_counter"
        /\ 1 .. Len(BaseInstruments) = {1, 2, 3}
    BY DEF BaseInstruments
  <2>2. QED
    BY <2>1
<1>4. BaseTeardown = s \o t
  BY DEF BaseTeardown
<1> HIDE DEF s, t, R
<1>5. Destroys(s \o t, {} \union BaseMembers, R \union {})
  BY <1>1, <1>2, DestroysJoined
<1>6. {} \union BaseMembers = BaseMembers /\ R \union {} = R
  OBVIOUS
<1>7. QED
  BY <1>1, <1>2, <1>3, <1>4, <1>5, <1>6, Joined

\* Every destructor removes what was registered and destroys what was
\* constructed, in an order the callbacks can bear.
LEMMA DestructorOrdered ==
  ASSUME NEW c \in Class
  PROVE  /\ Destructor(c) \in Seq(Op)
         /\ Destroys(Destructor(c), Members(c), Instruments(c))
<1>1. CASE c = "SimpleLimiter"
  BY <1>1, BaseDestructor DEF Destructor, Members, Instruments
<1>2. CASE c = "AbstractPartitionedLimiter"
  <2> DEFINE u == Do("unregister", "partition_limit_gauge")
             d == Do("destroy", DerivedMembers)
             l == Do("leave", "AbstractPartitionedLimiter")
             Base == {"limit_gauge", "inflight_counter", "call_counter"}
             Only(s) == \A j \in DOMAIN s :
                          s[j].do = "destroy" => s[j].with = DerivedMembers
  <2>1. Destructor(c) = ((u \o d) \o l) \o BaseTeardown
    BY <1>2 DEF Destructor
  <2>2. /\ u \in Seq(Op) /\ Destroys(u, {}, {"partition_limit_gauge"})
        /\ d \in Seq(Op) /\ Destroys(d, DerivedMembers, {})
        /\ l \in Seq(Op) /\ Destroys(l, {}, {})
    <3>1. "partition_limit_gauge" \in Instrument
      BY DEF Instrument
    <3>2. QED
      BY <3>1, DestroysDo, Names
  <2>3. Only(u) /\ Only(d) /\ Only(l)
    <3>1. /\ DOMAIN u = {1} /\ DOMAIN d = {1} /\ DOMAIN l = {1}
          /\ u[1] = [do |-> "unregister", with |-> "partition_limit_gauge"]
          /\ d[1] = [do |-> "destroy", with |-> DerivedMembers]
          /\ l[1] = [do |-> "leave", with |-> "AbstractPartitionedLimiter"]
      BY DoScript, Names
    <3>2. QED
      BY <3>1
  <2> HIDE DEF u, d, l, Only
  <2>4. ASSUME NEW s \in Seq(Op), NEW t \in Seq(Op), Only(s), Only(t)
        PROVE  s \o t \in Seq(Op) /\ Only(s \o t)
    <3>1. /\ s \o t \in Seq(Op)
          /\ \A i \in DOMAIN s : (s \o t)[i] = s[i]
          /\ \A i \in DOMAIN t : (s \o t)[Len(s) + i] = t[i]
          /\ \A i \in DOMAIN (s \o t) : \/ i \in DOMAIN s
                                        \/ \E k \in DOMAIN t : i = Len(s) + k
      BY Joined
    <3>2. ASSUME NEW i \in DOMAIN (s \o t), (s \o t)[i].do = "destroy"
          PROVE  (s \o t)[i].with = DerivedMembers
      BY <2>4, <3>1, <3>2 DEF Only
    <3>3. QED
      BY <3>1, <3>2 DEF Only
  <2>5. /\ u \o d \in Seq(Op) /\ Only(u \o d)
        /\ Destroys(u \o d, {} \union DerivedMembers,
                    {"partition_limit_gauge"} \union {})
    BY <2>2, <2>3, <2>4, DestroysJoined
  <2>6. /\ (u \o d) \o l \in Seq(Op) /\ Only((u \o d) \o l)
        /\ Destroys((u \o d) \o l, ({} \union DerivedMembers) \union {},
                    ({"partition_limit_gauge"} \union {}) \union {})
    BY <2>2, <2>3, <2>4, <2>5, DestroysJoined
  <2> DEFINE s == (u \o d) \o l
  <2>7. s \in Seq(Op) /\ Only(s)
        /\ Destroys(s, DerivedMembers, {"partition_limit_gauge"})
    <3>1. /\ ({} \union DerivedMembers) \union {} = DerivedMembers
          /\ ({"partition_limit_gauge"} \union {}) \union {}
               = {"partition_limit_gauge"}
      OBVIOUS
    <3>2. QED
      BY <2>6, <3>1
  <2> HIDE DEF s
  <2>8. \A n \in Base : Needs(n) \cap DerivedMembers = {}
    BY DEF Needs, DerivedMembers
  <2>9. \A n \in Base, j \in DOMAIN s :
          s[j].do = "destroy" => Needs(n) \cap s[j].with = {}
    BY <2>7, <2>8 DEF Only
  <2>10. /\ s \o BaseTeardown \in Seq(Op)
         /\ Destroys(s \o BaseTeardown, DerivedMembers \union BaseMembers,
                     {"partition_limit_gauge"} \union Base)
    BY <2>7, <2>9, BaseDestructor, Joined, DestroysJoined
  <2>11. /\ DerivedMembers \union BaseMembers = Members(c)
         /\ {"partition_limit_gauge"} \union Base = Instruments(c)
    BY <1>2 DEF Members, Instruments
  <2>12. QED
    BY <2>1, <2>10, <2>11 DEF s
<1>3. CASE c = "CodelFilter"
  <2> DEFINE s == Each("unregister", Reverse(FilterInstruments))
             t == Do("destroy", FilterMembers)
             R == {FilterInstruments[i] : i \in 1 .. Len(FilterInstruments)}
  <2>1. s \in Seq(Op) /\ Destroys(s, {}, R)
    BY DestroysEach, Names
  <2>2. t \in Seq(Op) /\ Destroys(t, FilterMembers, {})
    BY DestroysDo, Names
  <2>3. R = {"drops_instrument", "dropping_instrument"}
    <3>1. /\ FilterInstruments[1] = "drops_instrument"
          /\ FilterInstruments[2] = "dropping_instrument"
          /\ 1 .. Len(FilterInstruments) = {1, 2}
      BY DEF FilterInstruments
    <3>2. QED
      BY <3>1
  <2>4. Destructor(c) = s \o t
    BY <1>3 DEF Destructor
  <2> HIDE DEF s, t, R
  <2>5. Destroys(s \o t, {} \union FilterMembers, R \union {})
    BY <2>1, <2>2, DestroysJoined
  <2>6. {} \union FilterMembers = Members(c) /\ R \union {} = Instruments(c)
    BY <1>3, <2>3 DEF Members, Instruments
  <2>7. QED
    BY <2>1, <2>2, <2>4, <2>5, <2>6, Joined
<1>4. CASE c \notin {"SimpleLimiter", "AbstractPartitionedLimiter", "CodelFilter"}
  <2>1. Destructor(c) = << >> /\ Members(c) = {} /\ Instruments(c) = {}
    BY <1>4 DEF Destructor, Members, Instruments
  <2>2. << >> \in Seq(Op) /\ DOMAIN << >> = {}
    OBVIOUS
  <2>3. QED
    BY <2>1, <2>2 DEF Destroys
<1>5. QED
  BY <1>1, <1>2, <1>3, <1>4

----------------------------------------------------------------------------
(* One step of a script.                                                   *)

\* The op a script begins with, and the entries that are left.
LEMMA RestOfScript ==
  ASSUME NEW s \in Seq(Op), s # << >>
  PROVE  /\ Tail(s) \in Seq(Op) /\ Head(s) = s[1] /\ 1 \in DOMAIN s
         /\ \A i \in DOMAIN Tail(s) :
              i + 1 \in DOMAIN s /\ Tail(s)[i] = s[i + 1] /\ i \in Nat /\ i > 0
         /\ \A i \in DOMAIN s : i = 1 \/ i - 1 \in DOMAIN Tail(s)
         /\ \A i \in DOMAIN s : i \in Nat /\ i > 0
<1>1. /\ Tail(s) \in Seq(Op) /\ Len(Tail(s)) = Len(s) - 1
      /\ \A i \in 1 .. Len(Tail(s)) : Tail(s)[i] = s[i + 1]
  BY HeadTailProperties
<1>2. Len(s) \in Nat /\ Len(s) # 0 /\ DOMAIN s = 1 .. Len(s)
  BY EmptySeq
<1>3. DOMAIN Tail(s) = 1 .. Len(s) - 1
  BY <1>1
<1>4. QED
  BY <1>1, <1>2, <1>3

\* What the next step of a constructor is like, and what it leaves to do.
LEMMA ConstructsRest ==
  ASSUME NEW c, NEW A, NEW s \in Seq(Op), s # << >>, Constructs(c, s, A)
  PROVE  \/ Head(s).do = "enter" /\ Constructs(c, Tail(s), A)
         \/ /\ Head(s).do = "construct" /\ Head(s).with \subseteq Members(c)
            /\ Constructs(c, Tail(s), A \union Head(s).with)
         \/ /\ Head(s).do = "register" /\ Head(s).with \in Instruments(c)
            /\ Needs(Head(s).with) \subseteq A
            /\ Constructs(c, Tail(s), A)
<1> DEFINE t == Tail(s)
           h == s[1]
           New == IF h.do = "construct" THEN h.with ELSE {}
<1>1. /\ t \in Seq(Op) /\ Head(s) = h /\ 1 \in DOMAIN s
      /\ \A i \in DOMAIN t :
           i + 1 \in DOMAIN s /\ t[i] = s[i + 1] /\ i \in Nat /\ i > 0
      /\ \A i \in DOMAIN s : i = 1 \/ i - 1 \in DOMAIN t
  BY RestOfScript
<1>2. /\ \/ h.do = "enter"
         \/ h.do = "construct" /\ h.with \subseteq Members(c)
         \/ /\ h.do = "register" /\ h.with \in Instruments(c)
            /\ Needs(h.with) \subseteq A
  <2>1. 1 .. 1 - 1 = {}
    OBVIOUS
  <2>2. QED
    BY <1>1, <2>1 DEF Constructs
<1> HIDE DEF t
<1>3. ASSUME NEW i \in DOMAIN t, t[i].do = "register", NEW m \in Needs(t[i].with)
      PROVE  m \in A \union New \/ \E j \in 1 .. i - 1 :
                                      t[j].do = "construct" /\ m \in t[j].with
  <2>1. t[i] = s[i + 1] /\ i + 1 \in DOMAIN s /\ i \in Nat /\ i > 0
    BY <1>1
  <2>2. CASE m \in A
    BY <2>2
  <2>3. ASSUME NEW j \in 1 .. (i + 1) - 1, s[j].do = "construct", m \in s[j].with
        PROVE  m \in New \/ \E k \in 1 .. i - 1 :
                              t[k].do = "construct" /\ m \in t[k].with
    <3>1. CASE j = 1
      BY <2>3, <3>1
    <3>2. CASE j # 1
      <4>1. j - 1 \in 1 .. i - 1 /\ j = (j - 1) + 1
        BY <2>1, <3>2
      <4>2. j - 1 \in DOMAIN t
        <5>1. DOMAIN t = 1 .. Len(t) /\ Len(t) \in Nat
          BY <1>1
        <5>2. QED
          BY <2>1, <4>1, <5>1
      <4>3. t[j - 1] = s[j]
        BY <1>1, <4>1, <4>2
      <4>4. QED
        BY <2>3, <4>1, <4>3
    <3>3. QED
      BY <3>1, <3>2
  <2>4. m \in A \/ \E j \in 1 .. (i + 1) - 1 :
                     s[j].do = "construct" /\ m \in s[j].with
    BY <1>3, <2>1 DEF Constructs
  <2>5. QED
    BY <2>2, <2>3, <2>4
<1>4. Constructs(c, t, A \union New)
  <2>1. ASSUME NEW i \in DOMAIN t
        PROVE  \/ t[i].do = "enter"
               \/ t[i].do = "construct" /\ t[i].with \subseteq Members(c)
               \/ t[i].do = "register" /\ t[i].with \in Instruments(c)
    BY <1>1 DEF Constructs
  <2>2. QED
    BY <1>3, <2>1 DEF Constructs
<1>5. CASE h.do = "construct"
  <2>1. A \union New = A \union h.with
    BY <1>5
  <2>2. QED
    BY <1>1, <1>2, <1>4, <1>5, <2>1 DEF t
<1>6. CASE h.do # "construct"
  <2>1. A \union New = A
    BY <1>6
  <2>2. QED
    BY <1>1, <1>2, <1>4, <1>6, <2>1 DEF t
<1>7. QED
  BY <1>5, <1>6

\* What the next step of a destructor is like, and what it leaves to do.
LEMMA DestroysRest ==
  ASSUME NEW A, NEW R, NEW s \in Seq(Op), s # << >>, Destroys(s, A, R)
  PROVE  \/ Head(s).do = "leave" /\ Destroys(Tail(s), A, R)
         \/ /\ Head(s).do = "destroy" /\ Destroys(Tail(s), A \ Head(s).with, R)
            /\ \A n \in R : Needs(n) \cap Head(s).with = {}
         \/ /\ Head(s).do = "unregister"
            /\ Destroys(Tail(s), A, R \ {Head(s).with})
<1> DEFINE t == Tail(s)
           h == s[1]
<1>1. /\ t \in Seq(Op) /\ Head(s) = h /\ 1 \in DOMAIN s
      /\ \A i \in DOMAIN t :
           i + 1 \in DOMAIN s /\ t[i] = s[i + 1] /\ i \in Nat /\ i > 0
      /\ \A i \in DOMAIN s : i = 1 \/ i - 1 \in DOMAIN t
      /\ \A i \in DOMAIN s : i \in Nat /\ i > 0
  BY RestOfScript
<1> HIDE DEF t
<1>2. /\ h.do \in {"leave", "destroy", "unregister"}
      /\ \A i \in DOMAIN t : t[i].do \in {"leave", "destroy", "unregister"}
  BY <1>1 DEF Destroys
<1>3. ASSUME NEW i \in DOMAIN s, i # 1
      PROVE  i - 1 \in DOMAIN t /\ t[i - 1] = s[i]
  <2>1. i - 1 \in DOMAIN t /\ (i - 1) + 1 = i
    BY <1>1, <1>3
  <2>2. QED
    BY <1>1, <2>1
<1>4. ASSUME NEW m \in A, h.do = "destroy" => m \notin h.with
      PROVE  \E i \in DOMAIN t : t[i].do = "destroy" /\ m \in t[i].with
  <2>1. PICK i \in DOMAIN s : s[i].do = "destroy" /\ m \in s[i].with
    BY <1>4 DEF Destroys
  <2>2. i # 1
    BY <1>4, <2>1
  <2>3. QED
    BY <1>3, <2>1, <2>2
<1>5. ASSUME NEW n \in R, h.do = "unregister" => n # h.with
      PROVE  /\ \E i \in DOMAIN t :
                  /\ t[i].do = "unregister" /\ t[i].with = n
                  /\ \A j \in 1 .. i - 1 :
                       t[j].do = "destroy" => Needs(n) \cap t[j].with = {}
             /\ h.do = "destroy" => Needs(n) \cap h.with = {}
  <2>1. PICK i \in DOMAIN s :
          /\ s[i].do = "unregister" /\ s[i].with = n
          /\ \A j \in 1 .. i - 1 :
               s[j].do = "destroy" => Needs(n) \cap s[j].with = {}
    BY <1>5 DEF Destroys
  <2>2. i # 1 /\ i \in Nat /\ i > 0
    BY <1>1, <1>5, <2>1
  <2>3. i - 1 \in DOMAIN t /\ t[i - 1] = s[i]
    BY <1>3, <2>2
  <2>4. ASSUME NEW j \in 1 .. (i - 1) - 1, t[j].do = "destroy"
        PROVE  Needs(n) \cap t[j].with = {}
    <3>1. j + 1 \in 1 .. i - 1
      BY <2>2
    <3>2. j \in DOMAIN t
      <4>1. DOMAIN t = 1 .. Len(t) /\ Len(t) \in Nat
        BY <1>1
      <4>2. QED
        BY <2>2, <2>3, <4>1
    <3>3. QED
      BY <1>1, <2>1, <2>4, <3>1, <3>2
  <2>5. 1 \in 1 .. i - 1
    BY <2>2
  <2>6. QED
    BY <2>1, <2>3, <2>4, <2>5
<1>6. CASE h.do = "leave"
  <2>1. Destroys(t, A, R)
    BY <1>2, <1>4, <1>5, <1>6 DEF Destroys
  <2>2. QED
    BY <1>1, <1>6, <2>1 DEF t
<1>7. CASE h.do = "destroy"
  <2>1. Destroys(t, A \ h.with, R)
    BY <1>2, <1>4, <1>5, <1>7 DEF Destroys
  <2>2. \A n \in R : Needs(n) \cap h.with = {}
    BY <1>5, <1>7
  <2>3. QED
    BY <1>1, <1>7, <2>1, <2>2 DEF t
<1>8. CASE h.do = "unregister"
  <2>1. Destroys(t, A, R \ {h.with})
    BY <1>2, <1>4, <1>5, <1>8 DEF Destroys
  <2>2. QED
    BY <1>1, <1>8, <2>1 DEF t
<1>9. QED
  BY <1>2, <1>6, <1>7, <1>8

----------------------------------------------------------------------------
(* The builder keeps its fields.                                           *)

\* A setter adds no field to the builder and takes none away.
LEMMA ApplyDomain ==
  ASSUME NEW s, NEW c
  PROVE  DOMAIN Apply(s, c) = DOMAIN s
BY DEF Apply

\* Nor do the calls that every Build needs.
LEMMA PreparedDomain ==
  ASSUME NEW c \in Class
  PROVE  DOMAIN Prepared(c) = DOMAIN Fresh[c]
BY ApplyDomain DEF Prepared

\* Nor does Build, whether it fills in a default or moves a field out.
LEMMA BuildDomain ==
  ASSUME NEW c, NEW s
  PROVE  DOMAIN Resolved(c, s) = DOMAIN s /\ DOMAIN AfterBuild(c, s) = DOMAIN s
BY DEF Resolved, AfterBuild

----------------------------------------------------------------------------
(* The steps of the system.                                                *)

\* Before anything is built the invariant holds.
LEMMA LifeInit == Init => LifeInv
<1> SUFFICES ASSUME Init PROVE LifeInv
  OBVIOUS
<1>1. Types
  BY PreparedDomain DEF Init, Types
<1>2. Scripted
  <2>1. << >> \in Seq(Op)
    OBVIOUS
  <2>2. QED
    BY <2>1 DEF Init, Scripted
<1>3. Collects
  BY DEF Init, Collects, None
<1>4. QED
  BY <1>1, <1>2, <1>3 DEF LifeInv

\* A step that does not touch the object does not touch its script.
LEMMA ScriptedSame == Scripted /\ UNCHANGED <<class, body>> => Scripted'
BY DEF Scripted, body, Constructs, Destroys

\* A collection goes on as long as nothing is registered or removed.
LEMMA CollectsSame ==
  ASSUME Collects, UNCHANGED <<registered, sdk, mu>>, mu = "caller" => phase' = "live"
  PROVE  Collects'
BY DEF Collects, sdk

\* Every step keeps the types.
LEMMA TypesStep == LifeInv /\ Next => Types'
<1> SUFFICES ASSUME LifeInv, Next PROVE Types'
  OBVIOUS
<1> USE DEF LifeInv, Types, setup, body, sdk
<1>1. ASSUME NEW c \in Calls[class], Set(c) PROVE Types'
  BY <1>1, ApplyDomain DEF Set
<1>2. CASE BuildFails
  BY <1>2, BuildDomain DEF BuildFails, FailedBuild
<1>3. CASE BuildSucceeds
  BY <1>3, BuildDomain DEF BuildSucceeds
<1>4. CASE BeginDestroy \/ LockFilter \/ UnlockFilter
  BY <1>4 DEF BeginDestroy, LockFilter, UnlockFilter
<1>5. CASE Lifetime
  BY <1>5 DEF Lifetime, MemberStep, VirtualStep, InstrumentStep, Constructed,
     Destroyed
<1>6. CASE BeginCollection \/ EndCollection
  BY <1>6 DEF BeginCollection, EndCollection
<1>7. CASE ObserveReturns
  BY <1>7 DEF ObserveReturns, ObserverUnlocks
<1>8. ASSUME NEW i \in collecting, Observe(i) PROVE Types'
  BY <1>8 DEF Observe
<1>9. QED
  BY <1>1, <1>2, <1>3, <1>4, <1>5, <1>6, <1>7, <1>8
     DEF Next, Application, Collection

\* The next step of the script is one the phase allows.
LEMMA NextOp ==
  ASSUME LifeInv, script # << >>
  PROVE  /\ Tail(script) \in Seq(Op)
         /\ phase = "constructing" \/ phase = "destroying"
BY RestOfScript DEF LifeInv, Types, Scripted

\* Members come before the callbacks that read them and go after them.
LEMMA MemberStepScripted == LifeInv /\ MemberStep => Scripted'
<1> SUFFICES ASSUME LifeInv, MemberStep PROVE Scripted'
  OBVIOUS
<1> DEFINE h == Head(script)
<1>1. /\ script # << >> /\ script' = Tail(script)
      /\ \/ h.do = "construct" /\ alive' = alive \union h.with
         \/ h.do = "destroy" /\ alive' = alive \ h.with
      /\ UNCHANGED <<class, object, phase, registered>>
  BY DEF MemberStep, Step, With, setup
<1>2. /\ script' \in Seq(Op)
      /\ phase = "constructing" \/ phase = "destroying"
  BY <1>1, NextOp
<1>3. /\ script \in Seq(Op) /\ alive \subseteq Members(class)
      /\ registered \subseteq Instruments(class)
      /\ \A n \in registered : Needs(n) \subseteq alive
  BY DEF LifeInv, Scripted
<1>4. CASE phase = "constructing"
  <2>1. Constructs(class, script, alive)
    BY <1>4 DEF LifeInv, Scripted
  <2>2. /\ h.do = "construct" /\ h.with \subseteq Members(class)
        /\ Constructs(class, Tail(script), alive \union h.with)
    BY <1>1, <1>3, <2>1, ConstructsRest
  <2>3. alive' = alive \union h.with
    BY <1>1, <2>2
  <2>4. Constructs(class', script', alive')
    BY <1>1, <2>2, <2>3
  <2>5. QED
    BY <1>1, <1>2, <1>3, <1>4, <2>2, <2>3, <2>4 DEF Scripted
<1>5. CASE phase = "destroying"
  <2>1. Destroys(script, alive, registered)
    BY <1>5 DEF LifeInv, Scripted
  <2>2. /\ h.do = "destroy"
        /\ Destroys(Tail(script), alive \ h.with, registered)
        /\ \A n \in registered : Needs(n) \cap h.with = {}
    BY <1>1, <1>3, <2>1, DestroysRest
  <2>3. alive' = alive \ h.with
    BY <1>1, <2>2
  <2>4. Destroys(script', alive', registered')
    BY <1>1, <2>2, <2>3
  <2>5. \A n \in registered' : Needs(n) \subseteq alive'
    BY <1>1, <1>3, <2>2, <2>3
  <2>6. QED
    BY <1>1, <1>2, <1>3, <1>5, <2>3, <2>4, <2>5 DEF Scripted
<1>6. QED
  BY <1>2, <1>4, <1>5

\* A change of the dynamic type keeps what is registered and what the script
\* has still to do in agreement.
LEMMA VirtualStepScripted == LifeInv /\ VirtualStep => Scripted'
<1> SUFFICES ASSUME LifeInv, VirtualStep PROVE Scripted'
  OBVIOUS
<1> DEFINE h == Head(script)
<1>1. /\ script # << >> /\ script' = Tail(script)
      /\ h.do = "enter" \/ h.do = "leave"
      /\ UNCHANGED <<class, object, phase, alive, registered>>
  BY DEF VirtualStep, Step, setup
<1>2. /\ script' \in Seq(Op)
      /\ phase = "constructing" \/ phase = "destroying"
  BY <1>1, NextOp
<1>3. script \in Seq(Op)
  BY DEF LifeInv, Scripted
<1>4. phase = "constructing" => Constructs(class', script', alive')
  <2>1. phase = "constructing" => Constructs(class, script, alive)
    BY DEF LifeInv, Scripted
  <2>2. QED
    BY <1>1, <1>3, <2>1, ConstructsRest
<1>5. phase = "destroying" => Destroys(script', alive', registered')
  <2>1. phase = "destroying" => Destroys(script, alive, registered)
    BY DEF LifeInv, Scripted
  <2>2. QED
    BY <1>1, <1>3, <2>1, DestroysRest
<1>6. QED
  BY <1>1, <1>2, <1>4, <1>5 DEF LifeInv, Scripted

\* So does registering or removing an instrument.
LEMMA InstrumentStepScripted == LifeInv /\ InstrumentStep => Scripted'
<1> SUFFICES ASSUME LifeInv, InstrumentStep PROVE Scripted'
  OBVIOUS
<1> DEFINE h == Head(script)
<1>1. /\ script # << >> /\ script' = Tail(script)
      /\ \/ h.do = "register" /\ registered' = registered \union {h.with}
         \/ h.do = "unregister" /\ registered' = registered \ {h.with}
      /\ UNCHANGED <<class, object, phase, alive>>
  BY DEF InstrumentStep, Step, With, setup
<1>2. /\ script' \in Seq(Op)
      /\ phase = "constructing" \/ phase = "destroying"
  BY <1>1, NextOp
<1>3. /\ script \in Seq(Op) /\ alive \subseteq Members(class)
      /\ registered \subseteq Instruments(class)
      /\ \A n \in registered : Needs(n) \subseteq alive
  BY DEF LifeInv, Scripted
<1>4. CASE phase = "constructing"
  <2>1. Constructs(class, script, alive)
    BY <1>4 DEF LifeInv, Scripted
  <2>2. /\ h.do = "register" /\ h.with \in Instruments(class)
        /\ Needs(h.with) \subseteq alive
        /\ Constructs(class, Tail(script), alive)
    BY <1>1, <1>3, <2>1, ConstructsRest
  <2>3. registered' = registered \union {h.with}
    BY <1>1, <2>2
  <2>4. Constructs(class', script', alive')
    BY <1>1, <2>2
  <2>5. QED
    BY <1>1, <1>2, <1>3, <1>4, <2>2, <2>3, <2>4 DEF Scripted
<1>5. CASE phase = "destroying"
  <2>1. Destroys(script, alive, registered)
    BY <1>5 DEF LifeInv, Scripted
  <2>2. /\ h.do = "unregister"
        /\ Destroys(Tail(script), alive, registered \ {h.with})
    BY <1>1, <1>3, <2>1, DestroysRest
  <2>3. registered' = registered \ {h.with}
    BY <1>1, <2>2
  <2>4. Destroys(script', alive', registered')
    BY <1>1, <2>2, <2>3
  <2>5. QED
    BY <1>1, <1>2, <1>3, <1>5, <2>3, <2>4 DEF Scripted
<1>6. QED
  BY <1>2, <1>4, <1>5

\* Every step does.
LEMMA ScriptedStep == LifeInv /\ Next => Scripted'
<1> SUFFICES ASSUME LifeInv, Next PROVE Scripted'
  OBVIOUS
<1>0. Scripted /\ class \in Class
  BY DEF LifeInv, Types
<1>1. ASSUME NEW c \in Calls[class], Set(c) PROVE Scripted'
  BY <1>0, <1>1, ScriptedSame DEF Set
<1>2. CASE BuildFails \/ LockFilter \/ UnlockFilter
  BY <1>0, <1>2, ScriptedSame DEF BuildFails, LockFilter, UnlockFilter, setup
<1>3. CASE BuildSucceeds
  <2>1. /\ phase = "none" /\ phase' = "constructing"
        /\ script' = Constructor(class, object')
        /\ UNCHANGED <<class, alive, registered>>
    BY <1>3 DEF BuildSucceeds
  <2>2. alive = {} /\ registered = {}
    BY <1>0, <2>1 DEF Scripted
  <2>3. script' \in Seq(Op) /\ Constructs(class', script', alive')
    BY <1>0, <2>1, <2>2, ConstructorOrdered
  <2>4. QED
    BY <2>1, <2>2, <2>3 DEF Scripted
<1>4. CASE BeginDestroy
  <2>1. /\ phase = "live" /\ phase' = "destroying"
        /\ script' = Destructor(class)
        /\ UNCHANGED <<class, object, alive, registered>>
    BY <1>4 DEF BeginDestroy, setup
  <2>2. /\ script' \in Seq(Op)
        /\ Destroys(script', Members(class), Instruments(class))
    BY <1>0, <2>1, DestructorOrdered
  <2>3. alive' \subseteq Members(class) /\ registered' \subseteq Instruments(class)
    BY <1>0, <2>1 DEF Scripted
  <2>4. Destroys(script', alive', registered')
    BY <2>2, <2>3 DEF Destroys
  <2>5. QED
    BY <1>0, <2>1, <2>2, <2>4 DEF Scripted
<1>5. CASE MemberStep \/ VirtualStep \/ InstrumentStep
  BY <1>5, MemberStepScripted, VirtualStepScripted, InstrumentStepScripted
<1>6. CASE Constructed
  <2>1. /\ phase' = "live" /\ script = << >>
        /\ UNCHANGED <<class, object, script, alive, registered>>
    BY <1>6 DEF Constructed, setup
  <2>2. QED
    BY <1>0, <2>1 DEF Scripted
<1>7. CASE Destroyed
  <2>1. /\ phase = "destroying" /\ phase' = "none" /\ script = << >>
        /\ object' = << >>
        /\ UNCHANGED <<class, script, alive, registered>>
    BY <1>7 DEF Destroyed, setup
  <2>2. Destroys(script, alive, registered)
    BY <1>0, <2>1 DEF Scripted
  <2>3. DOMAIN script = {}
    BY <2>1
  <2>4. alive = {} /\ registered = {}
    BY <2>2, <2>3 DEF Destroys
  <2>5. QED
    BY <1>0, <2>1, <2>4 DEF Scripted
<1>8. CASE Collection
  BY <1>0, <1>8, ScriptedSame
     DEF Collection, BeginCollection, EndCollection, ObserveReturns, Observe, setup
<1>9. QED
  BY <1>1, <1>2, <1>3, <1>4, <1>5, <1>6, <1>7, <1>8
     DEF Next, Application, Lifetime

\* What a callback reads, the virtual call included.
LEMMA ReadsNeeded ==
  ASSUME NEW c \in Class, NEW i \in Instruments(c)
  PROVE  /\ i # None
         /\ Reads(i) \subseteq Needs(i) \union
              (IF i = "inflight_counter" THEN DerivedMembers ELSE {})
<1>1. i \in Instrument
  BY DEF Instruments, Instrument
<1>2. QED
  BY <1>1 DEF Instrument, Reads, Needs, None

\* Every step keeps the instruments of a running collection registered.
LEMMA CollectsStep == LifeInv /\ Next => Collects'
<1> SUFFICES ASSUME LifeInv, Next PROVE Collects'
  OBVIOUS
<1>0. Collects /\ Types /\ registered \subseteq Instruments(class)
  BY DEF LifeInv, Scripted
<1>1. ASSUME NEW c \in Calls[class], Set(c) PROVE Collects'
  BY <1>0, <1>1, CollectsSame DEF Set, body, Collects
<1>2. CASE BuildFails
  BY <1>0, <1>2, CollectsSame DEF BuildFails, body, Collects
<1>3. CASE BuildSucceeds
  BY <1>0, <1>3, CollectsSame DEF BuildSucceeds, Collects
<1>4. CASE BeginDestroy
  BY <1>0, <1>4, CollectsSame DEF BeginDestroy
<1>5. CASE LockFilter \/ UnlockFilter
  BY <1>0, <1>5 DEF LockFilter, UnlockFilter, Collects, body, sdk, None
<1>6. CASE MemberStep \/ VirtualStep
  BY <1>0, <1>6, CollectsSame DEF MemberStep, VirtualStep, Collects
<1>7. CASE InstrumentStep
  BY <1>0, <1>7 DEF InstrumentStep, Collects, sdk
<1>8. CASE Constructed \/ Destroyed
  BY <1>0, <1>8, CollectsSame DEF Constructed, Destroyed, Collects
<1>9. CASE BeginCollection \/ EndCollection
  BY <1>0, <1>9 DEF BeginCollection, EndCollection, Collects, body, None
<1>10. CASE ObserveReturns
  BY <1>0, <1>10 DEF ObserveReturns, ObserverUnlocks, Collects, body, None
<1>11. ASSUME NEW i \in collecting, Observe(i) PROVE Collects'
  <2>1. /\ i \in registered /\ i \in Instruments(class)
        /\ observing = None /\ mu # "observer"
    BY <1>0, <1>11 DEF Observe, Collects, None
  <2>2. /\ i # None
        /\ Reads(i) \subseteq Needs(i) \union
             (IF i = "inflight_counter" THEN DerivedMembers ELSE {})
    BY <1>0, <2>1, ReadsNeeded DEF Types
  <2>3. /\ observing' = i /\ reading' = Reads(i)
        /\ UNCHANGED <<phase, registered, collecting, registry>>
        /\ mu' = mu \/ (mu' = "observer" /\ i = "dropping_instrument")
    BY <1>11 DEF Observe, body
  <2>4. QED
    BY <1>0, <1>11, <2>1, <2>2, <2>3 DEF Collects
<1>12. QED
  BY <1>1, <1>2, <1>3, <1>4, <1>5, <1>6, <1>7, <1>8, <1>9, <1>10, <1>11
     DEF Next, Application, Lifetime, Collection

\* The inductive invariant holds throughout the lives of all objects one
\* builder makes.
THEOREM Invariance == Spec => []LifeInv
<1>1. LifeInv /\ [Next]_vars => LifeInv'
  <2> SUFFICES ASSUME LifeInv, [Next]_vars PROVE LifeInv'
    OBVIOUS
  <2>1. CASE Next
    BY <2>1, TypesStep, ScriptedStep, CollectsStep DEF LifeInv
  <2>2. CASE UNCHANGED vars
    <3>1. Types'
      BY <2>2 DEF LifeInv, Types, vars, setup, body, sdk
    <3>2. Scripted'
      BY <2>2, ScriptedSame DEF LifeInv, vars, setup
    <3>3. Collects'
      BY <2>2, CollectsSame DEF LifeInv, Collects, vars, body
    <3>4. QED
      BY <3>1, <3>2, <3>3 DEF LifeInv
  <2>3. QED
    BY <2>1, <2>2
<1>2. QED
  BY LifeInit, <1>1, PTL DEF Spec

\* Type correctness: when an object is gone nothing of it is registered,
\* observed, locked or alive, after any number of builds and collections.
THEOREM TypeCorrect == Spec => []TypeOK
<1>1. LifeInv => TypeOK
  <2> SUFFICES ASSUME LifeInv PROVE TypeOK
    OBVIOUS
  <2>1. phase = "none" => /\ object = << >> /\ alive = {} /\ registered = {}
                          /\ ~registry /\ collecting = {}
    BY DEF LifeInv, Scripted, Collects
  <2>2. phase = "none" => observing = None /\ reading = {}
    BY <2>1 DEF LifeInv, Collects
  <2>3. phase = "none" => mu = None
    BY <2>2 DEF LifeInv, Types, Collects, None
  <2>4. QED
    BY <2>1, <2>2, <2>3 DEF LifeInv, Types, Collects, TypeOK
<1>2. QED
  BY <1>1, Invariance, PTL

\* Whatever moment a collection falls on, the callbacks of AbstractLimiter,
\* AbstractPartitionedLimiter and CodelFilter read members that are constructed
\* and not destroyed, but for the partitions OnObserveInflight may read.
THEOREM ObserversSafe == Spec => []ObserversReadLiveMembers
<1>1. LifeInv => ObserversReadLiveMembers
  BY DEF LifeInv, Scripted, Collects, ObserversReadLiveMembers
<1>2. QED
  BY <1>1, Invariance, PTL

----------------------------------------------------------------------------
(* Least and greatest elements.                                            *)

\* Every set of natural numbers has a least one.
LEMMA LeastNumber ==
  ASSUME NEW S \in SUBSET Nat, S # {}
  PROVE  \E n \in S : \A m \in S : n <= m
<1> DEFINE R == OpToRel(<, Nat)
<1>1. IsWellFoundedOn(R, Nat)
  BY NatLessThanWellFounded
<1>2. \A x, y \in Nat : <<x, y>> \in R <=> x < y
  BY DEF OpToRel
<1> HIDE DEF R
<1>3. PICK n \in S : \A m \in S : ~(<<m, n>> \in R)
  BY <1>1, WFMin
<1>4. ASSUME NEW m \in S PROVE n <= m
  <2>1. n \in Nat /\ m \in Nat
    OBVIOUS
  <2>2. ~(m < n)
    BY <1>2, <1>3, <2>1
  <2>3. QED
    BY <2>1, <2>2
<1>5. QED
  BY <1>4

\* A bounded set of positive numbers that is not empty has a greatest one.
LEMMA Greatest ==
  ASSUME NEW n \in Nat, NEW S \in SUBSET (1 .. n), S # {}
  PROVE  \E k \in S : \A j \in S : j <= k
<1> DEFINE D == {n - j : j \in S}
<1>1. \A j \in S : j \in Int /\ 1 <= j /\ j <= n
  OBVIOUS
<1>2. D \in SUBSET Nat
  BY <1>1
<1>3. D # {}
  OBVIOUS
<1>4. PICK d \in D : \A x \in D : d <= x
  <2> HIDE DEF D
  <2>1. QED
    BY <1>2, <1>3, LeastNumber
<1>5. PICK k \in S : d = n - k
  OBVIOUS
<1>6. ASSUME NEW j \in S PROVE j <= k
  <2>1. n - k <= n - j
    BY <1>4, <1>5
  <2>2. QED
    BY <1>1, <2>1
<1>7. QED
  BY <1>6

\* An element that no other exceeds is the greatest.
LEMMA MaxIs ==
  ASSUME NEW S \in SUBSET Int, NEW k \in S, \A j \in S : j <= k
  PROVE  Max(S) = k
<1>1. \A y \in S : k >= y
  OBVIOUS
<1>2. Max(S) \in S /\ \A y \in S : Max(S) >= y
  BY <1>1 DEF Max
<1> DEFINE x == Max(S)
<1>3. x \in S /\ x >= k
  BY <1>2
<1> HIDE DEF x
<1>4. x \in Int /\ k \in Int /\ x <= k
  BY <1>3
<1>5. x = k
  BY <1>3, <1>4
<1>6. QED
  BY <1>5 DEF x

\* An element that exceeds no other is the least.
LEMMA MinIs ==
  ASSUME NEW S \in SUBSET Int, NEW k \in S, \A j \in S : k <= j
  PROVE  Min(S) = k
<1>1. Min(S) \in S /\ \A y \in S : Min(S) <= y
  BY DEF Min
<1> DEFINE x == Min(S)
<1>2. x \in S /\ x <= k
  BY <1>1
<1> HIDE DEF x
<1>3. x \in Int /\ k \in Int /\ k <= x
  BY <1>2
<1>4. x = k
  BY <1>2, <1>3
<1>5. QED
  BY <1>4 DEF x

\* A non-empty set of positions has a greatest one.
LEMMA MaxOf ==
  ASSUME NEW n \in Nat, NEW S \in SUBSET (1 .. n), S # {}
  PROVE  Max(S) \in S /\ \A j \in S : j <= Max(S)
<1>1. PICK k \in S : \A j \in S : j <= k
  BY Greatest
<1>2. Max(S) = k
  BY <1>1, MaxIs
<1>3. QED
  BY <1>1, <1>2

\* A non-empty set of positions has a least one.
LEMMA MinOf ==
  ASSUME NEW n \in Nat, NEW S \in SUBSET (1 .. n), S # {}
  PROVE  Min(S) \in S /\ \A j \in S : Min(S) <= j
<1>1. S \in SUBSET Nat
  OBVIOUS
<1>2. PICK k \in S : \A j \in S : k <= j
  BY <1>1, LeastNumber
<1>3. Min(S) = k
  BY <1>2, MinIs
<1>4. QED
  BY <1>2, <1>3

----------------------------------------------------------------------------
(* The builder and the calls made on it.                                   *)

\* The calls that may be logged.
RequiredCalls == {[field |-> "limit", arg |-> "limit"],
                  [field |-> "partition", arg |-> <<"a", 2>>],
                  [field |-> "resolver", arg |-> "resolver"],
                  [field |-> "delegate", arg |-> "limiter"]}

\* A successful Build, as the log has it.
BuildCall == [field |-> "build", arg |-> "ok"]

\* An entry of the log.
LogEntry ==
  (UNION {Calls[c] : c \in Class}) \union RequiredCalls \union {BuildCall}

\* The names, keys and values that the calls give.
PartitionName == {"a", "b", Unknown}

Resolver == {"resolver", Null}

\* The fields that collect what several calls give.
Special == {"partition_specs", "pending_reject_delays", "partition_resolvers"}

\* The fields whose value is what the last call of their setter gave.
Plain(c) == DOMAIN Fresh[c] \ Special

\* The calls a builder of class c takes.
Setters(c) ==
  {SetterOf(f) : f \in Plain(c)}
  \union (IF c = "AbstractPartitionedLimiter"
          THEN {"partition", "reject_delay", "resolver"} ELSE {})

\* A call on a builder of class c.  The functions that Build replaces by a
\* default when they are empty are never set to an empty one.
Proper(c, e) ==
  /\ e \in LogEntry
  /\ e.field \in Setters(c)
  /\ e.field \in {"partition", "reject_delay"} => e.arg \in PartitionName \X Int
  /\ e.field = "resolver" => e.arg \in Resolver
  /\ e.field \in {"sleep_fn", "clock", "sample_window_factory"} => e.arg # Null

\* The log m is the log l and the call e.
Extends(l, e, m) ==
  /\ l \in Seq(LogEntry) /\ m \in Seq(LogEntry) /\ Len(m) = Len(l) + 1
  /\ m[Len(l) + 1] = e /\ \A i \in 1 .. Len(l) : m[i] = l[i]

\* What a field holds after its setter was called with arg.
Stored(f, arg) ==
  IF f = "queue_size_fn" /\ arg = Null THEN "sqrt"
  ELSE IF f = "fixed_timeout" /\ arg \notin Fixed THEN Null
  ELSE arg

\* The calls after from that count for field f of a builder of class c, when
\* its last successful Build is entry b of the log.
Since(c, b, f) == IF f \in MovedFrom[c] THEN b ELSE 0

Counts(l, from, f, i) == i \in 1 .. Len(l) /\ i > from /\ l[i].field = SetterOf(f)

\* Field f of the builder s holds what the last of these calls gave, or what
\* the builder was made with, or nothing if that was moved out.
FieldTracks(c, s, l, b, f) ==
  /\ (\A i \in 1 .. Len(l) : ~Counts(l, Since(c, b, f), f, i)) =>
       s[f] = IF Since(c, b, f) > 0 THEN Null ELSE Fresh[c][f]
  /\ \A i \in 1 .. Len(l) :
       /\ Counts(l, Since(c, b, f), f, i)
       /\ \A j \in 1 .. Len(l) : Counts(l, Since(c, b, f), f, j) => j <= i
       => s[f] = Stored(f, l[i].arg)

\* Every such field does.
FieldsTrack(c, s, l, b) == \A f \in Plain(c) : FieldTracks(c, s, l, b, f)

\* The entry of the last successful Build, or 0.
LastBuilt(l, b) ==
  /\ b \in 0 .. Len(l)
  /\ b > 0 => l[b].field = "build"
  /\ \A i \in 1 .. Len(l) : i > b => l[i].field # "build"

\* Logging a call extends the log by it.
LEMMA LogGrows ==
  ASSUME NEW l \in Seq(LogEntry), NEW e \in LogEntry
  PROVE  Extends(l, e, Append(l, e))
BY DEF Extends

\* No field is called like a setter of another one.
LEMMA PlainNames ==
  ASSUME NEW c \in Class, NEW f \in Plain(c)
  PROVE  /\ f \notin Special
         /\ f \notin {"partition", "reject_delay", "resolver", "build",
                      "backlog_timeout"}
         /\ f \in {"timeout_fn", "fixed_timeout"} => c = "LifoBlockingLimiter"
BY SMTT(60) DEF Class, Plain, Special, Fresh, SimpleFields, PartitionedFields,
   BlockingFields, LifoFields, CodelFields, WindowedFields, Gradient2Fields

\* What a setter does to the fields of the builder.
LEMMA ApplyField ==
  ASSUME NEW c \in Class, NEW s, DOMAIN s = DOMAIN Fresh[c], NEW e,
         e.field \in Setters(c), NEW f \in Plain(c)
  PROVE  Apply(s, e)[f] =
           IF e.field = SetterOf(f) THEN Stored(f, e.arg) ELSE s[f]
<1>1. f \in DOMAIN s /\ f \notin Special
  BY DEF Plain
<1>2. /\ f \notin {"partition", "reject_delay", "resolver", "backlog_timeout"}
      /\ f \in {"timeout_fn", "fixed_timeout"} => c = "LifoBlockingLimiter"
  BY PlainNames
<1>3. CASE e.field = "partition"
  <2>1. Apply(s, e)[f] = s[f]
    BY <1>1, <1>3 DEF Apply, Special
  <2>2. QED
    BY <1>2, <1>3, <2>1 DEF SetterOf
<1>4. CASE e.field = "reject_delay"
  <2>1. Apply(s, e)[f] = s[f]
    BY <1>1, <1>4 DEF Apply, Special
  <2>2. QED
    BY <1>2, <1>4, <2>1 DEF SetterOf
<1>5. CASE e.field = "resolver"
  <2>1. Apply(s, e)[f] = s[f]
    BY <1>1, <1>5 DEF Apply, Special
  <2>2. QED
    BY <1>2, <1>5, <2>1 DEF SetterOf
<1>6. CASE e.field = "backlog_timeout"
  <2>1. Apply(s, e) = [s EXCEPT !.timeout_fn = e.arg,
                         !.fixed_timeout = IF e.arg \in Fixed THEN e.arg ELSE Null]
    BY <1>6 DEF Apply
  <2>2. CASE f = "timeout_fn"
    BY <1>1, <1>6, <2>1, <2>2 DEF SetterOf, Stored
  <2>3. CASE f = "fixed_timeout"
    BY <1>1, <1>6, <2>1, <2>3 DEF SetterOf, Stored
  <2>4. CASE f \notin {"timeout_fn", "fixed_timeout"}
    BY <1>1, <1>2, <1>6, <2>1, <2>4 DEF SetterOf
  <2>5. QED
    BY <2>2, <2>3, <2>4
<1>7. CASE e.field = "queue_size_fn"
  <2>1. Apply(s, e) = [s EXCEPT !.queue_size_fn =
                                  IF e.arg = Null THEN "sqrt" ELSE e.arg]
    BY <1>7 DEF Apply
  <2>2. CASE f = "queue_size_fn"
    BY <1>1, <1>7, <2>1, <2>2 DEF SetterOf, Stored
  <2>3. CASE f # "queue_size_fn"
    BY <1>1, <1>7, <2>1, <2>3 DEF SetterOf
  <2>4. QED
    BY <2>2, <2>3
<1>8. CASE e.field \notin {"partition", "reject_delay", "resolver",
                           "backlog_timeout", "queue_size_fn"}
  <2>1. Apply(s, e) = [s EXCEPT ![e.field] = e.arg]
    BY <1>8 DEF Apply
  <2>2. e.field \in Plain(c) /\ e.field \notin {"timeout_fn", "fixed_timeout"}
    BY <1>8 DEF Setters, SetterOf
  <2>3. CASE f = e.field
    BY <1>1, <1>8, <2>1, <2>2, <2>3 DEF SetterOf, Stored
  <2>4. CASE f # e.field
    BY <1>1, <1>8, <2>1, <2>4 DEF SetterOf
  <2>5. QED
    BY <2>3, <2>4
<1>9. QED
  BY <1>3, <1>4, <1>5, <1>6, <1>7, <1>8

\* A setter call is from then on the one that counts for its fields.
LEMMA FieldSet ==
  ASSUME NEW c \in Class, NEW s, NEW t, NEW l, NEW e, NEW m, Extends(l, e, m),
         NEW b \in 0 .. Len(l), NEW f, FieldTracks(c, s, l, b, f),
         t[f] = IF e.field = SetterOf(f) THEN Stored(f, e.arg) ELSE s[f]
  PROVE  FieldTracks(c, t, m, b, f)
<1> DEFINE n == Len(l)
           a == Since(c, b, f)
<1>1. /\ n \in Nat /\ Len(m) = n + 1 /\ m[n + 1] = e
      /\ \A i \in 1 .. n : m[i] = l[i]
  BY DEF Extends
<1>2. a \in 0 .. n
  BY <1>1 DEF Since
<1> HIDE DEF n, a
<1>3. CASE e.field = SetterOf(f)
  <2>1. Counts(m, a, f, n + 1)
    BY <1>1, <1>2, <1>3 DEF Counts
  <2>2. ASSUME NEW i \in 1 .. n + 1,
               \A j \in 1 .. n + 1 : Counts(m, a, f, j) => j <= i
        PROVE  t[f] = Stored(f, m[i].arg)
    <3>1. i = n + 1
      BY <1>1, <2>1, <2>2
    <3>2. QED
      BY <1>1, <1>3, <3>1
  <2>3. n + 1 \in 1 .. n + 1
    BY <1>1
  <2>4. QED
    BY <1>1, <2>1, <2>2, <2>3 DEF FieldTracks, a
<1>4. CASE e.field # SetterOf(f)
  <2>1. \A i \in 1 .. n + 1 : Counts(m, a, f, i) <=> i \in 1 .. n /\ Counts(l, a, f, i)
    BY <1>1, <1>4 DEF Counts, n
  <2>2. t[f] = s[f]
    BY <1>4
  <2>3. /\ (\A i \in 1 .. n : ~Counts(l, a, f, i)) =>
              s[f] = IF a > 0 THEN Null ELSE Fresh[c][f]
        /\ \A i \in 1 .. n :
             Counts(l, a, f, i) /\ (\A j \in 1 .. n : Counts(l, a, f, j) => j <= i)
             => s[f] = Stored(f, l[i].arg)
    BY DEF FieldTracks, n, a
  <2>4. \A i \in 1 .. n : i \in 1 .. n + 1
    BY <1>1
  <2>5. (\A i \in 1 .. n + 1 : ~Counts(m, a, f, i)) =>
          t[f] = IF a > 0 THEN Null ELSE Fresh[c][f]
    BY <2>1, <2>2, <2>3, <2>4
  <2>6. ASSUME NEW i \in 1 .. n + 1, Counts(m, a, f, i),
               \A j \in 1 .. n + 1 : Counts(m, a, f, j) => j <= i
        PROVE  t[f] = Stored(f, m[i].arg)
    <3>1. i \in 1 .. n /\ Counts(l, a, f, i)
      BY <2>1, <2>6
    <3>2. \A j \in 1 .. n : Counts(l, a, f, j) => j <= i
      BY <2>1, <2>4, <2>6
    <3>3. s[f] = Stored(f, l[i].arg)
      BY <2>3, <3>1, <3>2
    <3>4. QED
      BY <1>1, <2>2, <3>1, <3>3
  <2>7. QED
    BY <1>1, <2>5, <2>6 DEF FieldTracks, a
<1>5. QED
  BY <1>3, <1>4

\* A Build leaves nothing in the fields it moves from and the others alone.
LEMMA FieldBuild ==
  ASSUME NEW c \in Class, NEW s, NEW t, NEW l, NEW e, NEW m, Extends(l, e, m),
         NEW b \in 0 .. Len(l), NEW f \in Plain(c), FieldTracks(c, s, l, b, f),
         e.field = "build",
         t[f] = IF f \in MovedFrom[c] THEN Null ELSE s[f]
  PROVE  FieldTracks(c, t, m, Len(m), f)
<1>1. /\ Len(l) \in Nat /\ Len(m) = Len(l) + 1
      /\ \A i \in 1 .. Len(l) : m[i] = l[i]
  BY DEF Extends
<1>2. CASE f \in MovedFrom[c]
  <2>1. Since(c, Len(m), f) = Len(m)
    BY <1>2 DEF Since
  <2>2. \A i \in 1 .. Len(m) : ~Counts(m, Len(m), f, i)
    BY <1>1 DEF Counts
  <2>3. Len(m) > 0
    BY <1>1
  <2>4. QED
    BY <1>2, <2>1, <2>2, <2>3 DEF FieldTracks
<1>3. CASE f \notin MovedFrom[c]
  <2>1. e.field # SetterOf(f)
    BY PlainNames DEF SetterOf
  <2>2. FieldTracks(c, t, m, b, f)
    BY <1>3, <2>1, FieldSet
  <2>3. Since(c, b, f) = 0 /\ Since(c, Len(m), f) = 0
    BY <1>3 DEF Since
  <2>4. QED
    BY <2>2, <2>3 DEF FieldTracks
<1>4. QED
  BY <1>2, <1>3


----------------------------------------------------------------------------
(* The partitions, their reject delays and the resolvers.                  *)

\* The spec of a partition.
PartitionSpec == [name : PartitionName, percent : Int, reject_delay : Int]

\* Call k of the log is about the partition of this name, and the last one is.
Tells(l, field, name, k) ==
  k \in 1 .. Len(l) /\ l[k].field = field /\ l[k].arg[1] = name

TellsLast(l, field, name, k) ==
  /\ Tells(l, field, name, k)
  /\ \A j \in 1 .. Len(l) : Tells(l, field, name, j) => j <= k

\* One spec for each name declared, in the order of the first declarations,
\* with the last share; nothing is delayed that no call asked to delay.
SpecsTrack(specs, l) ==
  /\ specs \in Seq(PartitionSpec)
  /\ \A i, j \in 1 .. Len(specs) : specs[i].name = specs[j].name => i = j
  /\ \A i \in 1 .. Len(specs) :
       \E k \in 1 .. Len(l) : Tells(l, "partition", specs[i].name, k)
  /\ \A k \in 1 .. Len(l) : l[k].field = "partition" =>
       \E i \in 1 .. Len(specs) : specs[i].name = l[k].arg[1]
  /\ \A i, j \in 1 .. Len(specs) : i < j =>
       \A k \in 1 .. Len(l) : Tells(l, "partition", specs[j].name, k) =>
         \E h \in 1 .. Len(l) : h < k /\ Tells(l, "partition", specs[i].name, h)
  /\ \A i \in 1 .. Len(specs), k \in 1 .. Len(l) :
       TellsLast(l, "partition", specs[i].name, k) =>
         specs[i].percent = l[k].arg[2]
  /\ \A i \in 1 .. Len(specs) :
       (\A k \in 1 .. Len(l) : ~Tells(l, "reject_delay", specs[i].name, k)) =>
         specs[i].reject_delay = 0

\* The pending delays are about the names the calls gave, and the last one for
\* a name is that of the last call.
DelaysTrack(pending, l) ==
  /\ pending \in Seq(PartitionName \X Int)
  /\ \A q \in 1 .. Len(pending) :
       \E k \in 1 .. Len(l) : Tells(l, "reject_delay", pending[q][1], k)
  /\ \A k \in 1 .. Len(l) : l[k].field = "reject_delay" =>
       \E q \in 1 .. Len(pending) : pending[q][1] = l[k].arg[1]
  /\ \A q \in 1 .. Len(pending), k \in 1 .. Len(l) :
       /\ \A r \in 1 .. Len(pending) : pending[r][1] = pending[q][1] => r <= q
       /\ TellsLast(l, "reject_delay", pending[q][1], k)
       => pending[q][2] = l[k].arg[2]

\* The resolvers given since entry b of the log.
ResolverCalls(l, b) == {i \in 1 .. Len(l) : i > b /\ l[i].field = "resolver"}

UpTo(S, i) == {j \in S : j <= i}

\* The resolvers of the calls since the last successful Build, in order.
ResolversTrack(rs, l, b) ==
  /\ rs \in Seq(Resolver)
  /\ Len(rs) = Cardinality(ResolverCalls(l, b))
  /\ \A i \in ResolverCalls(l, b) :
       /\ Cardinality(UpTo(ResolverCalls(l, b), i)) \in 1 .. Len(rs)
       /\ rs[Cardinality(UpTo(ResolverCalls(l, b), i))] = l[i].arg

\* A further call leaves what was said before it as it was.
LEMMA TellsOld ==
  ASSUME NEW l, NEW e, NEW m, Extends(l, e, m), NEW field, NEW name,
         NEW k \in 1 .. Len(l)
  PROVE  Tells(m, field, name, k) <=> Tells(l, field, name, k)
BY DEF Extends, Tells

\* What the logged call itself tells.
LEMMA TellsNew ==
  ASSUME NEW l, NEW e, NEW m, Extends(l, e, m), NEW field, NEW name
  PROVE  Tells(m, field, name, Len(l) + 1) <=>
           e.field = field /\ e.arg[1] = name
BY DEF Extends, Tells

\* A call about something else leaves the last word where it was.
LEMMA LastOld ==
  ASSUME NEW l, NEW e, NEW m, Extends(l, e, m), NEW field, NEW name,
         ~(e.field = field /\ e.arg[1] = name), NEW k \in 1 .. Len(m),
         TellsLast(m, field, name, k)
  PROVE  k \in 1 .. Len(l) /\ TellsLast(l, field, name, k)
<1>1. Len(l) \in Nat /\ Len(m) = Len(l) + 1
  BY DEF Extends
<1>2. Tells(m, field, name, k) /\ \A j \in 1 .. Len(m) : Tells(m, field, name, j) => j <= k
  BY DEF TellsLast
<1>3. k # Len(l) + 1
  BY <1>2, TellsNew
<1>4. k \in 1 .. Len(l)
  BY <1>1, <1>3
<1>5. Tells(l, field, name, k)
  BY <1>2, <1>4, TellsOld
<1>6. ASSUME NEW j \in 1 .. Len(l), Tells(l, field, name, j) PROVE j <= k
  <2>1. Tells(m, field, name, j)
    BY <1>6, TellsOld
  <2>2. j \in 1 .. Len(m)
    BY <1>1
  <2>3. QED
    BY <1>2, <2>1, <2>2
<1>7. QED
  BY <1>4, <1>5, <1>6 DEF TellsLast

\* A call that declares no partition leaves the specs right.
LEMMA SpecsSame ==
  ASSUME NEW specs, NEW l, NEW e, NEW m, Extends(l, e, m),
         e.field # "partition", SpecsTrack(specs, l)
  PROVE  SpecsTrack(specs, m)
<1> DEFINE n == Len(l)
           u == Len(specs)
<1>1. /\ n \in Nat /\ Len(m) = n + 1 /\ m[n + 1] = e
      /\ \A i \in 1 .. n : m[i] = l[i]
  BY DEF Extends
<1>2. \A i \in 1 .. n : i \in 1 .. n + 1
  BY <1>1
<1>3. \A i \in 1 .. n + 1 : i # n + 1 => i \in 1 .. n
  BY <1>1
<1>4. \A field, name : \A k \in 1 .. n :
        Tells(m, field, name, k) <=> Tells(l, field, name, k)
  BY TellsOld
<1>5. \A name : ~Tells(m, "partition", name, n + 1)
  BY TellsNew
<1> HIDE DEF n, u
<1>6. /\ specs \in Seq(PartitionSpec)
      /\ \A i, j \in 1 .. u : specs[i].name = specs[j].name => i = j
  BY DEF SpecsTrack, u
<1>7. ASSUME NEW i \in 1 .. u
      PROVE  \E k \in 1 .. n + 1 : Tells(m, "partition", specs[i].name, k)
  <2>1. PICK k \in 1 .. n : Tells(l, "partition", specs[i].name, k)
    BY DEF SpecsTrack, u, n
  <2>2. QED
    BY <1>2, <1>4, <2>1
<1>8. ASSUME NEW k \in 1 .. n + 1, m[k].field = "partition"
      PROVE  \E i \in 1 .. u : specs[i].name = m[k].arg[1]
  <2>1. k \in 1 .. n /\ m[k] = l[k]
    BY <1>1, <1>3, <1>8
  <2>2. QED
    BY <1>8, <2>1 DEF SpecsTrack, u, n
<1>9. ASSUME NEW i \in 1 .. u, NEW j \in 1 .. u, i < j, NEW k \in 1 .. n + 1,
             Tells(m, "partition", specs[j].name, k)
      PROVE  \E h \in 1 .. n + 1 : h < k /\ Tells(m, "partition", specs[i].name, h)
  <2>1. k \in 1 .. n /\ Tells(l, "partition", specs[j].name, k)
    BY <1>3, <1>4, <1>5, <1>9
  <2>2. PICK h \in 1 .. n : h < k /\ Tells(l, "partition", specs[i].name, h)
    BY <1>9, <2>1 DEF SpecsTrack, u, n
  <2>3. QED
    BY <1>2, <1>4, <2>2
<1>10. ASSUME NEW i \in 1 .. u, NEW k \in 1 .. n + 1,
              TellsLast(m, "partition", specs[i].name, k)
       PROVE  specs[i].percent = m[k].arg[2]
  <2>1. k \in 1 .. n /\ TellsLast(l, "partition", specs[i].name, k)
    BY <1>1, <1>10, LastOld DEF n
  <2>2. QED
    BY <1>1, <2>1 DEF SpecsTrack, u, n
<1>11. ASSUME NEW i \in 1 .. u,
              \A k \in 1 .. n + 1 : ~Tells(m, "reject_delay", specs[i].name, k)
       PROVE  specs[i].reject_delay = 0
  <2>1. \A k \in 1 .. n : ~Tells(l, "reject_delay", specs[i].name, k)
    BY <1>2, <1>4, <1>11
  <2>2. QED
    BY <2>1 DEF SpecsTrack, u, n
<1>12. QED
  BY <1>1, <1>6, <1>7, <1>8, <1>9, <1>10, <1>11 DEF SpecsTrack, u


\* A first declaration adds a spec at the end.
LEMMA SpecsAdded ==
  ASSUME NEW specs, NEW l, NEW e, NEW m, Extends(l, e, m),
         e.field = "partition", e.arg \in PartitionName \X Int, SpecsTrack(specs, l),
         Named(specs, e.arg[1]) = {}
  PROVE  SpecsTrack(Append(specs, [name |-> e.arg[1], percent |-> e.arg[2],
                                   reject_delay |-> 0]), m)
<1> DEFINE n == Len(l)
           u == Len(specs)
           r == [name |-> e.arg[1], percent |-> e.arg[2], reject_delay |-> 0]
           v == Append(specs, r)
<1>1. /\ n \in Nat /\ Len(m) = n + 1 /\ m[n + 1] = e
      /\ \A i \in 1 .. n : m[i] = l[i]
  BY DEF Extends
<1>2. r \in PartitionSpec /\ r.name = e.arg[1] /\ r.percent = e.arg[2]
      /\ r.reject_delay = 0
  BY DEF PartitionSpec
<1> HIDE DEF r
<1>3. specs \in Seq(PartitionSpec) /\ u \in Nat /\ DOMAIN specs = 1 .. u
  BY DEF SpecsTrack
<1>4. /\ v \in Seq(PartitionSpec) /\ Len(v) = u + 1 /\ v[u + 1] = r
      /\ \A i \in 1 .. u : v[i] = specs[i]
  BY <1>2, <1>3
<1>5. \A field, name : \A k \in 1 .. n :
        Tells(m, field, name, k) <=> Tells(l, field, name, k)
  BY TellsOld
<1>6. \A field, name : Tells(m, field, name, n + 1) <=>
        field = "partition" /\ name = r.name
  BY <1>2, TellsNew
<1>7. \A i \in 1 .. u : specs[i].name # r.name
  BY <1>2, <1>3 DEF Named
<1> HIDE DEF n, u, v
<1>8. /\ n + 1 \in 1 .. n + 1 /\ u + 1 \in 1 .. u + 1
      /\ \A i \in 1 .. n : i \in 1 .. n + 1 /\ i < n + 1
      /\ \A i \in 1 .. n + 1 : i # n + 1 => i \in 1 .. n
      /\ \A i \in 1 .. u : i \in 1 .. u + 1
      /\ \A i \in 1 .. u + 1 : i # u + 1 => i \in 1 .. u
      /\ \A i \in 1 .. u + 1 : ~(u + 1 < i)
  BY <1>1, <1>3
<1>9. ASSUME NEW i \in 1 .. u + 1, NEW j \in 1 .. u + 1, v[i].name = v[j].name
      PROVE  i = j
  <2>1. CASE i \in 1 .. u /\ j \in 1 .. u
    <3>1. specs[i].name = specs[j].name
      BY <1>4, <1>9, <2>1
    <3>2. QED
      BY <2>1, <3>1 DEF SpecsTrack, u
  <2>2. CASE i = u + 1 \/ j = u + 1
    BY <1>4, <1>7, <1>8, <1>9, <2>2
  <2>3. QED
    BY <1>8, <2>1, <2>2
<1>10. ASSUME NEW i \in 1 .. u
       PROVE  \E k \in 1 .. n : Tells(m, "partition", specs[i].name, k)
  <2>1. PICK k \in 1 .. n : Tells(l, "partition", specs[i].name, k)
    BY DEF SpecsTrack, u, n
  <2>2. QED
    BY <1>5, <2>1
<1>11. ASSUME NEW i \in 1 .. u + 1
       PROVE  \E k \in 1 .. n + 1 : Tells(m, "partition", v[i].name, k)
  <2>1. CASE i = u + 1
    BY <1>4, <1>6, <1>8, <2>1
  <2>2. CASE i \in 1 .. u
    BY <1>4, <1>8, <1>10, <2>2
  <2>3. QED
    BY <1>8, <2>1, <2>2
<1>12. ASSUME NEW k \in 1 .. n + 1, m[k].field = "partition"
       PROVE  \E i \in 1 .. u + 1 : v[i].name = m[k].arg[1]
  <2>1. CASE k = n + 1
    BY <1>1, <1>2, <1>4, <1>8, <2>1
  <2>2. CASE k \in 1 .. n
    <3>1. PICK i \in 1 .. u : specs[i].name = l[k].arg[1]
      BY <1>1, <1>12, <2>2 DEF SpecsTrack, u, n
    <3>2. QED
      BY <1>1, <1>4, <1>8, <2>2, <3>1
  <2>3. QED
    BY <1>8, <2>1, <2>2
<1>13. ASSUME NEW i \in 1 .. u + 1, NEW j \in 1 .. u + 1, i < j,
              NEW k \in 1 .. n + 1, Tells(m, "partition", v[j].name, k)
       PROVE  \E h \in 1 .. n + 1 : h < k /\ Tells(m, "partition", v[i].name, h)
  <2>1. i \in 1 .. u /\ v[i] = specs[i]
    BY <1>4, <1>8, <1>13
  <2>2. CASE k = n + 1
    <3>1. PICK h \in 1 .. n : Tells(m, "partition", specs[i].name, h)
      BY <1>10, <2>1
    <3>2. h \in 1 .. n + 1 /\ h < k
      BY <1>8, <2>2
    <3>3. QED
      BY <2>1, <3>1, <3>2
  <2>3. CASE k \in 1 .. n /\ j \in 1 .. u
    <3>1. Tells(l, "partition", specs[j].name, k)
      BY <1>4, <1>5, <1>13, <2>3
    <3>2. PICK h \in 1 .. n : h < k /\ Tells(l, "partition", specs[i].name, h)
      BY <1>13, <2>1, <2>3, <3>1 DEF SpecsTrack, u, n
    <3>3. QED
      BY <1>5, <1>8, <2>1, <3>2
  <2>4. CASE k \in 1 .. n /\ j = u + 1
    <3>1. Tells(l, "partition", r.name, k)
      BY <1>4, <1>5, <1>13, <2>4
    <3>2. l[k].field = "partition" /\ l[k].arg[1] = r.name
      BY <3>1 DEF Tells
    <3>3. \E w \in 1 .. u : specs[w].name = r.name
      BY <2>4, <3>2 DEF SpecsTrack, u, n
    <3>4. QED
      BY <1>7, <3>3
  <2>5. QED
    BY <1>8, <2>2, <2>3, <2>4
<1>14. ASSUME NEW i \in 1 .. u + 1, NEW k \in 1 .. n + 1,
              TellsLast(m, "partition", v[i].name, k)
       PROVE  v[i].percent = m[k].arg[2]
  <2>1. CASE i = u + 1
    <3>1. Tells(m, "partition", v[i].name, n + 1)
      BY <1>4, <1>6, <2>1
    <3>2. n + 1 <= k
      BY <1>1, <1>8, <1>14, <3>1 DEF TellsLast
    <3>3. k = n + 1
      BY <1>1, <3>2
    <3>4. QED
      BY <1>1, <1>2, <1>4, <2>1, <3>3
  <2>2. CASE i \in 1 .. u
    <3>1. v[i] = specs[i] /\ specs[i].name # r.name
      BY <1>4, <1>7, <2>2
    <3>2. k \in 1 .. n /\ TellsLast(l, "partition", specs[i].name, k)
      BY <1>1, <1>2, <1>14, <3>1, LastOld DEF n
    <3>3. specs[i].percent = l[k].arg[2]
      BY <2>2, <3>2 DEF SpecsTrack, u, n
    <3>4. QED
      BY <1>1, <3>1, <3>2, <3>3
  <2>3. QED
    BY <1>8, <2>1, <2>2
<1>15. ASSUME NEW i \in 1 .. u + 1,
              \A k \in 1 .. n + 1 : ~Tells(m, "reject_delay", v[i].name, k)
       PROVE  v[i].reject_delay = 0
  <2>1. CASE i = u + 1
    BY <1>2, <1>4, <2>1
  <2>2. CASE i \in 1 .. u
    <3>1. \A k \in 1 .. n : ~Tells(l, "reject_delay", specs[i].name, k)
      BY <1>4, <1>5, <1>8, <1>15, <2>2
    <3>2. QED
      BY <1>4, <2>2, <3>1 DEF SpecsTrack, u, n
  <2>3. QED
    BY <1>8, <2>1, <2>2
<1>16. SpecsTrack(v, m)
  BY <1>1, <1>4, <1>9, <1>11, <1>12, <1>13, <1>14, <1>15 DEF SpecsTrack
<1>17. QED
  BY <1>16 DEF v, r

\* v is the list specs with the share of this name changed.
Reshared(specs, name, percent, v) ==
  \A i \in 1 .. Len(specs) :
    /\ v[i].name = specs[i].name
    /\ v[i].reject_delay = specs[i].reject_delay
    /\ v[i].percent = IF specs[i].name = name THEN percent ELSE specs[i].percent

\* A further declaration of a name changes the share of its spec.
LEMMA SpecsChanged ==
  ASSUME NEW specs, NEW l, NEW e, NEW m, Extends(l, e, m),
         e.field = "partition", e.arg \in PartitionName \X Int, SpecsTrack(specs, l),
         Named(specs, e.arg[1]) # {},
         NEW v \in Seq(PartitionSpec), Len(v) = Len(specs),
         Reshared(specs, e.arg[1], e.arg[2], v)
  PROVE  SpecsTrack(v, m)
<1> DEFINE n == Len(l)
           u == Len(specs)
           name0 == e.arg[1]
<1>1. /\ n \in Nat /\ Len(m) = n + 1 /\ m[n + 1] = e
      /\ \A i \in 1 .. n : m[i] = l[i]
  BY DEF Extends
<1>2. \A field, name : \A k \in 1 .. n :
        Tells(m, field, name, k) <=> Tells(l, field, name, k)
  BY TellsOld
<1>3. \A field, name : Tells(m, field, name, n + 1) <=>
        field = "partition" /\ name = name0
  BY TellsNew
<1>4. specs \in Seq(PartitionSpec) /\ u \in Nat /\ DOMAIN specs = 1 .. u
  BY DEF SpecsTrack
<1>5. PICK w \in 1 .. u : specs[w].name = name0
  BY <1>4 DEF Named
<1>6. /\ Len(v) = u
      /\ \A i \in 1 .. u : /\ v[i].name = specs[i].name
                           /\ v[i].reject_delay = specs[i].reject_delay
                           /\ v[i].percent = IF specs[i].name = name0 THEN e.arg[2]
                                             ELSE specs[i].percent
  BY DEF Reshared
<1> HIDE DEF n, u, name0
<1>7. /\ n + 1 \in 1 .. n + 1
      /\ \A i \in 1 .. n : i \in 1 .. n + 1 /\ i < n + 1
      /\ \A i \in 1 .. n + 1 : i # n + 1 => i \in 1 .. n
  BY <1>1
<1>8. ASSUME NEW i \in 1 .. u
      PROVE  \E k \in 1 .. n : Tells(m, "partition", v[i].name, k)
  <2>1. PICK k \in 1 .. n : Tells(l, "partition", specs[i].name, k)
    BY DEF SpecsTrack, u, n
  <2>2. QED
    BY <1>2, <1>6, <2>1
<1>9. \A i, j \in 1 .. u : v[i].name = v[j].name => i = j
  BY <1>6 DEF SpecsTrack, u
<1>10. \A i \in 1 .. u : \E k \in 1 .. n + 1 : Tells(m, "partition", v[i].name, k)
  BY <1>7, <1>8
<1>11. ASSUME NEW k \in 1 .. n + 1, m[k].field = "partition"
       PROVE  \E i \in 1 .. u : v[i].name = m[k].arg[1]
  <2>1. CASE k = n + 1
    BY <1>1, <1>5, <1>6, <2>1 DEF name0
  <2>2. CASE k \in 1 .. n
    <3>1. PICK i \in 1 .. u : specs[i].name = l[k].arg[1]
      BY <1>1, <1>11, <2>2 DEF SpecsTrack, u, n
    <3>2. QED
      BY <1>1, <1>6, <2>2, <3>1
  <2>3. QED
    BY <1>7, <2>1, <2>2
<1>12. ASSUME NEW i \in 1 .. u, NEW j \in 1 .. u, i < j,
              NEW k \in 1 .. n + 1, Tells(m, "partition", v[j].name, k)
       PROVE  \E h \in 1 .. n + 1 : h < k /\ Tells(m, "partition", v[i].name, h)
  <2>1. CASE k = n + 1
    BY <1>7, <1>8, <2>1
  <2>2. CASE k \in 1 .. n
    <3>1. Tells(l, "partition", specs[j].name, k)
      BY <1>2, <1>6, <1>12, <2>2
    <3>2. PICK h \in 1 .. n : h < k /\ Tells(l, "partition", specs[i].name, h)
      BY <1>12, <2>2, <3>1 DEF SpecsTrack, u, n
    <3>3. QED
      BY <1>2, <1>6, <1>7, <3>2
  <2>3. QED
    BY <1>7, <2>1, <2>2
<1>13. ASSUME NEW i \in 1 .. u, NEW k \in 1 .. n + 1,
              TellsLast(m, "partition", v[i].name, k)
       PROVE  v[i].percent = m[k].arg[2]
  <2>1. CASE specs[i].name = name0
    <3>1. Tells(m, "partition", v[i].name, n + 1)
      BY <1>3, <1>6, <2>1
    <3>2. n + 1 <= k
      BY <1>1, <1>7, <1>13, <3>1 DEF TellsLast
    <3>3. k = n + 1
      BY <1>1, <3>2
    <3>4. QED
      BY <1>1, <1>6, <2>1, <3>3
  <2>2. CASE specs[i].name # name0
    <3>1. k \in 1 .. n /\ TellsLast(l, "partition", specs[i].name, k)
      <4>1. TellsLast(m, "partition", specs[i].name, k)
        BY <1>6, <1>13
      <4>2. QED
        BY <1>1, <2>2, <4>1, LastOld DEF n, name0
    <3>2. specs[i].percent = l[k].arg[2]
      BY <3>1 DEF SpecsTrack, u, n
    <3>3. QED
      BY <1>1, <1>6, <2>2, <3>1, <3>2
  <2>3. QED
    BY <2>1, <2>2
<1>14. ASSUME NEW i \in 1 .. u,
              \A k \in 1 .. n + 1 : ~Tells(m, "reject_delay", v[i].name, k)
       PROVE  v[i].reject_delay = 0
  <2>1. \A k \in 1 .. n : ~Tells(l, "reject_delay", specs[i].name, k)
    BY <1>2, <1>6, <1>7, <1>14
  <2>2. QED
    BY <1>6, <2>1 DEF SpecsTrack, u, n
<1>15. QED
  BY <1>1, <1>6, <1>9, <1>10, <1>11, <1>12, <1>13, <1>14 DEF SpecsTrack


\* partition(name, percent) keeps the specs in step with the log, whether the
\* name is new or is declared again.
LEMMA SpecsPartition ==
  ASSUME NEW specs, NEW l, NEW e, NEW m, Extends(l, e, m),
         e.field = "partition", e.arg \in PartitionName \X Int, SpecsTrack(specs, l)
  PROVE  SpecsTrack(Partition(specs, e.arg[1], e.arg[2]), m)
<1>1. CASE Named(specs, e.arg[1]) = {}
  BY <1>1, SpecsAdded DEF Partition
<1>2. CASE Named(specs, e.arg[1]) # {}
  <2> DEFINE u == Len(specs)
             v == [i \in 1 .. u |->
                     IF specs[i].name = e.arg[1]
                     THEN [specs[i] EXCEPT !.percent = e.arg[2]] ELSE specs[i]]
  <2>1. specs \in Seq(PartitionSpec) /\ u \in Nat /\ DOMAIN specs = 1 .. u
    BY DEF SpecsTrack
  <2>2. Partition(specs, e.arg[1], e.arg[2]) = v
    BY <1>2, <2>1 DEF Partition
  <2>3. ASSUME NEW i \in 1 .. u
        PROVE  /\ v[i] \in PartitionSpec
               /\ v[i].name = specs[i].name
               /\ v[i].reject_delay = specs[i].reject_delay
               /\ v[i].percent = IF specs[i].name = e.arg[1] THEN e.arg[2]
                                 ELSE specs[i].percent
    <3>1. specs[i] \in PartitionSpec /\ e.arg[2] \in Int
      BY <2>1
    <3>2. CASE specs[i].name = e.arg[1]
      BY <3>1, <3>2 DEF PartitionSpec
    <3>3. CASE specs[i].name # e.arg[1]
      BY <3>1, <3>3 DEF PartitionSpec
    <3>4. QED
      BY <3>2, <3>3
  <2>4. DOMAIN v = 1 .. u
    OBVIOUS
  <2>5. v = [i \in 1 .. u |-> v[i]]
    OBVIOUS
  <2> HIDE DEF v
  <2>6. v \in Seq(PartitionSpec) /\ Len(v) = u
    <3>1. v \in [1 .. u -> PartitionSpec]
      BY <2>3, <2>5
    <3>2. QED
      BY <2>1, <3>1
  <2>7. SpecsTrack(v, m)
    <3>1. Reshared(specs, e.arg[1], e.arg[2], v)
      BY <2>3 DEF Reshared
    <3>2. v \in Seq(PartitionSpec) /\ Len(v) = Len(specs)
      BY <2>6
    <3>3. QED
      BY <1>2, <3>1, <3>2, SpecsChanged, ZenonT(60)
  <2>8. QED
    BY <2>2, <2>7
<1>3. QED
  BY <1>1, <1>2

\* Specs that differ in delays that calls asked for are as good.
LEMMA SpecsLike ==
  ASSUME NEW specs, NEW l, SpecsTrack(specs, l),
         NEW v \in Seq(PartitionSpec), Len(v) = Len(specs),
         \A i \in 1 .. Len(specs) :
           /\ v[i].name = specs[i].name /\ v[i].percent = specs[i].percent
           /\ \/ v[i].reject_delay = specs[i].reject_delay
              \/ \E k \in 1 .. Len(l) : Tells(l, "reject_delay", specs[i].name, k)
  PROVE  SpecsTrack(v, l)
<1> DEFINE n == Len(l)
           u == Len(specs)
<1>1. /\ Len(v) = u
      /\ \A i \in 1 .. u :
           /\ v[i].name = specs[i].name /\ v[i].percent = specs[i].percent
           /\ \/ v[i].reject_delay = specs[i].reject_delay
              \/ \E k \in 1 .. n : Tells(l, "reject_delay", specs[i].name, k)
  OBVIOUS
<1>2. /\ \A i, j \in 1 .. u : specs[i].name = specs[j].name => i = j
      /\ \A i \in 1 .. u :
           \E k \in 1 .. n : Tells(l, "partition", specs[i].name, k)
      /\ \A k \in 1 .. n : l[k].field = "partition" =>
           \E i \in 1 .. u : specs[i].name = l[k].arg[1]
  BY DEF SpecsTrack
<1>3. \A i, j \in 1 .. u : i < j =>
        \A k \in 1 .. n : Tells(l, "partition", specs[j].name, k) =>
          \E h \in 1 .. n : h < k /\ Tells(l, "partition", specs[i].name, h)
  BY DEF SpecsTrack
<1>4. /\ \A i \in 1 .. u, k \in 1 .. n :
           TellsLast(l, "partition", specs[i].name, k) =>
             specs[i].percent = l[k].arg[2]
      /\ \A i \in 1 .. u :
           (\A k \in 1 .. n : ~Tells(l, "reject_delay", specs[i].name, k)) =>
             specs[i].reject_delay = 0
  BY DEF SpecsTrack
<1> HIDE DEF n, u
<1>5. /\ \A i, j \in 1 .. u : v[i].name = v[j].name => i = j
      /\ \A i \in 1 .. u :
           \E k \in 1 .. n : Tells(l, "partition", v[i].name, k)
      /\ \A k \in 1 .. n : l[k].field = "partition" =>
           \E i \in 1 .. u : v[i].name = l[k].arg[1]
  <2>1. \A i \in 1 .. u : v[i].name = specs[i].name
    BY <1>1
  <2>2. \A i, j \in 1 .. u : v[i].name = v[j].name => i = j
    BY <1>2, <2>1
  <2>3. \A i \in 1 .. u : \E k \in 1 .. n : Tells(l, "partition", v[i].name, k)
    BY <1>2, <2>1
  <2>4. ASSUME NEW k \in 1 .. n, l[k].field = "partition"
        PROVE  \E i \in 1 .. u : v[i].name = l[k].arg[1]
    <3>1. PICK i \in 1 .. u : specs[i].name = l[k].arg[1]
      BY <1>2, <2>4
    <3>2. QED
      BY <2>1, <3>1
  <2>5. QED
    BY <2>2, <2>3, <2>4
<1>6. \A i, j \in 1 .. u : i < j =>
        \A k \in 1 .. n : Tells(l, "partition", v[j].name, k) =>
          \E h \in 1 .. n : h < k /\ Tells(l, "partition", v[i].name, h)
  BY <1>1, <1>3
<1>7. /\ \A i \in 1 .. u, k \in 1 .. n :
           TellsLast(l, "partition", v[i].name, k) => v[i].percent = l[k].arg[2]
      /\ \A i \in 1 .. u :
           (\A k \in 1 .. n : ~Tells(l, "reject_delay", v[i].name, k)) =>
             v[i].reject_delay = 0
  BY <1>1, <1>4
<1>8. QED
  BY <1>1, <1>5, <1>6, <1>7 DEF SpecsTrack, n

\* What Build writes into the specs: the delay of the last of the first p
\* pending ones with a spec's name.
LEMMA DelayedEntry ==
  ASSUME NEW specs \in Seq(PartitionSpec), NEW pending \in Seq(PartitionName \X Int),
         NEW p \in 0 .. Len(pending), NEW i \in 1 .. Len(specs)
  PROVE  LET given == {k \in 1 .. p : pending[k][1] = specs[i].name}
             w == Delayed(specs, SubSeq(pending, 1, p))[i]
         IN  /\ w \in PartitionSpec
             /\ w.name = specs[i].name /\ w.percent = specs[i].percent
             /\ given = {} => w.reject_delay = specs[i].reject_delay
             /\ given # {} =>
                  /\ Max(given) \in given /\ \A k \in given : k <= Max(given)
                  /\ w.reject_delay = pending[Max(given)][2]
<1> DEFINE given == {k \in 1 .. p : pending[k][1] = specs[i].name}
           q == SubSeq(pending, 1, p)
           w == Delayed(specs, q)[i]
<1>1. p \in Nat /\ Len(q) = p /\ DOMAIN q = 1 .. p
  OBVIOUS
<1>2. \A k \in 1 .. p : q[k] = pending[k] /\ pending[k][2] \in Int
  OBVIOUS
<1>3. i \in DOMAIN specs /\ specs[i] \in PartitionSpec
  OBVIOUS
<1> HIDE DEF q
<1>4. {k \in DOMAIN q : q[k][1] = specs[i].name} = given
  <2> DEFINE name == specs[i].name
  <2> HIDE DEF name
  <2>1. {k \in DOMAIN q : q[k][1] = name} = {k \in 1 .. p : pending[k][1] = name}
    BY <1>1, <1>2
  <2>2. QED
    BY <2>1 DEF name
<1>5. w = IF given = {} THEN specs[i]
          ELSE [specs[i] EXCEPT !.reject_delay = q[Max(given)][2]]
  BY <1>3, <1>4 DEF Delayed
<1>6. given \in SUBSET (1 .. p)
  OBVIOUS
<1> HIDE DEF given, w
<1>7. CASE given = {}
  BY <1>3, <1>5, <1>7 DEF given, w, q, PartitionSpec
<1>8. CASE given # {}
  <2>1. Max(given) \in given /\ \A k \in given : k <= Max(given)
    BY <1>1, <1>6, <1>8, MaxOf
  <2>2. q[Max(given)][2] = pending[Max(given)][2] /\ pending[Max(given)][2] \in Int
    BY <1>2, <1>6, <2>1
  <2>3. w = [specs[i] EXCEPT !.reject_delay = pending[Max(given)][2]]
    BY <1>5, <1>8, <2>2
  <2>4. /\ w \in PartitionSpec /\ w.name = specs[i].name
        /\ w.percent = specs[i].percent
        /\ w.reject_delay = pending[Max(given)][2]
    BY <1>3, <2>2, <2>3 DEF PartitionSpec
  <2>5. QED
    BY <1>8, <2>1, <2>4 DEF given, w, q
<1>9. QED
  BY <1>7, <1>8


\* A Build that writes delays into the specs leaves them right.
LEMMA SpecsDelayed ==
  ASSUME NEW specs, NEW pending, NEW l, SpecsTrack(specs, l),
         DelaysTrack(pending, l), NEW p \in 0 .. Len(pending)
  PROVE  SpecsTrack(Delayed(specs, SubSeq(pending, 1, p)), l)
<1> DEFINE u == Len(specs)
           v == Delayed(specs, SubSeq(pending, 1, p))
<1>1. specs \in Seq(PartitionSpec) /\ pending \in Seq(PartitionName \X Int)
  BY DEF SpecsTrack, DelaysTrack
<1>2. u \in Nat /\ DOMAIN specs = 1 .. u
  BY <1>1
<1>3. DOMAIN v = 1 .. u /\ v = [i \in 1 .. u |-> v[i]]
  BY <1>2 DEF Delayed
<1> HIDE DEF v
<1>4. ASSUME NEW i \in 1 .. u
      PROVE  /\ v[i] \in PartitionSpec
             /\ v[i].name = specs[i].name /\ v[i].percent = specs[i].percent
             /\ \/ v[i].reject_delay = specs[i].reject_delay
                \/ \E k \in 1 .. Len(l) : Tells(l, "reject_delay", specs[i].name, k)
  <2> DEFINE given == {k \in 1 .. p : pending[k][1] = specs[i].name}
  <2>1. /\ v[i] \in PartitionSpec
        /\ v[i].name = specs[i].name /\ v[i].percent = specs[i].percent
        /\ given = {} => v[i].reject_delay = specs[i].reject_delay
    BY ZenonT(60), <1>1, DelayedEntry DEF v
  <2>2. ASSUME given # {}
        PROVE  \E k \in 1 .. Len(l) : Tells(l, "reject_delay", specs[i].name, k)
    <3>1. PICK q \in 1 .. p : pending[q][1] = specs[i].name
      BY <2>2
    <3>2. q \in 1 .. Len(pending)
      BY <1>1
    <3>3. QED
      BY <3>1, <3>2 DEF DelaysTrack
  <2>3. QED
    BY <2>1, <2>2
<1>5. v \in Seq(PartitionSpec) /\ Len(v) = u
  <2>1. v \in [1 .. u -> PartitionSpec]
    BY <1>3, <1>4
  <2>2. QED
    BY <1>2, <2>1
<1>6. SpecsTrack(v, l)
  BY <1>4, <1>5, SpecsLike
<1>7. QED
  BY <1>6 DEF v

\* A call that gives no delay leaves the pending ones right.
LEMMA DelaysSame ==
  ASSUME NEW pending, NEW l, NEW e, NEW m, Extends(l, e, m),
         e.field # "reject_delay", DelaysTrack(pending, l)
  PROVE  DelaysTrack(pending, m)
<1> DEFINE n == Len(l)
           u == Len(pending)
<1>1. /\ n \in Nat /\ Len(m) = n + 1 /\ m[n + 1] = e
      /\ \A i \in 1 .. n : m[i] = l[i]
  BY DEF Extends
<1>2. \A name : \A k \in 1 .. n :
        Tells(m, "reject_delay", name, k) <=> Tells(l, "reject_delay", name, k)
  BY TellsOld
<1> HIDE DEF n, u
<1>3. /\ \A i \in 1 .. n : i \in 1 .. n + 1
      /\ \A i \in 1 .. n + 1 : i # n + 1 => i \in 1 .. n
  BY <1>1
<1>4. pending \in Seq(PartitionName \X Int)
  BY DEF DelaysTrack
<1>5. ASSUME NEW q \in 1 .. u
      PROVE  \E k \in 1 .. n + 1 : Tells(m, "reject_delay", pending[q][1], k)
  <2>1. PICK k \in 1 .. n : Tells(l, "reject_delay", pending[q][1], k)
    BY DEF DelaysTrack, n, u
  <2>2. QED
    BY <1>2, <1>3, <2>1
<1>6. ASSUME NEW k \in 1 .. n + 1, m[k].field = "reject_delay"
      PROVE  \E q \in 1 .. u : pending[q][1] = m[k].arg[1]
  <2>1. k \in 1 .. n /\ m[k] = l[k]
    BY <1>1, <1>3, <1>6
  <2>2. QED
    BY <1>6, <2>1 DEF DelaysTrack, n, u
<1>7. ASSUME NEW q \in 1 .. u, NEW k \in 1 .. n + 1,
             \A r \in 1 .. u : pending[r][1] = pending[q][1] => r <= q,
             TellsLast(m, "reject_delay", pending[q][1], k)
      PROVE  pending[q][2] = m[k].arg[2]
  <2>1. k \in 1 .. n /\ TellsLast(l, "reject_delay", pending[q][1], k)
    BY <1>1, <1>7, LastOld DEF n
  <2>2. m[k] = l[k]
    BY <1>1, <2>1
  <2>3. QED
    BY <1>7, <2>1, <2>2 DEF DelaysTrack, n, u
<1>8. QED
  BY <1>1, <1>4, <1>5, <1>6, <1>7 DEF DelaysTrack, u

\* A call that gives a delay adds it.
LEMMA DelaysAdded ==
  ASSUME NEW pending, NEW l, NEW e, NEW m, Extends(l, e, m),
         e.field = "reject_delay", e.arg \in PartitionName \X Int,
         DelaysTrack(pending, l)
  PROVE  DelaysTrack(Append(pending, e.arg), m)
<1> DEFINE n == Len(l)
           u == Len(pending)
           d == e.arg
           v == Append(pending, d)
<1>1. /\ n \in Nat /\ Len(m) = n + 1 /\ m[n + 1] = e
      /\ \A i \in 1 .. n : m[i] = l[i]
  BY DEF Extends
<1>2. \A name : \A k \in 1 .. n :
        Tells(m, "reject_delay", name, k) <=> Tells(l, "reject_delay", name, k)
  BY TellsOld
<1>3. \A name : Tells(m, "reject_delay", name, n + 1) <=> name = d[1]
  BY TellsNew
<1>4. pending \in Seq(PartitionName \X Int) /\ u \in Nat
  BY DEF DelaysTrack
<1>5. d \in PartitionName \X Int
  OBVIOUS
<1> HIDE DEF d
<1>6. /\ v \in Seq(PartitionName \X Int) /\ Len(v) = u + 1 /\ v[u + 1] = d
      /\ \A i \in 1 .. u : v[i] = pending[i]
  BY <1>4, <1>5
<1> HIDE DEF n, u, v
<1>7. /\ n + 1 \in 1 .. n + 1 /\ u + 1 \in 1 .. u + 1
      /\ \A i \in 1 .. n : i \in 1 .. n + 1
      /\ \A i \in 1 .. n + 1 : i # n + 1 => i \in 1 .. n
      /\ \A i \in 1 .. u : i \in 1 .. u + 1 /\ ~(u + 1 <= i)
      /\ \A i \in 1 .. u + 1 : i # u + 1 => i \in 1 .. u
  BY <1>1, <1>4
<1>8. ASSUME NEW q \in 1 .. u + 1
      PROVE  \E k \in 1 .. n + 1 : Tells(m, "reject_delay", v[q][1], k)
  <2>1. CASE q = u + 1
    BY <1>3, <1>6, <1>7, <2>1
  <2>2. CASE q \in 1 .. u
    <3>1. PICK k \in 1 .. n : Tells(l, "reject_delay", pending[q][1], k)
      BY <2>2 DEF DelaysTrack, n, u
    <3>2. QED
      BY <1>2, <1>6, <1>7, <2>2, <3>1
  <2>3. QED
    BY <1>7, <2>1, <2>2
<1>9. ASSUME NEW k \in 1 .. n + 1, m[k].field = "reject_delay"
      PROVE  \E q \in 1 .. u + 1 : v[q][1] = m[k].arg[1]
  <2>1. CASE k = n + 1
    BY <1>1, <1>6, <1>7, <2>1 DEF d
  <2>2. CASE k \in 1 .. n
    <3>1. PICK q \in 1 .. u : pending[q][1] = l[k].arg[1]
      BY <1>1, <1>9, <2>2 DEF DelaysTrack, n, u
    <3>2. QED
      BY <1>1, <1>6, <1>7, <2>2, <3>1
  <2>3. QED
    BY <1>7, <2>1, <2>2
<1>10. ASSUME NEW q \in 1 .. u + 1, NEW k \in 1 .. n + 1,
              \A r \in 1 .. u + 1 : v[r][1] = v[q][1] => r <= q,
              TellsLast(m, "reject_delay", v[q][1], k)
       PROVE  v[q][2] = m[k].arg[2]
  <2>1. CASE q = u + 1
    <3>1. Tells(m, "reject_delay", v[q][1], n + 1)
      BY <1>3, <1>6, <2>1
    <3>2. n + 1 <= k
      BY <1>1, <1>7, <1>10, <3>1 DEF TellsLast
    <3>3. k = n + 1
      BY <1>1, <3>2
    <3>4. QED
      BY <1>1, <1>6, <2>1, <3>3 DEF d
  <2>2. CASE q \in 1 .. u
    <3>1. v[q] = pending[q]
      BY <1>6, <2>2
    <3>2. d[1] # pending[q][1]
      BY <1>6, <1>7, <1>10, <2>2, <3>1
    <3>3. TellsLast(m, "reject_delay", pending[q][1], k)
      BY <1>10, <3>1
    <3>4. k \in 1 .. n /\ TellsLast(l, "reject_delay", pending[q][1], k)
      BY <1>1, <3>2, <3>3, LastOld DEF n, d
    <3>5. \A r \in 1 .. u : pending[r][1] = pending[q][1] => r <= q
      BY <1>6, <1>7, <1>10, <3>1
    <3>6. pending[q][2] = l[k].arg[2]
      BY <2>2, <3>4, <3>5 DEF DelaysTrack, n, u
    <3>7. QED
      BY <1>1, <3>1, <3>4, <3>6
  <2>3. QED
    BY <1>7, <2>1, <2>2
<1>11. DelaysTrack(v, m)
  BY <1>1, <1>6, <1>8, <1>9, <1>10 DEF DelaysTrack
<1>12. QED
  BY <1>11 DEF v, d

\* A call that gives no resolver leaves them right.
LEMMA ResolversSame ==
  ASSUME NEW rs, NEW l, NEW e, NEW m, Extends(l, e, m), NEW b,
         e.field # "resolver", ResolversTrack(rs, l, b)
  PROVE  ResolversTrack(rs, m, b)
<1>1. /\ Len(l) \in Nat /\ Len(m) = Len(l) + 1 /\ m[Len(l) + 1] = e
      /\ \A i \in 1 .. Len(l) : m[i] = l[i]
  BY DEF Extends
<1>2. ResolverCalls(m, b) = ResolverCalls(l, b)
  BY <1>1 DEF ResolverCalls
<1>3. \A i \in ResolverCalls(l, b) : m[i] = l[i]
  BY <1>1 DEF ResolverCalls
<1>4. QED
  BY <1>2, <1>3 DEF ResolversTrack

\* A call that gives a resolver adds it as the last one.
LEMMA ResolversAdded ==
  ASSUME NEW rs, NEW l, NEW e, NEW m, Extends(l, e, m), NEW b \in 0 .. Len(l),
         e.field = "resolver", e.arg \in Resolver, ResolversTrack(rs, l, b)
  PROVE  ResolversTrack(Append(rs, e.arg), m, b)
<1> DEFINE n == Len(l)
           R == ResolverCalls(l, b)
           Q == ResolverCalls(m, b)
           u == Len(rs)
           a == e.arg
           v == Append(rs, a)
<1>1. /\ n \in Nat /\ Len(m) = n + 1 /\ m[n + 1] = e
      /\ \A i \in 1 .. n : m[i] = l[i]
  BY DEF Extends
<1>2. Q = R \union {n + 1} /\ R \in SUBSET (1 .. n)
  BY <1>1 DEF ResolverCalls
<1>3. /\ rs \in Seq(Resolver) /\ u = Cardinality(R)
      /\ \A i \in R : /\ Cardinality(UpTo(R, i)) \in 1 .. u
                      /\ rs[Cardinality(UpTo(R, i))] = l[i].arg
  BY DEF ResolversTrack
<1>4. a \in Resolver /\ m[n + 1].arg = a
  BY <1>1
<1> HIDE DEF a
<1>5. /\ u \in Nat /\ v \in Seq(Resolver) /\ Len(v) = u + 1 /\ v[u + 1] = a
      /\ \A i \in 1 .. u : v[i] = rs[i]
  BY <1>3, <1>4
<1> HIDE DEF n, R, Q, u, v
<1>6. n + 1 \notin R /\ \A i \in R : i \in Int /\ i < n + 1
  BY <1>1, <1>2
<1>7. IsFiniteSet(R)
  <2>1. IsFiniteSet(1 .. n)
    BY <1>1, FS_Interval
  <2>2. QED
    BY <1>2, <2>1, FS_Subset
<1>8. Cardinality(Q) = u + 1
  BY <1>2, <1>3, <1>6, <1>7, FS_AddElement
<1>9. ASSUME NEW i \in R PROVE UpTo(Q, i) = UpTo(R, i)
  <2>1. ~(n + 1 <= i)
    BY <1>1, <1>6
  <2>2. QED
    BY <1>2, <2>1 DEF UpTo
<1>10. UpTo(Q, n + 1) = Q
  <2>1. \A i \in Q : i <= n + 1
    BY <1>1, <1>2, <1>6
  <2>2. QED
    BY <2>1 DEF UpTo
<1>11. ASSUME NEW i \in Q
       PROVE  /\ Cardinality(UpTo(Q, i)) \in 1 .. u + 1
              /\ v[Cardinality(UpTo(Q, i))] = m[i].arg
  <2>1. CASE i = n + 1
    BY <1>4, <1>5, <1>8, <1>10, <2>1
  <2>2. CASE i \in R
    <3>1. /\ Cardinality(UpTo(Q, i)) \in 1 .. u
          /\ rs[Cardinality(UpTo(Q, i))] = l[i].arg
      BY <1>3, <1>9, <2>2
    <3>2. m[i] = l[i]
      BY <1>1, <1>2, <2>2
    <3>3. QED
      BY <1>5, <3>1, <3>2
  <2>3. QED
    BY <1>2, <2>1, <2>2
<1>12. ResolversTrack(v, m, b)
  BY <1>5, <1>8, <1>11 DEF ResolversTrack, Q
<1>13. QED
  BY <1>12 DEF v, a

\* A successful Build takes them all.
LEMMA ResolversTaken ==
  ASSUME NEW m \in Seq(LogEntry)
  PROVE  ResolversTrack(<< >>, m, Len(m))
<1>1. ResolverCalls(m, Len(m)) = {}
  BY DEF ResolverCalls
<1>2. QED
  BY <1>1, FS_EmptySet DEF ResolversTrack


----------------------------------------------------------------------------
(* The whole builder.                                                      *)

\* The builder s of class c is what the calls of the log l made of it, when its
\* last successful Build is entry b.
Tracks(c, s, l, b) ==
  /\ c \in Class /\ DOMAIN s = DOMAIN Fresh[c]
  /\ l \in Seq(LogEntry) /\ LastBuilt(l, b)
  /\ \A i \in 1 .. Len(l) : l[i].field = "build" \/ Proper(c, l[i])
  /\ FieldsTrack(c, s, l, b)
  /\ c = "AbstractPartitionedLimiter" =>
       /\ SpecsTrack(s.partition_specs, l)
       /\ DelaysTrack(s.pending_reject_delays, l)
       /\ ResolversTrack(s.partition_resolvers, l, b)

\* A builder nobody has called yet.
LEMMA TracksFresh ==
  ASSUME NEW c \in Class
  PROVE  Tracks(c, Fresh[c], << >>, 0)
<1> DEFINE l == << >>
<1>1. l \in Seq(LogEntry) /\ Len(l) = 0 /\ 1 .. Len(l) = {}
  OBVIOUS
<1>2. LastBuilt(l, 0)
  BY <1>1 DEF LastBuilt
<1>3. FieldsTrack(c, Fresh[c], l, 0)
  <2>1. \A f : Since(c, 0, f) = 0
    BY DEF Since
  <2>2. QED
    BY <1>1, <2>1 DEF FieldsTrack, FieldTracks
<1>4. SpecsTrack(l, l) /\ DelaysTrack(l, l)
  <2>1. l \in Seq(PartitionSpec) /\ l \in Seq(PartitionName \X Int)
    OBVIOUS
  <2>2. QED
    BY <1>1, <2>1 DEF SpecsTrack, DelaysTrack
<1>5. ResolversTrack(l, l, 0)
  BY <1>1, ResolversTaken
<1>6. c = "AbstractPartitionedLimiter" =>
        /\ Fresh[c].partition_specs = l /\ Fresh[c].pending_reject_delays = l
        /\ Fresh[c].partition_resolvers = l
  BY DEF Fresh, PartitionedFields
<1>7. QED
  BY <1>1, <1>2, <1>3, <1>4, <1>5, <1>6 DEF Tracks

\* What a setter does to the partitions.
LEMMA ApplySpecial ==
  ASSUME NEW s, NEW e, e.field \in Setters("AbstractPartitionedLimiter"),
         DOMAIN s = DOMAIN Fresh["AbstractPartitionedLimiter"]
  PROVE  /\ Apply(s, e).partition_specs =
              IF e.field = "partition"
              THEN Partition(s.partition_specs, e.arg[1], e.arg[2])
              ELSE s.partition_specs
         /\ Apply(s, e).pending_reject_delays =
              IF e.field = "reject_delay"
              THEN Append(s.pending_reject_delays, e.arg)
              ELSE s.pending_reject_delays
         /\ Apply(s, e).partition_resolvers =
              IF e.field = "resolver" THEN Append(s.partition_resolvers, e.arg)
              ELSE s.partition_resolvers
<1>1. /\ Special \subseteq DOMAIN s
      /\ "timeout_fn" \notin DOMAIN s /\ "queue_size_fn" \notin DOMAIN s
      /\ "fixed_timeout" \notin DOMAIN s
  BY DEF Special, Fresh, PartitionedFields
<1>2. CASE e.field = "partition"
  BY <1>1, <1>2 DEF Apply, Special
<1>3. CASE e.field = "reject_delay"
  BY <1>1, <1>3 DEF Apply, Special
<1>4. CASE e.field = "resolver"
  BY <1>1, <1>4 DEF Apply, Special
<1>5. CASE e.field \notin {"partition", "reject_delay", "resolver"}
  <2>1. PICK f \in Plain("AbstractPartitionedLimiter") : e.field = SetterOf(f)
    BY <1>5 DEF Setters
  <2>2. e.field = f /\ f \in DOMAIN s /\ f \notin Special
        /\ f \notin {"backlog_timeout", "queue_size_fn"}
    <3>1. f \in DOMAIN s /\ f \notin Special
      BY DEF Plain
    <3>2. f # "backlog_timeout"
      BY PlainNames DEF Class
    <3>3. QED
      BY <1>1, <2>1, <3>1, <3>2 DEF SetterOf
  <2>3. Apply(s, e) = [s EXCEPT ![e.field] = e.arg]
    BY <1>5, <2>2 DEF Apply
  <2>4. QED
    BY <1>1, <1>5, <2>2, <2>3 DEF Special
<1>6. QED
  BY <1>2, <1>3, <1>4, <1>5

\* A setter call keeps the builder and the log in step.
LEMMA TracksSet ==
  ASSUME NEW c, NEW s, NEW l, NEW b, Tracks(c, s, l, b), NEW e, Proper(c, e)
  PROVE  Tracks(c, Apply(s, e), Append(l, e), b)
<1> DEFINE t == Apply(s, e)
           m == Append(l, e)
           n == Len(l)
<1>1. /\ c \in Class /\ DOMAIN s = DOMAIN Fresh[c] /\ l \in Seq(LogEntry)
      /\ e \in LogEntry /\ e.field \in Setters(c)
  BY DEF Tracks, Proper
<1>2. Extends(l, e, m) /\ m \in Seq(LogEntry)
  BY <1>1, LogGrows
<1>3. DOMAIN t = DOMAIN s
  BY ApplyDomain
<1>4. \A f \in Plain(c) :
        t[f] = IF e.field = SetterOf(f) THEN Stored(f, e.arg) ELSE s[f]
  BY <1>1, ApplyField
<1>5. c = "AbstractPartitionedLimiter" =>
        /\ t.partition_specs =
             IF e.field = "partition"
             THEN Partition(s.partition_specs, e.arg[1], e.arg[2])
             ELSE s.partition_specs
        /\ t.pending_reject_delays =
             IF e.field = "reject_delay"
             THEN Append(s.pending_reject_delays, e.arg)
             ELSE s.pending_reject_delays
        /\ t.partition_resolvers =
             IF e.field = "resolver" THEN Append(s.partition_resolvers, e.arg)
             ELSE s.partition_resolvers
  BY <1>1, ApplySpecial
<1> HIDE DEF t, m, n
<1>6. /\ n \in Nat /\ Len(m) = n + 1 /\ m[n + 1] = e
      /\ \A i \in 1 .. n : m[i] = l[i]
  BY <1>2 DEF Extends, n
<1>7. b \in 0 .. n /\ LastBuilt(m, b)
  <2>1. /\ b \in 0 .. n /\ (b > 0 => l[b].field = "build")
        /\ \A i \in 1 .. n : i > b => l[i].field # "build"
    BY DEF Tracks, LastBuilt, n
  <2>2. e.field # "build"
    <3>1. \A f \in Plain(c) : SetterOf(f) # "build"
      BY <1>1, PlainNames DEF SetterOf
    <3>2. QED
      BY <1>1, <3>1 DEF Setters
  <2>3. b \in 0 .. n + 1
    BY <1>6, <2>1
  <2>4. b > 0 => m[b].field = "build"
    BY <1>6, <2>1
  <2>5. \A i \in 1 .. n + 1 : i > b => m[i].field # "build"
    <3>1. \A i \in 1 .. n + 1 : i = n + 1 \/ i \in 1 .. n
      BY <1>6
    <3>2. QED
      BY <1>6, <2>1, <2>2, <3>1
  <2>6. QED
    BY <1>6, <2>1, <2>3, <2>4, <2>5 DEF LastBuilt
<1>8. \A i \in 1 .. Len(m) : m[i].field = "build" \/ Proper(c, m[i])
  <2>1. \A i \in 1 .. n : l[i].field = "build" \/ Proper(c, l[i])
    BY DEF Tracks, n
  <2>2. \A i \in 1 .. n + 1 : i = n + 1 \/ i \in 1 .. n
    BY <1>6
  <2>3. QED
    BY <1>6, <2>1, <2>2
<1>9. FieldsTrack(c, t, m, b)
  <2> SUFFICES ASSUME NEW f \in Plain(c) PROVE FieldTracks(c, t, m, b, f)
    BY DEF FieldsTrack
  <2>1. FieldTracks(c, s, l, b, f)
    BY DEF Tracks, FieldsTrack
  <2>2. t[f] = IF e.field = SetterOf(f) THEN Stored(f, e.arg) ELSE s[f]
    BY <1>4
  <2>3. QED
    BY <1>1, <1>2, <1>7, <2>1, <2>2, FieldSet DEF n
<1>10. ASSUME c = "AbstractPartitionedLimiter"
       PROVE  /\ SpecsTrack(t.partition_specs, m)
              /\ DelaysTrack(t.pending_reject_delays, m)
              /\ ResolversTrack(t.partition_resolvers, m, b)
  <2>1. /\ SpecsTrack(s.partition_specs, l)
        /\ DelaysTrack(s.pending_reject_delays, l)
        /\ ResolversTrack(s.partition_resolvers, l, b)
    BY <1>10 DEF Tracks
  <2>2. SpecsTrack(t.partition_specs, m)
    <3>1. CASE e.field = "partition"
      <4>1. e.arg \in PartitionName \X Int
        BY <3>1 DEF Proper
      <4>2. SpecsTrack(Partition(s.partition_specs, e.arg[1], e.arg[2]), m)
        BY <1>2, <2>1, <3>1, <4>1, SpecsPartition
      <4>3. QED
        BY <1>5, <1>10, <3>1, <4>2
    <3>2. CASE e.field # "partition"
      <4>1. SpecsTrack(s.partition_specs, m)
        BY <1>2, <2>1, <3>2, SpecsSame
      <4>2. QED
        BY <1>5, <1>10, <3>2, <4>1
    <3>3. QED
      BY <3>1, <3>2
  <2>3. DelaysTrack(t.pending_reject_delays, m)
    <3>1. CASE e.field = "reject_delay"
      <4>1. e.arg \in PartitionName \X Int
        BY <3>1 DEF Proper
      <4>2. DelaysTrack(Append(s.pending_reject_delays, e.arg), m)
        BY <1>2, <2>1, <3>1, <4>1, DelaysAdded
      <4>3. QED
        BY <1>5, <1>10, <3>1, <4>2
    <3>2. CASE e.field # "reject_delay"
      <4>1. DelaysTrack(s.pending_reject_delays, m)
        BY <1>2, <2>1, <3>2, DelaysSame
      <4>2. QED
        BY <1>5, <1>10, <3>2, <4>1
    <3>3. QED
      BY <3>1, <3>2
  <2>4. ResolversTrack(t.partition_resolvers, m, b)
    <3>1. CASE e.field = "resolver"
      <4>1. e.arg \in Resolver
        BY <3>1 DEF Proper
      <4>2. ResolversTrack(Append(s.partition_resolvers, e.arg), m, b)
        BY <1>2, <1>7, <2>1, <3>1, <4>1, ResolversAdded DEF n
      <4>3. QED
        BY <1>5, <1>10, <3>1, <4>2
    <3>2. CASE e.field # "resolver"
      <4>1. ResolversTrack(s.partition_resolvers, m, b)
        BY <1>2, <2>1, <3>2, ResolversSame
      <4>2. QED
        BY <1>5, <1>10, <3>2, <4>1
    <3>3. QED
      BY <3>1, <3>2
  <2>5. QED
    BY <2>2, <2>3, <2>4
<1>11. Tracks(c, t, m, b)
  BY <1>1, <1>2, <1>3, <1>7, <1>8, <1>9, <1>10 DEF Tracks
<1>12. QED
  BY <1>11 DEF t, m


\* Build never looks at more pending delays than there are.
LEMMA ResolvableBound ==
  ASSUME NEW s, s.pending_reject_delays \in Seq(PartitionName \X Int)
  PROVE  Resolvable(s) \in 0 .. Len(s.pending_reject_delays)
<1> DEFINE pending == s.pending_reject_delays
           n == Len(pending)
           U == {i \in DOMAIN pending : Named(s.partition_specs, pending[i][1]) = {}}
<1>1. n \in Nat /\ DOMAIN pending = 1 .. n
  OBVIOUS
<1>2. U \in SUBSET (1 .. n)
  BY <1>1
<1>3. Resolvable(s) = IF U = {} THEN n ELSE Min(U) - 1
  BY DEF Resolvable
<1> HIDE DEF U, n
<1>4. U # {} => Min(U) \in 1 .. n
  BY <1>1, <1>2, MinOf
<1>5. Resolvable(s) \in 0 .. n
  BY <1>1, <1>3, <1>4
<1>6. QED
  BY <1>5 DEF n

\* Up to its last check Build writes only delays, and only into the specs.
LEMMA ResolvedBuilder ==
  ASSUME NEW c, NEW s, NEW l, NEW b, Tracks(c, s, l, b)
  PROVE  /\ \A f \in DOMAIN s : f # "partition_specs" => Resolved(c, s)[f] = s[f]
         /\ c = "AbstractPartitionedLimiter" =>
              SpecsTrack(Resolved(c, s).partition_specs, l)
<1>1. \A f \in DOMAIN s : f # "partition_specs" => Resolved(c, s)[f] = s[f]
  BY DEF Resolved
<1>2. ASSUME c = "AbstractPartitionedLimiter"
      PROVE  SpecsTrack(Resolved(c, s).partition_specs, l)
  <2>1. /\ SpecsTrack(s.partition_specs, l)
        /\ DelaysTrack(s.pending_reject_delays, l)
        /\ "partition_specs" \in DOMAIN s
    BY <1>2 DEF Tracks, Fresh, PartitionedFields
  <2>2. Resolvable(s) \in 0 .. Len(s.pending_reject_delays)
    BY <2>1, ResolvableBound DEF DelaysTrack
  <2>3. SpecsTrack(Delayed(s.partition_specs,
                           SubSeq(s.pending_reject_delays, 1, Resolvable(s))), l)
    BY <2>1, <2>2, SpecsDelayed
  <2>4. CASE SharesValid(s)
    BY <1>2, <2>1, <2>3, <2>4 DEF Resolved
  <2>5. CASE ~SharesValid(s)
    BY <2>1, <2>5 DEF Resolved
  <2>6. QED
    BY <2>4, <2>5
<1>3. QED
  BY <1>1, <1>2

\* A Build that fails keeps the builder and the log in step.
LEMMA TracksFailed ==
  ASSUME NEW c, NEW s, NEW l, NEW b, Tracks(c, s, l, b)
  PROVE  Tracks(c, Resolved(c, s), l, b)
<1> DEFINE t == Resolved(c, s)
<1>1. /\ c \in Class /\ DOMAIN s = DOMAIN Fresh[c] /\ l \in Seq(LogEntry)
      /\ LastBuilt(l, b)
      /\ \A i \in 1 .. Len(l) : l[i].field = "build" \/ Proper(c, l[i])
  BY DEF Tracks
<1>2. DOMAIN t = DOMAIN s
  BY BuildDomain
<1>3. /\ \A f \in DOMAIN s : f # "partition_specs" => t[f] = s[f]
      /\ c = "AbstractPartitionedLimiter" => SpecsTrack(t.partition_specs, l)
  BY ResolvedBuilder
<1> HIDE DEF t
<1>4. FieldsTrack(c, t, l, b)
  <2>1. \A f \in Plain(c) : t[f] = s[f] /\ FieldTracks(c, s, l, b, f)
    BY <1>1, <1>3 DEF Plain, Special, Tracks, FieldsTrack
  <2>2. QED
    BY <2>1 DEF FieldsTrack, FieldTracks
<1>5. ASSUME c = "AbstractPartitionedLimiter"
      PROVE  /\ DelaysTrack(t.pending_reject_delays, l)
             /\ ResolversTrack(t.partition_resolvers, l, b)
  <2>1. /\ DelaysTrack(s.pending_reject_delays, l)
        /\ ResolversTrack(s.partition_resolvers, l, b)
        /\ "pending_reject_delays" \in DOMAIN s /\ "partition_resolvers" \in DOMAIN s
    BY <1>5 DEF Tracks, Fresh, PartitionedFields
  <2>2. QED
    BY <1>3, <2>1
<1>6. Tracks(c, t, l, b)
  BY <1>1, <1>2, <1>3, <1>4, <1>5 DEF Tracks
<1>7. QED
  BY <1>6 DEF t

\* A Build that succeeds starts a new count for what it moved out.
LEMMA TracksBuilt ==
  ASSUME NEW c, NEW s, NEW l, NEW b, Tracks(c, s, l, b), NEW e \in LogEntry,
         e.field = "build"
  PROVE  Tracks(c, AfterBuild(c, s), Append(l, e), Len(Append(l, e)))
<1> DEFINE t == AfterBuild(c, s)
           m == Append(l, e)
           n == Len(l)
           r == Resolved(c, s)
<1>1. /\ c \in Class /\ DOMAIN s = DOMAIN Fresh[c] /\ l \in Seq(LogEntry)
      /\ LastBuilt(l, b) /\ b \in 0 .. n
      /\ \A i \in 1 .. Len(l) : l[i].field = "build" \/ Proper(c, l[i])
  BY DEF Tracks, LastBuilt
<1>2. Extends(l, e, m) /\ m \in Seq(LogEntry)
  BY <1>1, LogGrows
<1>3. DOMAIN t = DOMAIN s
  BY BuildDomain
<1>4. \A f \in DOMAIN s : t[f] = IF f \in MovedFrom[c] THEN Emptied(f) ELSE r[f]
  BY DEF AfterBuild
<1>5. /\ \A f \in DOMAIN s : f # "partition_specs" => r[f] = s[f]
      /\ c = "AbstractPartitionedLimiter" => SpecsTrack(r.partition_specs, l)
  BY ResolvedBuilder
<1> HIDE DEF t, m, n, r
<1>6. /\ n \in Nat /\ Len(m) = n + 1 /\ m[n + 1] = e
      /\ \A i \in 1 .. n : m[i] = l[i]
  BY <1>2 DEF Extends, n
<1>7. LastBuilt(m, Len(m))
  BY <1>6 DEF LastBuilt
<1>8. \A i \in 1 .. Len(m) : m[i].field = "build" \/ Proper(c, m[i])
  <2>1. \A i \in 1 .. n : l[i].field = "build" \/ Proper(c, l[i])
    BY <1>1 DEF n
  <2>2. \A i \in 1 .. n + 1 : i = n + 1 \/ i \in 1 .. n
    BY <1>6
  <2>3. QED
    BY <1>6, <2>1, <2>2
<1>9. FieldsTrack(c, t, m, Len(m))
  <2> SUFFICES ASSUME NEW f \in Plain(c) PROVE FieldTracks(c, t, m, Len(m), f)
    BY DEF FieldsTrack
  <2>1. FieldTracks(c, s, l, b, f)
    BY DEF Tracks, FieldsTrack
  <2>2. f \in DOMAIN s /\ f \notin Special
    BY <1>1 DEF Plain
  <2>3. t[f] = IF f \in MovedFrom[c] THEN Null ELSE s[f]
    BY <1>4, <1>5, <2>2 DEF Special, Emptied
  <2>4. QED
    BY <1>1, <1>2, <2>1, <2>3, FieldBuild DEF n
<1>10. ASSUME c = "AbstractPartitionedLimiter"
       PROVE  /\ SpecsTrack(t.partition_specs, m)
              /\ DelaysTrack(t.pending_reject_delays, m)
              /\ ResolversTrack(t.partition_resolvers, m, Len(m))
  <2>1. Special \subseteq DOMAIN s
    BY <1>1, <1>10 DEF Special, Fresh, PartitionedFields
  <2>2. /\ "partition_specs" \notin MovedFrom[c]
        /\ "pending_reject_delays" \notin MovedFrom[c]
        /\ "partition_resolvers" \in MovedFrom[c]
    BY <1>10 DEF MovedFrom, PartitionedMoves, SimpleMoves, SimpleFields
  <2>3. /\ t.partition_specs = r.partition_specs
        /\ t.pending_reject_delays = s.pending_reject_delays
        /\ t.partition_resolvers = << >>
    BY <1>4, <1>5, <2>1, <2>2 DEF Special, Emptied
  <2>4. DelaysTrack(s.pending_reject_delays, l)
    BY <1>10 DEF Tracks
  <2>5. SpecsTrack(r.partition_specs, m)
    BY <1>2, <1>5, <1>10, SpecsSame
  <2>6. DelaysTrack(s.pending_reject_delays, m)
    BY <1>2, <2>4, DelaysSame
  <2>7. ResolversTrack(<< >>, m, Len(m))
    BY <1>2, ResolversTaken
  <2>8. QED
    BY <2>3, <2>5, <2>6, <2>7
<1>11. Tracks(c, t, m, Len(m))
  BY <1>1, <1>2, <1>3, <1>7, <1>8, <1>9, <1>10 DEF Tracks
<1>12. QED
  BY <1>11 DEF t, m


\* The fields that are their own setters.
LEMMA SetterIs ==
  ASSUME NEW c, NEW f \in DOMAIN Fresh[c], f \notin Special,
         f \notin {"timeout_fn", "fixed_timeout"}
  PROVE  f \in Setters(c)
BY DEF Setters, Plain, SetterOf

\* A call of a setter whose argument needs no care.
LEMMA ProperValue ==
  ASSUME NEW c, NEW e \in LogEntry, e.field \in Setters(c),
         e.field \notin {"partition", "reject_delay", "resolver"},
         e.field \in {"sleep_fn", "clock", "sample_window_factory"} => e.arg # Null
  PROVE  Proper(c, e)
BY DEF Proper

\* The calls of the model are proper.
LEMMA CallsProper ==
  ASSUME NEW c \in Class, NEW e \in Calls[c]
  PROVE  Proper(c, e)
<1> DEFINE Defaulted == {"sleep_fn", "clock", "sample_window_factory"}
           Listed == {"partition", "reject_delay", "resolver"}
<1>0. e \in LogEntry
  BY DEF LogEntry
<1>1. CASE c = "SimpleLimiter"
  <2> DEFINE F == {"limit", "id", "bypass_predicate", "meter_provider"}
  <2>1. e.field \in F /\ (e.field \in Defaulted => e.arg # Null)
    BY <1>1 DEF Calls, Call, SimpleCalls, Null
  <2>2. F \subseteq Setters(c)
    <3>1. \A f \in F : /\ f \in DOMAIN Fresh[c] /\ f \notin Special
                       /\ f \notin {"timeout_fn", "fixed_timeout"}
      BY <1>1 DEF Fresh, SimpleFields, Special
    <3>2. QED
      BY <3>1, SetterIs
  <2>3. e.field \notin Listed
    BY <2>1
  <2> HIDE DEF F
  <2>4. QED
    BY <1>0, <2>1, <2>2, <2>3, ProperValue
<1>2. CASE c = "BlockingLimiter"
  <2> DEFINE F == {"delegate", "timeout"}
  <2>1. e.field \in F /\ (e.field \in Defaulted => e.arg # Null)
    BY <1>2 DEF Calls, Call, BlockingCalls, Null
  <2>2. F \subseteq Setters(c)
    <3>1. \A f \in F : /\ f \in DOMAIN Fresh[c] /\ f \notin Special
                       /\ f \notin {"timeout_fn", "fixed_timeout"}
      BY <1>2 DEF Fresh, BlockingFields, Special
    <3>2. QED
      BY <3>1, SetterIs
  <2>3. e.field \notin Listed
    BY <2>1
  <2> HIDE DEF F
  <2>4. QED
    BY <1>0, <2>1, <2>2, <2>3, ProperValue
<1>3. CASE c = "CodelFilter"
  <2> DEFINE F == {"target", "interval", "clock", "id", "meter_provider"}
  <2>1. e.field \in F /\ (e.field \in Defaulted => e.arg # Null)
    BY <1>3 DEF Calls, Call, CodelCalls, Null
  <2>2. F \subseteq Setters(c)
    <3>1. \A f \in F : /\ f \in DOMAIN Fresh[c] /\ f \notin Special
                       /\ f \notin {"timeout_fn", "fixed_timeout"}
      BY <1>3 DEF Fresh, CodelFields, Special
    <3>2. QED
      BY <3>1, SetterIs
  <2>3. e.field \notin Listed
    BY <2>1
  <2> HIDE DEF F
  <2>4. QED
    BY <1>0, <2>1, <2>2, <2>3, ProperValue
<1>4. CASE c = "WindowedLimit"
  <2> DEFINE F == {"min_window_time_ns", "max_window_time_ns", "window_size",
                   "min_rtt_threshold_ns", "sample_window_factory"}
  <2>1. e.field \in F /\ (e.field \in Defaulted => e.arg # Null)
    BY <1>4 DEF Calls, Call, WindowedCalls, Null
  <2>2. F \subseteq Setters(c)
    <3>1. \A f \in F : /\ f \in DOMAIN Fresh[c] /\ f \notin Special
                       /\ f \notin {"timeout_fn", "fixed_timeout"}
      BY <1>4 DEF Fresh, WindowedFields, Special
    <3>2. QED
      BY <3>1, SetterIs
  <2>3. e.field \notin Listed
    BY <2>1
  <2> HIDE DEF F
  <2>4. QED
    BY <1>0, <2>1, <2>2, <2>3, ProperValue
<1>5. CASE c = "Gradient2Limit"
  <2> DEFINE F == {"initial_limit", "min_limit", "max_concurrency",
                   "queue_size_fn", "rtt_tolerance", "smoothing",
                   "long_window", "id", "meter_provider"}
  <2>1. e.field \in F /\ (e.field \in Defaulted => e.arg # Null)
    BY <1>5 DEF Calls, Call, Gradient2Calls, Null
  <2>2. F \subseteq Setters(c)
    <3>1. \A f \in F : /\ f \in DOMAIN Fresh[c] /\ f \notin Special
                       /\ f \notin {"timeout_fn", "fixed_timeout"}
      BY <1>5 DEF Fresh, Gradient2Fields, Special
    <3>2. QED
      BY <3>1, SetterIs
  <2>3. e.field \notin Listed
    BY <2>1
  <2> HIDE DEF F
  <2>4. QED
    BY <1>0, <2>1, <2>2, <2>3, ProperValue
<1>6. CASE c = "LifoBlockingLimiter"
  <2> DEFINE F == {"delegate", "backlog_size", "backlog_timeout"}
  <2>1. e.field \in F
    BY <1>6 DEF Calls, Call, LifoCalls
  <2>2. F \subseteq Setters(c)
    <3>1. /\ "timeout_fn" \in Plain(c) /\ "delegate" \in Plain(c)
          /\ "backlog_size" \in Plain(c)
      BY <1>6 DEF Plain, Fresh, LifoFields, Special
    <3>2. QED
      BY <3>1 DEF Setters, SetterOf
  <2>3. e.field \notin Listed /\ e.field \notin Defaulted
    BY <2>1
  <2> HIDE DEF F
  <2>4. QED
    BY <1>0, <2>1, <2>2, <2>3, ProperValue
<1>7. CASE c = "AbstractPartitionedLimiter"
  <2> DEFINE F == {"limit", "id", "bypass_predicate", "meter_provider",
                   "max_delayed_threads", "sleep_fn"}
  <2>1. \/ e \in SimpleCalls \/ e \in Call("max_delayed_threads", {-1})
        \/ e \in Call("sleep_fn", {"sleep"}) \/ e \in Call("resolver", {"resolver", Null})
        \/ e \in Call("partition", {<<"a", 1>>, <<"a", -1>>, <<"b", 3>>, <<Unknown, 0>>})
        \/ e \in Call("reject_delay", {<<"a", 1>>, <<"b", 1>>, <<"b", 2>>})
    BY <1>7 DEF Calls, PartitionedCalls
  <2>2. F \subseteq Setters(c)
    <3>1. \A f \in F : /\ f \in DOMAIN Fresh[c] /\ f \notin Special
                       /\ f \notin {"timeout_fn", "fixed_timeout"}
      BY <1>7 DEF Fresh, PartitionedFields, Special
    <3>2. QED
      BY <3>1, SetterIs
  <2>3. Listed \subseteq Setters(c)
    BY <1>7 DEF Setters
  <2>4. CASE \/ e \in SimpleCalls \/ e \in Call("max_delayed_threads", {-1})
             \/ e \in Call("sleep_fn", {"sleep"})
    <3>1. e.field \in F /\ (e.field \in Defaulted => e.arg # Null)
      BY <2>4 DEF Call, SimpleCalls, Null
    <3>2. e.field \notin Listed
      BY <3>1
    <3> HIDE DEF F
    <3>3. QED
      BY <1>0, <2>2, <3>1, <3>2, ProperValue
  <2>5. CASE e \in Call("resolver", {"resolver", Null})
    <3>1. e.field = "resolver" /\ e.arg \in Resolver
      BY <2>5 DEF Call, Resolver
    <3>2. QED
      BY <1>0, <2>3, <3>1 DEF Proper
  <2>6. CASE e \in Call("partition",
                        {<<"a", 1>>, <<"a", -1>>, <<"b", 3>>, <<Unknown, 0>>})
    <3>1. e.field = "partition" /\ e.arg \in PartitionName \X Int
      BY <2>6 DEF Call, PartitionName
    <3>2. QED
      BY <1>0, <2>3, <3>1 DEF Proper
  <2>7. CASE e \in Call("reject_delay", {<<"a", 1>>, <<"b", 1>>, <<"b", 2>>})
    <3>1. e.field = "reject_delay" /\ e.arg \in PartitionName \X Int
      BY <2>7 DEF Call, PartitionName
    <3>2. QED
      BY <1>0, <2>3, <3>1 DEF Proper
  <2>8. QED
    BY <2>1, <2>4, <2>5, <2>6, <2>7
<1>8. QED
  BY <1>1, <1>2, <1>3, <1>4, <1>5, <1>6, <1>7 DEF Class


----------------------------------------------------------------------------
(* What a successful Build makes of the builder.                           *)

\* The functions that Build replaces by a default when they are empty.
Defaulted == {"sleep_fn", "clock", "sample_window_factory"}

\* The fields of the Params: those of the builder, an empty function replaced.
LEMMA ParamsField ==
  ASSUME NEW c \in Class, NEW s, DOMAIN s = DOMAIN Fresh[c]
  PROVE  /\ DOMAIN Params(c, s) \ {"partitions", "partition_resolvers"}
              \subseteq Plain(c)
         /\ \A f \in Plain(c) : f \notin Defaulted => Params(c, s)[f] = s[f]
         /\ \A f \in Plain(c) : f \in Defaulted /\ s[f] # Null =>
              Params(c, s)[f] = s[f]
         /\ \A f \in Plain(c) : f \in Defaulted =>
              Fresh[c][f] = Null /\ (s[f] = Null =>
                Params(c, s)[f] = Params(c, Fresh[c])[f])
<1>1. CASE c = "AbstractPartitionedLimiter"
  <2>1. Params(c, s) = PartitionedParams(s)
        /\ Params(c, Fresh[c]) = PartitionedParams(Fresh[c])
    BY <1>1 DEF Params
  <2>2. /\ DOMAIN s = {"limit", "id", "bypass_predicate", "meter_provider",
                       "partition_specs", "pending_reject_delays",
                       "partition_resolvers", "max_delayed_threads", "sleep_fn"}
        /\ Fresh[c].sleep_fn = Null
        /\ Plain(c) = {"limit", "id", "bypass_predicate", "meter_provider",
                       "max_delayed_threads", "sleep_fn"}
    BY <1>1 DEF Fresh, PartitionedFields, Plain, Special
  <2>3. /\ DOMAIN PartitionedParams(s) \ {"partitions", "partition_resolvers"}
             \subseteq Plain(c)
        /\ \A f \in Plain(c) : f # "sleep_fn" => PartitionedParams(s)[f] = s[f]
        /\ PartitionedParams(s)["sleep_fn"] = OrElse(s.sleep_fn, "sleep_for")
    BY <2>2 DEF PartitionedParams
  <2>4. PartitionedParams(Fresh[c])["sleep_fn"] = OrElse(Fresh[c].sleep_fn, "sleep_for")
    BY <2>2 DEF PartitionedParams
  <2>5. \A f \in Plain(c) : f \in Defaulted <=> f = "sleep_fn"
    BY <2>2 DEF Defaulted
  <2>6. QED
    BY <2>1, <2>2, <2>3, <2>4, <2>5 DEF OrElse
<1>2. CASE c = "CodelFilter"
  <2>1. Params(c, s) = CodelParams(s) /\ Params(c, Fresh[c]) = CodelParams(Fresh[c])
    BY <1>2 DEF Params
  <2>2. /\ DOMAIN s = {"target", "interval", "clock", "id", "meter_provider"}
        /\ Fresh[c].clock = Null /\ Plain(c) = DOMAIN s
    BY <1>2 DEF Fresh, CodelFields, Plain, Special
  <2>3. /\ DOMAIN CodelParams(s) = DOMAIN s
        /\ \A f \in Plain(c) : f # "clock" => CodelParams(s)[f] = s[f]
        /\ CodelParams(s)["clock"] = OrElse(s.clock, "absl::Now")
        /\ CodelParams(Fresh[c])["clock"] = OrElse(Fresh[c].clock, "absl::Now")
    BY <2>2 DEF CodelParams
  <2>4. \A f \in Plain(c) : f \in Defaulted <=> f = "clock"
    BY <2>2 DEF Defaulted
  <2>5. QED
    BY <2>1, <2>2, <2>3, <2>4 DEF OrElse
<1>3. CASE c = "WindowedLimit"
  <2>1. Params(c, s) = WindowedParams(s)
        /\ Params(c, Fresh[c]) = WindowedParams(Fresh[c])
    BY <1>3 DEF Params
  <2>2. /\ DOMAIN s = {"min_window_time_ns", "max_window_time_ns", "window_size",
                       "min_rtt_threshold_ns", "sample_window_factory"}
        /\ Fresh[c].sample_window_factory = Null /\ Plain(c) = DOMAIN s
    BY <1>3 DEF Fresh, WindowedFields, Plain, Special
  <2>3. /\ DOMAIN WindowedParams(s) = DOMAIN s
        /\ \A f \in Plain(c) : f # "sample_window_factory" =>
             WindowedParams(s)[f] = s[f]
        /\ WindowedParams(s)["sample_window_factory"] =
             OrElse(s.sample_window_factory, "average")
        /\ WindowedParams(Fresh[c])["sample_window_factory"] =
             OrElse(Fresh[c].sample_window_factory, "average")
    BY <2>2 DEF WindowedParams
  <2>4. \A f \in Plain(c) : f \in Defaulted <=> f = "sample_window_factory"
    BY <2>2 DEF Defaulted
  <2>5. QED
    BY <2>1, <2>2, <2>3, <2>4 DEF OrElse
<1>4. CASE c \notin {"AbstractPartitionedLimiter", "CodelFilter", "WindowedLimit"}
  <2>1. Params(c, s) = s
    BY <1>4 DEF Params
  <2>2. Plain(c) = DOMAIN s /\ \A f \in Plain(c) : f \notin Defaulted
    BY <1>4 DEF Class, Plain, Special, Defaulted, Fresh, SimpleFields,
       BlockingFields, LifoFields, Gradient2Fields
  <2>3. QED
    BY <2>1, <2>2
<1>5. QED
  BY <1>1, <1>2, <1>3, <1>4

\* What a moved-from field holds is what a new builder has in it; the timeout
\* of LifoBlockingLimiter is the exception.
LEMMA MovedDefault ==
  ASSUME NEW c \in Class, NEW f \in Plain(c), f \in MovedFrom[c]
  PROVE  Fresh[c][f] = Null \/ (c = "LifoBlockingLimiter" /\ f = "timeout_fn")
BY DEF Class, Plain, Special, MovedFrom, SimpleMoves, PartitionedMoves,
   BlockingMoves, LifoMoves, CodelMoves, Fresh, SimpleFields, PartitionedFields,
   BlockingFields, LifoFields, CodelFields, WindowedFields, Gradient2Fields

\* A builder with a queue size function is made with the square root.
LEMMA QueueSizeDefault ==
  ASSUME NEW c \in Class, "queue_size_fn" \in Plain(c)
  PROVE  Fresh[c]["queue_size_fn"] = "sqrt"
BY DEF Class, Plain, Special, Fresh, SimpleFields, PartitionedFields,
   BlockingFields, LifoFields, CodelFields, WindowedFields, Gradient2Fields

\* A field of the Params is what the last call that counts asked for.
LEMMA FieldAsked ==
  ASSUME NEW c, NEW s, NEW l, NEW b, Tracks(c, s, l, b), Valid(c, s),
         NEW f \in Plain(c), NEW C,
         C = {i \in 1 .. Len(l) : i > Since(c, b, f) /\ l[i].field = SetterOf(f)}
  PROVE  Params(c, s)[f] =
           IF C = {} \/ (f = "queue_size_fn" /\ l[Max(C)].arg = Null)
           THEN Params(c, Fresh[c])[f]
           ELSE IF f = "fixed_timeout" /\ l[Max(C)].arg \notin Fixed THEN Null
           ELSE l[Max(C)].arg
<1> DEFINE n == Len(l)
           a == Since(c, b, f)
<1>1. /\ c \in Class /\ DOMAIN s = DOMAIN Fresh[c] /\ n \in Nat /\ b \in 0 .. n
      /\ \A i \in 1 .. n : l[i].field = "build" \/ Proper(c, l[i])
      /\ FieldTracks(c, s, l, b, f)
  BY DEF Tracks, FieldsTrack, LastBuilt
<1>2. a \in 0 .. n /\ (a > 0 => f \in MovedFrom[c])
  BY <1>1 DEF Since
<1>3. \A i \in 1 .. n : i \in C <=> Counts(l, a, f, i)
  BY DEF Counts
<1>4. C \in SUBSET (1 .. n)
  OBVIOUS
<1>5. /\ f \notin Defaulted => Params(c, s)[f] = s[f]
      /\ f \in Defaulted /\ s[f] # Null => Params(c, s)[f] = s[f]
      /\ f \in Defaulted => Fresh[c][f] = Null
      /\ f \in Defaulted /\ s[f] = Null => Params(c, s)[f] = Params(c, Fresh[c])[f]
  BY <1>1, ParamsField
<1>6. f \notin Defaulted => Params(c, Fresh[c])[f] = Fresh[c][f]
  BY <1>1, ParamsField
<1> HIDE DEF n, a
<1>7. CASE C = {}
  <2>1. s[f] = IF a > 0 THEN Null ELSE Fresh[c][f]
    BY <1>1, <1>3, <1>7 DEF FieldTracks, n, a
  <2>2. s[f] = Fresh[c][f]
    <3>1. CASE a > 0
      <4>1. Fresh[c][f] = Null \/ (c = "LifoBlockingLimiter" /\ f = "timeout_fn")
        BY <1>1, <1>2, <3>1, MovedDefault
      <4>2. c = "LifoBlockingLimiter" => s.timeout_fn # Null
        BY DEF Valid, LifoValid
      <4>3. QED
        BY <2>1, <3>1, <4>1, <4>2
    <3>2. CASE ~(a > 0)
      BY <2>1, <3>2
    <3>3. QED
      BY <3>1, <3>2
  <2>3. Params(c, s)[f] = Params(c, Fresh[c])[f]
    BY <1>5, <1>6, <2>2
  <2>4. QED
    BY <1>7, <2>3
<1>8. CASE C # {}
  <2> DEFINE k == Max(C)
  <2>1. k \in C /\ \A j \in C : j <= k
    BY <1>1, <1>4, <1>8, MaxOf
  <2> HIDE DEF k
  <2>2. k \in 1 .. n /\ l[k].field = SetterOf(f)
    BY <1>4, <2>1
  <2>3. Counts(l, a, f, k) /\ \A j \in 1 .. n : Counts(l, a, f, j) => j <= k
    BY <1>3, <2>1, <2>2
  <2>4. s[f] = Stored(f, l[k].arg)
    BY <1>1, <2>2, <2>3 DEF FieldTracks, n, a
  <2>5. f \in Defaulted => l[k].arg # Null
    <3>1. SetterOf(f) # "build"
      BY <1>1, PlainNames DEF SetterOf
    <3>2. Proper(c, l[k])
      BY <1>1, <2>2, <3>1
    <3>3. f \in Defaulted => SetterOf(f) = f
      BY DEF SetterOf, Defaulted
    <3>4. QED
      BY <2>2, <3>2, <3>3 DEF Proper, Defaulted
  <2>6. Params(c, s)[f] = Stored(f, l[k].arg)
    <3>1. f \in Defaulted => Stored(f, l[k].arg) = l[k].arg
      BY DEF Stored, Defaulted
    <3>2. QED
      BY <1>5, <2>4, <2>5, <3>1
  <2>7. f = "queue_size_fn" => Params(c, Fresh[c])[f] = "sqrt"
    BY <1>1, <1>6, QueueSizeDefault DEF Defaulted
  <2>8. Params(c, s)[f] =
          IF f = "queue_size_fn" /\ l[k].arg = Null THEN Params(c, Fresh[c])[f]
          ELSE IF f = "fixed_timeout" /\ l[k].arg \notin Fixed THEN Null
          ELSE l[k].arg
    BY <2>6, <2>7 DEF Stored
  <2>9. QED
    BY <1>8, <2>8 DEF k
<1>9. QED
  BY <1>7, <1>8


\* The specs after all pending delays are written.
AllDelayed(specs, pending) == Delayed(specs, SubSeq(pending, 1, Len(pending)))

\* The reject delay Build leaves in a spec is that of the last call.
LEMMA DelayAsked ==
  ASSUME NEW l \in Seq(LogEntry), NEW specs, SpecsTrack(specs, l),
         NEW pending, DelaysTrack(pending, l),
         SpecsTrack(AllDelayed(specs, pending), l), NEW i \in 1 .. Len(specs)
  PROVE  LET w == AllDelayed(specs, pending)[i]
         IN  /\ (\A k \in 1 .. Len(l) : ~Tells(l, "reject_delay", w.name, k)) =>
                  w.reject_delay = 0
             /\ \A k \in 1 .. Len(l) : TellsLast(l, "reject_delay", w.name, k) =>
                  w.reject_delay = l[k].arg[2]
<1> DEFINE n == Len(l)
           p == Len(pending)
           R == AllDelayed(specs, pending)
           given == {q \in 1 .. p : pending[q][1] = specs[i].name}
<1>1. /\ specs \in Seq(PartitionSpec) /\ pending \in Seq(PartitionName \X Int)
      /\ n \in Nat /\ p \in Nat
  BY DEF SpecsTrack, DelaysTrack
<1>2. R[i].name = specs[i].name
      /\ (given # {} =>
            /\ Max(given) \in given /\ \A k \in given : k <= Max(given)
            /\ R[i].reject_delay = pending[Max(given)][2])
  <2> DEFINE v == Delayed(specs, SubSeq(pending, 1, p))
  <2>1. p \in 0 .. Len(pending)
    BY <1>1
  <2>2. v[i].name = specs[i].name
        /\ (given # {} =>
              /\ Max(given) \in given /\ \A k \in given : k <= Max(given)
              /\ v[i].reject_delay = pending[Max(given)][2])
    BY <1>1, <2>1, DelayedEntry
  <2>3. v = R
    BY DEF AllDelayed
  <2> HIDE DEF v, given, R
  <2>4. QED
    BY <2>2, <2>3
<1>3. i \in 1 .. Len(R)
  <2>1. DOMAIN specs = 1 .. Len(specs) /\ Len(specs) \in Nat
    BY <1>1
  <2>2. DOMAIN R = DOMAIN specs
    BY DEF Delayed, AllDelayed
  <2>3. R \in Seq(PartitionSpec)
    BY DEF SpecsTrack
  <2>4. DOMAIN R = 1 .. Len(R)
    BY <2>3
  <2>5. QED
    BY <2>1, <2>2, <2>4
<1>4. ASSUME \A k \in 1 .. Len(l) : ~Tells(l, "reject_delay", R[i].name, k)
      PROVE  R[i].reject_delay = 0
  BY <1>3, <1>4 DEF SpecsTrack
<1> HIDE DEF n, R
<1>5. ASSUME NEW k \in 1 .. n, TellsLast(l, "reject_delay", R[i].name, k)
      PROVE  R[i].reject_delay = l[k].arg[2]
  <2> DEFINE q == Max(given)
  <2>1. TellsLast(l, "reject_delay", specs[i].name, k)
    BY <1>2, <1>5
  <2>2. given # {}
    <3>1. l[k].field = "reject_delay" /\ l[k].arg[1] = specs[i].name
      BY <2>1 DEF TellsLast, Tells
    <3>2. \E w \in 1 .. p : pending[w][1] = specs[i].name
      BY <3>1 DEF DelaysTrack, n
    <3>3. QED
      BY <3>2
  <2>3. q \in given /\ (\A r \in given : r <= q) /\ R[i].reject_delay = pending[q][2]
    BY <1>2, <2>2
  <2> HIDE DEF q
  <2>4. q \in 1 .. p /\ pending[q][1] = specs[i].name
    BY <2>3
  <2>5. \A r \in 1 .. p : pending[r][1] = pending[q][1] => r <= q
    BY <2>3, <2>4
  <2>6. TellsLast(l, "reject_delay", pending[q][1], k)
    BY <2>1, <2>4
  <2>7. pending[q][2] = l[k].arg[2]
    BY <2>4, <2>5, <2>6 DEF DelaysTrack, n
  <2>8. QED
    BY <2>3, <2>7
<1>6. QED
  BY <1>4, <1>5 DEF n, R

\* Of two specs the earlier one was declared first, and a spec has the share
\* of the last declaration.
LEMMA SpecAsked ==
  ASSUME NEW R, NEW l \in Seq(LogEntry), SpecsTrack(R, l),
         NEW i \in 1 .. Len(R), NEW N,
         N = {k \in 1 .. Len(l) : Tells(l, "partition", R[i].name, k)}
  PROVE  /\ R[i].percent = l[Max(N)].arg[2]
         /\ \A j \in 1 .. Len(R) : \A M :
              j < i /\ M = {k \in 1 .. Len(l) : Tells(l, "partition", R[j].name, k)}
              => Min(M) < Min(N)
<1> DEFINE n == Len(l)
<1>1. n \in Nat
  OBVIOUS
<1>2. N \in SUBSET (1 .. n) /\ N # {}
  BY DEF SpecsTrack
<1> HIDE DEF n
<1>3. R[i].percent = l[Max(N)].arg[2]
  <2> DEFINE k == Max(N)
  <2>1. k \in N /\ \A j \in N : j <= k
    BY <1>1, <1>2, MaxOf
  <2> HIDE DEF k
  <2>2. k \in 1 .. n /\ TellsLast(l, "partition", R[i].name, k)
    BY <2>1 DEF TellsLast, n
  <2>3. R[i].percent = l[k].arg[2]
    BY <2>2 DEF SpecsTrack, n
  <2>4. QED
    BY <2>3 DEF k
<1>4. ASSUME NEW j \in 1 .. Len(R), NEW M, j < i,
             M = {k \in 1 .. Len(l) : Tells(l, "partition", R[j].name, k)}
      PROVE  Min(M) < Min(N)
  <2> DEFINE x == Min(N)
             y == Min(M)
  <2>1. x \in N
    BY <1>1, <1>2, MinOf
  <2>2. x \in 1 .. n /\ Tells(l, "partition", R[i].name, x)
    BY <2>1 DEF n
  <2>3. \A k \in 1 .. n : Tells(l, "partition", R[i].name, k) =>
          \E h \in 1 .. n : h < k /\ Tells(l, "partition", R[j].name, h)
    BY <1>4 DEF SpecsTrack, n
  <2> HIDE DEF x
  <2>4. PICK h \in 1 .. n : h < x /\ Tells(l, "partition", R[j].name, h)
    BY <2>2, <2>3
  <2>5. M \in SUBSET (1 .. n) /\ h \in M
    BY <1>4, <2>4 DEF n
  <2>6. y \in M /\ \A w \in M : y <= w
    BY <1>1, <2>5, MinOf
  <2> HIDE DEF y
  <2>7. y \in Int /\ x \in Int /\ h \in Int /\ y <= h /\ h < x
    BY <1>1, <2>2, <2>4, <2>5, <2>6
  <2>8. y < x
    BY <2>7
  <2>9. QED
    BY <2>8 DEF x, y
<1>5. QED
  BY <1>3, <1>4

\* The last successful Build before the present one.
LEMMA LastBuildIs ==
  ASSUME NEW l \in Seq(LogEntry), NEW b, LastBuilt(l, b)
  PROVE  Max({0} \union {i \in 1 .. Len(l) : l[i].field = "build"}) = b
<1> DEFINE n == Len(l)
           S == {0} \union {i \in 1 .. n : l[i].field = "build"}
<1>1. n \in Nat
  OBVIOUS
<1>2. /\ b \in 0 .. n /\ (b > 0 => l[b].field = "build")
      /\ \A i \in 1 .. n : i > b => l[i].field # "build"
  BY DEF LastBuilt
<1> HIDE DEF n
<1>3. S \in SUBSET Int
  BY <1>1
<1>4. b \in S
  BY <1>1, <1>2
<1>5. \A i \in S : i <= b
  BY <1>1, <1>2
<1> HIDE DEF S
<1>6. Max(S) = b
  BY <1>3, <1>4, <1>5, MaxIs
<1>7. QED
  BY <1>6 DEF S, n


----------------------------------------------------------------------------
(* The theorem.                                                            *)

\* The builder after the required calls.
LEMMA TracksPrepared ==
  ASSUME NEW c \in Class
  PROVE  Tracks(c, Prepared(c), Required(c), 0)
<1>0. Tracks(c, Fresh[c], << >>, 0)
  BY TracksFresh
<1> DEFINE lim == [field |-> "limit", arg |-> "limit"]
           part == [field |-> "partition", arg |-> <<"a", 2>>]
           res == [field |-> "resolver", arg |-> "resolver"]
           del == [field |-> "delegate", arg |-> "limiter"]
<1>1. {lim, part, res, del} \subseteq LogEntry
  <2>1. {lim, part, res, del} = RequiredCalls
    BY DEF RequiredCalls
  <2> HIDE DEF lim, part, res, del
  <2>2. QED
    BY <2>1 DEF LogEntry
<1>2. CASE c = "SimpleLimiter"
  <2>1. Proper(c, lim)
    <3>1. "limit" \in Setters(c)
      BY <1>2, SetterIs DEF Fresh, SimpleFields, Special
    <3>2. QED
      BY <1>1, <3>1 DEF Proper
  <2>2. Required(c) = <<lim>> /\ Prepared(c) = Apply(Fresh[c], lim)
    BY <1>2 DEF Required, Prepared
  <2>3. <<lim>> = Append(<< >>, lim)
    OBVIOUS
  <2> HIDE DEF lim
  <2>4. Tracks(c, Apply(Fresh[c], lim), Append(<< >>, lim), 0)
    BY <1>0, <2>1, TracksSet
  <2>5. QED
    BY <2>2, <2>3, <2>4
<1>3. CASE c \in {"BlockingLimiter", "LifoBlockingLimiter"}
  <2>1. Proper(c, del)
    <3>1. "delegate" \in Setters(c)
      BY <1>3, SetterIs DEF Fresh, BlockingFields, LifoFields, Special
    <3>2. QED
      BY <1>1, <3>1 DEF Proper
  <2>2. Required(c) = <<del>> /\ Prepared(c) = Apply(Fresh[c], del)
    BY <1>3 DEF Required, Prepared
  <2>3. <<del>> = Append(<< >>, del)
    OBVIOUS
  <2> HIDE DEF del
  <2>4. Tracks(c, Apply(Fresh[c], del), Append(<< >>, del), 0)
    BY <1>0, <2>1, TracksSet
  <2>5. QED
    BY <2>2, <2>3, <2>4
<1>4. CASE c = "AbstractPartitionedLimiter"
  <2>1. Proper(c, lim)
    <3>1. "limit" \in Setters(c)
      BY <1>4, SetterIs DEF Fresh, PartitionedFields, Special
    <3>2. QED
      BY <1>1, <3>1 DEF Proper
  <2>2. Proper(c, part) /\ Proper(c, res)
    BY <1>1, <1>4 DEF Proper, Setters, PartitionName, Resolver
  <2>3. Required(c) = <<lim, part, res>>
        /\ Prepared(c) = Apply(Apply(Apply(Fresh[c], lim), part), res)
    BY <1>4 DEF Required, Prepared
  <2>4. <<lim, part, res>> = Append(Append(Append(<< >>, lim), part), res)
    OBVIOUS
  <2> HIDE DEF lim, part, res
  <2>5. Tracks(c, Apply(Fresh[c], lim), Append(<< >>, lim), 0)
    BY <1>0, <2>1, TracksSet
  <2>6. Tracks(c, Apply(Apply(Fresh[c], lim), part), Append(Append(<< >>, lim), part), 0)
    BY <2>2, <2>5, TracksSet
  <2>7. Tracks(c, Apply(Apply(Apply(Fresh[c], lim), part), res),
               Append(Append(Append(<< >>, lim), part), res), 0)
    BY <2>2, <2>6, TracksSet
  <2>8. QED
    BY <2>3, <2>4, <2>7
<1>5. CASE c \in {"CodelFilter", "WindowedLimit", "Gradient2Limit"}
  <2>1. Required(c) = << >> /\ Prepared(c) = Fresh[c]
    BY <1>5 DEF Required, Prepared
  <2>2. QED
    BY <1>0, <2>1
<1>6. QED
  BY <1>2, <1>3, <1>4, <1>5 DEF Class

\* What the property says of the partitions, with the log and the number of
\* calls before Build as parameters.
AboutIn(l, n, field, from) == {i \in 1 .. n : i > from /\ l[i].field = field}

NamedIn(l, n, field, name) == {i \in AboutIn(l, n, field, 0) : l[i].arg[1] = name}

AskedIn(ps, l, n) ==
  LET declared == 1 .. Len(ps) - 1
      named(i) == NamedIn(l, n, "partition", ps[i].name)
      delays(i) == NamedIn(l, n, "reject_delay", ps[i].name)
  IN  /\ ps[Len(ps)].name = Unknown
      /\ {ps[i].name : i \in declared}
           = {l[i].arg[1] : i \in AboutIn(l, n, "partition", 0)}
      /\ \A i, j \in declared : i < j => Min(named(i)) < Min(named(j))
      /\ \A i \in declared :
           /\ ps[i].percent = l[Max(named(i))].arg[2]
           /\ ps[i].reject_delay =
                IF delays(i) = {} THEN 0 ELSE l[Max(delays(i))].arg[2]

\* The partitions of the Params are the ones asked for.
LEMMA PartitionsAsked ==
  ASSUME NEW c, c = "AbstractPartitionedLimiter", NEW s, NEW l, NEW b,
         Tracks(c, s, l, b), Valid(c, s), NEW e, NEW m, Extends(l, e, m)
  PROVE  AskedIn(Params(c, s).partitions, m, Len(l))
<1> DEFINE n == Len(l)
           R == Resolved(c, s).partition_specs
           u == Len(R)
           unknown == [name |-> Unknown, percent |-> 0, reject_delay |-> 0]
           ps == Append(R, unknown)
<1>1. /\ l \in Seq(LogEntry) /\ n \in Nat /\ DOMAIN s = DOMAIN Fresh[c]
      /\ SpecsTrack(s.partition_specs, l)
      /\ DelaysTrack(s.pending_reject_delays, l)
  BY DEF Tracks
<1>2. SpecsTrack(R, l)
  BY ResolvedBuilder
<1>3. Params(c, s).partitions = ps
  BY DEF Params, PartitionedParams
<1>4. \A i \in 1 .. n : m[i] = l[i]
  BY DEF Extends
<1>5. R = Delayed(s.partition_specs,
                  SubSeq(s.pending_reject_delays, 1, Len(s.pending_reject_delays)))
  <2>1. /\ SharesValid(s)
        /\ Resolvable(s) = Len(s.pending_reject_delays)
    BY DEF Valid, PartitionedValid
  <2>2. "partition_specs" \in DOMAIN s
    BY <1>1 DEF Fresh, PartitionedFields
  <2>3. QED
    BY <2>1, <2>2 DEF Resolved
<1>6. /\ R \in Seq(PartitionSpec) /\ u \in Nat
      /\ Len(R) = Len(s.partition_specs)
  <2>1. R \in Seq(PartitionSpec) /\ s.partition_specs \in Seq(PartitionSpec)
    BY <1>1, <1>2 DEF SpecsTrack
  <2>2. DOMAIN R = DOMAIN s.partition_specs
    BY <1>5 DEF Delayed
  <2>3. QED
    BY <2>1, <2>2
<1>7. /\ Len(ps) = u + 1 /\ ps[u + 1].name = Unknown
      /\ \A i \in 1 .. u : ps[i] = R[i]
  <2>1. unknown \in PartitionSpec /\ unknown.name = Unknown
    BY DEF PartitionSpec, PartitionName
  <2> HIDE DEF unknown, R
  <2>2. QED
    BY <1>6, <2>1
<1>8. 1 .. Len(ps) - 1 = 1 .. u
  BY <1>6, <1>7
<1> HIDE DEF ps, R, u, n
<1> DEFINE N(name) == {k \in 1 .. n : Tells(l, "partition", name, k)}
           D(name) == {k \in 1 .. n : Tells(l, "reject_delay", name, k)}
<1>9. \A name : NamedIn(m, n, "partition", name) = N(name)
  BY <1>1, <1>4 DEF NamedIn, AboutIn, Tells, n
<1>10. \A name : NamedIn(m, n, "reject_delay", name) = D(name)
  BY <1>1, <1>4 DEF NamedIn, AboutIn, Tells, n
<1>11. \A k : k \in AboutIn(m, n, "partition", 0) <=>
                k \in 1 .. n /\ l[k].field = "partition"
  BY <1>1, <1>4 DEF AboutIn
<1>12. {ps[i].name : i \in 1 .. u}
         = {m[k].arg[1] : k \in AboutIn(m, n, "partition", 0)}
  <2>1. ASSUME NEW i \in 1 .. u
        PROVE  \E k \in AboutIn(m, n, "partition", 0) : m[k].arg[1] = ps[i].name
    <3>1. PICK k \in 1 .. n : Tells(l, "partition", R[i].name, k)
      BY <1>2 DEF SpecsTrack, n, u
    <3>2. l[k].field = "partition" /\ l[k].arg[1] = R[i].name
      BY <3>1 DEF Tells
    <3>3. QED
      BY <1>4, <1>7, <1>11, <3>2
  <2>2. ASSUME NEW k \in AboutIn(m, n, "partition", 0)
        PROVE  \E i \in 1 .. u : m[k].arg[1] = ps[i].name
    <3>1. k \in 1 .. n /\ l[k].field = "partition"
      BY <1>11
    <3>2. PICK i \in 1 .. u : R[i].name = l[k].arg[1]
      BY <1>2, <3>1 DEF SpecsTrack, n, u
    <3>3. QED
      BY <1>4, <1>7, <3>1, <3>2
  <2>3. QED
    BY <2>1, <2>2
<1>13. ASSUME NEW i \in 1 .. u, NEW j \in 1 .. u, i < j
       PROVE  Min(N(R[i].name)) < Min(N(R[j].name))
  BY <1>1, <1>2, <1>13, SpecAsked DEF n, u
<1>14. ASSUME NEW i \in 1 .. u
       PROVE  R[i].percent = l[Max(N(R[i].name))].arg[2] /\ N(R[i].name) # {}
  <2>1. R[i].percent = l[Max(N(R[i].name))].arg[2]
    BY <1>1, <1>2, SpecAsked DEF n, u
  <2>2. N(R[i].name) # {}
    BY <1>2 DEF SpecsTrack, n, u
  <2>3. QED
    BY <2>1, <2>2
<1>15. ASSUME NEW i \in 1 .. u
       PROVE  R[i].reject_delay =
                IF D(R[i].name) = {} THEN 0 ELSE l[Max(D(R[i].name))].arg[2]
  <2> DEFINE P == s.partition_specs
             Q == s.pending_reject_delays
             E == D(R[i].name)
  <2>1. i \in 1 .. Len(P) /\ R = AllDelayed(P, Q)
    BY <1>5, <1>6 DEF u, AllDelayed
  <2>2. SpecsTrack(P, l) /\ DelaysTrack(Q, l) /\ l \in Seq(LogEntry)
    BY <1>1
  <2>3. SpecsTrack(AllDelayed(P, Q), l)
    BY <1>2, <2>1
  <2> HIDE DEF P, Q
  <2>4. /\ (\A k \in 1 .. Len(l) : ~Tells(l, "reject_delay", R[i].name, k)) =>
             R[i].reject_delay = 0
        /\ \A k \in 1 .. Len(l) : TellsLast(l, "reject_delay", R[i].name, k) =>
             R[i].reject_delay = l[k].arg[2]
    BY <2>1, <2>2, <2>3, DelayAsked
  <2>5. CASE E = {}
    BY <2>4, <2>5 DEF n
  <2>6. CASE E # {}
    <3> DEFINE k == Max(E)
    <3>1. E \in SUBSET (1 .. n)
      OBVIOUS
    <3>2. k \in E /\ \A j \in E : j <= k
      <4> HIDE DEF E
      <4>1. QED
        BY <1>1, <2>6, <3>1, MaxOf
    <3> HIDE DEF k
    <3>3. k \in 1 .. n /\ TellsLast(l, "reject_delay", R[i].name, k)
      BY <3>2 DEF TellsLast, n
    <3>4. R[i].reject_delay = l[k].arg[2]
      BY <2>4, <3>3 DEF n
    <3>5. QED
      BY <2>6, <3>4 DEF k
  <2>7. QED
    BY <2>5, <2>6
<1>16. ASSUME NEW i \in 1 .. u
       PROVE  /\ Max(N(R[i].name)) \in 1 .. n
              /\ D(R[i].name) # {} => Max(D(R[i].name)) \in 1 .. n
  <2>1. N(R[i].name) \in SUBSET (1 .. n) /\ D(R[i].name) \in SUBSET (1 .. n)
    OBVIOUS
  <2>2. N(R[i].name) # {} /\ n \in Nat
    BY <1>1, <1>14
  <2> HIDE DEF N, D
  <2>3. QED
    BY <2>1, <2>2, MaxOf
<1> HIDE DEF N, D
<1>17. /\ ps[Len(ps)].name = Unknown
       /\ \A i, j \in 1 .. u : i < j =>
            Min(NamedIn(m, n, "partition", ps[i].name))
              < Min(NamedIn(m, n, "partition", ps[j].name))
  <2>1. ps[Len(ps)].name = Unknown
    BY <1>7
  <2>2. \A i \in 1 .. u : NamedIn(m, n, "partition", ps[i].name) = N(R[i].name)
    BY <1>7, <1>9
  <2>3. QED
    BY <1>13, <2>1, <2>2
<1>18. ASSUME NEW i \in 1 .. u
       PROVE  LET named == NamedIn(m, n, "partition", ps[i].name)
                  delays == NamedIn(m, n, "reject_delay", ps[i].name)
              IN  /\ ps[i].percent = m[Max(named)].arg[2]
                  /\ ps[i].reject_delay =
                       IF delays = {} THEN 0 ELSE m[Max(delays)].arg[2]
  <2>1. /\ ps[i] = R[i]
        /\ NamedIn(m, n, "partition", ps[i].name) = N(R[i].name)
        /\ NamedIn(m, n, "reject_delay", ps[i].name) = D(R[i].name)
    BY <1>7, <1>9, <1>10
  <2>2. /\ m[Max(N(R[i].name))] = l[Max(N(R[i].name))]
        /\ D(R[i].name) # {} => m[Max(D(R[i].name))] = l[Max(D(R[i].name))]
    BY <1>4, <1>16
  <2>3. QED
    BY <1>14, <1>15, <2>1, <2>2
<1>19. AskedIn(ps, m, n)
  BY <1>8, <1>12, <1>17, <1>18 DEF AskedIn
<1>20. QED
  BY <1>3, <1>19 DEF n


\* A Build that succeeds builds what was asked for.
LEMMA BuildAsked ==
  ASSUME NEW b, Tracks(class, builder, log, b), BuildSucceeds
  PROVE  BuiltAsAsked'
<1> DEFINE n == Len(log)
<1>1. /\ class' = class /\ Valid(class, builder)
      /\ object' = Params(class, builder) /\ log' = Append(log, BuildCall)
  BY DEF BuildSucceeds, BuildCall
<1>2. /\ class \in Class /\ log \in Seq(LogEntry) /\ n \in Nat
      /\ DOMAIN builder = DOMAIN Fresh[class] /\ LastBuilt(log, b)
  BY DEF Tracks
<1>3. Extends(log, BuildCall, log')
  <2>1. BuildCall \in LogEntry
    BY DEF LogEntry
  <2>2. QED
    BY <1>1, <1>2, <2>1, LogGrows
<1>4. Len(log') - 1 = n /\ \A i \in 1 .. n : log'[i] = log[i]
  BY <1>2, <1>3 DEF Extends
<1>5. Before' = 1 .. n
  BY <1>4 DEF Before
<1>6. LastBuild' = b
  <2>1. {i \in 1 .. n : log'[i].field = "build"} = {i \in 1 .. n : log[i].field = "build"}
    BY <1>4
  <2>2. LastBuild' = Max({0} \union {i \in 1 .. n : log[i].field = "build"})
    BY <1>5, <2>1 DEF LastBuild
  <2>3. QED
    BY <1>2, <2>2, LastBuildIs
<1> HIDE DEF n
<1>7. ASSUME NEW f \in DOMAIN object' \ {"partitions", "partition_resolvers"}
      PROVE  object'[f] = Asked(f)'
  <2>1. f \in Plain(class)
    BY <1>1, <1>2, ParamsField
  <2> DEFINE a == Since(class, b, f)
             C == {i \in 1 .. n : i > a /\ log[i].field = SetterOf(f)}
             k == Max(C)
  <2>2. a = IF f \in MovedFrom[class'] THEN LastBuild' ELSE 0
    BY <1>1, <1>6 DEF Since
  <2>3. About(SetterOf(f), IF f \in MovedFrom[class] THEN LastBuild ELSE 0)' = C
    BY <1>4, <1>5, <2>2 DEF About
  <2>4. Default(f)' = Params(class, Fresh[class])[f]
    BY <1>1 DEF Default
  <2>5. Asked(f)' =
          IF C = {} \/ (f = "queue_size_fn" /\ log'[k].arg = Null)
          THEN Params(class, Fresh[class])[f]
          ELSE IF f = "fixed_timeout" /\ log'[k].arg \notin Fixed THEN Null
          ELSE log'[k].arg
    <3> HIDE DEF C
    <3>1. QED
      BY <2>3, <2>4 DEF Asked
  <2>6. C # {} => log'[k] = log[k]
    <3>1. C \in SUBSET (1 .. n)
      OBVIOUS
    <3> HIDE DEF C
    <3>2. C # {} => k \in 1 .. n
      BY <1>2, <3>1, MaxOf DEF n
    <3>3. QED
      BY <1>4, <3>2
  <2>7. Params(class, builder)[f] =
          IF C = {} \/ (f = "queue_size_fn" /\ log[k].arg = Null)
          THEN Params(class, Fresh[class])[f]
          ELSE IF f = "fixed_timeout" /\ log[k].arg \notin Fixed THEN Null
          ELSE log[k].arg
    BY <1>1, <2>1, FieldAsked DEF n
  <2> HIDE DEF C, k, a
  <2>8. QED
    BY <1>1, <2>5, <2>6, <2>7
<1>8. ASSUME class = "AbstractPartitionedLimiter"
      PROVE  AskedPartitions(object.partitions)'
  <2>1. AskedIn(Params(class, builder).partitions, log', n)
    BY <1>1, <1>3, <1>8, PartitionsAsked DEF n
  <2>2. AskedIn(object'.partitions, log', Len(log') - 1)
    BY <1>1, <1>4, <2>1
  <2>3. QED
    BY <2>2 DEF AskedIn, NamedIn, AboutIn, AskedPartitions, AboutName, About, Before
<1>9. ASSUME class = "AbstractPartitionedLimiter"
      PROVE  AskedResolvers(object.partition_resolvers)'
  <2> DEFINE rs == builder.partition_resolvers
             Q == ResolverCalls(log, b)
  <2>1. object'.partition_resolvers = rs
    BY <1>1, <1>2, <1>9 DEF Params, PartitionedParams, Fresh, PartitionedFields
  <2>2. ResolversTrack(rs, log, b)
    BY <1>9 DEF Tracks
  <2>3. About("resolver", LastBuild)' = Q
    BY <1>4, <1>5, <1>6 DEF About, ResolverCalls, n
  <2>4. \A i \in Q : log'[i] = log[i]
    BY <1>4 DEF ResolverCalls, n
  <2>5. /\ Len(rs) = Cardinality(Q)
        /\ \A i \in Q : rs[Cardinality({j \in Q : j <= i})] = log[i].arg
    BY <2>2 DEF ResolversTrack, UpTo
  <2> HIDE DEF Q, rs
  <2>6. QED
    BY <2>1, <2>3, <2>4, <2>5 DEF AskedResolvers
<1>10. QED
  BY <1>1, <1>7, <1>8, <1>9 DEF BuiltAsAsked

\* The builder follows the log, and an object was built as asked.
BuildInv == BuiltAsAsked /\ \E b : Tracks(class, builder, log, b)

\* An object stays as it was built.
LEMMA BuiltStays ==
  ASSUME BuiltAsAsked, UNCHANGED <<class, log, object>>,
         phase' # "none" => phase # "none"
  PROVE  BuiltAsAsked'
<1> SUFFICES ASSUME phase' # "none"
             PROVE  /\ \A f \in DOMAIN object' \ {"partitions", "partition_resolvers"} :
                         object'[f] = Asked(f)'
                    /\ class' = "AbstractPartitionedLimiter" =>
                         /\ AskedPartitions(object.partitions)'
                         /\ AskedResolvers(object.partition_resolvers)'
  BY DEF BuiltAsAsked
<1>1. phase # "none" /\ class' = class /\ log' = log /\ object' = object
  OBVIOUS
<1>2. \A f : Asked(f)' = Asked(f)
  BY <1>1 DEF Asked, About, LastBuild, Before, Default
<1>3. AskedPartitions(object.partitions)' <=> AskedPartitions(object.partitions)
  BY <1>1 DEF AskedPartitions, AboutName, About, Before
<1>4. AskedResolvers(object.partition_resolvers)'
        <=> AskedResolvers(object.partition_resolvers)
  BY <1>1 DEF AskedResolvers, About, LastBuild, Before
<1>5. QED
  BY <1>1, <1>2, <1>3, <1>4 DEF BuiltAsAsked

\* Before the first call the builder is the one it was made as.
LEMMA BuildInit == Init => BuildInv
<1> SUFFICES ASSUME Init PROVE BuildInv
  OBVIOUS
<1>1. BuiltAsAsked
  BY DEF Init, BuiltAsAsked
<1>2. Tracks(class, builder, log, 0)
  BY TracksPrepared DEF Init
<1>3. QED
  BY <1>1, <1>2 DEF BuildInv

\* Every step keeps the builder in step with the log, and what was built as it
\* was asked for.
LEMMA BuildStep == BuildInv /\ [Next]_vars => BuildInv'
<1> SUFFICES ASSUME BuildInv, [Next]_vars PROVE BuildInv'
  OBVIOUS
<1>1. PICK b : Tracks(class, builder, log, b)
  BY DEF BuildInv
<1>2. BuiltAsAsked
  BY DEF BuildInv
<1>3. ASSUME NEW c \in Calls[class], Set(c) PROVE BuildInv'
  <2>1. /\ class' = class /\ builder' = Apply(builder, c) /\ log' = Append(log, c)
        /\ phase' = "none"
    BY <1>3 DEF Set, body
  <2>2. class \in Class
    BY <1>1 DEF Tracks
  <2>3. Proper(class, c)
    BY <2>2, CallsProper
  <2>4. Tracks(class', builder', log', b)
    BY <1>1, <2>1, <2>3, TracksSet
  <2>5. BuiltAsAsked'
    BY <2>1 DEF BuiltAsAsked
  <2>6. QED
    BY <2>4, <2>5 DEF BuildInv
<1>4. ASSUME BuildFails PROVE BuildInv'
  <2>1. /\ class' = class /\ builder' = Resolved(class, builder) /\ log' = log
        /\ phase' = "none"
    BY <1>4 DEF BuildFails, FailedBuild, body
  <2>2. Tracks(class', builder', log', b)
    BY <1>1, <2>1, TracksFailed
  <2>3. BuiltAsAsked'
    BY <2>1 DEF BuiltAsAsked
  <2>4. QED
    BY <2>2, <2>3 DEF BuildInv
<1>5. ASSUME BuildSucceeds PROVE BuildInv'
  <2>1. /\ class' = class /\ builder' = AfterBuild(class, builder)
        /\ log' = Append(log, BuildCall)
    BY <1>5 DEF BuildSucceeds, BuildCall
  <2>2. BuildCall \in LogEntry /\ BuildCall.field = "build"
    BY DEF LogEntry, BuildCall
  <2>3. Tracks(class, AfterBuild(class, builder), Append(log, BuildCall),
               Len(Append(log, BuildCall)))
    BY <1>1, <2>2, TracksBuilt
  <2>4. Tracks(class', builder', log', Len(log'))
    BY <2>1, <2>3
  <2>5. BuiltAsAsked'
    BY <1>1, <1>5, BuildAsked
  <2>6. QED
    BY <2>4, <2>5 DEF BuildInv
<1>6. ASSUME UNCHANGED <<class, builder, log>>, BuiltAsAsked' PROVE BuildInv'
  <2>1. Tracks(class', builder', log', b)
    BY <1>1, <1>6
  <2>2. QED
    BY <1>6, <2>1 DEF BuildInv
<1>7. ASSUME UNCHANGED setup, UNCHANGED object,
             phase' = phase \/ phase # "none" PROVE BuildInv'
  <2>1. BuiltAsAsked'
    BY <1>2, <1>7, BuiltStays DEF setup
  <2>2. QED
    BY <1>6, <1>7, <2>1 DEF setup
<1>8. CASE Destroyed
  <2>1. BuiltAsAsked'
    BY <1>8 DEF Destroyed, BuiltAsAsked
  <2>2. QED
    BY <1>6, <1>8, <2>1 DEF Destroyed, setup
<1>9. CASE BeginDestroy \/ LockFilter \/ UnlockFilter
  BY <1>7, <1>9 DEF BeginDestroy, LockFilter, UnlockFilter, body
<1>10. CASE MemberStep \/ VirtualStep \/ InstrumentStep \/ Constructed
  BY <1>7, <1>10 DEF MemberStep, VirtualStep, InstrumentStep, Constructed
<1>11. CASE Collection
  BY <1>7, <1>11 DEF Collection, BeginCollection, EndCollection, ObserveReturns,
     Observe, body
<1>12. CASE UNCHANGED vars
  BY <1>7, <1>12 DEF vars, body
<1>13. QED
  BY <1>3, <1>4, <1>5, <1>8, <1>9, <1>10, <1>11, <1>12 DEF Next, Application, Lifetime

\* Whatever calls were made on a builder, in whatever order, however many
\* Builds failed or succeeded before: an object has the parameters that the
\* last call of each setter asked for, its partitions the order of their first
\* declaration with the last share and the last reject delay given for them,
\* and exactly the resolvers given since the previous object was built.
THEOREM BuildsAsAsked == Spec => []BuiltAsAsked
<1>1. BuildInv => BuiltAsAsked
  BY DEF BuildInv
<1>2. QED
  BY <1>1, BuildInit, BuildStep, PTL DEF Spec
=============================================================================
