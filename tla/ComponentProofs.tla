---- MODULE ComponentProofs ----
(* Theorems about components that share nothing, each with its own inductive invariant. *)
EXTENDS Exceptions, VariantStorage, BloomFilter, NtpClient, SpinLock, Sockets, Retainable,
        FiniteSetTheorems, TLAPS

----
(* Exceptions: the code an exception was thrown with goes wherever it goes. *)

ExClasses == Declared \cup Foreign \cup {"exception", "unhandled"}
ExCodes == Declared \cup {"none", StdCode, "unhandled"}
ExRecords == [class : ExClasses, code : ExCodes, log : Seq(Stacks \cup {"thrown"}),
              inner : Foreign \cup {"none"}, thrown : Declared \cup Foreign,
              path : Seq(Stacks \cup {"thrown"})]

\* What is true of an exception wherever it is.
Sound(e) ==
  /\ e \in ExRecords /\ e.log = e.path
  /\ e.code \in Registered \/ e.thrown \in Registered => e.code = e.thrown
  /\ e.class \in Declared => e.code = e.class /\ e.thrown = e.class
  /\ e.class \in Foreign => e.thrown = e.class
  /\ e.inner # "none" => e.inner = e.thrown
  /\ e.thrown \in Foreign => \/ e.class = e.thrown /\ e.log = <<>>
                             \/ e.code \in {StdCode, "unhandled"} /\ e.log # <<>>

ExInductive ==
  /\ flying \in [Stacks -> ExRecords \cup {NoException}]
  /\ \A s \in Stacks : flying[s] # NoException =>
        /\ Sound(flying[s])
        /\ flying[s].thrown \in Registered => flying[s].class = flying[s].thrown
  /\ held # NoException => Sound(held) /\ IsFc(held)
  /\ wire # NoException => Sound(wire) /\ IsFc(wire)

LEMMA ExStart == ExInit => ExInductive
  BY DEF ExInit, ExInductive

\* A frame: an exception of fc gets one message more, another one is wrapped.
LEMMA PassedSound ==
  ASSUME NEW e, Sound(e), e.thrown \in Registered => e.class = e.thrown, NEW s \in Stacks
  PROVE  /\ Sound(Passed(e, s))
         /\ Passed(e, s).thrown \in Registered => Passed(e, s).class = Passed(e, s).thrown
<1>1. CASE IsFc(e)
  <2>1. Append(e.log, s) \in Seq(Stacks \cup {"thrown"}) /\ Append(e.log, s) # <<>>
    BY DEF Sound, ExRecords
  <2>3. QED BY <1>1, <2>1, ExAssumption DEF Sound, ExRecords, IsFc, Passed, Appended
<1>2. CASE ~IsFc(e)
  <2>1. e.class \in Foreign /\ e.thrown = e.class
    BY <1>2, ExAssumption DEF IsFc, Sound, ExRecords, ExClasses
  <2>2. <<s>> \in Seq(Stacks \cup {"thrown"}) /\ <<s>> # <<>> OBVIOUS
  <2>3. QED BY ZenonT(60), <1>2, <2>1, <2>2, ExAssumption
    DEF Passed, Exc, Sound, ExRecords, ExClasses, ExCodes, Foreign, StdCode, Declared, IsFc
<1>3. QED BY <1>1, <1>2

\* dynamic_rethrow_exception(): the class is made again from the code.
LEMMA RethrownSound ==
  ASSUME NEW e, Sound(e), IsFc(e)
  PROVE  /\ Sound(Rethrown(e))
         /\ Rethrown(e).thrown \in Registered => Rethrown(e).class = Rethrown(e).thrown
<1>1. CASE e.inner # "none"
  <2>1. e.inner \in Foreign /\ <<>> \in Seq(Stacks \cup {"thrown"}) BY <1>1 DEF Sound, ExRecords
  <2>2. QED BY <1>1, <2>1, ExAssumption
    DEF Rethrown, Exc, Sound, ExRecords, ExClasses, ExCodes, Foreign, Declared
<1>2. CASE e.inner = "none" /\ e.class \in Declared /\ e.code = e.class
  BY <1>2, ExAssumption DEF Rethrown, Sound
<1>3. CASE e.inner = "none" /\ ~(e.class \in Declared /\ e.code = e.class)
  BY <1>3, ExAssumption DEF Rethrown, Built, Sound, IsFc, ExRecords, ExClasses, Declared,
     Foreign, StdCode
<1>4. QED BY <1>1, <1>2, <1>3

\* to_variant(): the class is left behind, the code goes along.
LEMMA SentSound ==
  ASSUME NEW e, Sound(e), IsFc(e)
  PROVE  Sound(ToWire(e)) /\ IsFc(ToWire(e))
<1>2. ToWire(e) \in ExRecords BY DEF ExRecords, ExClasses, Sound, ToWire
<1>4. QED BY <1>2, ExAssumption DEF Sound, ExRecords, IsFc, ToWire, Foreign

LEMMA ExStep == ExInductive /\ [ExNext]_exVars => ExInductive'
<1> SUFFICES ASSUME ExInductive, [ExNext]_exVars PROVE ExInductive' OBVIOUS
<1> USE DEF ExInductive
<1>0. CASE UNCHANGED exVars BY <1>0 DEF exVars
<1>1. CASE Forget BY <1>1 DEF Forget
<1>2. CASE ReceiveError BY <1>2 DEF ReceiveError, FromWire
<1>3. ASSUME NEW s \in Stacks, Swallow(s) PROVE ExInductive' BY <1>3 DEF Swallow, Fly
<1>4. ASSUME NEW s \in Stacks, FinishTask(s) PROVE ExInductive'
  <2>1. Sound(Wrapped(flying[s])) /\ IsFc(Wrapped(flying[s]))
    <3>1. CASE IsFc(flying[s]) BY <1>4, <3>1 DEF FinishTask, Wrapped
    <3>2. CASE ~IsFc(flying[s])
      <4>1. flying[s].class \in Foreign /\ <<"thrown">> \in Seq(Stacks \cup {"thrown"}) /\ <<"thrown">> # <<>>
        BY <3>2 DEF IsFc
      <4>2. QED BY ZenonT(60), <3>2, <4>1, ExAssumption
        DEF Wrapped, Exc, Sound, ExRecords, ExClasses, ExCodes, Foreign, Declared, IsFc
    <3>3. QED BY <3>1, <3>2
  <2>2. QED BY <1>4, <2>1 DEF FinishTask, Fly
<1>5. ASSUME NEW s \in Stacks, Wait(s) PROVE ExInductive'
  BY <1>5, RethrownSound DEF Wait, Sound, Fly
<1>6. ASSUME NEW s \in Stacks, Send(s) PROVE ExInductive' BY <1>6, SentSound DEF Send, Fly
<1>7. ASSUME NEW s \in Stacks, Frame(s) PROVE ExInductive'
  BY <1>7, PassedSound DEF Frame, Sound, Fly
<1>8. ASSUME NEW s \in Stacks, NEW class \in Declared \cup Foreign, Throw(s, class) PROVE ExInductive'
  <2> DEFINE e == IF class \in Foreign THEN Exc(class, "none", <<>>) ELSE Exc(class, class, <<"thrown">>)
  <2>2. Sound(e) /\ (e.thrown \in Registered => e.class = e.thrown)
    BY ExAssumption DEF Exc, Sound, ExRecords, ExClasses, ExCodes, Foreign, Declared
  <2>3. e \in ExRecords BY <2>2 DEF Sound
  <2>5. QED BY <2>2, <2>3, <1>8 DEF Throw, Fly
<1>9. QED BY <1>0, <1>1, <1>2, <1>3, <1>4, <1>5, <1>6, <1>7, <1>8 DEF ExNext

LEMMA ExInvariant == ExSpec => []ExInductive
  BY ExStart, ExStep, PTL DEF ExSpec

\* A handler of a registered class catches what was thrown as this class and nothing else, over
\* promises and connections.
THEOREM ClassArrives == ExSpec => []ClassIsRestored
<1>1. ExInductive => ClassIsRestored BY DEF ExInductive, ClassIsRestored, Sound, Declared
<1>2. QED BY <1>1, ExInvariant, PTL

\* The log of an exception tells the frames it passed, in their order.
THEOREM HistoryArrives == ExSpec => []HistoryIsKept
<1>1. ExInductive => HistoryIsKept BY DEF ExInductive, HistoryIsKept, Sound
<1>2. QED BY <1>1, ExInvariant, PTL

\* What other libraries throw is thrown as it was or marked by its code.
THEOREM ForeignIsTold == ExSpec => []ForeignIsMarked
<1>1. ExInductive => ForeignIsMarked BY DEF ExInductive, ForeignIsMarked, Sound
<1>2. QED BY <1>1, ExInvariant, PTL

\* An exception arrives as what it was, with its history.
THEOREM ExceptionsSurvive == ExSpec => []ExceptionsArrive
BY ClassArrives, HistoryArrives, ForeignIsTold, PTL DEF ExceptionsArrive
----
(* optional and static_variant: only a static_variant whose assignment threw has nothing in its
   storage. *)

Things == [type : Types \cup {Absent}, moved : BOOLEAN]

IpInductive ==
  /\ tag \in [Variables -> Types \cup {Absent}] /\ object \in [Variables -> Things]
  /\ torn \subseteq StaticVariants
  /\ \A h \in Optionals : tag[h] \in {TheType, Absent}
  /\ \A h \in StaticVariants : tag[h] \in Types
  /\ \A h \in Variables \ torn : object[h].type = tag[h]
  /\ \A h \in Variables : object[h].type = Absent => object[h] = Raw0
  /\ \A h \in torn : object[h] = Raw0
  /\ ~misused

LEMMA IpStart == IpInit => IpInductive
  BY InPlaceAssumption DEF IpInit, IpInductive, Things, Raw0, ObjectOf, Variables

LEMMA RemakeKeeps ==
  ASSUME IpInductive, NEW h \in Variables, h \notin torn, NEW o \in Things, Remake(h, o),
         o.type = Absent => o = Raw0,
         h \in Optionals => o.type \in {TheType, Absent}, h \in StaticVariants => o.type \in Types
  PROVE  IpInductive'
<1>4. ~misused' BY DEF IpInductive, Remake, Destroyed
<1>5. QED BY <1>4 DEF IpInductive, Variables, Remake, Things

LEMMA IpStep == IpInductive /\ [IpNext]_ipVars => IpInductive'
<1> SUFFICES ASSUME IpInductive, [IpNext]_ipVars PROVE IpInductive' OBVIOUS
<1>0. CASE UNCHANGED ipVars BY <1>0 DEF ipVars, IpInductive
<1>d. Optionals \subseteq Variables /\ StaticVariants \subseteq Variables BY DEF Variables
<1>n. /\ Raw0 \in Things /\ Raw0.type = Absent
      /\ \A t \in Types : ObjectOf(t) \in Things /\ ObjectOf(t).type = t /\ t # Absent
      /\ TheType \in Types
  BY InPlaceAssumption DEF Raw0, ObjectOf, Things
<1>o. \A h \in Optionals : h \notin torn /\ h \notin StaticVariants
  BY InPlaceAssumption DEF IpInductive
<1>1. ASSUME NEW h \in Optionals, Reset(h) PROVE IpInductive'
  BY <1>1, <1>d, <1>n, <1>o, RemakeKeeps DEF Reset
<1>2. ASSUME NEW h \in Optionals, AssignValue(h) PROVE IpInductive'
  BY <1>1, <1>2, <1>d, <1>n, <1>o, RemakeKeeps DEF AssignValue
<1>3. ASSUME NEW h \in Optionals, NEW o \in Optionals, CopyOptional(h, o) PROVE IpInductive'
  <2>1. CASE tag[h] = TheType /\ tag[o] = TheType /\ AssignTo(h, object[o])
    BY <2>1, <1>d, <1>n, <1>o DEF IpInductive, AssignTo
  <2>2. CASE tag[h] # TheType /\ tag[o] = TheType /\ Make(h, object[o])
    BY <2>2, <1>d, <1>n, <1>o DEF IpInductive, Make, Overwritten
  <2>3. CASE Reset(h) BY <2>3, <1>1
  <2>4. QED BY <1>3, <2>1, <2>2, <2>3 DEF CopyOptional
<1>4. ASSUME NEW h \in Optionals, NEW o \in Optionals, MoveOptional(h, o) PROVE IpInductive'
  <2>1. CASE /\ tag[h] = TheType /\ tag[o] = TheType /\ misused' = misused /\ torn' = torn
             /\ object' = [object EXCEPT ![h] = object[o], ![o] = Raw0] /\ tag' = [tag EXCEPT ![o] = Absent]
    BY <1>4, <2>1, <1>d, <1>n, <1>o DEF IpInductive, MoveOptional
  <2>2. CASE /\ tag[h] # TheType /\ tag[o] = TheType /\ misused' = (misused \/ Overwritten(h)) /\ torn' = torn
             /\ object' = [object EXCEPT ![h] = object[o], ![o] = MovedFrom(object[o])]
             /\ tag' = [tag EXCEPT ![h] = TheType]
    <3>1. MovedFrom(object[o]) \in Things /\ MovedFrom(object[o]).type = TheType
      BY ZenonT(60), <2>2, <1>d, <1>o DEF IpInductive, MovedFrom, Things
    <3>2. QED BY <1>4, <2>2, <3>1, <1>d, <1>n, <1>o DEF IpInductive, MoveOptional, Overwritten
  <2>3. CASE Reset(h) BY <2>3, <1>1
  <2>4. QED BY <1>4, <2>1, <2>2, <2>3 DEF MoveOptional
<1>5. ASSUME NEW h \in Optionals, NEW o \in Optionals, MoveConstructOptional(h, o) PROVE IpInductive'
  BY <1>5, <1>d, <1>n, <1>o DEF IpInductive, MoveConstructOptional, Destroyed
<1>6. ASSUME NEW h \in StaticVariants, h \notin torn, NEW o \in Things, o.type \in Types, AssignChoice(h, o)
      PROVE  IpInductive'
  <2>1. h \notin Optionals /\ o.type # Absent BY <1>6, <1>n, InPlaceAssumption
  <2>2. CASE Remake(h, o) BY <1>6, <2>1, <2>2, <1>d, RemakeKeeps
  <2>3. CASE /\ tag' = [tag EXCEPT ![h] = o.type] /\ object' = [object EXCEPT ![h] = Raw0]
             /\ misused' = (misused \/ Destroyed(h)) /\ torn' = torn \cup {h}
    BY <1>6, <2>1, <2>3, <1>d, <1>n DEF IpInductive, Destroyed
  <2>4. QED BY <1>6, <2>2, <2>3 DEF AssignChoice
<1>7. ASSUME NEW h \in StaticVariants, NEW t \in Types, AssignType(h, t) PROVE IpInductive'
  BY <1>7, <1>6, <1>n DEF AssignType
<1>8. ASSUME NEW h \in StaticVariants, NEW o \in StaticVariants, CopyChoice(h, o) PROVE IpInductive'
  BY <1>8, <1>d, <1>6 DEF CopyChoice, IpInductive
<1>9. ASSUME NEW h \in StaticVariants, NEW o \in StaticVariants, MoveChoice(h, o) PROVE IpInductive'
  <2>2. object[o] \in Things /\ object[o].type \in Types /\ object[o].type # Absent
    BY <1>9, <1>d, <1>n DEF IpInductive, MoveChoice
  <2>5. QED
    BY <1>9, <2>2, InPlaceAssumption, <1>d DEF IpInductive, MoveChoice, Destroyed, MovedFrom, Things
<1>10. QED BY <1>0, <1>1, <1>2, <1>3, <1>4, <1>5, <1>7, <1>8, <1>9 DEF IpNext

LEMMA IpInvariant == IpSpec => []IpInductive
  BY IpStart, IpStep, PTL DEF IpSpec

\* Flag and tag tell which object is there, unless the assignment of a static_variant has thrown.
THEOREM TagsAreTrue == IpSpec => []TagTellsObject
<1>1. IpInductive => TagTellsObject BY DEF IpInductive, TagTellsObject
<1>2. QED BY <1>1, IpInvariant, PTL

\* Objects are made where none lives; only a static_variant whose assignment threw will destroy what
\* is not there.
THEOREM ObjectsLiveOnce == IpSpec => []DestroyedOnce
<1>1. IpInductive => DestroyedOnce
  BY InPlaceAssumption DEF IpInductive, DestroyedOnce, Destroyed, Variables, Raw0
<1>2. QED BY <1>1, IpInvariant, PTL

\* The storage of optional and static_variant holds what it tells.
THEOREM StoragesAreTrue == IpSpec => []StorageIsTrue
BY TagsAreTrue, ObjectsLiveOnce, PTL DEF StorageIsTrue
----
(* bloom_filter. *)

BfInductive ==
  /\ DOMAIN shape = Filters /\ DOMAIN bits = Filters /\ DOMAIN must = Filters /\ NoFalseNegative

LEMMA BfStep == BfInductive /\ [BfNext]_bfVars => BfInductive'
<1> SUFFICES ASSUME BfInductive, [BfNext]_bfVars PROVE BfInductive' OBVIOUS
<1> USE DEF BfInductive, NoFalseNegative, MayContain
<1>0. CASE UNCHANGED bfVars BY <1>0 DEF bfVars
<1>1. ASSUME NEW f \in Filters, NEW e \in Items, BfInsert(f, e) PROVE BfInductive'
  BY <1>1 DEF BfInsert
<1>2. ASSUME NEW f \in Filters, BfClear(f) PROVE BfInductive' BY <1>2 DEF BfClear
<1>3. ASSUME NEW f \in Filters, NEW g \in Filters, BfAssign(f, g) PROVE BfInductive'
  BY <1>3 DEF BfAssign
<1>4. ASSUME NEW f \in Filters, NEW g \in Filters, BfUnion(f, g) PROVE BfInductive'
  BY <1>4 DEF BfUnion, Combine, SameShape
<1>5. ASSUME NEW f \in Filters, NEW g \in Filters, BfIntersection(f, g) PROVE BfInductive'
  BY <1>5 DEF BfIntersection, Combine, SameShape
<1>6. ASSUME NEW f \in Filters, NEW g \in Filters, BfDifference(f, g) PROVE BfInductive'
  BY <1>6 DEF BfDifference, Combine, SameShape
<1>7. QED BY <1>0, <1>1, <1>2, <1>3, <1>4, <1>5, <1>6 DEF BfNext

\* An element inserted, there or where the bits came from, is found: no operation takes its bits and
\* keeps it.
THEOREM ElementsAreFound == BfSpec => []NoFalseNegative
<1>1. BfInit => BfInductive BY DEF BfInit, BfInductive, NoFalseNegative
<1>2. BfInductive => NoFalseNegative BY DEF BfInductive
<1>3. QED BY <1>1, <1>2, BfStep, PTL DEF BfSpec

\* `whole' of compute_optimal_parameters().
RoundedUp(e) == IF e % BitsPerChar # 0 THEN e + BitsPerChar - (e % BitsPerChar) ELSE e

\* Rounding up to bytes gives whole bytes, and some.
LEMMA RoundedIsWhole ==
  ASSUME NEW e \in Nat \ {0}
  PROVE  RoundedUp(e) \in Nat \ {0} /\ RoundedUp(e) % BitsPerChar = 0
<1> USE DEF RoundedUp
<1>1. e % BitsPerChar \in 0..BitsPerChar - 1 BY BfAssumption
<1>2. CASE e % BitsPerChar = 0 BY <1>2
<1>3. CASE e % BitsPerChar # 0
  <2>1. (e + BitsPerChar - (e % BitsPerChar)) % BitsPerChar = 0
    <3> DEFINE q == e \div BitsPerChar
               r == e % BitsPerChar
    <3>1. e = (BitsPerChar * q) + r BY SMTT(60), BfAssumption
    <3>2. q \in Nat /\ r \in Nat BY BfAssumption
    <3> HIDE DEF q, r
    <3>3. e + BitsPerChar - r = BitsPerChar * (q + 1) BY <3>1, <3>2, BfAssumption
    <3>4. \A n \in Nat : (BitsPerChar * n) % BitsPerChar = 0 BY BfAssumption
    <3>5. (e + BitsPerChar - r) % BitsPerChar = 0 BY <3>2, <3>3, <3>4
    <3> QED BY <3>5 DEF r
  <2>2. e + BitsPerChar - (e % BitsPerChar) \in Nat \ {0} BY <1>1, BfAssumption
  <2> QED BY <1>3, <2>1, <2>2
<1> QED BY <1>2, <1>3

\* The limits are whole bytes, as BitsInTable has them.
WholeLimits == \A l \in Limits : l[1] % BitsPerChar = 0 /\ l[2] % BitsPerChar = 0

\* What compute_optimal_parameters() computes.
LEMMA ShapesAreWhole ==
  ASSUME NEW sh \in Shapes
  PROVE  /\ sh.size \in Nat \ {0} /\ sh.bytes = sh.size \div BitsPerChar /\ sh.seed \in Seeds
         /\ WholeLimits => sh.size % BitsPerChar = 0
<1>1. PICK e \in Estimates, l \in Limits, s \in Seeds :
         sh = [size |-> OptimalSize(e, l), bytes |-> OptimalSize(e, l) \div BitsPerChar, seed |-> s]
  BY DEF Shapes
<1> DEFINE w == RoundedUp(e)
<1>2. w \in Nat \ {0} /\ w % BitsPerChar = 0
  <2>1. e \in Nat \ {0} BY BfAssumption
  <2> QED BY <2>1, RoundedIsWhole
<1>3. OptimalSize(e, l) = IF w < l[1] THEN l[1] ELSE IF w > l[2] THEN l[2] ELSE w BY DEF OptimalSize, RoundedUp
<1> HIDE DEF w
<1>4. l[1] \in Nat \ {0} /\ l[2] \in Nat \ {0} BY BfAssumption
<1>5. OptimalSize(e, l) \in Nat \ {0} BY <1>2, <1>3, <1>4
<1>6. WholeLimits => OptimalSize(e, l) % BitsPerChar = 0 BY <1>2, <1>3 DEF WholeLimits
<1> QED BY <1>1, <1>5, <1>6

\* Every filter has the shape of parameters, and its bits an index below the size.
BitsBelowSize ==
  /\ shape \in [Filters -> Shapes] /\ DOMAIN bits = Filters
  /\ \A f \in Filters : \A b \in bits[f] : b \in Nat /\ b < shape[f].size

LEMMA BitsBelowSizeStep == BitsBelowSize /\ [BfNext]_bfVars => BitsBelowSize'
<1> SUFFICES ASSUME BitsBelowSize, [BfNext]_bfVars PROVE BitsBelowSize' OBVIOUS
<1> USE DEF BitsBelowSize
<1>0. CASE UNCHANGED bfVars BY <1>0 DEF bfVars
<1>1. ASSUME NEW f \in Filters, NEW e \in Items, BfInsert(f, e) PROVE BitsBelowSize'
  <2>1. ASSUME NEW b \in Indices(shape[f], e) PROVE b \in Nat /\ b < shape[f].size
    <3>1. PICK k \in 1..Hashes : b = Hash[<<shape[f].seed, k, e>>] % shape[f].size BY <2>1 DEF Indices
    <3>2. shape[f].size \in Nat \ {0} /\ shape[f].seed \in Seeds BY ShapesAreWhole
    <3>3. Hash[<<shape[f].seed, k, e>>] \in Nat BY <3>2, BfAssumption
    <3> QED BY <3>1, <3>2, <3>3
  <2> QED BY <1>1, <2>1 DEF BfInsert
<1>2. ASSUME NEW f \in Filters, BfClear(f) PROVE BitsBelowSize' BY <1>2 DEF BfClear
<1>3. ASSUME NEW f \in Filters, NEW g \in Filters, BfAssign(f, g) PROVE BitsBelowSize'
  BY <1>3 DEF BfAssign
<1>4. ASSUME NEW f \in Filters, NEW g \in Filters,
             BfUnion(f, g) \/ BfIntersection(f, g) \/ BfDifference(f, g)
      PROVE  BitsBelowSize'
  BY <1>4 DEF BfUnion, BfIntersection, BfDifference, Combine, SameShape
<1>7. QED BY <1>0, <1>1, <1>2, <1>3, <1>4 DEF BfNext

\* A filter finds what was put into it, and no bit is outside of the bytes of its table.
THEOREM FiltersAreRight == BfSpec => []FiltersAreSound
<1>1. BfInit => BitsBelowSize BY DEF BfInit, BitsBelowSize
<1>2. ASSUME BitsBelowSize, WholeLimits, NEW f \in Filters, NEW b \in bits[f]
      PROVE  b \div BitsPerChar < shape[f].bytes
  <2>1. b \in Nat /\ b < shape[f].size BY <1>2 DEF BitsBelowSize
  <2>2. /\ shape[f].size \in Nat /\ shape[f].size % BitsPerChar = 0
        /\ shape[f].bytes = shape[f].size \div BitsPerChar
    BY <1>2, ShapesAreWhole DEF BitsBelowSize
  <2>3. ASSUME NEW s \in Nat, s % BitsPerChar = 0, b < s PROVE b \div BitsPerChar < s \div BitsPerChar
    BY SMTT(60), <2>1, <2>3, BfAssumption
  <2> QED BY <2>1, <2>2, <2>3
<1>3. BitsBelowSize => BitsInTable BY <1>2 DEF BitsInTable, WholeLimits
<1>4. BfSpec => []BitsInTable BY <1>1, <1>3, BitsBelowSizeStep, PTL DEF BfSpec
<1> QED BY <1>4, ElementsAreFound, PTL DEF FiltersAreSound
----
(* ntp_impl: a request is always scheduled, and an offset is off by no more than half the round
   trip. *)

NpInductive ==
  /\ NpTypeOK /\ DeltaIsAccurate /\ RequestsGoOn /\ newest \in Nat /\ replies \subseteq Int \X Int
  /\ quits = "no" => stopped = -1

LEMMA NpConstants ==
    /\ Interval \in Nat \ {0} /\ Retry \in Nat \ {0} /\ Stale \in Nat \ {0} /\ Day \in Nat \ {0}
    /\ MaxTime \in Nat /\ MaxErrors \in Nat /\ \A o \in Offsets : o \in Int
  BY NpAssumption

LEMMA NpStart == NpInit => NpInductive
<1> SUFFICES ASSUME NpInit PROVE NpInductive OBVIOUS
<1>2. clock \in 0..MaxTime /\ wakes \in 0..MaxTime + Retry /\ valid \in Long..clock
      /\ delta \in -Day..Day /\ stopped \in -1..newest /\ errors \in 0..MaxErrors
  BY NpConstants DEF NpInit, Long
<1>3. QED
  BY NpConstants, <1>2 DEF NpInit, NpInductive, NpTypeOK, DeltaIsAccurate, RequestsGoOn, Long

\* Half a sum is off by a half at most.
LEMMA HalfIsClose ==
  ASSUME NEW n \in Int
  PROVE  Half(n) \in Int /\ 2 * Half(n) - n \in -1..1
<1>1. CASE n >= 0 BY <1>1 DEF Half
<1>2. CASE ~(n >= 0) BY <1>2 DEF Half
<1>3. QED BY <1>1, <1>2

\* A request has the time of now.
LEMMA RequestedNow ==
  ASSUME NpTypeOK, RequestNow
  PROVE  requests' \subseteq 0..clock
<1>1. requests \subseteq 0..clock /\ clock \in 0..clock BY NpConstants DEF NpTypeOK
<1>2. QED BY <1>1 DEF RequestNow

\* Whenever request_time_task() runs, a task is scheduled, unless one was stopped.
LEMMA TaskGoesOn ==
  ASSUME NpInductive, NEW done, RequestTimeTask(done)
  PROVE  /\ requests' \subseteq 0..clock
         /\ newest' \in Nat /\ newest' >= newest
         /\ \A n \in DOMAIN chain' : n \in 1..newest' /\ chain'[n] \in 0..MaxTime + Retry
         /\ quits = "no" => \E n \in DOMAIN chain' : chain'[n] <= clock + Retry
<1> USE DEF NpInductive, NpTypeOK
<1> DEFINE rest == DOMAIN chain \ done
           goes == newest # stopped
<1>1. requests' \subseteq 0..clock BY RequestedNow DEF RequestTimeTask
<1>2. /\ newest' = IF goes THEN newest + 1 ELSE newest
      /\ chain' = [n \in rest \cup (IF goes THEN {newest + 1} ELSE {}) |->
                     IF n \in rest THEN chain[n] ELSE clock + Retry]
  BY DEF RequestTimeTask
<1>3. newest' \in Nat /\ newest' >= newest BY <1>2
<1>4. clock + Retry \in 0..MaxTime + Retry BY NpConstants
<1>5. ASSUME NEW n \in DOMAIN chain' PROVE n \in 1..newest' /\ chain'[n] \in 0..MaxTime + Retry
  BY <1>2, <1>3, <1>5, <1>4
<1>6. ASSUME quits = "no" PROVE \E n \in DOMAIN chain' : chain'[n] <= clock + Retry
  BY <1>6, <1>2, <1>4, NpConstants
<1>7. QED BY <1>1, <1>3, <1>5, <1>6

LEMMA NpStep == NpInductive /\ [NpNext]_npVars => NpInductive'
<1> SUFFICES ASSUME NpInductive, [NpNext]_npVars PROVE NpInductive' OBVIOUS
<1> USE NpConstants DEF net, restVars
<1>0. CASE UNCHANGED npVars BY <1>0 DEF npVars, NpInductive, NpTypeOK, DeltaIsAccurate, RequestsGoOn
<1>1. CASE TaskRuns
  BY <1>1, TaskGoesOn DEF TaskRuns, NpInductive, NpTypeOK, DeltaIsAccurate, RequestsGoOn
<1>2. CASE LoopStarts
  BY <1>2, TaskGoesOn DEF LoopStarts, NpInductive, NpTypeOK, DeltaIsAccurate, RequestsGoOn
<1>3. CASE LoopFails
  BY <1>3 DEF LoopFails, net, NpInductive, NpTypeOK, DeltaIsAccurate, RequestsGoOn
<1>4. CASE LoopWakes
  BY <1>4 DEF LoopWakes, net, NpInductive, NpTypeOK, DeltaIsAccurate, RequestsGoOn
<1>5. CASE Reply
  <2>1. PICK r \in replies : Receive(r[1], r[2]) /\ replies' \in {replies, replies \ {r}}
    BY <1>5 DEF Reply
  <2>2. /\ r[1] \in Int /\ r[2] \in Int /\ clock \in Int /\ offset \in Int
        /\ r[1] <= clock /\ r[1] <= r[2] - offset /\ r[2] - offset <= clock
    BY DEF NpInductive, NpTypeOK
  <2> DEFINE sum == (r[2] - r[1]) + (r[2] - clock)
             measured == Half(sum)
  <2>3. sum \in Int BY <2>2
  <2>4. measured \in Int /\ 2 * measured - sum \in -1..1 BY <2>3, HalfIsClose
  <2>5. clock - r[1] <= Stale =>
           2 * (measured - offset) <= Stale + 1 /\ 2 * (offset - measured) <= Stale + 1
    <3> HIDE DEF measured
    <3>1. QED BY <2>2, <2>4
  <2>6. requests' \subseteq 0..clock BY <2>1, RequestedNow DEF Receive, NpInductive, NpTypeOK
  <2>7. \/ UNCHANGED <<delta, known, valid>>
        \/ /\ clock - r[1] <= Stale /\ delta' = measured /\ known' = TRUE /\ valid' = clock
           /\ measured < Day /\ measured > -Day
    BY <2>1, <2>2 DEF Receive
  <2>8. UNCHANGED <<clock, offset, reading, wakes, chain, newest, stopped, quits, errors>> /\ replies' \subseteq replies
    BY <1>5, <2>1 DEF Reply
  <2>9. DeltaIsAccurate' /\ delta' \in -Day..Day /\ valid' \in Long..clock /\ known' \in BOOLEAN
    <3> HIDE DEF measured
    <3>1. CASE UNCHANGED <<delta, known, valid>>
      BY <2>8, <3>1 DEF NpInductive, NpTypeOK, DeltaIsAccurate
    <3>2. CASE /\ clock - r[1] <= Stale /\ delta' = measured /\ known' = TRUE /\ valid' = clock
               /\ measured < Day /\ measured > -Day
      BY <2>2, <2>4, <3>2, <2>5, <2>8 DEF NpInductive, NpTypeOK, Long, DeltaIsAccurate
    <3>3. QED BY <2>7, <3>1, <3>2
  <2>10. QED BY <2>6, <2>8, <2>9 DEF NpInductive, NpTypeOK, RequestsGoOn
<1>6. CASE Serve
  <2>3. /\ replies' \subseteq Int \X Int
        /\ \A r \in replies' : r[1] \in 0..clock /\ r[2] - offset \in r[1]..clock
    BY <1>6 DEF NpInductive, NpTypeOK, Serve
  <2>4. QED BY <1>6, <2>3 DEF Serve, NpInductive, NpTypeOK, DeltaIsAccurate, RequestsGoOn
<1>7. CASE NpTick
  BY <1>7 DEF NpTick, net, NpInductive, NpTypeOK, Long, RequestsGoOn, DeltaIsAccurate
<1>8. CASE UserAsks
  BY <1>8, RequestedNow DEF UserAsks, NpInductive, NpTypeOK, DeltaIsAccurate, RequestsGoOn
<1>9. CASE DestroyNtp
  BY <1>9 DEF DestroyNtp, NpInductive, NpTypeOK, net, DeltaIsAccurate, RequestsGoOn
<1>10. QED BY <1>0, <1>1, <1>2, <1>3, <1>4, <1>5, <1>6, <1>7, <1>8, <1>9 DEF NpNext

LEMMA NpInvariant == NpSpec => []NpInductive
  BY NpStart, NpStep, PTL DEF NpSpec

\* The members of ntp_impl keep their domains, and what is in the network is of the past.
THEOREM NtpTypes == NpSpec => []NpTypeOK
<1>1. NpInductive => NpTypeOK BY DEF NpInductive
<1>2. QED BY <1>1, NpInvariant, PTL

\* get_time() is off by no more than half the round trip that is accepted.
THEOREM NtpIsAccurate == NpSpec => []DeltaIsAccurate
<1>1. NpInductive => DeltaIsAccurate BY DEF NpInductive
<1>2. QED BY <1>1, NpInvariant, PTL

\* While the object lives, request_time_task() is scheduled again.
THEOREM NtpGoesOn == NpSpec => []RequestsGoOn
<1>1. NpInductive => RequestsGoOn BY DEF NpInductive
<1>2. QED BY <1>1, NpInvariant, PTL

\* ntp_impl keeps its time and goes on asking.
THEOREM NtpIsRight == NpSpec => []NtpKeepsTime
BY NtpTypes, NtpIsAccurate, NtpGoesOn, PTL DEF NtpKeepsTime

----
(* fc::spin_lock and fc::spin_yield_lock exclude, for any number of fibers
   on any number of threads. *)

\* The invariant is inductive as it stands: the word is the ghost of the owner.
SlInductive == SlTypeOK /\ SlOneOwner

LEMMA SlStart == SlInit => SlInductive
  BY DEF SlInit, SlInductive, SlTypeOK, SlOneOwner, States

\* What an exchange does: it takes the lock if nobody has it, and else keeps it
\* for the one who has.
LEMMA SlExchanged ==
  ASSUME SlInductive, NEW c \in Callers, NEW got, NEW not \in States \ {"owns"},
         got = "owns", at[c] # "owns", Exchange(c, got, not)
  PROVE  SlOneOwner' /\ word' \in {"locked", "unlocked"} /\ at' \in [Callers -> States]
<1>1. CASE word = "unlocked" BY <1>1 DEF Exchange, To, SlInductive, SlTypeOK, SlOneOwner, States
<1>2. CASE word = "locked" BY <1>2 DEF Exchange, To, SlInductive, SlTypeOK, SlOneOwner, States
<1> QED BY <1>1, <1>2 DEF SlInductive, SlTypeOK

LEMMA SlStep == SlInductive /\ [SlNext]_slVars => SlInductive'
<1> SUFFICES ASSUME SlInductive, [SlNext]_slVars PROVE SlInductive' OBVIOUS
<1> USE DEF SlInductive, SlTypeOK
<1>1. CASE UNCHANGED slVars BY <1>1 DEF slVars, SlOneOwner
<1>2. ASSUME NEW c \in Callers, SlCall(c) PROVE SlInductive'
  BY <1>2 DEF SlCall, To, SlOneOwner, States
<1>3. ASSUME NEW c \in Callers, SlLock(c) PROVE SlInductive'
  BY <1>3, SlExchanged, "lock" \in States \ {"owns"} DEF SlLock, States
<1>4. ASSUME NEW c \in Callers, SlTryInTime(c) PROVE SlInductive'
  BY <1>4, SlExchanged, "until" \in States \ {"owns"} DEF SlTryInTime, States
<1>5. ASSUME NEW c \in Callers, SlTry(c) PROVE SlInductive'
  BY <1>5, SlExchanged, "failed" \in States \ {"owns"} DEF SlTry, States
<1>6. ASSUME NEW c \in Callers, SlTooLate(c) PROVE SlInductive'
  BY <1>6 DEF SlTooLate, To, SlOneOwner, States
<1>7. ASSUME NEW c \in Callers, SlUnlock(c) PROVE SlInductive'
  BY <1>7 DEF SlUnlock, To, SlOneOwner, States
<1>8. ASSUME NEW c \in Callers, NEW d \in Callers, SlYield(c, d) PROVE SlInductive'
  BY <1>8 DEF SlYield, SlOneOwner
<1> QED BY <1>1, <1>2, <1>3, <1>4, <1>5, <1>6, <1>7, <1>8 DEF SlNext

LEMMA SlAlways == SlSpec => []SlInductive
  BY SlStart, SlStep, PTL DEF SlSpec

\* The domains of the word, of who runs and of where each caller is.
THEOREM SpinLockTypes == SlSpec => []SlTypeOK
<1>1. SlInductive => SlTypeOK BY DEF SlInductive
<1> QED BY <1>1, SlAlways, PTL

\* lock(), try_lock(), try_lock_until(), ~unique_lock(): one owner at a time, and no lock that
\* nobody owns.
THEOREM SpinLockExcludes == SlSpec => []SlOneOwner
<1>1. SlInductive => SlOneOwner BY DEF SlInductive
<1> QED BY <1>1, SlAlways, PTL

----
(* The operations of a socket and the acceptor of a server. *)

Kinds == {"read", "write"}

SkDomains ==
  /\ sock \in {"open", "closed", "closing", "gone"}
  /\ oper \in [Requests -> {"unused", "pending", "done", "aborted", "handled"}]
  /\ fiber \in [Requests -> {"none", "waiting", "canceled", "left", "unwound"}]
  /\ late \subseteq Requests
  /\ promised \subseteq Requests /\ inProgress \in [Kinds -> Requests \cup {NoRequest}]
  /\ acceptor \in [family : {"none", "v4", "v6"}, reuse : BOOLEAN, listening : BOOLEAN]
  /\ reuseAddress \in BOOLEAN

\* A promise is settled by the handler and by nothing else; asio works only for a
\* socket that is open.
HandledIsSettled ==
  \A r \in Requests : /\ oper[r] = "handled" <=> r \in promised
                      /\ oper[r] = "pending" => sock = "open"
                      /\ oper[r] = "unused" <=> fiber[r] = "none"

\* Who is not cancelled stays until it is told.
StackIsWaited == \A r \in Requests : fiber[r] = "left" => r \in promised

\* The destructor has seen what was in progress settled, and nothing starts after it.
GoneIsSettled == sock = "gone" => Current \subseteq promised

\* An acceptor that is not open reuses nothing.
ReuseIsTold == acceptor.reuse = reuseAddress /\ (acceptor.family = "none" => ~reuseAddress)

SkInductive == /\ SkDomains /\ HandledIsSettled /\ StackIsWaited /\ GoneIsSettled
               /\ ReuseIsTold /\ BufferIsAlive

LEMMA SkStarts == SkInit => SkInductive
BY ZenonT(60), SocketsAssumption
   DEF SkInit, SkInductive, SkDomains, HandledIsSettled, StackIsWaited, GoneIsSettled,
       ReuseIsTold, BufferIsAlive, Plain, Kinds

\* The server and the socket share no variable.
LEMMA ServerSteps ==
  ASSUME SkInductive,
         \/ CloseServer
         \/ \E on \in BOOLEAN : SetReuse(on)
         \/ \E on \in BOOLEAN, family \in {"v4", "v6"} : Listen(family, on)
  PROVE  SkInductive'
<1> USE DEF SkInductive, SkDomains, ReuseIsTold, Plain
<1>1. UNCHANGED <<sock, oper, promised, fiber, inProgress, late>>
  BY DEF CloseServer, SetReuse, Listen, waitVars
<1>2. HandledIsSettled' /\ StackIsWaited' /\ GoneIsSettled' /\ BufferIsAlive'
  BY <1>1 DEF HandledIsSettled, StackIsWaited, GoneIsSettled, BufferIsAlive, Current
<1>3. CASE CloseServer BY <1>1, <1>2, <1>3 DEF CloseServer
<1>4. CASE \E on \in BOOLEAN : SetReuse(on) BY <1>1, <1>2, <1>4 DEF SetReuse
<1>5. CASE \E on \in BOOLEAN, family \in {"v4", "v6"} : Listen(family, on)
  BY <1>1, <1>2, <1>5 DEF Listen, Reopened
<1> QED BY <1>3, <1>4, <1>5

LEMMA SocketSteps ==
  ASSUME SkInductive, Open \/ CloseSocket \/ CloseAtLast \/ SocketGone
  PROVE  SkInductive'
<1> USE DEF SkInductive, SkDomains, HandledIsSettled, StackIsWaited, GoneIsSettled,
            ReuseIsTold, BufferIsAlive, serverVars, waitVars
<1>1. CASE Open BY <1>1 DEF Open, Current
<1>2. CASE CloseSocket BY <1>2 DEF CloseSocket, Aborted, Current
<1>3. CASE CloseAtLast BY <1>3 DEF CloseAtLast, Aborted, Current
<1>4. CASE SocketGone BY <1>4 DEF SocketGone, Current
<1> QED BY <1>1, <1>2, <1>3, <1>4

LEMMA RequestSteps ==
  ASSUME SkInductive, NEW r \in Requests,
         Start(r) \/ Perform(r) \/ Handle(r) \/ Leave(r) \/ CancelWaiter(r)
  PROVE  SkInductive'
<1> USE DEF SkInductive, SkDomains, HandledIsSettled, StackIsWaited, GoneIsSettled,
            ReuseIsTold, BufferIsAlive, serverVars, waitVars
<1>1. CASE Start(r) BY <1>1 DEF Start, KindOf, Kinds
<1>2. CASE Perform(r) BY <1>2 DEF Perform, KeptByHandler, Away, Current
<1>3. CASE Handle(r) BY <1>3 DEF Handle, Current
<1>4. CASE Leave(r) BY <1>4 DEF Leave, Current
<1>5. CASE CancelWaiter(r) BY <1>5 DEF CancelWaiter, Current
<1> QED BY <1>1, <1>2, <1>3, <1>4, <1>5

LEMMA SkAlways == SkSpec => []SkInductive
<1>1. ASSUME SkInductive, [SkNext]_skVars PROVE SkInductive'
  BY <1>1, ServerSteps, SocketSteps, RequestSteps DEF skVars, SkInductive, SkDomains,
     HandledIsSettled, StackIsWaited, GoneIsSettled, ReuseIsTold, BufferIsAlive, Current,
     SkNext
<1> QED BY SkStarts, <1>1, PTL DEF SkSpec
----
\* asio uses no buffer whose fiber has been told, whoever is cancelled; and none that is shared with
\* the handler, even if the fiber was unwound. What is left is the one case that the handler without a
\* buffer cannot exclude.
THEOREM SocketBuffers == SkSpec => []BufferIsAlive
<1>1. SkInductive => BufferIsAlive BY DEF SkInductive
<1> QED BY <1>1, SkAlways, PTL

\* close(), ~impl() and the handlers: whoever waits is told.
THEOREM SocketServes == SkSpec => []WaiterIsServed
<1>1. SkInductive => WaiterIsServed BY DEF SkInductive, SkDomains, HandledIsSettled, WaiterIsServed
<1> QED BY <1>1, SkAlways, PTL

\* ~impl() waits for the operations it remembers; no handler of theirs runs after it.
THEOREM SocketWaits == SkSpec => []DestructorWaits
<1>1. ASSUME SkInductive PROVE DestructorWaits
  BY <1>1 DEF SkInductive, SkDomains, Current, Kinds, HandledIsSettled, GoneIsSettled,
     DestructorWaits
<1>2. SkInductive => DestructorWaits BY <1>1
<1> QED BY <1>2, SkAlways, PTL

\* set_reuse_address() and reopen_for_endpoint(): the wish survives the new acceptor.
THEOREM ServerReuses == SkSpec => []ReuseIsKept
<1>1. SkInductive => ReuseIsKept BY DEF SkInductive, ReuseIsTold, ReuseIsKept
<1> QED BY <1>1, SkAlways, PTL

\* A socket serves those who use it, and the server that accepted it keeps its options.
THEOREM SocketsAreServed == SkSpec => []SocketsServe
BY SocketBuffers, SocketServes, SocketWaits, ServerReuses, PTL DEF SocketsServe
----
(* fc::shared_ptr: _ref_count is the number of variables that point to the object and have not let
   go of it, plus that of the calls that are about to. *)

\* The variables that point to an object and have not let go of it, and the calls that will.
PointersTo(o) == {p \in Pointers : ptr[p] = o /\ then[p].do \in {"nothing", "release"}}
Takers(o) == {p \in Pointers : ~AtRest(p) /\ then[p].to = o}

RtDomains ==
  /\ ptr \in [Pointers -> Places \cup {Nothing}]
  /\ then \in [Pointers -> {Rest} \cup [do : {"release", "delete", "point"}, to : Places \cup {Nothing}]]
  /\ refs \in [Places -> Int] /\ alive \in [Places -> BOOLEAN]

\* _ref_count is the number of references, also of an object that is being deleted.
CountsAreTrue == \A o \in Places : refs[o] = Cardinality(PointersTo(o)) + Cardinality(Takers(o))

\* Who deletes an object is the only one to do so, and nobody refers to it.
DeletedOnce ==
  /\ \A p \in Pointers : then[p].do = "delete" => ptr[p] \in Places /\ alive[ptr[p]] /\ refs[ptr[p]] = 0
  /\ \A p, q \in Pointers : then[p].do = "delete" /\ then[q].do = "delete" /\ ptr[p] = ptr[q] => p = q

\* What is counted lives, and what lives uncounted is being deleted.
CountedLives ==
  \A o \in Places : /\ refs[o] > 0 => alive[o]
                    /\ alive[o] /\ refs[o] <= 0 => \E p \in Pointers : then[p].do = "delete" /\ ptr[p] = o

RtInductive == RtDomains /\ CountsAreTrue /\ DeletedOnce /\ CountedLives

\* Who is at rest does nothing else.
LEMMA RestIs ==
  ASSUME RtDomains, NEW p \in Pointers
  PROVE  /\ AtRest(p) <=> then[p].do = "nothing"
         /\ then[p].do \in {"nothing", "release", "delete", "point"}
         /\ ~AtRest(p) => then[p].to \in Places \cup {Nothing}
BY DEF RtDomains, AtRest, Rest

\* What a call has still to do may change in its first part.
LEMMA EntriesAre ==
  ASSUME NEW Dos, NEW Tos, NEW r \in [do : Dos, to : Tos], NEW d
  PROVE  [r EXCEPT !.do = d] = [do |-> d, to |-> r.to]
OBVIOUS

\* The references of an object are finitely many.
LEMMA CountsAreNat ==
  ASSUME NEW S \in SUBSET Pointers
  PROVE  IsFiniteSet(S) /\ Cardinality(S) \in Nat /\ (Cardinality(S) = 0 <=> S = {})
BY RtAssumption, FS_Subset, FS_CardinalityType, FS_EmptySet

\* One variable more, or one less.
LEMMA OneMore ==
  ASSUME NEW S \in SUBSET Pointers, NEW p \in Pointers
  PROVE  /\ p \notin S => Cardinality(S \cup {p}) = Cardinality(S) + 1
         /\ p \in S => Cardinality(S \ {p}) = Cardinality(S) - 1
BY CountsAreNat, FS_AddElement, FS_RemoveElement

\* Whoever is counted is there.
LEMMA ReferredLives ==
  ASSUME RtInductive, NEW o \in Places, PointersTo(o) \cup Takers(o) # {}
  PROVE  refs[o] > 0 /\ alive[o]
<1>1. PointersTo(o) \in SUBSET Pointers /\ Takers(o) \in SUBSET Pointers BY DEF PointersTo, Takers
<1>2. Cardinality(PointersTo(o)) \in Nat /\ Cardinality(Takers(o)) \in Nat BY <1>1, CountsAreNat
<1>3. Cardinality(PointersTo(o)) # 0 \/ Cardinality(Takers(o)) # 0 BY <1>1, CountsAreNat
<1>4. refs[o] > 0 BY <1>2, <1>3 DEF RtInductive, CountsAreTrue
<1> QED BY <1>4 DEF RtInductive, CountedLives

LEMMA RtStart == RtInit => RtInductive
<1> SUFFICES ASSUME RtInit PROVE RtInductive OBVIOUS
<1>1. RtDomains BY DEF RtInit, RtDomains
<1>2. \A o \in Places : PointersTo(o) = {} /\ Takers(o) = {}
  BY RtAssumption DEF RtInit, PointersTo, Takers, AtRest
<1>3. CountsAreTrue BY <1>2, FS_EmptySet DEF RtInit, CountsAreTrue
<1>4. DeletedOnce /\ CountedLives BY DEF RtInit, Rest, DeletedOnce, CountedLives
<1> QED BY <1>1, <1>3, <1>4 DEF RtInductive

\* Nothing but the counts of one object o may change by d, with its references.
LEMMA CountsStay ==
  ASSUME RtInductive, NEW d \in Int, NEW h \in Int, NEW t \in Int, NEW o, h + t = d,
         \A x \in Places \ {o} : refs'[x] = refs[x] /\ PointersTo(x)' = PointersTo(x) /\ Takers(x)' = Takers(x),
         o \in Places => /\ refs'[o] = refs[o] + d
                         /\ Cardinality(PointersTo(o)') = Cardinality(PointersTo(o)) + h
                         /\ Cardinality(Takers(o)') = Cardinality(Takers(o)) + t
  PROVE  CountsAreTrue'
<1> SUFFICES ASSUME NEW x \in Places
             PROVE  refs'[x] = Cardinality(PointersTo(x)') + Cardinality(Takers(x)')
  BY DEF CountsAreTrue
<1>1. refs[x] = Cardinality(PointersTo(x)) + Cardinality(Takers(x)) BY DEF RtInductive, CountsAreTrue
<1>2. Cardinality(PointersTo(x)) \in Nat /\ Cardinality(Takers(x)) \in Nat
  <2>1. PointersTo(x) \in SUBSET Pointers /\ Takers(x) \in SUBSET Pointers BY DEF PointersTo, Takers
  <2> QED BY <2>1, CountsAreNat
<1>3. CASE x = o BY <1>1, <1>2, <1>3
<1>4. CASE x # o BY <1>1, <1>2, <1>4
<1> QED BY <1>3, <1>4

\* reset( new T ): the place was free, so nobody referred to it.
LEMMA CreateKeeps ==
  ASSUME RtInductive, NEW p \in Pointers, NEW o \in Places, RtCreate(p, o)
  PROVE  RtInductive'
<1> USE DEF RtInductive
<1>1. /\ AtRest(p) /\ ~alive[o] /\ ptr' = ptr
      /\ alive' = [alive EXCEPT ![o] = TRUE] /\ refs' = [refs EXCEPT ![o] = 1]
      /\ then' = [then EXCEPT ![p] = [do |-> "release", to |-> o]]
  BY DEF RtCreate, Replace
<1>2. RtDomains' BY <1>1 DEF RtDomains
<1>3. PointersTo(o) = {} /\ Takers(o) = {} BY <1>1, ReferredLives
<1>4. \A q \in Pointers : /\ then'[q] = IF q = p THEN [do |-> "release", to |-> o] ELSE then[q]
                          /\ AtRest(q)' <=> q # p /\ AtRest(q)
                          /\ ptr'[q] = ptr[q]
  BY <1>1 DEF RtDomains, AtRest, Rest
<1>5. then[p].do = "nothing" BY <1>1, RestIs
<1>6. \A x \in Places : /\ PointersTo(x)' = PointersTo(x)
                        /\ Takers(x)' = IF x = o THEN Takers(o) \cup {p} ELSE Takers(x)
  BY <1>1, <1>4, <1>5 DEF PointersTo, Takers
<1>7. refs[o] = 0 BY <1>3, FS_EmptySet DEF CountsAreTrue
<1>8. Cardinality(Takers(o)') = Cardinality(Takers(o)) + 1 BY <1>3, <1>6, OneMore
<1>9. CountsAreTrue'
  <2>1. refs'[o] = refs[o] + 1 BY <1>1, <1>7 DEF RtDomains
  <2>2. Cardinality(PointersTo(o)') = Cardinality(PointersTo(o)) + 0 BY <1>3, <1>6, FS_EmptySet
  <2>3. \A x \in Places \ {o} : refs'[x] = refs[x] /\ PointersTo(x)' = PointersTo(x) /\ Takers(x)' = Takers(x)
    BY <1>1, <1>6 DEF RtDomains
  <2> QED BY <2>1, <2>2, <2>3, <1>8, CountsStay
<1>10. DeletedOnce' BY <1>1, <1>4, <1>5 DEF DeletedOnce, RtDomains
<1>11. CountedLives' BY <1>1, <1>4, <1>5 DEF CountedLives, RtDomains
<1> QED BY <1>2, <1>9, <1>10, <1>11

\* reset() and a copy: the new reference is counted before the old one is released.
LEMMA ReplaceKeeps ==
  ASSUME RtInductive, NEW p \in Pointers, NEW o \in Places \cup {Nothing}, AtRest(p),
         o # Nothing => PointersTo(o) # {}, Retain(o), Replace(p, o), UNCHANGED <<ptr, alive>>
  PROVE  RtInductive'
<1> USE DEF RtInductive
<1>1. /\ ptr' = ptr /\ alive' = alive
      /\ refs' = IF o = Nothing THEN refs ELSE [refs EXCEPT ![o] = @ + 1]
      /\ then' = [then EXCEPT ![p] = [do |-> "release", to |-> o]]
  BY DEF Replace, Retain
<1>2. RtDomains' BY <1>1 DEF RtDomains
<1>3. o # Nothing => refs[o] > 0 /\ alive[o] BY ReferredLives
<1>4. \A q \in Pointers : /\ then'[q] = IF q = p THEN [do |-> "release", to |-> o] ELSE then[q]
                          /\ AtRest(q)' <=> q # p /\ AtRest(q)
                          /\ ptr'[q] = ptr[q]
  BY <1>1 DEF RtDomains, AtRest, Rest
<1>5. then[p].do = "nothing" BY RestIs
<1>6. \A x \in Places : /\ PointersTo(x)' = PointersTo(x)
                        /\ Takers(x)' = IF x = o THEN Takers(o) \cup {p} ELSE Takers(x)
  BY <1>1, <1>4, <1>5 DEF PointersTo, Takers
<1>7. ASSUME o \in Places PROVE Cardinality(Takers(o)') = Cardinality(Takers(o)) + 1
  <2>1. Takers(o) \in SUBSET Pointers /\ p \notin Takers(o) BY DEF Takers
  <2> QED BY <1>6, <1>7, <2>1, OneMore
<1>8. CountsAreTrue'
  <2>1. o \in Places => refs'[o] = refs[o] + 1 BY <1>1, RtAssumption DEF RtDomains
  <2>2. o \in Places => Cardinality(PointersTo(o)') = Cardinality(PointersTo(o)) + 0
    <3>1. \A x \in Places : Cardinality(PointersTo(x)) \in Nat
      <4>1. \A x : PointersTo(x) \in SUBSET Pointers BY DEF PointersTo
      <4> QED BY <4>1, CountsAreNat
    <3> QED BY <3>1, <1>6
  <2>3. \A x \in Places \ {o} : refs'[x] = refs[x] /\ PointersTo(x)' = PointersTo(x) /\ Takers(x)' = Takers(x)
    BY <1>1, <1>6 DEF RtDomains
  <2>4. CASE o \in Places BY <2>4, <2>1, <2>2, <2>3, <1>7, CountsStay
  <2>5. CASE o = Nothing BY <2>5, <2>3, RtAssumption DEF CountsAreTrue
  <2> QED BY <2>4, <2>5
<1>9. \A x \in Places : refs'[x] = IF x = o THEN refs[x] + 1 ELSE refs[x]
  BY <1>1, RtAssumption DEF RtDomains
<1>10. DeletedOnce' BY <1>1, <1>3, <1>4, <1>5, <1>9, RtAssumption DEF DeletedOnce, RtDomains
<1>11. CountedLives'
  <2>1. ASSUME NEW x \in Places
        PROVE  /\ refs'[x] > 0 => alive'[x]
               /\ alive'[x] /\ refs'[x] <= 0 => \E q \in Pointers : then'[q].do = "delete" /\ ptr'[q] = x
    <3>1. CASE x = o BY <1>1, <1>3, <1>9, <3>1, RtAssumption DEF RtDomains
    <3>2. CASE x # o BY <1>1, <1>4, <1>5, <1>9, <3>2 DEF CountedLives
    <3> QED BY <3>1, <3>2
  <2> QED BY <2>1 DEF CountedLives
<1> QED BY <1>2, <1>8, <1>10, <1>11

\* A move: two variables exchange what they point to.
LEMMA MoveKeeps ==
  ASSUME RtInductive, NEW p \in Pointers, NEW q \in Pointers, RtMove(p, q)
  PROVE  RtInductive'
<1> USE DEF RtInductive
<1>1. /\ AtRest(p) /\ AtRest(q) /\ p # q /\ then' = then /\ refs' = refs /\ alive' = alive
      /\ ptr' = [ptr EXCEPT ![p] = ptr[q], ![q] = ptr[p]]
  BY DEF RtMove
<1>2. RtDomains' BY <1>1 DEF RtDomains
<1>3. then[p].do = "nothing" /\ then[q].do = "nothing" BY <1>1, RestIs
<1>4. \A r \in Pointers : ptr'[r] = IF r = q THEN ptr[p] ELSE IF r = p THEN ptr[q] ELSE ptr[r]
  BY <1>1 DEF RtDomains
<1>5. \A x : Takers(x)' = Takers(x) BY <1>1 DEF Takers, AtRest
<1>6. \A x : /\ PointersTo(x) \in SUBSET Pointers
             /\ p \in PointersTo(x) <=> ptr[p] = x
             /\ q \in PointersTo(x) <=> ptr[q] = x
             /\ p \in PointersTo(x)' <=> ptr[q] = x
             /\ q \in PointersTo(x)' <=> ptr[p] = x
             /\ \A r \in Pointers \ {p, q} : r \in PointersTo(x)' <=> r \in PointersTo(x)
             /\ PointersTo(x)' \in SUBSET Pointers
  BY <1>1, <1>3, <1>4 DEF PointersTo
<1>7. ASSUME NEW x \in Places PROVE Cardinality(PointersTo(x)') = Cardinality(PointersTo(x))
  <2>1. CASE (ptr[p] = x) = (ptr[q] = x)
    <3>1. PointersTo(x)' = PointersTo(x) BY <1>6, <2>1
    <3> QED BY <3>1
  <2>2. CASE ptr[p] = x /\ ptr[q] # x
    <3>1. PointersTo(x)' = (PointersTo(x) \ {p}) \cup {q} BY <1>1, <1>6, <2>2
    <3>2. PointersTo(x) \ {p} \in SUBSET Pointers /\ q \notin PointersTo(x) \ {p} BY <1>6, <2>2
    <3>3. Cardinality(PointersTo(x)') = Cardinality(PointersTo(x) \ {p}) + 1 BY <3>1, <3>2, OneMore
    <3>4. Cardinality(PointersTo(x) \ {p}) = Cardinality(PointersTo(x)) - 1 BY <1>6, <2>2, OneMore
    <3>5. Cardinality(PointersTo(x)) \in Nat BY <1>6, CountsAreNat
    <3> QED BY <3>3, <3>4, <3>5
  <2>3. CASE ptr[p] # x /\ ptr[q] = x
    <3>1. PointersTo(x)' = (PointersTo(x) \ {q}) \cup {p} BY <1>1, <1>6, <2>3
    <3>2. PointersTo(x) \ {q} \in SUBSET Pointers /\ p \notin PointersTo(x) \ {q} BY <1>6, <2>3
    <3>3. Cardinality(PointersTo(x)') = Cardinality(PointersTo(x) \ {q}) + 1 BY <3>1, <3>2, OneMore
    <3>4. Cardinality(PointersTo(x) \ {q}) = Cardinality(PointersTo(x)) - 1 BY <1>6, <2>3, OneMore
    <3>5. Cardinality(PointersTo(x)) \in Nat BY <1>6, CountsAreNat
    <3> QED BY <3>3, <3>4, <3>5
  <2> QED BY <2>1, <2>2, <2>3
<1>8. CountsAreTrue'
  <2> SUFFICES ASSUME NEW x \in Places
               PROVE  refs'[x] = Cardinality(PointersTo(x)') + Cardinality(Takers(x)')
    BY DEF CountsAreTrue
  <2>1. refs[x] = Cardinality(PointersTo(x)) + Cardinality(Takers(x)) BY DEF CountsAreTrue
  <2>2. Takers(x)' = Takers(x) BY <1>5
  <2>3. Cardinality(Takers(x)') = Cardinality(Takers(x)) BY <2>2
  <2>4. refs'[x] = refs[x] /\ Cardinality(PointersTo(x)') = Cardinality(PointersTo(x)) BY <1>1, <1>7
  <2> QED BY <2>1, <2>3, <2>4
<1>9. DeletedOnce'
  <2>1. \A r \in Pointers : then'[r].do = "delete" => then[r].do = "delete" /\ ptr'[r] = ptr[r]
    BY <1>1, <1>3, <1>4
  <2>2. UNCHANGED <<refs, alive>> BY <1>1
  <2>3. ASSUME NEW r \in Pointers, then'[r].do = "delete"
        PROVE  ptr'[r] \in Places /\ alive'[ptr'[r]] /\ refs'[ptr'[r]] = 0
    BY <2>1, <2>2, <2>3 DEF DeletedOnce
  <2>4. ASSUME NEW r \in Pointers, NEW s \in Pointers, then'[r].do = "delete", then'[s].do = "delete",
               ptr'[r] = ptr'[s]
        PROVE  r = s
    BY <2>1, <2>4 DEF DeletedOnce
  <2> QED BY <2>3, <2>4 DEF DeletedOnce
<1>10. CountedLives' BY <1>1, <1>3, <1>4 DEF CountedLives
<1> QED BY <1>2, <1>8, <1>9, <1>10

\* release(): one reference less; who took the last one deletes.
LEMMA ReleaseKeeps ==
  ASSUME RtInductive, NEW p \in Pointers, RtRelease(p)
  PROVE  RtInductive'
<1> USE DEF RtInductive
<1> SUFFICES ASSUME NEW o, o = ptr[p] PROVE RtInductive' OBVIOUS
<1> DEFINE last == o # Nothing /\ refs[o] = 1
<1>1. /\ then[p].do = "release" /\ ptr' = ptr /\ alive' = alive
      /\ refs' = IF o = Nothing THEN refs ELSE [refs EXCEPT ![o] = @ - 1]
      /\ then' = [then EXCEPT ![p].do = IF last THEN "delete" ELSE "point"]
  BY DEF RtRelease
<1>2. o \in Places \cup {Nothing} /\ (o # Nothing => o \in Places) BY DEF RtDomains
<1>3. then[p] \in [do : {"release", "delete", "point"}, to : Places \cup {Nothing}]
  BY <1>1 DEF RtDomains, Rest
<1> HIDE DEF last
<1>4. then' = [then EXCEPT ![p] = [do |-> IF last THEN "delete" ELSE "point", to |-> then[p].to]]
  <2>1. [then[p] EXCEPT !.do = IF last THEN "delete" ELSE "point"] = [do |-> IF last THEN "delete" ELSE "point", to |-> then[p].to]
    BY <1>3, EntriesAre
  <2>2. then' = [then EXCEPT ![p] = [then[p] EXCEPT !.do = IF last THEN "delete" ELSE "point"]] BY <1>1
  <2> QED BY <2>1, <2>2
<1>5. RtDomains' BY <1>1, <1>2, <1>3, <1>4 DEF RtDomains
<1>6. \A q \in Pointers : /\ then'[q] = IF q = p THEN [do |-> IF last THEN "delete" ELSE "point", to |-> then[p].to]
                                       ELSE then[q]
                          /\ AtRest(q)' <=> AtRest(q)
                          /\ ptr'[q] = ptr[q]
  BY <1>1, <1>3, <1>4 DEF RtDomains, AtRest, Rest
<1>7. \A x : Takers(x)' = Takers(x) BY <1>6 DEF Takers
<1>8. \A x : PointersTo(x)' = IF x = o THEN PointersTo(x) \ {p} ELSE PointersTo(x)
  BY <1>1, <1>6 DEF PointersTo
<1>9. p \in PointersTo(o) /\ PointersTo(o) \in SUBSET Pointers BY <1>1 DEF PointersTo
<1>10. o \in Places => refs[o] > 0 /\ alive[o] BY <1>9, ReferredLives
<1>11. \A x \in Places : refs'[x] = IF x = o THEN refs[x] - 1 ELSE refs[x]
  BY <1>1, <1>2, RtAssumption DEF RtDomains
<1>12. CountsAreTrue'
  <2>1. o \in Places => refs'[o] = refs[o] + (-1) BY <1>11 DEF RtDomains
  <2>2. Cardinality(PointersTo(o)') = Cardinality(PointersTo(o)) + (-1)
    <3>1. Cardinality(PointersTo(o) \ {p}) = Cardinality(PointersTo(o)) - 1 BY <1>9, OneMore
    <3>2. Cardinality(PointersTo(o)) \in Nat BY <1>9, CountsAreNat
    <3> QED BY <1>8, <3>1, <3>2
  <2>3. Cardinality(Takers(o)') = Cardinality(Takers(o)) + 0
    <3>1. Takers(o) \in SUBSET Pointers BY DEF Takers
    <3>2. Cardinality(Takers(o)) \in Nat BY <3>1, CountsAreNat
    <3> QED BY <1>7, <3>2
  <2>4. \A x \in Places \ {o} : refs'[x] = refs[x] /\ PointersTo(x)' = PointersTo(x) /\ Takers(x)' = Takers(x)
    BY <1>7, <1>8, <1>11
  <2> QED BY <2>1, <2>2, <2>3, <2>4, CountsStay
<1>13. last => o \in Places /\ refs[o] = 1 BY <1>2 DEF last
<1>14. DeletedOnce'
  <2>1. ASSUME NEW q \in Pointers, then'[q].do = "delete", q # p
        PROVE  then[q].do = "delete" /\ ptr[q] # o
    BY <1>2, <1>6, <1>10, <2>1 DEF DeletedOnce
  <2>2. ASSUME then'[p].do = "delete" PROVE last BY <1>6, <2>2
  <2>3. ptr[p] = o OBVIOUS
  <2>4. ASSUME NEW q \in Pointers, then'[q].do = "delete"
        PROVE  ptr'[q] \in Places /\ alive'[ptr'[q]] /\ refs'[ptr'[q]] = 0
    <3>1. CASE q = p BY <1>1, <1>10, <1>11, <1>13, <2>2, <2>3, <2>4, <3>1
    <3>2. CASE q # p BY <1>1, <1>11, <2>1, <2>4, <3>2 DEF DeletedOnce
    <3> QED BY <3>1, <3>2
  <2>5. ASSUME NEW q \in Pointers, NEW r \in Pointers, then'[q].do = "delete", then'[r].do = "delete",
               ptr'[q] = ptr'[r]
        PROVE  q = r
    BY <1>1, <2>1, <2>3, <2>5 DEF DeletedOnce
  <2> QED BY <2>4, <2>5 DEF DeletedOnce
<1>15. CountedLives'
  <2>1. ASSUME NEW x \in Places
        PROVE  /\ refs'[x] > 0 => alive'[x]
               /\ alive'[x] /\ refs'[x] <= 0 => \E q \in Pointers : then'[q].do = "delete" /\ ptr'[q] = x
    <3>1. CASE x = o
      <4>1. refs[x] \in Int /\ x # Nothing BY RtAssumption DEF RtDomains
      <4>2. refs'[x] <= 0 => last BY <1>10, <1>11, <3>1, <4>1 DEF last
      <4> QED BY <1>1, <1>6, <1>10, <3>1, <4>2
    <3>2. CASE x # o
      <4>1. \A q \in Pointers : ptr[q] = x => q # p BY <3>2
      <4> QED BY <1>1, <1>6, <1>11, <3>2, <4>1 DEF CountedLives
    <3> QED BY <3>1, <3>2
  <2> QED BY <2>1 DEF CountedLives
<1> QED BY <1>5, <1>12, <1>14, <1>15

\* The object goes, and with it the one who deletes it.
LEMMA DeleteKeeps ==
  ASSUME RtInductive, NEW p \in Pointers, RtDelete(p)
  PROVE  RtInductive'
<1> USE DEF RtInductive
<1>1. /\ then[p].do = "delete" /\ ptr' = ptr /\ refs' = refs /\ alive' = [alive EXCEPT ![ptr[p]] = FALSE]
      /\ then' = [then EXCEPT ![p].do = "point"]
  BY DEF RtDelete
<1>2. ptr[p] \in Places /\ refs[ptr[p]] = 0 BY <1>1 DEF DeletedOnce
<1>3. then[p] \in [do : {"release", "delete", "point"}, to : Places \cup {Nothing}]
  BY <1>1 DEF RtDomains, Rest
<1>4. then' = [then EXCEPT ![p] = [do |-> "point", to |-> then[p].to]]
  <2>1. [then[p] EXCEPT !.do = "point"] = [do |-> "point", to |-> then[p].to] BY <1>3, EntriesAre
  <2>2. then' = [then EXCEPT ![p] = [then[p] EXCEPT !.do = "point"]] BY <1>1
  <2> QED BY <2>1, <2>2
<1>5. RtDomains'
  <2>1. then[p].to \in Places \cup {Nothing} BY <1>1, RestIs DEF AtRest, Rest
  <2>2. then' \in [Pointers -> {Rest} \cup [do : {"release", "delete", "point"}, to : Places \cup {Nothing}]]
    BY <1>4, <2>1 DEF RtDomains
  <2> QED BY <1>1, <2>2 DEF RtDomains
<1>6. \A q \in Pointers : /\ then'[q] = IF q = p THEN [do |-> "point", to |-> then[p].to] ELSE then[q]
                          /\ AtRest(q)' <=> AtRest(q)
                          /\ ptr'[q] = ptr[q]
  BY <1>1, <1>3, <1>4 DEF RtDomains, AtRest, Rest
<1>7. \A x : Takers(x)' = Takers(x) /\ PointersTo(x)' = PointersTo(x) BY <1>1, <1>6 DEF Takers, PointersTo
<1>8. CountsAreTrue' BY <1>1, <1>7 DEF CountsAreTrue
<1>9. \A x \in Places : alive'[x] <=> x # ptr[p] /\ alive[x] BY <1>1, <1>2 DEF RtDomains
<1>10. \A q \in Pointers : then'[q].do = "delete" => q # p /\ then[q].do = "delete" /\ ptr[q] # ptr[p]
  BY <1>1, <1>6 DEF DeletedOnce
<1>11. DeletedOnce' BY <1>1, <1>9, <1>10 DEF DeletedOnce
<1>12. CountedLives' BY <1>1, <1>2, <1>6, <1>9 DEF CountedLives
<1> QED BY <1>5, <1>8, <1>11, <1>12

\* The call that would point to an object becomes a variable that does.
LEMMA PointKeeps ==
  ASSUME RtInductive, NEW p \in Pointers, RtPoint(p)
  PROVE  RtInductive'
<1> USE DEF RtInductive
<1> SUFFICES ASSUME NEW o, o = then[p].to PROVE RtInductive' OBVIOUS
<1>1. /\ then[p].do = "point" /\ refs' = refs /\ alive' = alive
      /\ ptr' = [ptr EXCEPT ![p] = o] /\ then' = [then EXCEPT ![p] = Rest]
  BY DEF RtPoint
<1>2. ~AtRest(p) /\ o \in Places \cup {Nothing} BY <1>1, RestIs
<1>4. RtDomains' BY <1>1, <1>2 DEF RtDomains
<1>5. \A q \in Pointers : /\ then'[q] = IF q = p THEN Rest ELSE then[q]
                          /\ AtRest(q)' <=> q = p \/ AtRest(q)
                          /\ ptr'[q] = IF q = p THEN o ELSE ptr[q]
  BY <1>1 DEF RtDomains, AtRest
<1>6. Rest.do = "nothing" BY DEF Rest
<1>7. \A x : /\ PointersTo(x)' = IF x = o THEN PointersTo(x) \cup {p} ELSE PointersTo(x)
             /\ Takers(x)' = IF x = o THEN Takers(x) \ {p} ELSE Takers(x)
  BY <1>1, <1>2, <1>5, <1>6 DEF PointersTo, Takers
<1>8. CountsAreTrue'
  <2>1. p \notin PointersTo(o) /\ PointersTo(o) \in SUBSET Pointers /\ p \in Takers(o) /\ Takers(o) \in SUBSET Pointers
    BY <1>1, <1>2 DEF PointersTo, Takers
  <2>2. Cardinality(PointersTo(o)') = Cardinality(PointersTo(o)) + 1 BY <1>7, <2>1, OneMore
  <2>3. Cardinality(Takers(o)') = Cardinality(Takers(o)) + (-1)
    <3>1. Cardinality(Takers(o) \ {p}) = Cardinality(Takers(o)) - 1 BY <2>1, OneMore
    <3>2. Cardinality(Takers(o)) \in Nat BY <2>1, CountsAreNat
    <3> QED BY <1>7, <3>1, <3>2
  <2>4. o \in Places => refs'[o] = refs[o] + 0 BY <1>1 DEF RtDomains
  <2>5. \A x \in Places \ {o} : refs'[x] = refs[x] /\ PointersTo(x)' = PointersTo(x) /\ Takers(x)' = Takers(x)
    BY <1>1, <1>7
  <2> QED BY <2>2, <2>3, <2>4, <2>5, CountsStay
<1>9. \A q \in Pointers : then'[q].do = "delete" <=> q # p /\ then[q].do = "delete" BY <1>1, <1>5, <1>6
<1>10. DeletedOnce' BY <1>1, <1>5, <1>9 DEF DeletedOnce
<1>11. CountedLives' BY <1>1, <1>5, <1>9 DEF CountedLives
<1> QED BY <1>4, <1>8, <1>10, <1>11

LEMMA RtStep == RtInductive /\ [RtNext]_rtVars => RtInductive'
<1> SUFFICES ASSUME RtInductive, [RtNext]_rtVars PROVE RtInductive' OBVIOUS
<1>1. CASE UNCHANGED rtVars
  BY <1>1 DEF rtVars, RtInductive, RtDomains, CountsAreTrue, PointersTo, Takers, AtRest, DeletedOnce, CountedLives
<1>2. ASSUME NEW p \in Pointers, RtReset(p) PROVE RtInductive'
  BY <1>2, ReplaceKeeps DEF RtReset, Retain
<1>3. ASSUME NEW p \in Pointers, NEW q \in Pointers, RtCopy(p, q) PROVE RtInductive'
  <2>1. ptr[q] \in Places \cup {Nothing} BY DEF RtInductive, RtDomains
  <2>2. q \in PointersTo(ptr[q]) BY <1>3, RestIs DEF RtCopy, PointersTo, RtInductive
  <2> QED BY <1>3, <2>1, <2>2, ReplaceKeeps DEF RtCopy
<1> QED BY <1>1, <1>2, <1>3, CreateKeeps, MoveKeeps, ReleaseKeeps, DeleteKeeps, PointKeeps DEF RtNext

\* Objects live exactly as long as they are referred to, however the steps of assignments and
\* destructors interleave: the last release() deletes, once.
THEOREM ObjectsOutliveTheirPointers == RtSpec => []ReferencesAreRight
<1>1. ASSUME RtInductive PROVE ReferencesAreCounted
  <2> SUFFICES ASSUME NEW o \in Places, alive[o], \A p \in Pointers : then[p].do = "delete" => ptr[p] # o
               PROVE  refs[o] = References(o) /\ refs[o] > 0
    BY DEF ReferencesAreCounted
  <2>1. refs[o] = References(o)
    BY <1>1 DEF RtInductive, CountsAreTrue, References, PointersTo, Takers
  <2>2. refs[o] > 0 BY <1>1 DEF RtInductive, CountedLives, RtDomains
  <2> QED BY <2>1, <2>2
<1>2. ASSUME RtInductive PROVE ReferredIsAlive
  <2>1. ASSUME NEW p \in Pointers, ptr[p] # Nothing, then[p].do \in {"nothing", "release"} PROVE alive[ptr[p]]
    <3>1. ptr[p] \in Places /\ p \in PointersTo(ptr[p]) BY <1>2, <2>1 DEF RtInductive, RtDomains, PointersTo
    <3> QED BY <1>2, <3>1, ReferredLives
  <2>2. ASSUME NEW p \in Pointers, ~AtRest(p) PROVE then[p].to = Nothing \/ alive[then[p].to]
    <3>1. then[p].to \in Places \cup {Nothing} /\ p \in Takers(then[p].to)
      BY <1>2, <2>2, RestIs DEF RtInductive, Takers
    <3> QED BY <1>2, <3>1, ReferredLives
  <2> QED BY <1>2, <2>1, <2>2 DEF ReferredIsAlive, RtInductive, DeletedOnce
<1>3. RtInductive => ReferencesAreRight BY <1>1, <1>2 DEF ReferencesAreRight
<1> QED BY <1>3, RtStart, RtStep, PTL DEF RtSpec
====
