-------------------------- MODULE RpcClientProofs --------------------------
(***************************************************************************)
(* The cluster RPC client for any list of URLs, timeout and cooldown: what *)
(* a failed call means, how long a call takes, and which URLs it spares.   *)
(***************************************************************************)
EXTENDS RpcClient, Integers, FiniteSetTheorems, WellFoundedInduction, TLAPS

\* A call has not given up on a URL that has answered throughout.
SteadyUntried ==
    Busy => steady \subseteq untried /\ \A u \in steady : endpoint[u] = "answers"

\* What the call found out about the URLs still left holds, for as long as it
\* is under way.
CoolingKnown ==
    \A u \in untried : IF u \in active THEN sinceRefusal[u] >= Cooldown ELSE WasCooling(u)

\* Each URL given up has used up at most its timeout.
Budget ==
    /\ CallBounded
    /\ Busy => elapsed <= (Cardinality(Urls) - Cardinality(untried)) * Timeout + waited

CInv == TypeOK /\ SteadyUntried /\ CoolingKnown /\ Budget /\ NoFalseFailure

LEMMA ConstantTypes ==
    /\ IsFiniteSet(Urls) /\ Urls # {} /\ None \notin Urls
    /\ Position \in [Urls -> Nat]
    /\ Timeout \in Nat \ {0} /\ Cooldown \in Nat \ {0}
    /\ MaxAge \in Nat /\ MaxAge >= Cooldown
  BY UrlsAssumption, PositionAssumption, TimeAssumption

\* Every set of numbers has a least one.
LEMMA LeastNumber ==
    ASSUME NEW S \in SUBSET Nat, S # {}
    PROVE  \E m \in S : \A k \in S : m <= k
  <1> DEFINE R == OpToRel(<, Nat)
  <1>1. IsWellFoundedOn(R, Nat)
    BY NatLessThanWellFounded
  <1>2. PICK m \in S : \A k \in S : <<k, m>> \notin R
    <2> HIDE DEF R
    <2> QED BY <1>1, WFMin
  <1>3. \A k \in S : ~(k < m)
    BY <1>2 DEF OpToRel
  <1>4. \A k \in S : m <= k
    BY <1>3
  <1> QED BY <1>2, <1>4

LEMMA ClassType == \A u : Class(u) \in Nat
  BY DEF Class

\* While a call is under way there is a URL in flight, and it comes before all
\* the others that are left.
LEMMA CurrentIsFirst ==
    ASSUME untried \subseteq Urls, Busy
    PROVE  Current \in untried /\ \A v \in untried : Before(Current, v)
  <1> DEFINE classes == {Class(u) : u \in untried}
  <1>1. classes \in SUBSET Nat /\ classes # {}
    BY ClassType DEF Busy
  <1>2. PICK c \in classes : \A k \in classes : c <= k
    <2> HIDE DEF classes
    <2> QED BY <1>1, LeastNumber
  <1> DEFINE first == {u \in untried : Class(u) = c}
             places == {Position[u] : u \in first}
  <1>3. places \in SUBSET Nat /\ places # {}
    BY <1>2, ConstantTypes
  <1>4. PICK p \in places : \A k \in places : p <= k
    <2> HIDE DEF places
    <2> QED BY <1>3, LeastNumber
  <1>5. PICK u \in first : Position[u] = p
    BY <1>4
  <1>6. ASSUME NEW v \in untried PROVE Before(u, v)
    <2>1. c <= Class(v) /\ Class(u) = c /\ c \in Nat /\ Class(v) \in Nat
      BY <1>1, <1>2, <1>5, ClassType
    <2>2. CASE Class(v) = c
      BY <2>1, <2>2, <1>4, <1>5 DEF Before
    <2>3. CASE Class(v) # c
      <3>1. Class(u) < Class(v)
        BY <2>1, <2>3
      <3> QED BY <3>1 DEF Before
    <2> QED BY <2>2, <2>3
  <1>7. u \in untried /\ \A v \in untried : Before(u, v)
    BY <1>5, <1>6
  <1> QED BY <1>7 DEF Current

\* What is left shrinks by the URL in flight.
LEMMA OneLess ==
    ASSUME TypeOK, Busy
    PROVE  /\ IsFiniteSet(untried) /\ Cardinality(untried) \in Nat /\ Cardinality(Urls) \in Nat
           /\ 1 <= Cardinality(untried) /\ Cardinality(untried) <= Cardinality(Urls)
           /\ Cardinality(untried \ {Current}) = Cardinality(untried) - 1
  <1>1. untried \in SUBSET Urls /\ Current \in untried
    BY CurrentIsFirst DEF TypeOK
  <1>2. IsFiniteSet(untried) /\ Cardinality(untried) <= Cardinality(Urls)
    BY <1>1, ConstantTypes, FS_Subset
  <1>3. Cardinality(untried) \in Nat /\ Cardinality(Urls) \in Nat
    BY <1>2, ConstantTypes, FS_CardinalityType
  <1>4. Cardinality(untried \ {Current}) = Cardinality(untried) - 1
    BY <1>1, <1>2, FS_RemoveElement
  <1>5. Cardinality(untried) # 0
    BY <1>2, FS_EmptySet DEF Busy
  <1> QED BY <1>2, <1>3, <1>4, <1>5

LEMMA InitCInv == Init => CInv
  <1> SUFFICES ASSUME Init PROVE CInv
    OBVIOUS
  <1>1. TypeOK
    BY ConstantTypes DEF Init, TypeOK
  <1>2. Cardinality(Urls) \in Nat
    BY ConstantTypes, FS_CardinalityType
  <1>3. 0 <= Cardinality(Urls) * Timeout
    BY <1>2, ConstantTypes
  <1>4. SteadyUntried /\ CoolingKnown /\ NoFalseFailure
    BY DEF Init, SteadyUntried, CoolingKnown, NoFalseFailure, Busy
  <1>5. Budget
    BY <1>3 DEF Init, Budget, CallBounded, Busy
  <1> QED BY <1>1, <1>4, <1>5 DEF CInv

LEMMA CallCInv ==
    ASSUME CInv, Call
    PROVE  CInv'
  <1> USE DEF CInv
  <1>1. untried' = Urls /\ Busy'
    BY ConstantTypes DEF Call, ToTry, Busy
  <1>2. TypeOK'
    BY <1>1, ConstantTypes DEF Call, TypeOK, ToTry
  <1>3. SteadyUntried'
    BY <1>1 DEF Call, SteadyUntried
  <1>4. CoolingKnown'
    <2> SUFFICES ASSUME NEW u \in Urls
                 PROVE  IF u \in active' THEN sinceRefusal'[u] >= Cooldown ELSE WasCooling(u)'
      BY <1>1 DEF CoolingKnown
    <2>1. sinceRefusal' = sinceRefusal /\ elapsed' = 0 /\ sinceRefusal[u] \in Nat
      BY ConstantTypes DEF Call, TypeOK
    <2>2. u \in active' <=> ~(sinceRefusal[u] < Cooldown)
      BY DEF Call, InCooldown
    <2> QED BY <2>1, <2>2, ConstantTypes DEF WasCooling
  <1>5. Cardinality(Urls) \in Nat /\ elapsed' = 0 /\ waited' = 0
    BY ConstantTypes, FS_CardinalityType DEF Call
  <1>6. /\ 0 <= Cardinality(Urls) * Timeout
        /\ (Cardinality(Urls) - Cardinality(Urls)) * Timeout = 0
    BY <1>5, ConstantTypes
  <1>7. Budget'
    BY <1>1, <1>5, <1>6 DEF Budget, CallBounded
  <1>8. NoFalseFailure'
    BY <1>1 DEF NoFalseFailure
  <1> QED BY <1>2, <1>3, <1>4, <1>7, <1>8

LEMMA AnsweredCInv ==
    ASSUME CInv, Answered
    PROVE  CInv'
  <1> USE DEF CInv
  <1>1. untried' = {} /\ ~Busy' /\ outcome' = "answered"
    BY DEF Answered, Busy
  <1>2. Current \in Urls
    BY CurrentIsFirst DEF Answered, TypeOK
  <1>3. TypeOK'
    BY <1>1, <1>2 DEF Answered, TypeOK
  <1>4. SteadyUntried' /\ CoolingKnown' /\ NoFalseFailure'
    BY <1>1 DEF SteadyUntried, CoolingKnown, NoFalseFailure
  <1>5. Budget'
    BY <1>1 DEF Answered, Budget, CallBounded
  <1> QED BY <1>3, <1>4, <1>5

\* A URL that refuses a request or fails it was not steady; the rest of the
\* call has its full timeouts left.
LEMMA GiveUpCInv ==
    ASSUME CInv, Busy, endpoint[Current] # "answers", GiveUp,
           sinceRefusal' \in [Urls -> 0 .. MaxAge],
           \A u \in untried \ {Current} : sinceRefusal'[u] = sinceRefusal[u]
    PROVE  CInv'
  <1> USE DEF CInv
  <1>1. Current \in untried
    BY CurrentIsFirst DEF TypeOK
  <1>2. /\ untried' = untried \ {Current} /\ waited' = 0
        /\ UNCHANGED <<endpoint, lastSuccessfulURL, active, elapsed, steady>>
    BY DEF GiveUp
  <1>3. TypeOK'
    <2>1. outcome' \in {"none", "answered", "failed"}
      BY DEF GiveUp, TypeOK
    <2> QED BY <1>2, <2>1, ConstantTypes DEF TypeOK
  <1>4. steady \subseteq untried \ {Current} /\ \A u \in steady : endpoint[u] = "answers"
    BY DEF SteadyUntried
  <1>5. SteadyUntried'
    BY <1>2, <1>4 DEF SteadyUntried
  <1>6. CoolingKnown'
    BY <1>2 DEF CoolingKnown, WasCooling
  <1>7. Budget'
    <2> DEFINE n == Cardinality(Urls)
               k == Cardinality(untried)
    <2>1. n \in Nat /\ k \in Nat /\ Cardinality(untried') = k - 1
      BY <1>2, OneLess
    <2>2. elapsed <= (n - k) * Timeout + waited /\ waited \in Nat /\ waited <= Timeout /\ elapsed \in Nat
      BY ConstantTypes DEF Budget, TypeOK
    <2>3. (n - k) * Timeout + Timeout = (n - (k - 1)) * Timeout /\ (n - k) * Timeout \in Int
      <3> HIDE DEF n, k
      <3> QED BY <2>1, ConstantTypes
    <2>4. elapsed <= (n - (k - 1)) * Timeout
      <3> DEFINE a == (n - k) * Timeout
                 b == (n - (k - 1)) * Timeout
      <3>1. a \in Int /\ a + Timeout = b /\ elapsed <= a + waited
        BY <2>2, <2>3
      <3> HIDE DEF a, b
      <3>2. elapsed <= b
        BY <3>1, <2>2, ConstantTypes
      <3> QED BY <3>2 DEF b
    <2>5. elapsed' <= (Cardinality(Urls) - Cardinality(untried')) * Timeout + waited'
      <3>1. elapsed' = elapsed /\ waited' = 0 /\ Cardinality(untried') = k - 1
        BY <1>2, <2>1
      <3>2. (n - (k - 1)) * Timeout \in Int
        <4> HIDE DEF n, k
        <4> QED BY <2>1, ConstantTypes
      <3>3. (n - (k - 1)) * Timeout + waited' = (n - (k - 1)) * Timeout
        <4> HIDE DEF n, k
        <4> QED BY <3>1, <3>2
      <3> QED BY <3>1, <3>3, <2>4
    <2> QED BY <1>2, <2>5 DEF Budget, CallBounded
  <1>8. NoFalseFailure'
    BY <1>2, <1>4 DEF NoFalseFailure, Busy
  <1> QED BY <1>3, <1>5, <1>6, <1>7, <1>8

LEMMA ChangeCInv ==
    ASSUME CInv, Change
    PROVE  CInv'
  <1> USE DEF CInv
  <1>1. PICK u \in Urls, e \in {"answers", "refuses", "fails"} :
            /\ endpoint' = [endpoint EXCEPT ![u] = e]
            /\ steady' = steady \ {u}
            /\ UNCHANGED <<sinceRefusal, lastSuccessfulURL, untried, active, waited, elapsed, outcome>>
    BY DEF Change
  <1>2. TypeOK'
    BY <1>1 DEF TypeOK
  <1>3. SteadyUntried'
    BY <1>1 DEF SteadyUntried, Busy, TypeOK
  <1>4. CoolingKnown' /\ Budget'
    BY <1>1 DEF CoolingKnown, WasCooling, Budget, CallBounded, Busy
  <1>5. NoFalseFailure'
    BY <1>1 DEF NoFalseFailure, Busy
  <1> QED BY <1>2, <1>3, <1>4, <1>5

LEMMA TickCInv ==
    ASSUME CInv, Tick
    PROVE  CInv'
  <1> USE DEF CInv
  <1>1. /\ sinceRefusal' = [u \in Urls |-> Older(sinceRefusal[u])]
        /\ UNCHANGED <<endpoint, lastSuccessfulURL, untried, active, outcome, steady>>
        /\ Busy' = Busy
    BY DEF Tick, Busy
  <1>2. /\ Busy => waited < Timeout /\ waited' = waited + 1 /\ elapsed' = elapsed + 1
        /\ ~Busy => waited' = waited /\ elapsed' = elapsed
    BY DEF Tick, InTime
  <1>3. \A u \in Urls : /\ sinceRefusal[u] \in 0 .. MaxAge
                        /\ sinceRefusal'[u] \in 0 .. MaxAge
                        /\ sinceRefusal[u] <= sinceRefusal'[u]
                        /\ sinceRefusal'[u] <= sinceRefusal[u] + 1
    BY <1>1, ConstantTypes DEF TypeOK, Older
  <1>4. TypeOK'
    <2>1. sinceRefusal' \in [Urls -> 0 .. MaxAge]
      BY <1>1, <1>3
    <2>2. waited' \in 0 .. Timeout /\ elapsed' \in Nat
      BY <1>2, ConstantTypes DEF TypeOK
    <2> QED BY <1>1, <2>1, <2>2 DEF TypeOK
  <1>5. SteadyUntried' /\ NoFalseFailure'
    BY <1>1 DEF SteadyUntried, NoFalseFailure, Busy
  <1>6. CoolingKnown'
    <2> SUFFICES ASSUME NEW u \in untried
                 PROVE  IF u \in active THEN sinceRefusal'[u] >= Cooldown ELSE WasCooling(u)'
      BY <1>1 DEF CoolingKnown
    <2>1. Busy /\ u \in Urls /\ elapsed' = elapsed + 1 /\ elapsed \in Nat
      BY <1>2 DEF Busy, TypeOK
    <2>2. CASE u \in active
      BY <2>1, <2>2, <1>3, ConstantTypes DEF CoolingKnown
    <2>3. CASE u \notin active
      BY <2>1, <2>3, <1>3, ConstantTypes DEF CoolingKnown, WasCooling
    <2> QED BY <2>2, <2>3
  <1>7. Budget'
    <2>1. CASE ~Busy
      BY <2>1, <1>1, <1>2 DEF Budget, CallBounded
    <2>2. CASE Busy
      <3> DEFINE n == Cardinality(Urls)
                 k == Cardinality(untried)
                 a == (n - k) * Timeout
      <3>1. n \in Nat /\ k \in Nat /\ 1 <= k /\ k <= n
        BY <2>2, OneLess
      <3>2. a \in Int /\ a + Timeout = (n - (k - 1)) * Timeout
        <4> HIDE DEF n, k
        <4> QED BY <3>1, ConstantTypes
      <3>3. (n - (k - 1)) * Timeout <= n * Timeout
        <4> HIDE DEF n, k
        <4>1. n * Timeout = (n - (k - 1)) * Timeout + (k - 1) * Timeout
          BY <3>1, ConstantTypes
        <4>2. /\ (k - 1) * Timeout \in Nat
              /\ (n - (k - 1)) * Timeout \in Int /\ n * Timeout \in Int
          BY <3>1, ConstantTypes
        <4> DEFINE x == (n - (k - 1)) * Timeout
                   y == (k - 1) * Timeout
                   z == n * Timeout
        <4>3. z = x + y /\ y \in Nat /\ x \in Int
          BY <4>1, <4>2
        <4> HIDE DEF x, y, z
        <4>4. x <= z
          BY <4>3
        <4> QED BY <4>4 DEF x, z
      <3>4. elapsed <= a + waited /\ elapsed \in Nat /\ waited \in Nat
        BY <2>2 DEF Budget, TypeOK
      <3>5. n * Timeout \in Int
        <4> HIDE DEF n
        <4> QED BY <3>1, ConstantTypes
      <3>6. elapsed' <= a + waited' /\ elapsed' <= n * Timeout
        <4> DEFINE b == (n - (k - 1)) * Timeout
                   c == n * Timeout
        <4>1. /\ a \in Int /\ a + Timeout = b /\ b <= c /\ c \in Int
              /\ elapsed' = elapsed + 1 /\ waited' = waited + 1 /\ waited < Timeout
          BY <3>2, <3>3, <3>5, <1>2, <2>2
        <4> HIDE DEF a, b, c
        <4>2. elapsed' <= a + waited' /\ elapsed' <= c
          BY <4>1, <3>4, ConstantTypes
        <4> QED BY <4>2 DEF c
      <3> QED BY <3>6, <1>1 DEF Budget, CallBounded
    <2> QED BY <2>1, <2>2
  <1> QED BY <1>4, <1>5, <1>6, <1>7

LEMMA NextCInv == CInv /\ [Next]_vars => CInv'
  <1> SUFFICES ASSUME CInv, [Next]_vars PROVE CInv'
    OBVIOUS
  <1>1. CASE Call
    BY <1>1, CallCInv
  <1>2. CASE Answered
    BY <1>2, AnsweredCInv
  <1>3. CASE Refused
    <2>1. Current \in Urls /\ sinceRefusal \in [Urls -> 0 .. MaxAge]
      BY <1>3, CurrentIsFirst DEF Refused, CInv, TypeOK
    <2>2. /\ sinceRefusal' \in [Urls -> 0 .. MaxAge]
          /\ \A u \in untried \ {Current} : sinceRefusal'[u] = sinceRefusal[u]
      BY <1>3, <2>1, ConstantTypes DEF Refused, CInv, TypeOK
    <2> QED BY <1>3, <2>2, GiveUpCInv DEF Refused
  <1>4. CASE Failed
    <2>1. /\ sinceRefusal' \in [Urls -> 0 .. MaxAge]
          /\ \A u \in untried \ {Current} : sinceRefusal'[u] = sinceRefusal[u]
      BY <1>4 DEF Failed, CInv, TypeOK
    <2> QED BY <1>4, <2>1, GiveUpCInv DEF Failed
  <1>5. CASE Change
    BY <1>5, ChangeCInv
  <1>6. CASE Tick
    BY <1>6, TickCInv
  <1>7. CASE UNCHANGED vars
    BY <1>7 DEF vars, call, CInv, TypeOK, SteadyUntried, CoolingKnown, WasCooling, Budget,
                CallBounded, NoFalseFailure, Busy
  <1> QED BY <1>1, <1>2, <1>3, <1>4, <1>5, <1>6, <1>7 DEF Next

LEMMA CInvAlways == Spec => []CInv
  BY InitCInv, NextCInv, PTL DEF Spec

---------------------------------------------------------------------------
\* The client is well typed for any list of URLs and any timeouts.
THEOREM TypeCorrect == Spec => []TypeOK
  <1>1. CInv => TypeOK
    BY DEF CInv
  <1> QED BY <1>1, CInvAlways, PTL

\* A failed call means that no URL answered for the whole of it: the loop of
\* executeWithRetry hides no working endpoint, whatever the order and the
\* cooldowns.
THEOREM FailureIsReal == Spec => []NoFalseFailure
  BY CInvAlways, PTL DEF CInv

\* A call of the client takes at most one timeout for each URL.
THEOREM CallIsBounded == Spec => []CallBounded
  <1>1. CInv => CallBounded
    BY DEF CInv, Budget
  <1> QED BY <1>1, CInvAlways, PTL

\* A URL that refused a request less than a cooldown ago waits for all the URLs
\* that were out of cooldown when getURLsToTry looked.
THEOREM HealthyAreFirst == Spec => []HealthyFirst
  <1>1. CInv => HealthyFirst
    <2> SUFFICES ASSUME CInv, Busy, sinceRefusal[Current] < Cooldown, NEW v \in untried
                 PROVE  WasCooling(v)
      BY DEF HealthyFirst
    <2>1. Current \in untried /\ Before(Current, v)
      BY CurrentIsFirst DEF CInv, TypeOK
    <2>2. Current \notin active
      BY <2>1, ConstantTypes DEF CInv, CoolingKnown, TypeOK
    <2>3. v \notin active
      BY <2>1, <2>2 DEF Before, Class
    <2> QED BY <2>3 DEF CInv, CoolingKnown
  <1> QED BY <1>1, CInvAlways, PTL
===========================================================================
