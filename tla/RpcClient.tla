----------------------------- MODULE RpcClient -----------------------------
(***************************************************************************)
(* The cluster RPC client of internal/rpc/clients.go.  A call tries the    *)
(* configured URLs one after the other until one of them answers.  The URL *)
(* that answered the last call is spared, and a URL that refused a request *)
(* with 403, 429 or 503 is tried only when the others have failed, until   *)
(* its cooldown is over.  One goroutine, the HA loop, uses the client.     *)
(*                                                                         *)
(* Time is discrete.  A deadline is kept as the time since the refusal     *)
(* that set it.                                                            *)
(***************************************************************************)
EXTENDS Naturals, FiniteSets

CONSTANTS
    Urls,       \* cluster.rpc_urls, which are distinct
    Position,   \* place of each URL in that list
    None,       \* the empty string: no URL has answered yet
    Timeout,    \* cluster.rpc_timeout_duration
    Cooldown,   \* cluster.rpc_url_cooldown_duration
    MaxAge      \* bound: the time since a refusal saturates here

ASSUME UrlsAssumption == IsFiniteSet(Urls) /\ Urls # {} /\ None \notin Urls
ASSUME PositionAssumption ==
    /\ Position \in [Urls -> Nat]
    /\ \A u, v \in Urls : Position[u] = Position[v] => u = v
ASSUME TimeAssumption ==
    /\ Timeout \in Nat \ {0} /\ Cooldown \in Nat \ {0}
    /\ MaxAge \in Nat /\ MaxAge >= Cooldown

VARIABLES
    endpoint,          \* what each URL does with a request
    sinceRefusal,      \* time since each URL last refused one
    lastSuccessfulURL,
    untried,           \* the URLs the call in progress has not given up on
    active,            \* the URLs it found out of cooldown when it began
    waited, elapsed,   \* time spent on the current URL, and on the call
    outcome,           \* how the last call ended
    steady             \* history: the URLs that answered throughout the call

call == <<untried, active, waited, elapsed, outcome, steady>>
vars == <<endpoint, sinceRefusal, lastSuccessfulURL, call>>

TypeOK ==
    /\ endpoint \in [Urls -> {"answers", "refuses", "fails"}]
    /\ sinceRefusal \in [Urls -> 0 .. MaxAge]
    /\ lastSuccessfulURL \in Urls \cup {None}
    /\ untried \subseteq Urls /\ active \subseteq Urls /\ steady \subseteq Urls
    /\ waited \in 0 .. Timeout /\ elapsed \in Nat
    /\ outcome \in {"none", "answered", "failed"}

---------------------------------------------------------------------------
(* The order in which a call tries the URLs. *)

InCooldown(u) == sinceRefusal[u] < Cooldown

\* Mutant of Class: the URL that answered last comes after the cooling ones.
ClassLastAtTheEnd(u) ==
    IF u = lastSuccessfulURL THEN 2 ELSE IF u \in active THEN 0 ELSE 1

\* Active URLs, then the last successful one, then the cooling ones, among
\* which the last successful one is the last.
Class(u) ==
    (IF u \in active THEN 0 ELSE 2) + (IF u = lastSuccessfulURL THEN 1 ELSE 0)

Before(u, v) ==
    Class(u) < Class(v) \/ (Class(u) = Class(v) /\ Position[u] <= Position[v])

Busy == untried # {}

\* The URL of the request in flight.
Current == CHOOSE u \in untried : \A v \in untried : Before(u, v)

---------------------------------------------------------------------------
(* A call: executeWithRetry. *)

\* Mutant of ToTry: a cooling URL is left out instead of tried last.
ToTryWithoutCooling == {u \in Urls : ~InCooldown(u)}

ToTry == Urls

Call ==
    /\ ~Busy
    /\ untried' = ToTry
    /\ active' = {u \in Urls : ~InCooldown(u)}
    /\ waited' = 0 /\ elapsed' = 0
    /\ outcome' = IF ToTry = {} THEN "failed" ELSE outcome
    /\ steady' = {u \in Urls : endpoint[u] = "answers"}
    /\ UNCHANGED <<endpoint, sinceRefusal, lastSuccessfulURL>>

\* The URL in flight is given up; without another one the call has failed.
GiveUp ==
    /\ untried' = untried \ {Current}
    /\ waited' = 0
    /\ outcome' = IF untried' = {} THEN "failed" ELSE outcome
    /\ UNCHANGED <<endpoint, lastSuccessfulURL, active, elapsed, steady>>

Answered ==
    /\ Busy /\ endpoint[Current] = "answers"
    /\ lastSuccessfulURL' = Current
    /\ untried' = {} /\ outcome' = "answered"
    /\ UNCHANGED <<endpoint, sinceRefusal, active, waited, elapsed, steady>>

\* 403, 429 or 503: the cooldown starts, or starts again.
Refused ==
    /\ Busy /\ endpoint[Current] = "refuses"
    /\ sinceRefusal' = [sinceRefusal EXCEPT ![Current] = 0]
    /\ GiveUp

\* Any other error; after Timeout the context has expired.
Failed ==
    /\ Busy /\ endpoint[Current] = "fails"
    /\ GiveUp
    /\ UNCHANGED sinceRefusal

---------------------------------------------------------------------------
(* The endpoints and time. *)

Change ==
    \E u \in Urls, e \in {"answers", "refuses", "fails"} :
        /\ e # endpoint[u]
        /\ endpoint' = [endpoint EXCEPT ![u] = e]
        /\ steady' = steady \ {u}
        /\ UNCHANGED <<sinceRefusal, lastSuccessfulURL, untried, active, waited, elapsed, outcome>>

Older(age) == IF age < MaxAge THEN age + 1 ELSE age

\* Mutant of InTime: the context of a request is not cancelled.
InTimeLeniently == waited < Timeout + 1

\* The context of a request ends it after Timeout.
InTime == waited < Timeout

Tick ==
    /\ Busy => InTime
    /\ sinceRefusal' = [u \in Urls |-> Older(sinceRefusal[u])]
    /\ IF Busy
       THEN waited' = waited + 1 /\ elapsed' = elapsed + 1
       ELSE UNCHANGED <<waited, elapsed>>
    /\ UNCHANGED <<endpoint, lastSuccessfulURL, untried, active, outcome, steady>>

---------------------------------------------------------------------------
Init ==
    /\ endpoint \in [Urls -> {"answers", "refuses", "fails"}]
    /\ sinceRefusal = [u \in Urls |-> MaxAge]
    /\ lastSuccessfulURL = None
    /\ untried = {} /\ active = {} /\ steady = {}
    /\ waited = 0 /\ elapsed = 0 /\ outcome = "none"

Next == Call \/ Answered \/ Refused \/ Failed \/ Change \/ Tick

Spec == Init /\ [][Next]_vars

---------------------------------------------------------------------------
(* What a caller relies on. *)

\* A refusal of v, less than a cooldown before the call in progress began.
WasCooling(v) == sinceRefusal[v] < Cooldown + elapsed

\* "Healthy URLs are always attempted first" (README.md:459): a URL that
\* refused a request less than a cooldown ago is tried only when every URL
\* still left was cooling as well when the call began.
HealthyFirst ==
    Busy /\ sinceRefusal[Current] < Cooldown => \A v \in untried : WasCooling(v)

\* A call fails only if no URL answered requests for the whole of it: neither a
\* cooldown nor the order hides a working endpoint (clients.go:121-166).  The
\* HA loop takes a failed call for the loss of its view.
NoFalseFailure == outcome = "failed" /\ ~Busy => steady = {}

\* A call takes no longer than the timeout for each URL.  The spacing of the
\* takeover ranks rests on a bound for the refreshes.
CallBounded == elapsed <= Cardinality(Urls) * Timeout
===========================================================================
