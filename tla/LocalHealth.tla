---------------------------- MODULE LocalHealth ----------------------------
(***************************************************************************)
(* The healthy streak of internal/local/state.go and the two goroutines    *)
(* that meet in it.  The health tracker asks the validator's own RPC on a  *)
(* ticker of its own and records each answer under a mutex; the HA loop    *)
(* reads the streak under the same mutex when a failover is on.  The       *)
(* tracker asks before it takes the mutex, and once per streak it makes a  *)
(* second call, IsSelfPassive, while it holds it.                          *)
(*                                                                         *)
(* The validator judges its health when it handles a request, which may be *)
(* a timeout before its answer is received: asking, handling and receiving *)
(* are steps of their own, and an answer that takes too long is lost.      *)
(*                                                                         *)
(* Time is discrete.  healthySince is kept as the age of the streak.       *)
(***************************************************************************)
EXTENDS Naturals

CONSTANTS
    Second,              \* units of time in a second
    MinimumDuration,     \* failover.self_healthy.minimum_duration
    PollInterval,        \* failover.self_healthy.poll_interval_duration
    UnhealthyGraceCount, \* failover.self_healthy.unhealthy_grace_count, as written
    RpcTimeout,          \* timeout of a call to the validator's RPC
    NoStreak,            \* the zero time
    MaxAge,              \* bound: ages saturate here
    MaxChanges           \* bound: how often the validator's health changes

ASSUME DurationAssumption ==
    {Second, MinimumDuration, PollInterval} \subseteq Nat \ {0}
ASSUME CountAssumption == {UnhealthyGraceCount, RpcTimeout, MaxChanges} \subseteq Nat
ASSUME StreakAssumption == NoStreak \notin Nat
ASSUME AgeAssumption == MaxAge \in Nat /\ MaxAge >= MinimumDuration + Second

\* SetDefaults: a grace that is left out and a grace of zero are the same.
Grace == IF UnhealthyGraceCount = 0 THEN 1 ELSE UnhealthyGraceCount

VARIABLES
    validator,                  \* what the validator's RPC says of it
    changes,
    due, fired,                 \* the tracker's ticker, and the tick it buffers
    tracker, sample, remaining, \* the tracker's goroutine
    loop, polled,               \* the HA loop, which polls once in a unit of time
    mu,                         \* the mutex
    healthySince, minDurationReached, consecutiveUnhealthyCount,
    calm, sick                  \* history: time since the grace was used up, and of sickness

streak == <<healthySince, minDurationReached, consecutiveUnhealthyCount>>
ticker == <<due, fired>>
vars == <<validator, changes, ticker, tracker, sample, remaining, loop, polled, mu,
          streak, calm, sick>>

TypeOK ==
    /\ validator \in {"healthy", "unhealthy"} /\ changes \in 0 .. MaxChanges
    /\ due \in 1 .. PollInterval /\ fired \in BOOLEAN
    /\ tracker \in {"waiting", "asking", "judged", "answered", "announcing"}
    /\ sample \in BOOLEAN /\ remaining \in 0 .. RpcTimeout
    /\ loop \in {"idle", "streak"} /\ polled \in BOOLEAN
    /\ mu \in {"free", "tracker"}
    /\ healthySince \in 0 .. MaxAge \cup {NoStreak}
    /\ minDurationReached \in BOOLEAN
    /\ consecutiveUnhealthyCount \in 0 .. Grace + 1
    /\ calm \in 0 .. MaxAge /\ sick \in Nat

---------------------------------------------------------------------------
(* Durations. *)

\* Duration.Round(time.Second): halfway values are rounded up.
Rounded(d) ==
    LET r == d % Second IN IF r + r < Second THEN d - r ELSE d + (Second - r)

Older(age, bound) == IF age < bound THEN age + 1 ELSE age

IsSelfHealthyLongEnough == healthySince # NoStreak /\ healthySince >= MinimumDuration

---------------------------------------------------------------------------
(* The tracker: the goroutine of startHealthyTracker, running SampleSelf. *)

Sample ==
    /\ tracker = "waiting" /\ fired
    /\ tracker' = "asking" /\ fired' = FALSE /\ remaining' = RpcTimeout
    /\ UNCHANGED <<validator, changes, due, sample, loop, polled, mu, streak, calm, sick>>

\* The validator handles the request.
Judge ==
    /\ tracker = "asking"
    /\ tracker' = "judged" /\ sample' = (validator = "healthy")
    /\ UNCHANGED <<validator, changes, ticker, remaining, loop, polled, mu, streak, calm, sick>>

\* checkHealth returns with the validator's answer; the mutex is not held.
CheckHealth ==
    /\ tracker = "judged"
    /\ tracker' = "answered"
    /\ UNCHANGED <<validator, changes, ticker, sample, remaining, loop, polled, mu, streak, calm,
                   sick>>

\* Mutant of TimeOut: a call that times out is not taken for a sample.
TimeOutAndSkip ==
    /\ tracker \in {"asking", "judged"} /\ remaining = 0
    /\ tracker' = "waiting"
    /\ UNCHANGED <<validator, changes, ticker, sample, remaining, loop, polled, mu, streak, calm,
                   sick>>

\* checkHealth returns with an error: there was no answer in time.
TimeOut ==
    /\ tracker \in {"asking", "judged"} /\ remaining = 0
    /\ tracker' = "answered" /\ sample' = FALSE
    /\ UNCHANGED <<validator, changes, ticker, remaining, loop, polled, mu, streak, calm, sick>>

\* Mutants of HealthySince: every healthy sample starts the streak anew, and a
\* streak is counted from the zero time.
HealthySinceRestarted == 0
HealthySinceFromZero == IF healthySince = NoStreak THEN MaxAge + 1 ELSE healthySince

\* The streak after a healthy sample.
HealthySince == IF healthySince = NoStreak THEN 0 ELSE healthySince

\* A healthy sample starts the streak or carries it on, and announces it once.
RecordHealthy ==
    /\ tracker = "answered" /\ sample /\ mu = "free"
    /\ healthySince' = HealthySince
    /\ consecutiveUnhealthyCount' = 0
    /\ LET reached == healthySince # NoStreak /\ minDurationReached
           announce == ~reached /\ Rounded(HealthySince) >= MinimumDuration
       IN  /\ minDurationReached' = (reached \/ announce)
           /\ IF announce
              THEN tracker' = "announcing" /\ mu' = "tracker" /\ remaining' = RpcTimeout
              ELSE tracker' = "waiting" /\ UNCHANGED <<mu, remaining>>
    /\ UNCHANGED <<validator, changes, ticker, sample, loop, polled, calm, sick>>

\* Mutant of WithinGrace: one sample more is forgiven.
WithinGraceOffByOne(count) == count <= Grace + 1

WithinGrace(count) == count <= Grace

\* The streak is over.
Broken ==
    /\ healthySince' = NoStreak
    /\ minDurationReached' = (healthySince = NoStreak /\ minDurationReached)

\* An unhealthy sample breaks the streak once the grace is used up.
RecordUnhealthy ==
    /\ tracker = "answered" /\ ~sample /\ mu = "free"
    /\ LET count == Older(consecutiveUnhealthyCount, Grace + 1) IN
           /\ consecutiveUnhealthyCount' = count
           /\ IF WithinGrace(count)
              THEN UNCHANGED <<healthySince, minDurationReached>> ELSE Broken
           /\ calm' = IF count > Grace THEN 0 ELSE calm
    /\ tracker' = "waiting"
    /\ UNCHANGED <<validator, changes, ticker, sample, remaining, loop, polled, mu, sick>>

\* Mutant of AnnounceEligible: the mutex is not released.
AnnounceKeepingLock ==
    /\ tracker = "announcing"
    /\ tracker' = "waiting"
    /\ UNCHANGED <<validator, changes, ticker, sample, remaining, loop, polled, mu, streak,
                   calm, sick>>

\* IsSelfPassive returns, after its timeout at the latest, and the mutex is released.
AnnounceEligible ==
    /\ tracker = "announcing"
    /\ tracker' = "waiting" /\ mu' = "free"
    /\ UNCHANGED <<validator, changes, ticker, sample, remaining, loop, polled, streak, calm,
                   sick>>

Tracker ==
    Sample \/ CheckHealth \/ TimeOut \/ RecordHealthy \/ RecordUnhealthy \/ AnnounceEligible

---------------------------------------------------------------------------
(* The HA loop, at the two health checks of ensureHAState. *)

\* IsSelfHealthy says yes, and has needed no mutex: the validator was healthy a
\* timeout ago or less.
AskHealthy ==
    /\ loop = "idle" /\ ~polled /\ sick <= RpcTimeout
    /\ loop' = "streak" /\ polled' = TRUE
    /\ UNCHANGED <<validator, changes, ticker, tracker, sample, remaining, mu, streak, calm,
                   sick>>

\* IsSelfHealthyLongEnough, whose answer is a function of the streak.
ReadStreak ==
    /\ loop = "streak" /\ mu = "free"
    /\ loop' = "idle"
    /\ UNCHANGED <<validator, changes, ticker, tracker, sample, remaining, polled, mu, streak,
                   calm, sick>>

Loop == AskHealthy \/ ReadStreak

---------------------------------------------------------------------------
(* The validator and time. *)

ChangeHealth ==
    /\ changes < MaxChanges /\ changes' = changes + 1
    /\ validator' \in {"healthy", "unhealthy"} \ {validator}
    /\ sick' = IF validator' = "healthy" THEN 0 ELSE sick
    /\ UNCHANGED <<ticker, tracker, sample, remaining, loop, polled, mu, streak, calm>>

\* Steps that take no time, and calls that have reached their timeout, go first.
Urgent ==
    \/ tracker = "waiting" /\ fired
    \/ tracker = "answered" /\ mu = "free"
    \/ tracker \in {"asking", "judged", "announcing"} /\ remaining = 0
    \/ loop = "streak" /\ mu = "free"

\* The longest a sick validator can keep a streak (see SicknessNoticed).
Longest == IF PollInterval > RpcTimeout THEN PollInterval ELSE RpcTimeout
Blind == IF PollInterval > 2 * RpcTimeout THEN PollInterval ELSE 2 * RpcTimeout
Notice == Blind + Grace * Longest + RpcTimeout

Tick ==
    /\ ~Urgent
    /\ due' = IF due = 1 THEN PollInterval ELSE due - 1
    /\ fired' = (fired \/ due = 1)
    /\ remaining' = IF remaining = 0 THEN 0 ELSE remaining - 1
    /\ polled' = FALSE
    /\ healthySince' = IF healthySince = NoStreak THEN NoStreak ELSE Older(healthySince, MaxAge)
    /\ calm' = Older(calm, MaxAge)
    /\ sick' = IF validator = "healthy" THEN 0 ELSE Older(sick, Notice + 1)
    /\ UNCHANGED <<validator, changes, tracker, sample, loop, mu, minDurationReached,
                   consecutiveUnhealthyCount>>

---------------------------------------------------------------------------
Init ==
    /\ validator \in {"healthy", "unhealthy"} /\ changes = 0
    /\ due = PollInterval /\ fired = FALSE
    /\ tracker = "waiting" /\ sample = FALSE /\ remaining = 0
    /\ loop = "idle" /\ polled = FALSE /\ mu = "free"
    /\ healthySince = NoStreak /\ minDurationReached = FALSE
    /\ consecutiveUnhealthyCount = 0
    /\ calm = 0 /\ sick = 0

Next == Tracker \/ Judge \/ Loop \/ ChangeHealth \/ Tick

Spec == Init /\ [][Next]_vars

\* Both goroutines run on and calls time out; the validator owes nothing.
Fairness == WF_vars(Tracker) /\ WF_vars(ReadStreak) /\ WF_vars(Tick)

FairSpec == Spec /\ Fairness

---------------------------------------------------------------------------
(* Properties. *)

\* Whoever counts as healthy for long enough has not had more unhealthy samples
\* in a row than the grace allows for as long (SampleSelf against
\* IsSelfHealthyLongEnough), however the answers are delayed.
StreakCredible == IsSelfHealthyLongEnough => calm >= MinimumDuration

\* The announcement goes with a streak, and because the age is rounded to
\* seconds it is at most half a second early: IsSelfHealthyLongEnough may
\* still say no.
AnnouncedInTime ==
    minDurationReached =>
        healthySince # NoStreak /\ 2 * MinimumDuration <= 2 * healthySince + Second

\* A validator that stays sick loses its streak, so it never stays a candidate.
\* First its last healthy answer may have been under way for a timeout, and be
\* announced for another one; then come the samples of the grace, a poll interval
\* or a timeout apart, and one more that times out (SampleSelf).
SicknessNoticed == sick > Notice => healthySince = NoStreak

\* A validator that stays healthy, and whose answers come in time from some point
\* on, becomes a candidate for good.
EventuallyEligible ==
    <>[](validator = "healthy") /\ <>[][~TimeOut]_vars => <>[]IsSelfHealthyLongEnough

\* The tracker's call under the mutex never blocks the HA loop for good.
LoopAnswered == loop = "streak" ~> loop = "idle"
===========================================================================
