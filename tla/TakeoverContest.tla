-------------------------- MODULE TakeoverContest --------------------------
(***************************************************************************)
(* The contest for the active identity as threshold, delay and             *)
(* revalidation decide it: what HaManager comes down to as long as nodes   *)
(* fail only by dropping out of the cluster.  All that is left of a node   *)
(* is its part in the contest and the time until its next move, and of the *)
(* cluster whether gossip is dark, that is, shows no leader.  Reads that   *)
(* fall on one instant happen all at once, with the tick that reaches it.  *)
(***************************************************************************)
EXTENDS Integers

CONSTANTS
    Nodes,
    NodeCount,      \* how many there are
    Threshold,      \* leaderless samples that make a contender a candidate
    PollInterval,   \* time between samples, and between the turns of the ranks
    ConfirmPoll,    \* time between the last two of these samples
    EvalLag,        \* bound: time a candidate, or a hot node, takes
    NoticeLag       \* bound: time until everyone sees a new leader

VARIABLES
    stage,  \* the part each node has in the contest
    left,   \* the time until its next sample or move
    count,  \* leaderless samples of a calm contender
    rank,   \* rank of a contender that is a candidate or asleep
    clock,  \* position inside the poll interval
    dark    \* gossip shows no leader

contest == <<stage, left, count, rank, clock, dark>>

\* A contender is calm until its samples make it a candidate; then it sleeps
\* its delay or is hot at once. A hot node becomes a leader, at first one that
\* nobody sees yet.
Stages == {"out", "calm", "candidate", "asleep", "hot", "pending", "leader"}

At(s) == {n \in Nodes : stage[n] = s}
Ranked == At("candidate") \cup At("asleep")
Busy == At("hot") \cup At("pending")

TypeOK ==
    /\ stage \in [Nodes -> Stages]
    /\ left \in [Nodes -> Nat]
    /\ count \in [Nodes -> 0 .. Threshold - 1]
    /\ rank \in [Nodes -> Nat]
    /\ clock \in 0 .. PollInterval - 1
    /\ dark \in BOOLEAN

---------------------------------------------------------------------------
Polling == {n \in At("calm") : left[n] = 1}
Waking == {n \in At("asleep") : left[n] = 1}

\* The count of a polling node after its sample.
Total(n) == IF dark THEN count[n] + 1 ELSE 0

Nominated == {n \in Polling : Total(n) >= Threshold}
Resampled == Polling \ Nominated

\* The time until the poll after a sample at time t that brought total.
Rearmed(total, t) ==
    IF ConfirmPoll < PollInterval /\ total = Threshold - 1
    THEN ConfirmPoll ELSE PollInterval - t

\* Time passes, and whoever is due by it reads gossip. Nobody overruns.
Tick ==
    /\ \A n \in At("candidate") \cup Busy : left[n] > 0
    /\ clock' = (clock + 1) % PollInterval
    /\ stage' = [n \in Nodes |->
          CASE n \in Nominated       -> "candidate"
            [] n \in Waking /\ dark  -> "hot"
            [] n \in Waking /\ ~dark -> "calm"
            [] OTHER                 -> stage[n]]
    /\ left' = [n \in Nodes |->
          CASE n \in Nominated                -> EvalLag
            [] n \in Waking /\ dark           -> EvalLag
            [] n \in Waking /\ ~dark          -> PollInterval - clock'
            [] n \in Resampled                -> Rearmed(Total(n), clock')
            [] stage[n] \in {"out", "leader"} -> 0
            [] OTHER                          -> left[n] - 1]
    /\ count' = [n \in Nodes |->
          CASE n \in Resampled             -> Total(n)
            [] n \in Nominated \cup Waking -> 0
            [] OTHER                       -> count[n]]
    /\ \E r \in [Nominated -> 0 .. NodeCount - 1] :
          /\ \A n, m \in Nominated : r[n] = r[m] => n = m
          /\ rank' = [n \in Nodes |->
                CASE n \in Nominated -> r[n]
                  [] n \in Waking    -> 0
                  [] OTHER           -> rank[n]]
    /\ UNCHANGED dark

\* A candidate that is not the first sleeps its delay.
Sleep(n) ==
    /\ stage[n] = "candidate" /\ rank[n] > 0
    /\ stage' = [stage EXCEPT ![n] = "asleep"]
    /\ left' = [left EXCEPT ![n] = rank[n] * PollInterval]
    /\ UNCHANGED <<count, rank, clock, dark>>

\* The first takes over at once.
Advance(n) ==
    /\ stage[n] = "candidate" /\ rank[n] = 0
    /\ stage' = [stage EXCEPT ![n] = "hot"]
    /\ UNCHANGED <<left, count, rank, clock, dark>>

\* A hot node becomes active, in the cluster or outside.
Win(n) ==
    /\ stage[n] = "hot"
    /\ \/ /\ stage' = [stage EXCEPT ![n] = "pending"]
          /\ \E t \in 0 .. NoticeLag : left' = [left EXCEPT ![n] = t]
       \/ /\ stage' = [stage EXCEPT ![n] = "out"]
          /\ left' = [left EXCEPT ![n] = 0]
    /\ UNCHANGED <<count, rank, clock, dark>>

\* What becomes of a node while gossip settles, or the node drops out.
Fates(s) ==
    CASE s = "pending"            -> {"pending", "leader", "out"}
      [] s \in {"calm", "leader"} -> {s, "out"}
      [] OTHER                    -> {s}

\* A leader shows, and only one that is there, seen or not, ends the dark.
Settle ==
    /\ stage' \in [Nodes -> Stages] /\ left' \in [Nodes -> Nat] /\ dark' \in BOOLEAN
    /\ \A n \in Nodes :
          /\ stage'[n] \in Fates(stage[n])
          /\ stage'[n] = "leader" => ~dark'
          /\ CASE stage'[n] = "pending"          -> left'[n] <= left[n]
               [] stage'[n] \in {"out", "leader"} -> left'[n] = 0
               [] OTHER                          -> left'[n] = left[n]
    /\ dark /\ ~dark' => At("pending") \cup At("leader") # {}
    /\ count' = [n \in Nodes |-> IF stage'[n] = "calm" THEN count[n] ELSE 0]
    /\ UNCHANGED <<rank, clock>>

Init ==
    /\ stage \in [Nodes -> {"out", "calm", "leader"}]
    /\ \A n, m \in At("leader") : n = m
    /\ dark = (At("leader") = {})
    /\ count = [n \in Nodes |-> IF stage[n] = "calm" /\ dark THEN 1 ELSE 0]
    /\ left = [n \in Nodes |-> IF stage[n] = "calm" THEN 2 * PollInterval ELSE 0]
    /\ rank = [n \in Nodes |-> 0]
    /\ clock = 0

Next ==
    \/ Tick
    \/ \E n \in Nodes : Sleep(n) \/ Advance(n) \/ Win(n)
    \/ Settle

Spec == Init /\ [][Next]_contest

---------------------------------------------------------------------------
(* What the contest is for, and the room it takes. *)

\* A takeover and its notice fit between two moves, also after a confirmation
\* poll; and the last rank has had its turn before those who gave up after the
\* first can be nominated again.
Room ==
    /\ Threshold > 1
    /\ IF ConfirmPoll = PollInterval
       THEN 2 * EvalLag + NoticeLag < PollInterval /\ NodeCount <= Threshold + 1
       ELSE ConfirmPoll + 2 * EvalLag + NoticeLag < PollInterval /\ NodeCount <= Threshold

\* At most one node is about to become the leader, or is it.
Exclusive ==
    \A n, m \in Busy \cup At("leader") : n = m

---------------------------------------------------------------------------
(* The schedule behind it. A round begins with a nomination at position      *)
(* phase of the poll interval; turn is the number of boundaries since then,  *)
(* and so the rank whose turn it is.                                         *)

Until(n) == clock + left[n]

\* When the turn of n begins.
Turn(n, phase, turn) == phase + (rank[n] - turn) * PollInterval

\* When a calm node is nominated, unless it sees a leader.
Nomination(n) ==
    IF count[n] = Threshold - 1 THEN Until(n)
    ELSE Until(n) + (Threshold - 2 - count[n]) * PollInterval + ConfirmPoll

\* Calm nodes sample at boundaries, and once between them.
CalmOnTime ==
    \A n \in At("calm") :
        /\ left[n] > 0
        /\ \/ Until(n) \in {PollInterval, 2 * PollInterval}
           \/ Until(n) = ConfirmPoll /\ count[n] = Threshold - 1

\* They are in step.
CalmAgree ==
    \A n, m \in At("calm") : count[n] = count[m] /\ left[n] = left[m]

RanksApart ==
    /\ \A n \in Ranked : rank[n] < NodeCount
    /\ \A n, m \in Ranked : rank[n] = rank[m] => n = m

LeaderAlone ==
    /\ \A n, m \in At("leader") : n = m
    /\ At("leader") # {} => ~dark /\ \A m \in At("candidate") : rank[m] > 0

\* A calm node with a leaderless sample is not put out of step by one that
\* wakes before its next sample: it will not see a leader either.
CalmNotSurprised ==
    \A n \in At("calm"), m \in At("asleep") :
        count[n] > 0 /\ left[m] < left[n] => dark /\ Busy = {}

\* A turn and the notice of its leader end before the next boundary.
TurnsFit(phase) ==
    phase + 2 * EvalLag + NoticeLag < PollInterval

CandidateOnTime(phase, turn) ==
    \A n \in At("candidate") :
        turn = 0 /\ phase <= clock /\ Until(n) = phase + EvalLag

AsleepOnTime(phase, turn) ==
    \A n \in At("asleep") :
        /\ left[n] > 0 /\ 0 < rank[n] /\ turn <= rank[n]
        /\ Turn(n, phase, turn) <= Until(n)
        /\ Until(n) <= Turn(n, phase, turn) + EvalLag

BusyOnTime(phase) ==
    /\ Busy # {} => phase <= clock
    /\ \A n \in At("hot") : Until(n) <= phase + 2 * EvalLag
    /\ \A n \in At("pending") : Until(n) <= phase + 2 * EvalLag + NoticeLag

\* A busy node has the turn to itself.
BusyAlone(turn) ==
    /\ \A n, m \in Busy : n = m
    /\ Busy # {} => At("leader") = {} /\ \A m \in Ranked : rank[m] # turn

\* The round is over when the next begins.
CalmLater(phase, turn) ==
    \A n \in At("calm") :
        /\ At("candidate") = {}
        /\ Until(n) > PollInterval => Ranked \cup Busy = {}
        /\ \A m \in Ranked :
               Turn(m, phase, turn) + 2 * EvalLag + NoticeLag < Nomination(n)
        /\ Busy # {} => phase + 2 * EvalLag + NoticeLag < Nomination(n)

Scheduled(phase, turn) ==
    /\ TurnsFit(phase)
    /\ CandidateOnTime(phase, turn)
    /\ AsleepOnTime(phase, turn)
    /\ BusyOnTime(phase)
    /\ BusyAlone(turn)
    /\ CalmLater(phase, turn)

InStep == CalmOnTime /\ CalmAgree /\ RanksApart /\ LeaderAlone /\ CalmNotSurprised

OnSchedule ==
    /\ TypeOK /\ InStep
    /\ \E phase \in {0, ConfirmPoll}, turn \in 0 .. NodeCount - 1 :
           Scheduled(phase, turn)
===========================================================================
