----------------------------- MODULE HaManager ----------------------------
(***************************************************************************)
(* A cluster of validators, each watched by its own solana-validator-ha    *)
(* process.  The managers never talk to each other: each one polls the     *)
(* cluster's gossip through its RPC endpoints, counts the samples without  *)
(* a leader, and when it has seen enough of them runs the operator's       *)
(* command that makes its own validator active, or passive.                *)
(*                                                                         *)
(* One evaluation of ensureHAState is a path through the values of pc; a   *)
(* step of it ends wherever the code waits for an RPC, a command or a      *)
(* timer, so that anything may happen to the cluster in between.           *)
(*                                                                         *)
(* Time is discrete.  clock is the position inside a poll interval (the    *)
(* managers wait for multiples of poll_interval_duration since the epoch). *)
(* wait[n] is the time until n's next poll or wake-up; for a manager in    *)
(* the middle of an evaluation it is the time it may still take.  No time  *)
(* passes while something is due.                                          *)
(***************************************************************************)
EXTENDS GossipView, TakeoverRank

CONSTANTS
    Threshold,      \* failover.leaderless_samples_threshold
    PollInterval,   \* failover.poll_interval_duration
    ConfirmPoll,    \* failover.leaderless_confirmation_poll_duration
    Bypass,         \* failover.delinquency_bypass
    UsePriority,    \* every node declares a failover.priority
    Priority,       \* failover.priority of each node
    IPOrder,        \* position of each node's IP address in string order
    EvalLag,        \* bound: time an evaluation's RPCs and commands may take
    GossipLag,      \* bound: time until gossip shows a node's new state
    VoteLag,        \* bound: time until a voting node is known to vote
    StartLeaderless,\* no node holds the active identity at first
    Faults,         \* the kinds of fault the environment may inject
    MaxFaults       \* bound: how many of them

FaultKinds == {"drop", "reconnect", "rpc", "vote_rpc", "local", "health", "ghost",
               "hook", "command", "restart", "stranger", "skew"}

ASSUME ThresholdAssumption == Threshold \in 1 .. MaxCount
ASSUME TimingAssumption ==
    /\ PollInterval \in Nat \ {0}
    /\ ConfirmPoll \in 1 .. PollInterval
    /\ EvalLag \in Nat /\ GossipLag \in Nat /\ VoteLag \in Nat
ASSUME SwitchAssumption == {Bypass, UsePriority, StartLeaderless} \subseteq BOOLEAN
ASSUME RankingAssumption ==
    /\ Priority \in [Nodes -> Nat] /\ DistinctKeys(Nodes, Priority)
    /\ IPOrder \in [Nodes -> Nat] /\ DistinctKeys(Nodes, IPOrder)
ASSUME FaultsAssumption == Faults \subseteq FaultKinds /\ MaxFaults \in Nat

VARIABLES
    \* the validators
    identity,    \* the identity each validator runs with
    healthy,     \* getHealth of each validator
    longEnough,  \* the healthy streak has lasted minimum_duration
    localRpc,    \* the validator's own RPC answers
    \* the cluster
    linked,      \* the validator takes part in gossip
    ghost,       \* how a host fails to vote, "no" when it does vote
    adverts,     \* what getClusterNodes answers
    votes,       \* what getVoteAccounts says of the active identity
    clusterRpc,  \* the manager reaches a cluster RPC endpoint
    \* the managers
    pc,          \* where the manager's goroutine is
    gs,          \* its gossip.State
    trigger,     \* why it is failing over (the recorder's first event)
    fast,        \* it is inside runConfirmationPollLoop
    status,      \* cache.State.FailoverStatus
    \* time and faults
    wait, clock, lag, voteLag, faults

validators == <<identity, healthy, longEnough, localRpc>>
cluster == <<linked, ghost, adverts, votes, clusterRpc>>
managers == <<pc, gs, trigger, fast, status, wait>>
time == <<clock, lag, voteLag>>
vars == <<validators, cluster, managers, time, faults>>

Candidacy == {"health", "streak", "identity"}
Takeover == {"preActive", "runActive"}
StandDown == {"prePassive", "runPassive", "confirmPassive"}
Evaluating == Candidacy \cup Takeover \cup StandDown
Locations == {"down", "idle", "sleeping"} \cup Evaluating
Triggers == {"none", "threshold_reached", "bypass_triggered"}
Statuses == {"unset", "idle", "becoming_active", "becoming_passive"}
GhostKinds == {"delinquent", "absent", "poor"}

TypeOK ==
    /\ identity \in [Nodes -> Roles]
    /\ healthy \in [Nodes -> BOOLEAN]
    /\ longEnough \in [Nodes -> BOOLEAN]
    /\ localRpc \in [Nodes -> BOOLEAN]
    /\ linked \in [Nodes -> BOOLEAN]
    /\ ghost \in [Hosts -> GhostKinds \cup {"no"}]
    /\ adverts \in Answers
    /\ votes \in GhostKinds \cup {"current"}
    /\ clusterRpc \in [Nodes -> BOOLEAN]
    /\ pc \in [Nodes -> Locations]
    /\ gs \in [Nodes -> Views]
    /\ trigger \in [Nodes -> Triggers]
    /\ fast \in [Nodes -> BOOLEAN]
    /\ status \in [Nodes -> Statuses]
    /\ wait \in [Nodes -> Nat]
    /\ clock \in 0 .. PollInterval - 1
    /\ lag \in [Nodes -> Nat]
    /\ voteLag \in Nat
    /\ faults \in Nat

---------------------------------------------------------------------------
(* The cluster as an observer outside it would see it. *)

Holders == {n \in Nodes : linked[n] /\ identity[n] = "active"}
               \cup {h \in {Stranger} : adverts[h] # {}}
Voters == {h \in Holders : ghost[h] = "no"}

TrueAdvert(n) == IF linked[n] THEN {identity[n]} ELSE {}
GossipSettled(n) == adverts[n] = TrueAdvert(n)
VotesSettled == Voters # {} => votes = "current"

\* Nobody is at the point of reading gossip at this instant.
Quiet == \A n \in Nodes : pc[n] \in {"idle", "sleeping"} => wait[n] > 0

\* Unless views may be skewed, all managers that poll at one instant read the
\* same gossip: it changes before or after the polls of an instant.
MayChange == "skew" \in Faults \/ Quiet

May(kind) == kind \in Faults /\ faults > 0

---------------------------------------------------------------------------
(* Pieces of the manager. *)

FastPolling == ConfirmPoll < PollInterval

\* Mutants of NextBoundary: the difference taken the wrong way round, and the
\* next poll a poll interval from now, wherever that is.
NextBoundaryNegative == clock - PollInterval
NextBoundaryUnaligned == PollInterval

\* Time until the next multiple of the poll interval.
NextBoundary == PollInterval - clock

IsSelfHealthy(n) == localRpc[n] /\ healthy[n]
IsSelfActive(n) == localRpc[n] /\ identity[n] = "active"
IsSelfPassive(n) == localRpc[n] /\ identity[n] # "active"

\* The claimants share one identity, so one refresh finds out the same about
\* each. A delinquency is forgiven for a poor balance, and anything is when
\* the RPCs that ask about it fail.
Verdict(forgiven) ==
    [h \in Hosts |-> IF forgiven \/ votes \in {"current", "poor"} THEN "voting" ELSE votes]

VoteErrors == {FALSE} \cup
    {failed \in {TRUE} : May("vote_rpc") /\ votes \in {"delinquent", "absent"}}

\* gossipState.Refresh() by n, from the state it holds.
Refreshed(n, view, forgiven) ==
    IF clusterRpc[n] THEN Answered(view, adverts, Verdict(forgiven)) ELSE Failed(view)

BypassTriggered(view) == Bypass /\ view.delinquent

\* Mutant of NoFailover: the threshold is taken one sample early.
NoFailoverOffByOne(view) ==
    view.undeclared \/ (view.count + 1 < Threshold /\ ~BypassTriggered(view))

\* An undeclared leader, or too few leaderless samples and no bypass.
NoFailover(view) ==
    \/ view.undeclared
    \/ view.count < Threshold /\ ~BypassTriggered(view)

TriggerOf(view) ==
    IF view.count >= Threshold THEN "threshold_reached" ELSE "bypass_triggered"

\* Mutant of ShouldStandDown: peers are never trusted to take over.
ShouldStandDownOnError(n, view) == n \notin view.seen /\ view.rpcErr

\* Not in gossip: stand down if the RPC is what fails, or if a peer is left
\* to take over.
ShouldStandDown(n, view) == n \notin view.seen /\ (view.rpcErr \/ view.seen # {})

\* Where ensureHAState goes once it has refreshed its view.
AfterPoll(n, view) ==
    IF NoFailover(view) THEN "idle"
    ELSE IF n \in view.seen THEN "health"
    ELSE IF ShouldStandDown(n, view) THEN "prePassive"
    ELSE "idle"

\* The nodes the takeover delay ranks, and by what.
Ranked(n) == IF UsePriority THEN Nodes ELSE gs[n].seen
Sorted(n) == IF UsePriority THEN Priority ELSE IPOrder

\* Mutant of SelfRank: ranks counted from the second node.
SelfRankOffByOne(n) ==
    LET ahead == Rank(Ranked(n), Sorted(n), n) IN IF ahead = 0 THEN 0 ELSE ahead - 1

SelfRank(n) == Rank(Ranked(n), Sorted(n), n)

\* Mutants of TakeoverAborted: no check of the count after the delay, and the
\* check inverted.
TakeoverAbortedUnchecked(view, delayed) == view.undeclared
TakeoverAbortedInverted(view, delayed) ==
    view.undeclared \/ (delayed /\ view.count # 0)

\* The checks between the delay and the takeover. A node that did not sleep
\* looks at the view of its poll, and does not look at the count.
TakeoverAborted(view, delayed) == view.undeclared \/ (delayed /\ view.count = 0)

\* Mutant of Return: the loop stays in its confirmation polls once entered.
ReturnStayingFast(n, view) ==
    LET confirm == fast[n] \/ (FastPolling /\ view.count = Threshold - 1) IN
    /\ pc' = [pc EXCEPT ![n] = "idle"]
    /\ trigger' = [trigger EXCEPT ![n] = "none"]
    /\ fast' = [fast EXCEPT ![n] = confirm]
    /\ wait' = [wait EXCEPT ![n] = IF confirm THEN ConfirmPoll ELSE NextBoundary]

\* The evaluation of n is over: the loop it is in arms the next poll.
\* Leaving runConfirmationPollLoop and entering it test the same condition.
Return(n, view) ==
    LET confirm == FastPolling /\ view.count = Threshold - 1 IN
    /\ pc' = [pc EXCEPT ![n] = "idle"]
    /\ trigger' = [trigger EXCEPT ![n] = "none"]
    /\ fast' = [fast EXCEPT ![n] = confirm]
    /\ wait' = [wait EXCEPT ![n] = IF confirm THEN ConfirmPoll ELSE NextBoundary]

\* The evaluation of n goes on at location next.
Proceed(n, next) ==
    /\ pc' = [pc EXCEPT ![n] = next]
    /\ UNCHANGED <<trigger, fast, wait>>

\* How hooks and commands end; anything but "done" is an injected fault.
Outcomes(kind, bad) == {"done"} \cup (IF May(kind) THEN bad ELSE {})
Charge(fault) == faults' = IF fault THEN faults - 1 ELSE faults

---------------------------------------------------------------------------
(* One evaluation of ensureHAState. *)

\* The poll: refresh, sample, metrics, and the decision whether to fail over.
Poll(n) ==
    /\ pc[n] = "idle" /\ wait[n] = 0
    /\ \E forgiven \in VoteErrors :
        LET view == Refreshed(n, gs[n], forgiven)
            next == AfterPoll(n, view)
        IN  /\ gs' = [gs EXCEPT ![n] = view]
            /\ IF next = "idle"
               THEN Return(n, view)
               ELSE /\ pc' = [pc EXCEPT ![n] = next]
                    /\ trigger' = [trigger EXCEPT ![n] = TriggerOf(view)]
                    /\ wait' = [wait EXCEPT ![n] = EvalLag]
                    /\ UNCHANGED fast
            /\ Charge(forgiven)
    /\ status' = [status EXCEPT ![n] = "idle"]
    /\ UNCHANGED <<validators, cluster, time>>

\* To take part in a failover the validator must be healthy now ...
CheckHealthy(n) ==
    /\ pc[n] = "health"
    /\ IF IsSelfHealthy(n) THEN Proceed(n, "streak") ELSE Return(n, gs[n])
    /\ UNCHANGED <<validators, cluster, gs, status, time, faults>>

\* ... and for long enough.
CheckHealthyLongEnough(n) ==
    /\ pc[n] = "streak"
    /\ IF longEnough[n] THEN Proceed(n, "identity") ELSE Return(n, gs[n])
    /\ UNCHANGED <<validators, cluster, gs, status, time, faults>>

\* A node that is active has nothing to do, one that cannot be ranked gives
\* up. Rank 0 goes on at once, the others sleep.
CheckIdentityAndDelay(n) ==
    /\ pc[n] = "identity"
    /\ IF IsSelfActive(n) \/ n \notin Ranked(n)
       THEN Return(n, gs[n])
       ELSE IF SelfRank(n) > 0
            THEN /\ pc' = [pc EXCEPT ![n] = "sleeping"]
                 /\ wait' = [wait EXCEPT ![n] = SelfRank(n) * PollInterval]
                 /\ UNCHANGED <<trigger, fast>>
            ELSE IF TakeoverAborted(gs[n], FALSE)
                 THEN Return(n, gs[n])
                 ELSE Proceed(n, "preActive")
    /\ UNCHANGED <<validators, cluster, gs, status, time, faults>>

\* After the delay: look again, and give up if a leader has appeared.
WakeAndRevalidate(n) ==
    /\ pc[n] = "sleeping" /\ wait[n] = 0
    /\ \E forgiven \in VoteErrors :
        LET view == Refreshed(n, gs[n], forgiven)
        IN  /\ gs' = [gs EXCEPT ![n] = view]
            /\ IF TakeoverAborted(view, TRUE)
               THEN Return(n, view)
               ELSE /\ pc' = [pc EXCEPT ![n] = "preActive"]
                    /\ wait' = [wait EXCEPT ![n] = EvalLag]
                    /\ UNCHANGED <<trigger, fast>>
            /\ Charge(forgiven)
    /\ UNCHANGED <<validators, cluster, status, time>>

\* ensureActive: a failed pre hook that must succeed ends it.
RunPreActiveHooks(n) ==
    /\ pc[n] = "preActive"
    /\ status' = [status EXCEPT ![n] = "becoming_active"]
    /\ \E outcome \in Outcomes("hook", {"failed"}) :
           /\ IF outcome = "done" THEN Proceed(n, "runActive") ELSE Return(n, gs[n])
           /\ Charge(outcome # "done")
    /\ UNCHANGED <<validators, cluster, gs, time>>

\* ensureActive: the command, the post hooks, and a check that only logs.
\* A command may fail before or after it has set the identity, and a command
\* that exits 0 may have done nothing.
RunActiveCommand(n) ==
    /\ pc[n] = "runActive"
    /\ \E outcome \in Outcomes("command", {"failed", "halfway", "noop"}) :
           /\ identity' = IF outcome \in {"done", "halfway"}
                          THEN [identity EXCEPT ![n] = "active"] ELSE identity
           /\ Charge(outcome # "done")
    /\ Return(n, gs[n])
    /\ UNCHANGED <<healthy, longEnough, localRpc, cluster, gs, status, time>>

\* ensurePassive: a failed pre hook that must succeed ends it.
RunPrePassiveHooks(n) ==
    /\ pc[n] = "prePassive"
    /\ status' = [status EXCEPT ![n] = "becoming_passive"]
    /\ \E outcome \in Outcomes("hook", {"failed"}) :
           /\ IF outcome = "done" THEN Proceed(n, "runPassive") ELSE Return(n, gs[n])
           /\ Charge(outcome # "done")
    /\ UNCHANGED <<validators, cluster, gs, time>>

\* ensurePassive: the command and the post hooks.
RunPassiveCommand(n) ==
    /\ pc[n] = "runPassive"
    /\ \E outcome \in Outcomes("command", {"failed", "halfway", "noop"}) :
           /\ identity' = IF outcome \in {"done", "halfway"}
                          THEN [identity EXCEPT ![n] = "passive"] ELSE identity
           /\ IF outcome \in {"done", "noop"}
              THEN Proceed(n, "confirmPassive") ELSE Return(n, gs[n])
           /\ Charge(outcome # "done")
    /\ UNCHANGED <<healthy, longEnough, localRpc, cluster, gs, status, time>>

\* ensurePassive: once the local RPC confirms it, one more refresh, whose
\* sample counts like any other.
ConfirmPassive(n) ==
    /\ pc[n] = "confirmPassive"
    /\ IF IsSelfPassive(n)
       THEN \E forgiven \in VoteErrors :
                LET view == Refreshed(n, gs[n], forgiven)
                IN  gs' = [gs EXCEPT ![n] = view] /\ Return(n, view) /\ Charge(forgiven)
       ELSE Return(n, gs[n]) /\ UNCHANGED <<gs, faults>>
    /\ UNCHANGED <<validators, cluster, status, time>>

\* The manager starts: its first refresh is not aligned, its first poll waits
\* for a whole ticker period and then for a boundary.
Start(n) ==
    /\ pc[n] = "down"
    /\ pc' = [pc EXCEPT ![n] = "idle"]
    /\ \E forgiven \in VoteErrors :
           gs' = [gs EXCEPT ![n] = Refreshed(n, NewView, forgiven)] /\ Charge(forgiven)
    /\ wait' = [wait EXCEPT ![n] = PollInterval + NextBoundary]
    /\ UNCHANGED <<validators, cluster, trigger, fast, status, time>>

\* The manager dies, its validator does not. A command it was running may
\* still have its effect.
Crash(n) ==
    /\ pc[n] # "down" /\ May("restart") /\ MayChange
    /\ pc' = [pc EXCEPT ![n] = "down"]
    /\ gs' = [gs EXCEPT ![n] = NewView]
    /\ trigger' = [trigger EXCEPT ![n] = "none"]
    /\ fast' = [fast EXCEPT ![n] = FALSE]
    /\ status' = [status EXCEPT ![n] = "unset"]
    /\ wait' = [wait EXCEPT ![n] = 0]
    /\ \E role \in {identity[n]} \cup (CASE pc[n] = "runActive"  -> {"active"}
                                         [] pc[n] = "runPassive" -> {"passive"}
                                         [] OTHER                -> {}) :
           identity' = [identity EXCEPT ![n] = role]
    /\ faults' = faults - 1
    /\ UNCHANGED <<healthy, longEnough, localRpc, cluster, time>>

Manager(n) ==
    \/ Poll(n)
    \/ CheckHealthy(n)
    \/ CheckHealthyLongEnough(n)
    \/ CheckIdentityAndDelay(n)
    \/ WakeAndRevalidate(n)
    \/ RunPreActiveHooks(n)
    \/ RunActiveCommand(n)
    \/ RunPrePassiveHooks(n)
    \/ RunPassiveCommand(n)
    \/ ConfirmPassive(n)
    \/ Start(n)

---------------------------------------------------------------------------
(* Gossip, the vote accounts and time. *)

\* Gossip shows the identity n runs with.
Publish(n) ==
    /\ linked[n] /\ identity[n] \notin adverts[n] /\ MayChange
    /\ adverts' = [adverts EXCEPT ![n] = @ \cup {identity[n]}]
    /\ UNCHANGED <<validators, linked, ghost, votes, clusterRpc, managers, time, faults>>

\* Gossip forgets what is no longer true of n.
Expire(n) ==
    /\ ~(adverts[n] \subseteq TrueAdvert(n)) /\ MayChange
    /\ adverts' = [adverts EXCEPT ![n] = @ \cap TrueAdvert(n)]
    /\ UNCHANGED <<validators, linked, ghost, votes, clusterRpc, managers, time, faults>>

\* The votes of the holder of the active identity land.
VotesLand ==
    /\ votes # "current" /\ Voters # {} /\ MayChange
    /\ votes' = "current"
    /\ UNCHANGED <<validators, linked, ghost, adverts, clusterRpc, managers, time, faults>>

\* Nobody votes with the active identity, and the network has noticed.
DeclareDelinquent ==
    /\ votes = "current" /\ Voters = {} /\ MayChange
    /\ votes' \in IF Holders = {} THEN {"delinquent"} ELSE {ghost[h] : h \in Holders}
    /\ UNCHANGED <<validators, linked, ghost, adverts, clusterRpc, managers, time, faults>>

Tick ==
    /\ \A n \in Nodes : pc[n] # "down" => wait[n] > 0
    /\ \A n \in Nodes : GossipSettled(n) \/ lag[n] > 0
    /\ VotesSettled \/ voteLag > 0
    /\ clock' = (clock + 1) % PollInterval
    /\ wait' = [n \in Nodes |-> IF pc[n] = "down" THEN 0 ELSE wait[n] - 1]
    /\ lag' = [n \in Nodes |-> IF GossipSettled(n) THEN GossipLag ELSE lag[n] - 1]
    /\ voteLag' = IF VotesSettled THEN VoteLag ELSE voteLag - 1
    /\ UNCHANGED <<validators, cluster, pc, gs, trigger, fast, status, faults>>

---------------------------------------------------------------------------
(* Faults. *)

Inject(kind) == May(kind) /\ MayChange /\ faults' = faults - 1

Drop(n) ==
    /\ linked[n] /\ Inject("drop")
    /\ linked' = [linked EXCEPT ![n] = FALSE]
    /\ UNCHANGED <<validators, ghost, adverts, votes, clusterRpc, managers, time>>

Reconnect(n) ==
    /\ ~linked[n] /\ "reconnect" \in Faults /\ MayChange
    /\ linked' = [linked EXCEPT ![n] = TRUE]
    /\ UNCHANGED <<validators, ghost, adverts, votes, clusterRpc, managers, time, faults>>

LoseClusterRpc(n) ==
    /\ clusterRpc[n] /\ Inject("rpc")
    /\ clusterRpc' = [clusterRpc EXCEPT ![n] = FALSE]
    /\ UNCHANGED <<validators, linked, ghost, adverts, votes, managers, time>>

RegainClusterRpc(n) ==
    /\ ~clusterRpc[n] /\ MayChange
    /\ clusterRpc' = [clusterRpc EXCEPT ![n] = TRUE]
    /\ UNCHANGED <<validators, linked, ghost, adverts, votes, managers, time, faults>>

ToggleLocalRpc(n) ==
    /\ Inject("local")
    /\ localRpc' = [localRpc EXCEPT ![n] = ~@]
    /\ UNCHANGED <<identity, healthy, longEnough, cluster, managers, time>>

ChangeHealth(n) ==
    /\ Inject("health")
    /\ \E now, streak \in BOOLEAN :
           /\ <<now, streak>> # <<healthy[n], longEnough[n]>>
           /\ healthy' = [healthy EXCEPT ![n] = now]
           /\ longEnough' = [longEnough EXCEPT ![n] = streak]
    /\ UNCHANGED <<identity, localRpc, cluster, managers, time>>

\* A host stays in gossip but stops voting, or votes again.
ChangeVoting(h) ==
    /\ Inject("ghost")
    /\ \E kind \in GhostKinds \cup {"no"} :
           /\ (kind = "no") # (ghost[h] = "no")
           /\ ghost' = [ghost EXCEPT ![h] = kind]
    /\ UNCHANGED <<validators, linked, adverts, votes, clusterRpc, managers, time>>

\* An undeclared host takes the active identity, or gives it up.
ChangeStranger ==
    /\ Inject("stranger")
    /\ adverts' = [adverts EXCEPT ![Stranger] = {"active"} \ @]
    /\ UNCHANGED <<validators, linked, ghost, votes, clusterRpc, managers, time>>

Environment ==
    \/ \E n \in Nodes : Crash(n)
    \/ \E n \in Nodes : Drop(n)
    \/ \E n \in Nodes : Reconnect(n)
    \/ \E n \in Nodes : LoseClusterRpc(n)
    \/ \E n \in Nodes : RegainClusterRpc(n)
    \/ \E n \in Nodes : ToggleLocalRpc(n)
    \/ \E n \in Nodes : ChangeHealth(n)
    \/ \E h \in Hosts : ChangeVoting(h)
    \/ ChangeStranger

---------------------------------------------------------------------------
\* A settled cluster with one leader, or none, whose managers all start now.
Init ==
    /\ identity \in {[n \in Nodes |-> IF n \in L THEN "active" ELSE "passive"]
                        : L \in IF StartLeaderless THEN {{}} ELSE {{n} : n \in Nodes}}
    /\ healthy \in [Nodes -> BOOLEAN]
    /\ longEnough = healthy
    /\ localRpc = [n \in Nodes |-> TRUE]
    /\ linked = [n \in Nodes |-> TRUE]
    /\ ghost = [h \in Hosts |-> "no"]
    /\ adverts = [h \in Hosts |-> IF h \in Nodes THEN {identity[h]} ELSE {}]
    /\ votes = "current"
    /\ clusterRpc = [n \in Nodes |-> TRUE]
    /\ clock = 0
    /\ lag = [n \in Nodes |-> GossipLag]
    /\ voteLag = VoteLag
    /\ pc = [n \in Nodes |-> "idle"]
    /\ gs = [n \in Nodes |-> Refreshed(n, NewView, FALSE)]
    /\ trigger = [n \in Nodes |-> "none"]
    /\ fast = [n \in Nodes |-> FALSE]
    /\ status = [n \in Nodes |-> "unset"]
    /\ wait = [n \in Nodes |-> PollInterval + NextBoundary]
    /\ faults = MaxFaults

Next ==
    \/ \E n \in Nodes : Manager(n)
    \/ \E n \in Nodes : Publish(n)
    \/ \E n \in Nodes : Expire(n)
    \/ VotesLand
    \/ DeclareDelinquent
    \/ Tick
    \/ Environment

Spec == Init /\ [][Next]_vars

---------------------------------------------------------------------------
(* Fairness: the managers' loops and timers, gossip and the vote accounts   *)
(* do not all stop. Since time waits for what is due, each of them goes on  *)
(* in its turn: commands and RPCs return. Faults are never owed.            *)

System ==
    \/ \E n \in Nodes : Manager(n) \/ Publish(n) \/ Expire(n)
    \/ VotesLand \/ DeclareDelinquent \/ Tick

Fairness == WF_vars(System)

FairSpec == Spec /\ Fairness

---------------------------------------------------------------------------
(* Safety. *)

\* At most one declared node votes with the active identity: the split brain
\* that threshold, rank delay and revalidation in ensureHAState are to prevent.
AtMostOneVoter == Cardinality(Voters \cap Nodes) <= 1

\* A node that has decided to take over (it is running the pre-active hooks or
\* the active command) is alone in it, and no other declared node votes.
TakeoverExclusive ==
    \A n, m \in Nodes : n # m /\ pc[n] \in Takeover =>
        pc[m] \notin Takeover /\ m \notin Voters

\* No refresh, answered or not, leaves a manager with a view that contradicts
\* itself; in particular the delinquency bypass never acts on a verdict of an
\* earlier refresh.
ViewsSound == \A n \in Nodes : Sound(gs[n])

\* A node that goes through the checks of a takeover, or has passed them,
\* holds a view without a leader, declared or not, and with a leaderless
\* sample: no RPC error and no delay makes it forget a leader it has seen.
NoLeaderInView ==
    \A n \in Nodes : pc[n] \in Candidacy \cup Takeover =>
        gs[n].active = {} /\ ~gs[n].undeclared /\ gs[n].count > 0

\* A failover goes on only for the reason it began with: its samples are still
\* at the threshold, or it is the bypass the operator has opted in to, begun
\* on a view that shows the leader delinquent.
FailoverJustified ==
    \A n \in Nodes : pc[n] \in Evaluating \cup {"sleeping"} =>
        \/ trigger[n] = "threshold_reached" /\ gs[n].count >= Threshold
        \/ /\ trigger[n] = "bypass_triggered" /\ Bypass
           /\ pc[n] \in Candidacy => gs[n].delinquent

\* The manager of n is standing down, or polls at this very instant.
Resigning(n) == pc[n] \in StandDown \/ (pc[n] = "idle" /\ wait[n] = 0)

\* As long as only one node has dropped out, two declared validators run with the
\* active identity, in gossip or cut off from it, only while the manager of one
\* of them is giving it up: a leader that loses gossip counts the same samples as
\* those that wait to replace it, and resigns at the poll at which the first of
\* them decides to take over (ensureHAState, ensurePassive).
OneHolder ==
    \A n, m \in Nodes :
        /\ n # m /\ identity[n] = "active" /\ identity[m] = "active"
        /\ Cardinality({k \in Nodes : ~linked[k]}) <= 1
        => Resigning(n) \/ Resigning(m)

\* A manager polls at the confirmation interval only while it is one sample
\* below the threshold, and has seen that sample (the comment in haMonitorLoop).
FastPollNearThreshold ==
    \A n \in Nodes : fast[n] /\ pc[n] = "idle" =>
        gs[n].count = Threshold - 1 /\ gs[n].count > 0

\* The path to a takeover is entered, and gone on with after the delay, only
\* while gossip shows no voting leader; after the delay also when it cannot
\* be read.
EntersLeaderless ==
    [][\A n \in Nodes :
        /\ pc[n] = "idle" /\ pc'[n] = "health" => Leaders(adverts, Verdict(FALSE)) = {}
        /\ pc[n] = "sleeping" /\ pc'[n] = "preActive" =>
               Leaders(adverts, Verdict(FALSE)) = {} \/ ~clusterRpc[n]]_vars

---------------------------------------------------------------------------
(* Liveness. *)

\* Nothing but its rank keeps n from taking over.
Eligible(n) ==
    /\ pc[n] # "down" /\ linked[n] /\ ghost[n] = "no"
    /\ healthy[n] /\ longEnough[n] /\ localRpc[n] /\ clusterRpc[n]

\* Again and again there is a voting leader, or nobody eligible to become one: a
\* cluster does not stay without a leader for ever.
LeaderReplaced == []<>(Voters # {} \/ ~\E n \in Nodes : Eligible(n))

\* A running manager whose node holds the active identity outside gossip.
Isolated(n) == identity[n] = "active" /\ ~linked[n] /\ pc[n] # "down"

\* No node that has dropped out of gossip keeps the active identity for ever,
\* unless there is no peer in gossip that could take over, or another node has
\* dropped out as well.
IsolatedStandsDown ==
    []<>(\A n \in Nodes :
           Isolated(n) => \/ \A m \in Nodes \ {n} : adverts[m] = {}
                          \/ \E m \in Nodes \ {n} : ~linked[m])
===========================================================================
