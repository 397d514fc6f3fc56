# solana-validator-ha in TLA+

`solana-validator-ha` runs beside each validator of a Solana high-availability
cluster. All validators of the cluster own the same *active* identity, and one
of them may vote with it. The managers do not talk to each other: each polls
gossip through RPC endpoints, counts the samples without a voting leader, and
when there are enough of them runs the operator's command that gives its own
validator the active identity. What keeps two nodes from doing so at once is
timing: aligned polls, a threshold, and a delay that grows with the rank of a
node. This directory models that, checks it with TLC, and proves it with TLAPS:
that there is one voter for any number of nodes and any timing with room for it,
and what each component guarantees whatever the timing.

Source paths below are relative to the repository.

## 1. Inventory

| Component | State it keeps | Operations | Talks to |
|---|---|---|---|
| **HA loop** `internal/ha/manager.go` | its position, the view it holds, a recorder for the failover in progress | `haMonitorLoop`, `runConfirmationPollLoop`, `ensureHAState`, `delayTakeoverAsActive`, `ensureActive`, `ensurePassive`, `initialize` | gossip state, local state, role commands, cache, ring |
| **Gossip state** `internal/gossip/state.go` | peers by name, `LeaderlessSamplesCount`, RPC, delinquency and undeclared-leader flags, vote key cache | `Refresh`, `isNodeActiveAndVoting`, `PeerIPRankMap`, predicates | cluster RPC client |
| **Local state** `internal/local/state.go` | `healthySince`, `minDurationReached`, `consecutiveUnhealthyCount`, under a mutex | `SampleSelf` (its own goroutine), `IsSelfHealthy`, `IsSelfHealthyLongEnough`, `IsSelfActive`, `IsSelfPassive` | local RPC client |
| **RPC client** `internal/rpc/clients.go` | last successful URL, cooldowns | `executeWithRetry`, `getURLsToTry` | endpoints |
| **Role commands and hooks** `internal/config/role.go`, `hooks.go`, `internal/command` | none | `RunCommand`, `RunPre`, `RunPost` | the operator's scripts |
| **Failover configuration** `internal/config/failover.go`, `config.go`, `peers.go` | the configuration | defaults, validation, clamping, `PeerIPPriorityRankMap` | everything reads it |
| **Status cache** `internal/cache` | one `State` behind a lock | `GetState`, `UpdateState`, `SetUpdateAvailable` | HA loop, update checker, metrics |
| **Metrics** `internal/prometheus` | gauges | `RefreshMetrics`, scrapes | cache |
| **Recording** `internal/recording` | ring of 20 samples, one recorder per failover, files | `Add`, `Snapshot`, `AddEvent`, `WriteAsync` | HA loop |
| **Replay** `internal/recording/replay.go`, `cmd/replay.go` | none | merges recordings into a report | files |
| **Update checker** `internal/updater` | none | periodic HTTP request | cache |
| **Loading, logging, identities, command line** | none | sequential I/O | |

What is hard about it:

* **Interleaving of nodes.** Nothing but time separates two takeovers; gossip
  shows a new leader only after a while.
* **Stale and mixed views.** A refresh that fails keeps the leaderless count and
  forgets the peers. The decision after a sleep rests on a second refresh. A
  refresh is several RPC calls, between which the cluster moves on.
* **Partial failure.** Hooks and commands fail before or after their effect,
  RPCs fail singly, a node is isolated or merely cannot see.
* **Timeouts.** A validator that does not answer delays health samples, a dead
  endpoint delays refreshes; both act on what was asked some time ago.
* **Files and goroutines that outlive their cause.** A recording is written
  after the loop has gone on, and maybe not to the end.
* **Nodes configured apart.** Ranks and intervals agree only if the files do.
* **Liveness.** The safeguards must not keep a cluster without a leader.

What makes each component correct:

* HA loop: one voter; a takeover and a stand-down only for their reason, which
  still holds when they happen; a leader is replaced; an isolated one resigns
  before another holds the identity.
* Gossip state: the view is that of one answer, whatever the order of its
  entries, and its parts agree; a voting leader is recognised.
* Rank: distinct ranks, distances of a poll interval.
* Local state: a streak is never longer than it was; sickness ends it in time.
* RPC client: a call fails only if there is nothing to be had, in bounded time.
* Recording: a file shows what was known when the failover was detected, and no
  file replaces another; replay does not understate the downtime.
* Metrics, cache: what is shown was true at one instant; neither of the two
  writers of the cache undoes the other.
* Role change: nothing runs before what must have succeeded.
* Configuration: what is accepted satisfies what every other part assumes, but for
  two gaps in the validation (section 5).

`PROJECT.json` lists the hazards one by one, each at its line, with the
properties that cover it or why none does.

## 2. Modules

| Module | Models | Proofs |
|---|---|---|
| `GossipView` | the meaning of one `Refresh` as a function on views | (in `HaManagerProofs`) |
| `TakeoverRank` | the rank maps | (in `FailoverConfigProofs`) |
| `HaManager` | all managers of a cluster, gossip, vote accounts, time and faults; extends the two above | `HaManagerProofs` |
| `TakeoverContest` | what threshold, delay and revalidation come to: a contest for the identity | (in `HaManagerContestProofs`) |
| `HaManagerContest` | `HaManager` as that contest: the refinement mapping | `HaManagerContestProofs` |
| `DocumentedClaims`, `MCHaManager` | a comment the code does not keep; values for TLC | |
| `GossipPromise` | what `Refresh` promises, over `GossipView` | |
| `GossipRefresh`, `MCGossipRefresh` | `Refresh` entry by entry and call by call | `GossipRefreshProofs` |
| `LocalHealth` | the health tracker, the mutex and the reading HA loop | `LocalHealthProofs` |
| `RpcClient`, `MCRpcClient`, `RpcClientClaims` | a call of the cluster RPC client; a claim of the README | `RpcClientProofs` |
| `SampleRing` | `recording.Ring` | (in `RecordingProofs`) |
| `SampleWindow` | what the ring promises: the last samples, in order | |
| `Recording`, `MCRecording` | samples, recorders, the goroutines that write, files, restarts | `RecordingProofs` |
| `Replay` | the downtime that `LoadReplayData` reads from recordings | |
| `StatusMetrics`, `MCStatusMetrics` | the cache and its two writers, the gauges, hooks and commands in order, the update checker | `StatusMetricsProofs` |
| `FailoverConfig`, `MCFailoverConfig` | from the files of several nodes to the values their managers run with | `FailoverConfigProofs` |

`GossipRefresh` implements `GossipPromise`, so `HaManager` may use the
functions of `GossipView` for a whole refresh. `HaManager` sees the streak of
`LocalHealth` as a Boolean that changes at any moment, a superset of what
`LocalHealth` allows, and an `RpcClient` as answering or not. `Recording` and
`StatusMetrics` look at one manager closely and leave the decisions, which
`HaManager` has, to chance. `FailoverConfig` ends in the values that
`HaManager`, `LocalHealth` and `TakeoverRank` assume of their constants, and names
the files for which it does not.

### HaManager

`pc[n]` is the place of node `n`'s goroutine in `ensureHAState`:

    idle -> health -> streak -> identity -> sleeping -> preActive -> runActive
      \-> prePassive -> runPassive -> confirmPassive

A step ends wherever the code waits for an RPC, a command or a timer, and so
wherever the cluster may change in between. `gs[n]` is the `gossip.State`,
`fast[n]` says that the loop is inside `runConfirmationPollLoop`, `trigger[n]`
is the recorder's first event, `status[n]` the cached failover status. `Poll`
is the refresh and all the early returns after it; `Return` is what the loop
does when `ensureHAState` is over, with the switch between the two polling
modes; `CheckIdentityAndDelay` and `WakeAndRevalidate` are the delay and the
checks behind it.

Gossip is `adverts`, the identities each host is listed with: `Publish` and
`Expire` bring it up to date, so a host is listed twice for a while, or not at
all. `votes` is what the vote accounts say of the active identity.

Time is discrete. `clock` is the position in a poll interval, `wait[n]` the
time until the next poll or wake-up, or what an evaluation under way may still
take. `Tick` is disabled while something is due. Three bounds say how late
things may be: `EvalLag` for an evaluation, `GossipLag` for gossip, `VoteLag`
for the vote accounts. Faults are actions of the environment, drawn from the set
`Faults`, `MaxFaults` of them in a behaviour.

Assumptions of the model:

* Without the fault `skew`, gossip does not change at the very instant of a
  poll, so managers that poll at one instant read the same answer.
* All claimants of one refresh get the same verdict: they share an identity and
  so its vote account, and a refresh of `HaManager` is one step.
* All nodes have the same configuration (the README of the repository asks for
  it); recording is on, so that `trigger` exists.
* Dry run is the outcome `noop` of a command: it succeeds and changes nothing.
* A poll that ends at one of the first returns takes no time, so confirmation polls
  of managers in step fall at one instant. In the code each starts its timer at the
  end of its own evaluation (manager.go:316).
* A command that a killed manager has started takes effect at that instant or not
  at all, never later.
* A manager that starts waits a full ticker period and then for a boundary.
* `LeaderlessSamplesCount` saturates at `MaxCount`, above the threshold.

### TakeoverContest and HaManagerContest

`TakeoverContest` leaves of a node its part in the contest, the time to its next
move, its count and its rank, and of the cluster whether gossip is dark:

    calm -> candidate -> asleep -> hot -> pending -> leader
                \----------------/ ^        (or out, at many places)

A calm node samples, at a boundary or at the confirmation poll (`Tick`); at the
threshold it is a candidate; the first takes over at once (`Advance`), another
sleeps its delay (`Sleep`) and wakes hot if gossip is still dark, calm if not
(`Tick` again); a hot node becomes a leader that nobody sees yet (`Win`), until
gossip and votes show it (`Settle`). The module says nothing of goroutines,
views, hooks or vote accounts.

`HaManagerContest` says where these are in `HaManager`. A read that is due counts
as done, since nothing changes what it will find before it happens (`Known`): so
the contest moves with the tick, and a poll is a stutter. The mapping is for
`OnlyDropouts`: no other fault, and no delinquency bypass. An undeclared leader that comes and
goes sends polls home before the threshold is looked at, and a restart begins a
count anew; both put counts out of step, and the contest has no such step.

### GossipRefresh

The state is that of `gossip.State`. `at` is the place in `Refresh` or in
`isNodeActiveAndVoting`; `todo` holds the entries left, walked in any order.
Between any two steps vote accounts fall behind, catch up, close, change owner
or are replaced, and the balance changes. `answer` and `found` record what a
refresh is about, for the refinement. `MaxClaims` is 1: gossip lists an
identity once. With two claimants of one identity and an account that falls
behind between their lookups, `PublishedSound` fails: one is a leader and the
other sets the delinquency flag.

### LocalHealth

The tracker's call is three steps: it asks (`Sample`), the validator judges its
health when it handles the request (`Judge`, the validator's own step), and the
answer is received (`CheckHealth`), up to `RpcTimeout` later. A call that takes longer
counts as an unhealthy sample (`TimeOut`). Only then the mutex is taken
(`RecordHealthy`, `RecordUnhealthy`); `IsSelfPassive`, which is called once per
streak, is a remote call under the mutex (`AnnounceEligible`). The ticker buffers
one tick and drops the rest. `calm` (time since the grace was last used up) and
`sick` (time since the validator was last healthy) are history variables.
`unhealthyLogged` gates only a log line and is left out.

### RpcClient

A deadline is kept as the time since the refusal that set it, so `sinceRefusal`
is both the cooldown map and the truth about it. `untried` and `active` are the
slices of `getURLsToTry`, which orders the URLs once, when a call begins;
`Class` and `Position` are the order. Endpoints change what they do at any
moment, also during a call. `steady` records which of them have answered
throughout the call. The URLs of the list are distinct. One goroutine, the HA
loop, uses the cluster client. The local client has a single URL, and two
goroutines use it without a lock: that data race is not modelled.

### Recording and Replay

`pc` follows `ensureHAState` through all its exits; at each one the recorder is
handed to a writer (`WriteAsync`) or dropped. A writer first truncates its file
(`Open`) and then fills it (`Write`); `Crash` may come in between and takes
everything but the files. What a refresh finds is one of five `Findings`.
`aborted_delay_error` is not among the `Results`: a node that is in gossip always
has a rank. `polls` and `finished` are history variables. `SampleRing` follows
`ring.go` slot by slot, and `Window` is the refinement mapping to `SampleWindow`.
`MCRecording` reads the files of `Recording` back with `Replay`. `Replay` takes
the recordings of one node, whose samples all have times of their own.

The assumption `WholeSeconds` says that a poll interval is a multiple of a
second. The configuration does not ask for it; without it two failovers can be
detected within one second and share a file name.

### StatusMetrics

The steps of `refreshMetrics` are `AskActive`, `AskPassive`, `AskHealthy` and
`Publish`, those of `RefreshMetrics` are `ReadCache` and `Export`; a scrape, or a
restart of the validator, may fall between any two. `StartChange` to
`RunPostHook` are `ensureActive` and `ensurePassive`, which differ in the role.
Whether a poll leads there is left open. The update checker is `StartCheck` and
`EndCheck`. `during`, `failed` and `shown` are history variables: which identities
the validator had while it was asked, whether a call failed, and whether the
role on display follows from these.

### FailoverConfig

`file` is what the operators wrote, one file for each node, `cfg` what
`Initialize` and `Manager.Run` make of it. Peers are sets of records with
different names. That all the rest of a file is in order is a nondeterministic
choice, and so is the public address lookup. `Agreed` says what an operator has
to see to: the same priorities by address and one poll interval in both files,
and no peer with the node's own name.

## 3. Runs

| Run | Checks | Size |
|---|---|---|
| `RankedByIP` | `AtMostOneVoter`, `TakeoverExclusive`, `ContestOnSchedule`, `ContestSpec` (refinement), `OneHolder`, and `LeaderReplaced`, `IsolatedStandsDown` under fairness: three nodes, refreshes, commands and gossip lag, two nodes drop out | 0.26 M states |
| `RankedByPriority` | `AtMostOneVoter`, `FastPollNearThreshold`: priorities, a confirmation poll, votes that lag, an undeclared leader | 0.65 M |
| `AnyFaults` | what holds of each manager under two faults of any kind: `ViewsSound`, `NoLeaderInView`, `FailoverJustified`, `EntersLeaderless` | 1.4 M |
| `GossipRefresh` | `PromiseKept` (refinement), `PublishedSound`, `VotingLeaderKept` | 0.63 M |
| `LocalHealth` | `StreakCredible`, `SicknessNoticed`, `EventuallyEligible`, `LoopAnswered` | 0.14 M |
| `RpcClient` | `HealthyFirst`, `NoFalseFailure`, `CallBounded` | 1.2 M |
| `Recording` | `WindowKept` (refinement), `ContextFrozen`, `RecordingSurvives`, `DowntimeNotUnderstated` | 1.5 M |
| `StatusMetrics` | `UpdateFlagKept`, `RoleShownWasTrue`, `TransitionGated`, `RoleCatchesUp` under fairness | 0.10 M |
| `FailoverConfig` | `RunsAsAssumed`, `TakeoversSpaced` for pairs of files | 0.13 M |
| `FailedHook`, `BlindRevalidation`, `LocalFallback` | one documented claim each, which the code does not keep (section 5) | |

`AnyFaults`, `GossipRefresh`, `LocalHealth`, `RpcClient`, `Recording` and
`StatusMetrics` also check the type invariant of their module.

**Bounds.** Three nodes are the least with ranks 0, 1 and 2, where a sleeper can
wake into the takeover of another sleeper. Two faults reach a second failover
during the first. A threshold of 2 or 3 has samples below, at and above it; the
count saturates one above it. The poll interval is 4 where lags matter, so that
`2 * EvalLag + GossipLag < PollInterval`: an evaluation at one end, one at the
other and gossip between them. With a smaller interval `AtMostOneVoter` fails.
`Room` is this inequality for any constants, and what an operator has to provide:
the slower of gossip and votes counts, a confirmation poll comes on top, the
threshold is above 1, and there are at most `Threshold + 1` nodes, `Threshold`
with a confirmation poll. The last condition is needed, too: with `Threshold + 2`
nodes a node that gave up early is nominated again before the last rank has had
its turn, and TLC finds `TakeoverExclusive` violated. Two faults of twelve kinds on two nodes reach all
pairs of faults at all pairs of moments. `GossipRefresh` has two declared hosts
and a stranger, each listed under none, one or both identities, and two vote
accounts, one to fall behind and one to replace it. `LocalHealth` has a timeout
longer than the sampling interval, a streak of three samples and health that
changes four times, enough to reach the bound of `SicknessNoticed` itself; ages
saturate above every bound that a property mentions. `RpcClient` has three URLs,
so that one is tried first, one is spared and one is between them, and
a cooldown that ends within the longest call. `Recording` has a ring of four
samples that wraps twice, failovers that follow each other at the confirmation
interval, one restart and eight seconds; refreshes and role changes take no time
or more than a second. `StatusMetrics` has two pre hooks, the one that must
succeed first, and one post hook: enough for an error that a later hook hides.
`FailoverConfig` has two nodes of three with every combination of priorities and
two names for a peer, and for one node every combination of durations below, at
and above zero and the floor, with graces on both sides of zero.

**Identities and votes.** `OneHolder` looks at the identities validators run with, in
gossip or not: the leader that drops out counts the same samples as its peers and
resigns at the poll at which the first of them decides. It needs counts in step, and
so is stated while one node is out. When two are, it fails: the next leader starts
from a count of zero, and if it drops out too, a node that was asleep takes over
before it has counted to the threshold; then it sees a leader, and never resigns,
which `IsolatedStandsDown` excepts. `AtMostOneVoter` is about votes and does not notice.

**Which faults one voter survives.** `AtMostOneVoter` holds under drop-outs and
undeclared leaders. It does not hold when a node is back in gossip with an old
active identity, stops and resumes voting, or when a takeover fails and is tried
again, a manager restarts or views are skewed: these put the counts of the nodes
out of step, and nothing but the counts and the delays keeps them apart. The
managers cannot fence a validator. So those runs leave out these faults, and
`AnyFaults` checks what a single manager guarantees under all of them.

**Fairness.** In `HaManager`, weak fairness of everything but faults and recovery taken
together: a running system does not stop. Nothing more is needed, because time waits
for what is due, so that each goroutine, gossip and the vote accounts have their turn.
Go runs the goroutines, RPCs time out, the network catches up, and commands are
assumed to return although `command.Run` has no timeout. In `LocalHealth`, weak
fairness for the tracker, the read of the streak and time. Without it a manager may
sleep for ever.
In `StatusMetrics`, for the steps of the HA loop alone, because its RPC calls have
a timeout; nothing is assumed of hooks and commands, which have none, and
`RoleCatchesUp` excepts a loop that waits for one for ever.

Deadlock is checked in every run but `FailoverConfig`, whose nodes are done once
they run or have been rejected.

**Mutants.** Each property of a passing run has a mutated definition next to the
original that breaks it: a count that is not reset, a check after the delay left
out, a rank off by one, a cache entry never looked up afresh, a cooling URL
skipped instead of put last, a timeout that counts as no sample, a mutex kept, a snapshot that forgets that the ring
wraps, a flag written back, a peer's priority not compared with the node's own.

## 4. Proofs

All theorems hold for any number of nodes, thresholds, intervals and lags; the
named assumptions (`NodesAssumption`, `ThresholdAssumption`, ...) are in the
modules that declare the constants, and TLC evaluates them.

* **`HaManagerProofs`.** The inductive invariant `IInv` is `TypeOK` and, for each
  node, `NodeInv(pc, gs, trigger)`: the view is sound, and what the location says
  about it holds (leaderless on the way to a takeover, and justified). It relates only variables of one manager, so a step of another
  node or of the environment keeps it by leaving them alone
  (`EnvironmentNodeInv`), and a step of the manager is a case for each location
  (`ManagerNodeInv`) on top of two lemmas on `Refreshed`. `ViewsSound` has to be
  part of it: that a count of zero aborts a takeover protects a leader only
  because a view with a leader has a count of zero. From `IInv` follow
  `TypeCorrect`, `ViewsAreSound`, `TakeoverSeesNoLeader`,
  `FailoverStaysJustified`, and the action property
  `TakeoverEntersLeaderless`. `FastPollsAreConfirmations` has an invariant of its
  own, what `Return` leaves behind, and assumes a threshold above 1 (see section 5).
* **`HaManagerContestProofs`.** `OneVoter` and `OneTakeover`: `AtMostOneVoter` and
  `TakeoverExclusive` under the hypotheses `OnlyDropouts` and `Room`, and nothing
  else about the constants. The argument has two halves.
  `ContestExclusive`: a contest has one winner. The invariant is `OnSchedule`. There is a
  `phase`, the position in the poll interval at which the round's candidates were nominated,
  and a `turn`, the number of boundaries since. Calm nodes are in step; sleepers
  of rank `r` wake when it is turn `r`; a busy node has its turn to itself and is noticed before
  the next; no calm node can be nominated before the last sleeper has
  had its turn (`CalmLater`). Exclusion alone is not inductive: that the next rank
  sees the leader depends on when it wakes, and so on the counts of everyone.
  A tick that nominates (`TickNominates`) begins a round with everybody in it, because
  all are in step (`NominationClears`); one that does not may pass the turn on
  (`TurnPasses`). `NominatedAfterRound` is where the number of nodes matters.
  `ManagersContest`: `HaManager` implements the contest. The invariant
  `ContenderInv` is `IInv` and what holds while nodes only drop out: no RPC fails,
  who is asleep or taking over is passive and capable, a leader nobody sees yet waits for the
  next boundary. Each action is a lemma: a manager's step moves its own node or
  none (`ManagerRefines`), gossip, votes and drop-outs are `Settle`
  (`PublishRefines` to `DropRefines`), time is `Tick` (`TickRefines`). The refinement needs the
  schedule, too: a leader's own next poll must find it noticed (`TickKeepsContenders`).
  So both invariants go in one induction (`OnSchedule`), and
  `ContestStaysOnSchedule` states the second of the manager itself.
* **`GossipRefreshProofs`.** `RefreshKeepsPromise`: the walk implements
  `GossipPromise`. The invariant describes the partial result: a host not in
  `todo` is in `latest` as `GossipView` says, and the new flags are those of the
  claimants walked so far. `Publish` is then `Answered`, `BeginFailed` is `Failed`,
  and all other steps stutter. `PublishedIsSound` assumes `MaxClaims = 1`:
  a single claimant settles both its leadership and the flags (`LoneClaimant`).
  `VotingLeaderIsKept` follows from where a lookup stands (`LookupInv`). And
  `TypeCorrect`.
* **`LocalHealthProofs`.** `TypeCorrect`, `StreakIsCredible` and
  `AnnouncementIsInTime` (of a log line, and so in no run). The invariant: a streak is not older than `calm`; the
  bound on rounding is a lemma. `SicknessIsNoticed`: samples follow each other
  promptly (`Prompt`); an ill validator's last healthy verdict was given before it
  fell ill, so it is at most a timeout old when it arrives, and another timeout may
  pass under the announcement (`Fresh`); from then on an ill validator
  with a streak has been ill no longer than its unhealthy samples and the one
  under way can take (`OnTime`). The sum is `Notice`.
* **`RpcClientProofs`.** `TypeCorrect`, `FailureIsReal`, `CallIsBounded`, `HealthyAreFirst`.
  `CurrentIsFirst` shows that the order always has a first URL
  (least class, then least position). The invariant: steady URLs are still
  untried, what `active` says about the untried URLs stays true, and every URL
  given up has used at most its timeout.
* **`RecordingProofs`.** `TypeCorrect` and, for every size of the ring,
  `WindowIsKept`: each `Add` makes the snapshot the last samples of the old
  snapshot and the new one. The type of the ring is invariant enough. Two cases, a
  ring with room (`AddWithRoom`) and a full one (`AddWhenFull`), rest on lemmas about
  positions modulo the size, which the prover takes one at a time.
  `RecordingsSurvive`: the invariant `NamesInv` says that every name is taken
  once, by a second that is not in the future, and lies before `NextName`, the
  first name a failover still to be handed over can have. It rests on
  `WholeSeconds` and on lemmas on division: a confirmation poll or the next
  boundary is in a later second (`ReturnLater`).
  `ContextIsFrozen`: the invariant `FrozenInv` ties the ring to the samples its
  run has polled so far, and every recorder, in the loop's hands, a writer's or
  on disk, to the prefix polled when it was made; only the revalidation may have
  appended to it. `PollsInOrder` makes that prefix unique: samples are ordered in
  time, over restarts too (`TimesInv`). `DowntimeIsNotUnderstated` adds what a
  recording on disk holds (`SolidInv`): its samples and events in order, the
  confirmation after them, and a lemma that bounds the earliest leaderless start
  and the last led sample by each other.
* **`StatusMetricsProofs`.** `TypeCorrect`, `UpdateFlagIsKept`, `RoleShownIsTrue`,
  `TransitionIsGated`, `FailoverStatusStaysIdle`, for any list of hooks. The
  invariant says for each location what the loop's copy of the cache holds and
  how it is justified by what has been asked since the poll began.
* **`FailoverConfigProofs`.** `RanksDistinct`, `RankZeroIsFirst`, `DelaysApart`: with
  distinct keys, ranks are distinct, one node has rank 0 and delays differ by a
  poll interval. `StartsSound` and `TakeoversAreSpaced`, for any number
  of nodes and peers. The first shows what `HaManager` and `LocalHealth` assume of
  their constants (`TimingAssumed`, `HealthAssumed`, `PeersAssumed`) of every manager
  that runs, under two conditions that it states, because the code lets other files
  through: a poll interval not below the floor, a grace not negative. The invariant relates each configuration to its file by
  stages. The second rests on `KeysDistinct` (an accepted file's priorities are
  distinct natural numbers), `SelfChangesNothing` (the node's own entry does not
  change them) and `DelaysApart`.

**Only model-checked:** liveness (`LeaderReplaced`, `IsolatedStandsDown`,
`EventuallyEligible`, `LoopAnswered`, `RoleCatchesUp`), and `AtMostOneVoter` with an
undeclared leader that comes and goes (`RankedByPriority`), which is outside the
contest. Liveness, `ENABLED` and induction over data are outside what TLAPS proves
here.

## 5. Findings

1. **A failed pre-active hook meets the next rank** (`FailedHook`). The rank-0
   node returns at manager.go:709 and tries again a poll interval later, when
   the rank-1 node wakes. Both become active, against manager.go:506 and
   integration/README.md:31.
2. **Revalidation without a view** (`BlindRevalidation`). If `getClusterNodes`
   fails in the refresh after the delay, the count keeps its old value, and the
   check at manager.go:551 lets the takeover go on.
3. **The local RPC is no last resort** (`LocalFallback`). README.md:448 says that a
   local RPC is reached only if all remote calls fail; `getURLsToTry` puts whatever
   answered last behind it (clients.go:99-117). With one remote URL the two take turns.

Seen on the way, without a run:

* A failed refresh counts no sample, so a leader that loses gossip and RPC
  together returns at manager.go:430 for ever. The stand-down of manager.go:449
  needs a count that was at the threshold before. A leader that was alone in
  gossip when it dropped out is spared ("last node standing"); when a peer comes
  back and takes over, it sees that leader and never stands down either, against
  README.md:50.
* A confirmation poll is compared with the poll interval first (failover.go:67) and
  raised to a second afterwards (config.go:210), so a poll interval below a second
  ends up below it, against README.md:228. `RunsAsAssumed` states that it is the only
  such case.
* A grace of zero becomes one (failover.go:251), against README.md:279; a negative
  one, which nothing rejects, does what zero should.
* The last node in gossip is spared only while it can read gossip: a node that does
  not see itself because of an RPC error, with its count past the threshold, stands
  down whoever else is left (manager.go:450).
* A validator that falls ill during its takeover delay is made active: health is
  checked before the delay only. A sleeping node may take over from a second
  leader after one leaderless sample, while that leader still holds the identity.
* With a threshold of 1 the loop polls fast whenever there is a leader
  (manager.go:294 compares with 0).
* A failed stand-down is not retried once a new leader is seen; the extra refresh
  of `ensurePassive` counts a sample that other nodes do not have.
* A negative poll interval passes validation (failover.go:57) and `NewTicker`
  panics.
* A peer with the node's own `validator.name` is replaced by the node (manager.go:141);
  with priorities, both nodes may then find themselves at rank 0. Nodes with
  different poll intervals can have equal delays. Two notations of one address
  pass as two. Neither `Hooks.Validate` nor `Role.Validate` is called, so a post
  hook that must succeed is accepted.
* The failover status gauge never leaves `idle`: it is exported only right after
  the status was set to it. The metadata series is absent between `Reset` and
  `Set`. `update_available` is set by the periodic check only, not on start-up
  (README.md:590). The peer count includes the node itself, against metrics.go:99.
* A failover ends without a recording if the node is active already, is not in
  gossip, or finds an undeclared leader after its delay; two of the results that
  event.go:55 lists are never written.
* Replay takes a sample whose refresh failed with a count of 0 for one with a
  leader, and an earlier leaderless blip for the beginning of the outage.

## 6. Not modelled, and the plan

Not modelled: parsing of the configuration, key files, the public IP lookup,
templates, logging, flags, the example script, the HTTP servers, the comparison
of version numbers, the rendering of a replay, the integration and demo servers.
These are sequential I/O or presentation without state of their own. The data
race on the local RPC client is left to the Go runtime's rules.

Modules were written in this order, the most important behaviour first:
`GossipView`, `TakeoverRank`, `HaManager`, `GossipRefresh`, `LocalHealth`,
`RpcClient`, `Recording`, `Replay`, `StatusMetrics`, `FailoverConfig`, each with its
proofs, and then `TakeoverContest` with `HaManagerContest`. Left to prove:

1. `AtMostOneVoter` with undeclared leaders, as in `RankedByPriority`: a contest in
   which a poll may be sent home, for all nodes at once.
2. The contest under faults that leave the counts in step, such as a dry run of the
   active command.
