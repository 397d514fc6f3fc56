----------------------------- MODULE Recording ----------------------------
(***************************************************************************)
(* What one manager writes down of its failovers: the ring of the samples  *)
(* it polls, the Recorder that each failover carries along, the goroutines *)
(* that write the finished ones to disk, and the files they leave. What    *)
(* gossip shows and what becomes of a takeover is the environment's        *)
(* choice; HaManager has the decisions themselves.                         *)
(*                                                                         *)
(* Time counts in fractions of a second, Second of them in each, because a *)
(* file is named after the second its failover was detected in.            *)
(***************************************************************************)
EXTENDS Naturals, Sequences, SampleRing

CONSTANTS
    Second,         \* units of time in a second
    PollInterval,   \* failover.poll_interval_duration
    ConfirmPoll,    \* failover.leaderless_confirmation_poll_duration
    Threshold,      \* failover.leaderless_samples_threshold
    Bypass,         \* failover.delinquency_bypass
    MaxRank,        \* bound: the lowest rank the node may find itself at
    Durations,      \* bound: the times a refresh, or a change of role, may take
    MaxRestarts,    \* bound: how often the manager is killed
    MaxTime         \* bound: the time at which the runs end

ASSUME TimesAssumption ==
    /\ {Second, PollInterval, ConfirmPoll, Threshold} \subseteq Nat \ {0}
    /\ {MaxRank, MaxRestarts, MaxTime} \cup Durations \subseteq Nat
ASSUME BypassAssumption == Bypass \in BOOLEAN

\* A file can hold one recording for each second only if no two polls share one.
ASSUME WholeSeconds == PollInterval % Second = 0 /\ ConfirmPoll >= Second

VARIABLES
    now,
    pc,         \* where the HA loop is
    wait,       \* time until its timer fires or what it waits for returns
    count,      \* gossip.State.LeaderlessSamplesCount
    ring,       \* Manager.ring
    rec,        \* the recorder of the evaluation under way
    writers,    \* the goroutines of WriteAsync
    files,      \* what is on disk under each name
    \* history
    polls,      \* the samples polled in each run of the manager
    finished,   \* when the failovers were detected that ended with an outcome
    restarts

loop == <<pc, wait, count, ring, rec>>
disk == <<writers, files>>
history == <<polls, finished>>
vars == <<now, loop, disk, history, restarts>>

Times == 0 .. MaxTime
Runs == 0 .. MaxRestarts
Samples == [at : Times, count : Nat, rpcError : BOOLEAN]
ZeroSample == [at |-> 0, count |-> 0, rpcError |-> FALSE]

Results == {"became_active", "became_active_unconfirmed", "aborted_peer_took_over",
            "aborted_not_healthy", "aborted_not_healthy_long_enough"}

\* A FailoverEvent: when it was detected, what was seen, the confirmed_active
\* event of its timeline (0 for none) and its outcome.
Recordings == [detected : Times, samples : Seq(Samples), confirmed : Times,
               result : Results \cup {"none"}]
NoRecorder == [detected |-> 0, samples |-> <<>>, confirmed |-> 0, result |-> "none"]

\* A file is torn from when it is truncated until it is written, and stays so
\* if the writer is killed in between.
Files == [state : {"none", "torn", "written"}, recording : Recordings]
NoFile == [state |-> "none", recording |-> NoRecorder]
TornFile == [state |-> "torn", recording |-> NoRecorder]

\* Mutant of FileName: two seconds share a name.
FileNameCoarse(recording) == (recording.detected \div Second) \div 2

\* The part of a file name that tells a node's recordings apart.
FileName(recording) == recording.detected \div Second
Names == {t \div Second : t \in Times}

\* What a refresh finds: a declared leader, an undeclared one, none, one that
\* does not vote, or an RPC error.
Findings == {"leader", "undeclared", "leaderless", "delinquent", "error"}

TypeOK ==
    /\ now \in Times
    /\ pc \in {"down", "idle", "polling", "candidate", "sleeping", "takeover", "standDown"}
    /\ wait \in Nat
    /\ count \in Nat
    /\ ring \in [samples : [Slots -> Samples], head : Slots, size : 0 .. RingSize]
    /\ rec \in Recordings
    /\ writers \subseteq [recording : Recordings, opened : BOOLEAN]
    /\ files \in [Names -> Files]
    /\ polls \in [Runs -> Seq(Samples)]
    /\ finished \subseteq Times
    /\ restarts \in Runs

\* The recordings that can be read from disk.
OnDisk == {files[f].recording : f \in {g \in Names : files[g].state = "written"}}

---------------------------------------------------------------------------
(* The pieces of ensureHAState that the recording depends on. *)

FastPolling == ConfirmPoll < PollInterval
NextBoundary == PollInterval - (now % PollInterval)

\* LeaderlessSamplesCount after a refresh: an RPC error leaves it as it was.
Counted(c, finding) ==
    CASE finding \in {"leaderless", "delinquent"} -> c + 1
      [] finding = "error" -> c
      [] OTHER -> 0

SampleOf(c, finding) == [at |-> now, count |-> c, rpcError |-> finding = "error"]

\* The samples reach the threshold, or the bypass is enabled and triggered.
FailoverRequired(c, finding) ==
    finding # "undeclared" /\ (c >= Threshold \/ (Bypass /\ finding = "delinquent"))

\* Mutant of NewRecorder: the ring is copied before the poll's sample is added.
NewRecorderStale(r) == [NoRecorder EXCEPT !.detected = now, !.samples = Snapshot(ring)]

\* recording.New: seeded with a copy of the ring.
NewRecorder(r) == [NoRecorder EXCEPT !.detected = now, !.samples = Snapshot(r)]

\* Return to the monitor loop, which polls at the confirmation interval while
\* the count is one below the threshold.
Return ==
    /\ pc' = "idle"
    /\ wait' = IF FastPolling /\ count' = Threshold - 1 THEN ConfirmPoll ELSE NextBoundary
    /\ rec' = NoRecorder

\* Recorder.WriteAsync: the recording is finished and a goroutine takes it.
WriteAsync(recording, result) ==
    /\ writers' = writers \cup {[recording |-> [recording EXCEPT !.result = result],
                                 opened |-> FALSE]}
    /\ finished' = finished \cup {recording.detected}

DropRecorder == UNCHANGED <<writers, finished>>
---------------------------------------------------------------------------
(* The HA loop. *)

\* The timer of the monitor loop fires.
StartPoll ==
    /\ pc = "idle" /\ wait = 0
    /\ pc' = "polling" /\ wait' \in Durations
    /\ UNCHANGED <<now, count, ring, rec, disk, history, restarts>>

\* Refresh, ring.Add, and the decision whether a failover is required. A node
\* that does not see itself, as after any RPC error, stands down or skips it.
Poll ==
    /\ pc = "polling" /\ wait = 0
    /\ \E finding \in Findings :
        LET c == Counted(count, finding)
            r == Add(ring, SampleOf(c, finding))
        IN  /\ count' = c
            /\ ring' = r
            /\ polls' = [polls EXCEPT ![restarts] = Append(@, SampleOf(c, finding))]
            /\ IF FailoverRequired(c, finding)
               THEN \/ /\ finding # "error"
                       /\ pc' = "candidate" /\ rec' = NewRecorder(r) /\ UNCHANGED wait
                    \/ pc' = "standDown" /\ rec' = NewRecorder(r) /\ wait' \in Durations
                    \/ finding # "error" /\ Return
               ELSE Return
    /\ UNCHANGED <<now, disk, finished, restarts>>

\* ensurePassive, with the refresh at its end if the node is found passive.
\* It returns without writing the recording.
EndStandDown ==
    /\ pc = "standDown" /\ wait = 0
    /\ count' \in {count} \cup {Counted(count, f) : f \in Findings}
    /\ Return
    /\ UNCHANGED <<now, ring, disk, history, restarts>>

\* Not healthy, or not for long enough.
AbortUnhealthy ==
    /\ pc = "candidate"
    /\ \E result \in {"aborted_not_healthy", "aborted_not_healthy_long_enough"} :
           WriteAsync(rec, result)
    /\ UNCHANGED count
    /\ Return
    /\ UNCHANGED <<now, ring, files, polls, restarts>>

\* The node is active already: nothing is written.
AlreadyActive ==
    /\ pc = "candidate"
    /\ UNCHANGED count
    /\ Return
    /\ UNCHANGED <<now, ring, disk, history, restarts>>

\* The rank decides on the delay.
Delay ==
    /\ pc = "candidate"
    /\ \E rank \in 0 .. MaxRank :
        IF rank = 0
        THEN pc' = "takeover" /\ wait' \in Durations
        ELSE pc' = "sleeping" /\ wait' = rank * PollInterval
    /\ UNCHANGED <<now, count, ring, rec, disk, history, restarts>>

\* The refresh after the delay: its sample goes to the recorder, not the ring.
Revalidate ==
    /\ pc = "sleeping" /\ wait = 0
    /\ \E finding \in Findings :
        LET c == Counted(count, finding)
            r == [rec EXCEPT !.samples = Append(@, SampleOf(c, finding))]
        IN  /\ count' = c
            /\ \/ /\ finding = "undeclared"
                  /\ Return /\ DropRecorder
               \/ /\ finding # "undeclared" /\ c = 0
                  /\ WriteAsync(r, "aborted_peer_took_over") /\ Return
               \/ /\ c > 0
                  /\ pc' = "takeover" /\ wait' \in Durations /\ rec' = r
                  /\ DropRecorder
    /\ UNCHANGED <<now, ring, files, polls, restarts>>

\* ensureActive is through, and the local RPC confirms the role or does not.
EndTakeover ==
    /\ pc = "takeover" /\ wait = 0
    /\ \/ WriteAsync([rec EXCEPT !.confirmed = now], "became_active")
       \/ WriteAsync(rec, "became_active_unconfirmed")
    /\ UNCHANGED count
    /\ Return
    /\ UNCHANGED <<now, ring, files, polls, restarts>>

---------------------------------------------------------------------------
(* The writers. *)

\* os.WriteFile opens and truncates the file ...
Open(w) ==
    /\ ~w.opened
    /\ files' = [files EXCEPT ![FileName(w.recording)] = TornFile]
    /\ writers' = (writers \ {w}) \cup {[w EXCEPT !.opened = TRUE]}
    /\ UNCHANGED <<now, loop, history, restarts>>

\* ... and writes it.
Write(w) ==
    /\ w.opened
    /\ files' = [files EXCEPT ![FileName(w.recording)] =
                     [state |-> "written", recording |-> w.recording]]
    /\ writers' = writers \ {w}
    /\ UNCHANGED <<now, loop, history, restarts>>

---------------------------------------------------------------------------
\* The manager is killed, its writers with it.
Crash ==
    /\ pc # "down" /\ restarts < MaxRestarts
    /\ pc' = "down" /\ wait' = 0 /\ count' = 0
    /\ ring' = NewRing(ZeroSample) /\ rec' = NoRecorder
    /\ writers' = {}
    /\ finished' = {d \in finished : \E r \in OnDisk : r.detected = d}
    /\ restarts' = restarts + 1
    /\ UNCHANGED <<now, files, polls>>

\* The first refresh of a run is not sampled, and its first poll is at a
\* boundary after the ticker's first tick.
Start ==
    /\ pc = "down"
    /\ pc' = "idle"
    /\ wait' = PollInterval + NextBoundary
    /\ \E finding \in Findings : count' = Counted(0, finding)
    /\ UNCHANGED <<now, ring, rec, disk, history, restarts>>

Tick ==
    /\ now < MaxTime
    /\ wait > 0
    /\ now' = now + 1
    /\ wait' = wait - 1
    /\ UNCHANGED <<pc, count, ring, rec, disk, history, restarts>>

\* While the manager is down time is of no interest until it starts again.
Down ==
    /\ pc = "down" /\ now < MaxTime
    /\ now' = now + 1
    /\ UNCHANGED <<loop, disk, history, restarts>>

\* The horizon of the run.
Over == now = MaxTime /\ UNCHANGED vars

Init ==
    /\ now = 0
    /\ pc = "down" /\ wait = 0 /\ count = 0
    /\ ring = NewRing(ZeroSample) /\ rec = NoRecorder
    /\ writers = {} /\ files = [f \in Names |-> NoFile]
    /\ polls = [run \in Runs |-> <<>>] /\ finished = {} /\ restarts = 0

Next ==
    \/ StartPoll \/ Poll \/ EndStandDown
    \/ AbortUnhealthy \/ AlreadyActive \/ Delay \/ Revalidate \/ EndTakeover
    \/ \E w \in writers : Open(w) \/ Write(w)
    \/ Crash \/ Start
    \/ Tick \/ Down \/ Over

Spec == Init /\ [][Next]_vars

---------------------------------------------------------------------------
\* The ring, wrapped or not, holds the last samples that were polled, in their
\* order (Ring.Add and Ring.Snapshot).
Window == INSTANCE SampleWindow
    WITH window <- Snapshot(ring), WindowSize <- RingSize, Samples <- Samples
WindowKept == Window!Spec

\* What the node had polled by the poll at time t, in the run it was of: one
\* sequence, as no two polls share a time.
PolledBy(t) ==
    UNION {{SubSeq(polls[run], 1, i) :
                i \in {j \in DOMAIN polls[run] : polls[run][j].at = t}} : run \in Runs}

\* A recording on disk shows what the node had seen when it detected the
\* failover, whatever it has polled since and however late the file was
\* written; only the revalidation's sample may follow it.
ContextFrozen ==
    \A r \in OnDisk : \E polled \in PolledBy(r.detected) :
        LET context == Window!LastOf(polled, RingSize)
            n == Len(context)
        IN  /\ n <= Len(r.samples) /\ Len(r.samples) <= n + 1
            /\ SubSeq(r.samples, 1, n) = context

\* A failover that ended with an outcome is on disk or on its way there, until
\* the manager is killed with it: no other recording takes its file name.
RecordingSurvives ==
    \A d \in finished :
        \/ \E r \in OnDisk : r.detected = d
        \/ \E w \in writers : w.recording.detected = d
===========================================================================
