------------------------- MODULE HaManagerContest -------------------------
(***************************************************************************)
(* HaManager as a contest, as long as nodes fail only by dropping out of   *)
(* the cluster.  A manager reads gossip some time after the tick that made *)
(* its read due, and nothing it would find changes in between, so the      *)
(* mapping already counts a due read as done: the contest moves with the   *)
(* tick, and the manager's own step is a stutter.                          *)
(***************************************************************************)
EXTENDS HaManager

\* The faults and options under which the delays alone decide.
OnlyDropouts == Faults \subseteq {"drop"} /\ ~Bypass

\* A new leader is noticed when both gossip and the vote accounts show it.
NoticeLag == IF GossipLag < VoteLag THEN VoteLag ELSE GossipLag

Due(n) == pc[n] \in {"idle", "sleeping"} /\ wait[n] = 0

\* What n knows once a read that is due has happened: until the reads of an
\* instant are done, nothing changes what they find.
Known(n) == IF Due(n) THEN Refreshed(n, gs[n], FALSE) ELSE gs[n]

\* Everyone sees that n is active.
Shown(n) == "active" \in adverts[n] /\ votes = "current"

\* What a candidate checks of itself before it takes over.
Capable(n) == healthy[n] /\ longEnough[n]

\* The part of a node that is passive, and fit to take over.
ContenderStage(n) ==
    CASE pc[n] = "idle" /\ "passive" \in adverts[n] ->
             IF Due(n) /\ Known(n).count >= Threshold THEN "candidate" ELSE "calm"
      [] pc[n] \in Candidacy  -> "candidate"
      [] pc[n] = "sleeping"   ->
             IF ~Due(n) THEN "asleep" ELSE IF Known(n).count > 0 THEN "hot" ELSE "calm"
      [] pc[n] \in Takeover   -> "hot"
      [] OTHER                -> "out"

\* A node that dropped out still takes part until it knows, and loses nothing:
\* a leader has left the contest at once.
StageOf(n) ==
    IF identity[n] = "active"
    THEN IF ~linked[n] THEN "out" ELSE IF Shown(n) THEN "leader" ELSE "pending"
    ELSE IF Capable(n) THEN ContenderStage(n) ELSE "out"

\* The time until everyone sees a leader.
Unnoticed(n) ==
    LET inGossip == IF "active" \in adverts[n] THEN 0 ELSE lag[n]
        inVotes == IF votes = "current" THEN 0 ELSE voteLag
    IN  IF inGossip < inVotes THEN inVotes ELSE inGossip

\* A read that counts as done has already set the timer of the next.
LeftOf(n) ==
    CASE StageOf(n) = "pending" -> Unnoticed(n)
      [] StageOf(n) \in {"out", "leader"} -> 0
      [] StageOf(n) \in {"candidate", "hot"} /\ Due(n) -> EvalLag
      [] StageOf(n) = "calm" /\ Due(n) ->
             IF FastPolling /\ Known(n).count = Threshold - 1 THEN ConfirmPoll ELSE NextBoundary
      [] OTHER -> wait[n]

CountOf(n) == IF StageOf(n) = "calm" THEN Known(n).count ELSE 0

\* The rank that will delay n, or has delayed it.
RankAmong(n, view) == Rank(IF UsePriority THEN Nodes ELSE view.seen, Sorted(n), n)

RankOf(n) ==
    IF StageOf(n) \in {"candidate", "asleep"} THEN RankAmong(n, Known(n)) ELSE 0

Stage == [n \in Nodes |-> StageOf(n)]
Left == [n \in Nodes |-> LeftOf(n)]
Count == [n \in Nodes |-> CountOf(n)]
RankIn == [n \in Nodes |-> RankOf(n)]

\* What a refresh that is due would find.
Dark == Leaders(adverts, Verdict(FALSE)) = {}

NodeCount == Cardinality(Nodes)

Contest == INSTANCE TakeoverContest WITH
    stage <- Stage, left <- Left, count <- Count, rank <- RankIn, dark <- Dark

\* What the managers do is a contest: takeovers are decided by threshold, delay
\* and revalidation as TakeoverContest has it, and by nothing else
\* (evaluateFailover, delayTakeoverAsActive, armPollTimer).
ContestSpec == Contest!Spec

\* Managers are nominated together and take their turns one rank after the
\* other, a poll interval each, which the leader of a turn needs to be noticed
\* (armPollTimer, delayTakeoverAsActive).
ContestOnSchedule == Contest!OnSchedule
===========================================================================
