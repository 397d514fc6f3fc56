------------------------------- MODULE Replay -----------------------------
(***************************************************************************)
(* LoadReplayData: recordings merged into one timeline, and the downtime   *)
(* read from it. Of the timeline only what the downtime depends on is kept *)
(* here: the samples and the confirmed_active events. The files are of one *)
(* node, so no two of their samples share an instant and an order by name  *)
(* is not needed.                                                          *)
(***************************************************************************)
EXTENDS Naturals, Sequences, FiniteSetsExt, SequencesExt

\* The merged samples.
Merged(recordings) == UNION {ToSet(r.samples) : r \in recordings}

Led(samples) == {s \in samples : s.count = 0}

\* When the streak of leaderless samples is taken to begin: later samples with
\* a leader do not end it.
BeforeStreak(samples) ==
    {s \in Led(samples) : \A t \in samples \ Led(samples) : s.at < t.at}

\* Mutant of Starts: the downtime is counted from the first leaderless sample.
StartsLeaderless(samples) ==
    LET streak == samples \ Led(samples)
    IN  IF streak = {} THEN {} ELSE {Min({s.at : s \in streak})}

\* The last sample with a leader before the streak, if there is one.
Starts(samples) ==
    LET before == BeforeStreak(samples)
    IN  IF before = {} THEN {} ELSE {Max({s.at : s \in before})}

\* The last confirmed_active event; without one the first sample with a leader
\* after the streak began, if there is one.
Ends(recordings) ==
    LET samples   == Merged(recordings)
        confirmed == {r.confirmed : r \in recordings} \ {0}
        recovered == {s.at : s \in Led(samples) \ BeforeStreak(samples)}
    IN  IF confirmed # {} THEN {Max(confirmed)}
        ELSE IF recovered # {} THEN {Min(recovered)} ELSE {}

\* ReplayData.Downtime: the empty set if it is unknown.
Downtime(recordings) ==
    {span[1] - span[2] : span \in Ends(recordings) \X Starts(Merged(recordings))}
===========================================================================
