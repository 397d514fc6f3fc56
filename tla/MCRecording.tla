---------------------------- MODULE MCRecording ---------------------------
(***************************************************************************)
(* The recordings a manager leaves on disk, read back by replay.           *)
(***************************************************************************)
EXTENDS Recording, Replay

\* The last sample with a leaderless count of zero, if there is one, that the
\* node had polled when it detected the failover.
LastLed(r) ==
    LET led == {s.at : s \in Led(UNION {ToSet(polled) : polled \in PolledBy(r.detected)})}
    IN  IF led = {} THEN {} ELSE {Max(led)}

\* The downtime replay prints for a takeover is never shorter than the time
\* from the last sample with a leader to confirmed_active, and it is that time
\* unless the recorded context holds an earlier leaderless streak, too.
DowntimeNotUnderstated ==
    \A r \in OnDisk : r.result = "became_active" =>
        \A d \in Downtime({r}), led \in LastLed(r) :
            /\ d >= r.confirmed - led
            /\ (\A s \in ToSet(r.samples) : s.at < led => s.count = 0)
                   => d = r.confirmed - led
===========================================================================
