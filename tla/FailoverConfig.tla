--------------------------- MODULE FailoverConfig -------------------------
(***************************************************************************)
(* From the failover section of a node's file to the values its manager    *)
(* runs with: defaults, validation, the values raised to a floor, and what *)
(* the manager checks and adds when it starts. Every node has a file of    *)
(* its own, and what the other modules assume of the nodes as a whole, one *)
(* poll interval and one order of priorities, is up to the files.          *)
(***************************************************************************)
EXTENDS Integers, TakeoverRank

CONSTANTS
    Nodes,
    Names,          \* validator.name and the names of peers
    Hosts,          \* what is written for the address of a peer
    Addresses,      \* what net.ParseIP takes for an IPv4 address
    IP,             \* IP[n]: the public address of n
    Floor,          \* leaderlessConfirmationPollFloor
    DefaultPoll, DefaultThreshold, DefaultMinimum, DefaultHealthPoll,
    None,           \* a priority that is left out
    Files           \* what the files of all the nodes may be, by node

ASSUME FloorAssumption ==
    {Floor, DefaultPoll, DefaultThreshold, DefaultMinimum, DefaultHealthPoll}
        \subseteq Nat \ {0}
ASSUME IPAssumption ==
    /\ Addresses \subseteq Hosts
    /\ \A n \in Nodes : IP[n] \in Addresses
    /\ \A n, m \in Nodes : IP[n] = IP[m] => n = m
ASSUME NoneAssumption == None \notin Int

\* Zero is what is left out of the durations and of the threshold. Of the
\* commands and hooks it matters whether both commands are there, and whether
\* every hook has a name and a command. Peers are entries with different names.
Peer == [name : Names, ip : Hosts, priority : Int \cup {None}]
Configs ==
    [poll : Int, confirm : Int, threshold : Int,    \* failover.poll_interval_duration ...
     minimum : Int, healthPoll : Int, grace : Int,  \* failover.self_healthy
     override : BOOLEAN, distance : Nat,            \* delinquent_slot_distance_override
     commands : BOOLEAN, hooks : BOOLEAN,
     name : Names, priority : Int \cup {None}, peers : SUBSET Peer]

ASSUME FilesAssumption ==
    \A files \in Files :
        /\ files \in [Nodes -> Configs]
        /\ \A n \in Nodes : IsFiniteSet(files[n].peers)

VARIABLES
    file,   \* what the operator wrote
    cfg,    \* Config.Failover of each node
    pc

vars == <<file, cfg, pc>>

---------------------------------------------------------------------------
(* Initialize. *)

OrDefault(value, default) == IF value = 0 THEN default ELSE value

SetDefaults(f) ==
    LET poll == OrDefault(f.poll, DefaultPoll)
    IN  [f EXCEPT !.poll       = poll,
                  !.confirm    = OrDefault(f.confirm, poll),
                  !.threshold  = OrDefault(f.threshold, DefaultThreshold),
                  !.minimum    = OrDefault(f.minimum, DefaultMinimum),
                  !.healthPoll = OrDefault(f.healthPoll, DefaultHealthPoll),
                  !.grace      = OrDefault(f.grace, 1)]

\* Mutant of TimingValid: the two poll intervals are not compared.
TimingValidApart(f) ==
    f.poll # 0 /\ f.threshold > 0 /\ f.minimum > 0 /\ f.healthPoll > 0

\* Of the poll interval no more is asked than that it is not zero, of the grace
\* nothing.
TimingValid(f) ==
    /\ f.poll # 0
    /\ f.threshold > 0
    /\ f.confirm <= f.poll
    /\ f.minimum > 0 /\ f.healthPoll > 0

\* Two ways to write one address count as two.
PeersValid(f) ==
    /\ f.peers # {}
    /\ \A p \in f.peers : p.ip \in Addresses
    /\ \A p, q \in f.peers : p.ip = q.ip => p = q

AllOrNone(f) == \A p \in f.peers : p.priority = None <=> f.priority = None

\* Mutant of PrioritiesUnique: the peers are compared among themselves only.
PrioritiesUniqueAmongPeers(f) == \A p, q \in f.peers : p.priority = q.priority => p = q

PrioritiesUnique(f) ==
    /\ \A p \in f.peers : p.priority # f.priority
    /\ \A p, q \in f.peers : p.priority = q.priority => p = q

PrioritiesValid(f) ==
    /\ AllOrNone(f)
    /\ f.priority # None =>
           /\ f.priority >= 0 /\ \A p \in f.peers : p.priority >= 0
           /\ PrioritiesUnique(f)

Valid(f) ==
    TimingValid(f) /\ f.commands /\ f.hooks /\ PeersValid(f) /\ PrioritiesValid(f)

SaferDistance(distance) == IF distance <= 1 THEN 2 ELSE distance

\* The confirmation poll is raised after it was compared with the poll interval.
Clamped(f) ==
    [f EXCEPT !.confirm  = IF f.confirm < Floor THEN Floor ELSE f.confirm,
              !.distance = IF f.override THEN SaferDistance(f.distance) ELSE f.distance]

\* The rest of the file, the identities, the templates and the directory of
\* the recordings may be at fault as well.
Initialize(n) ==
    /\ pc[n] = "loaded"
    /\ LET f == SetDefaults(cfg[n]) IN
           \/ /\ Valid(f)
              /\ cfg' = [cfg EXCEPT ![n] = Clamped(f)]
              /\ pc' = [pc EXCEPT ![n] = "configured"]
           \/ /\ cfg' = [cfg EXCEPT ![n] = f]
              /\ pc' = [pc EXCEPT ![n] = "rejected"]
    /\ UNCHANGED file

---------------------------------------------------------------------------
(* Manager.Run. *)

HasIP(f, ip) == \E p \in f.peers : p.ip = ip

Self(f, n) == [name |-> f.name, ip |-> IP[n], priority |-> None]

\* Peers.Add: the node joins its peers, without its priority, and takes the
\* place of a peer that has its name.
WithSelf(f, n) == [f EXCEPT !.peers = {p \in @ : p.name # f.name} \cup {Self(f, n)}]

\* NewTicker panics unless it is given a positive interval. The public address
\* may not be found out.
Run(n) ==
    /\ pc[n] = "configured"
    /\ \/ /\ ~HasIP(cfg[n], IP[n])
          /\ cfg' = [cfg EXCEPT ![n] = WithSelf(cfg[n], n)]
          /\ pc' = [pc EXCEPT ![n] = IF cfg[n].poll > 0 THEN "running" ELSE "panicked"]
       \/ /\ pc' = [pc EXCEPT ![n] = "rejected"]
          /\ UNCHANGED cfg
    /\ UNCHANGED file

Init ==
    /\ file \in Files
    /\ cfg = file
    /\ pc = [n \in Nodes |-> "loaded"]

Next == \E n \in Nodes : Initialize(n) \/ Run(n)

Spec == Init /\ [][Next]_vars

---------------------------------------------------------------------------
(* What the manager makes of the priorities. *)

\* The addresses whose priority node n knows: its own, and that of the peers
\* that have one.
Prioritised(f, n) == {IP[n]} \cup {p.ip : p \in {q \in f.peers : q.priority # None}}

PriorityOf(f, n) ==
    [ip \in Prioritised(f, n) |->
        IF ip = IP[n] THEN f.priority
        ELSE (CHOOSE p \in f.peers : p.ip = ip).priority]

\* Of a configuration with priorities.
PeerIPPriorityRankMap(f, n) ==
    [ip \in Prioritised(f, n) |-> Rank(Prioritised(f, n), PriorityOf(f, n), ip)]

RankOfSelf(n) == PeerIPPriorityRankMap(cfg[n], n)[IP[n]]

---------------------------------------------------------------------------
\* What HaManager takes for granted of a node's timing (TimingAssumption and
\* ThresholdAssumption).
TimingAssumed(f) ==
    f.poll \in Nat \ {0} /\ f.confirm \in 1 .. f.poll /\ f.threshold \in Nat \ {0}

\* What LocalHealth takes for granted (DurationAssumption and CountAssumption).
HealthAssumed(f) ==
    f.minimum \in Nat \ {0} /\ f.healthPoll \in Nat \ {0} /\ f.grace \in Nat

\* What HaManager takes for granted of the node's place among its peers.
PeersAssumed(f, n) ==
    HasIP(f, IP[n]) /\ \A p, q \in f.peers : p.ip = q.ip => p = q

\* A manager that runs has what the modules of the other parts assume, whatever
\* order defaults, validation and clamping come in, except where the code lets a
\* file through that breaks it: a poll interval below the floor of the
\* confirmation poll (config.go:210) and a negative grace (failover.go:251).
RunsAsAssumed ==
    \A n \in Nodes : pc[n] = "running" =>
        LET f == cfg[n] IN
        /\ f.poll >= Floor => TimingAssumed(f) /\ f.confirm >= Floor
        /\ file[n].grace >= 0 => HealthAssumed(f)
        /\ PeersAssumed(f, n)
        /\ f.override => f.distance >= 2

\* What is written in the files of n and m agrees: the same nodes with the same
\* priorities, by address, and one poll interval. Neither has a peer by its name.
Agreed(n, m) ==
    LET f == file[n]
        g == file[m]
    IN  /\ f.priority # None /\ g.priority # None
        /\ PriorityOf(f, n) = PriorityOf(g, m)
        /\ cfg[n].poll = cfg[m].poll
        /\ \A p \in f.peers : p.name # f.name
        /\ \A p \in g.peers : p.name # g.name

\* Two managers whose files agree rank all the nodes alike and delay their
\* takeovers by times that are a poll interval or more apart (failover.priority,
\* PeerIPPriorityRankMap, delayTakeoverAsActive).
TakeoversSpaced ==
    \A n, m \in Nodes :
        n # m /\ pc[n] = "running" /\ pc[m] = "running" /\ Agreed(n, m) =>
            LET i == RankOfSelf(n) * cfg[n].poll
                j == RankOfSelf(m) * cfg[m].poll
            IN  /\ PeerIPPriorityRankMap(cfg[n], n) = PeerIPPriorityRankMap(cfg[m], m)
                /\ i + cfg[n].poll <= j \/ j + cfg[n].poll <= i
===========================================================================
