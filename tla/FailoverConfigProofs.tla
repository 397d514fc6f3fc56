----------------------- MODULE FailoverConfigProofs -----------------------
(***************************************************************************)
(* What starting up guarantees for whatever files the operators wrote: the *)
(* values a running manager polls and waits by, and, between managers      *)
(* whose files agree, takeovers a poll interval or more apart.             *)
(***************************************************************************)
EXTENDS FailoverConfig, Integers, FiniteSetTheorems, TLAPS

---------------------------------------------------------------------------
(* Ranks, for every set of ranked nodes: they are natural numbers, no two     *)
(* nodes share one, exactly the first node has rank 0, and so the delays of   *)
(* delayTakeoverAsActive, rank times the poll interval, are a poll interval   *)
(* or more apart.                                                             *)

\* The set a rank counts is finite, so the rank is a natural number.
LEMMA RankType ==
    ASSUME NEW S, IsFiniteSet(S), NEW key, NEW n
    PROVE  IsFiniteSet(Ahead(S, key, n)) /\ Rank(S, key, n) \in Nat
<1>1. Ahead(S, key, n) \subseteq S
  BY DEF Ahead
<1>2. IsFiniteSet(Ahead(S, key, n))
  BY <1>1, FS_Subset
<1> QED
  BY <1>2, FS_CardinalityType DEF Rank

\* A node with the smaller key has the smaller rank: everything ahead of it is
\* ahead of the other node, and so is the node itself.
LEMMA SmallerKeySmallerRank ==
    ASSUME NEW S, IsFiniteSet(S), NEW key, DistinctKeys(S, key),
           NEW n \in S, NEW m \in S, key[n] < key[m]
    PROVE  Rank(S, key, n) < Rank(S, key, m)
<1>1. /\ IsFiniteSet(Ahead(S, key, m))
      /\ Rank(S, key, n) \in Nat /\ Rank(S, key, m) \in Nat
  BY RankType
<1>2. Ahead(S, key, n) \subseteq Ahead(S, key, m)
  BY DEF Ahead, DistinctKeys
<1>3. n \in Ahead(S, key, m) /\ n \notin Ahead(S, key, n)
  BY DEF Ahead, DistinctKeys
<1>4. Cardinality(Ahead(S, key, n)) <= Cardinality(Ahead(S, key, m))
  BY <1>1, <1>2, FS_Subset
<1>5. Cardinality(Ahead(S, key, n)) # Cardinality(Ahead(S, key, m))
  BY <1>1, <1>2, <1>3, FS_Subset
<1> QED
  BY <1>1, <1>4, <1>5 DEF Rank

\* No two nodes have the same rank (PeerIPRankMap and PeerIPPriorityRankMap
\* number a sorted list of distinct keys).
THEOREM RanksDistinct ==
    ASSUME NEW S, IsFiniteSet(S), NEW key, DistinctKeys(S, key),
           NEW n \in S, NEW m \in S, n # m
    PROVE  Rank(S, key, n) # Rank(S, key, m)
<1>1. key[n] \in Nat /\ key[m] \in Nat /\ key[n] # key[m]
  BY DEF DistinctKeys
<1>2. Rank(S, key, n) \in Nat /\ Rank(S, key, m) \in Nat
  BY RankType
<1>3. CASE key[n] < key[m]
  BY <1>2, <1>3, SmallerKeySmallerRank
<1>4. CASE key[m] < key[n]
  BY <1>2, <1>4, SmallerKeySmallerRank
<1> QED
  BY <1>1, <1>3, <1>4

\* Rank 0, which takes over without a delay and without looking again, is the
\* one node whose key is the smallest.
THEOREM RankZeroIsFirst ==
    ASSUME NEW S, IsFiniteSet(S), NEW key, DistinctKeys(S, key), NEW n \in S
    PROVE  Rank(S, key, n) = 0 <=> \A m \in S \ {n} : key[n] < key[m]
<1>1. IsFiniteSet(Ahead(S, key, n))
  BY RankType
<1>2. Rank(S, key, n) = 0 <=> Ahead(S, key, n) = {}
  BY <1>1, FS_EmptySet DEF Rank
<1>3. Ahead(S, key, n) = {} <=> \A m \in S : ~(key[m] < key[n])
  BY DEF Ahead
<1>4. \A m \in S : m # n => (~(key[m] < key[n]) <=> key[n] < key[m])
  BY DEF DistinctKeys
<1>5. ~(key[n] < key[n])
  BY DEF DistinctKeys
<1> QED
  BY <1>2, <1>3, <1>4, <1>5

\* Two nodes that begin their delays at the same poll wake a poll interval or
\* more apart (delayTakeoverAsActive sleeps rank * poll_interval_duration).
THEOREM DelaysApart ==
    ASSUME NEW S, IsFiniteSet(S), NEW key, DistinctKeys(S, key),
           NEW n \in S, NEW m \in S, n # m, NEW interval \in Nat
    PROVE  \/ Rank(S, key, n) * interval + interval <= Rank(S, key, m) * interval
           \/ Rank(S, key, m) * interval + interval <= Rank(S, key, n) * interval
<1> DEFINE i == Rank(S, key, n)
           j == Rank(S, key, m)
<1>1. i \in Nat /\ j \in Nat /\ i # j
  BY RankType, RanksDistinct
<1>2. \A k, l \in Nat : k < l => k * interval + interval <= l * interval
  <2> SUFFICES ASSUME NEW k \in Nat, NEW l \in Nat, k < l
               PROVE  k * interval + interval <= l * interval
    OBVIOUS
  <2>1. PICK d \in Nat : l = k + 1 + d
    <3>1. l - k - 1 \in Nat /\ l = k + 1 + (l - k - 1)
      OBVIOUS
    <3> QED
      BY <3>1
  <2>2. l * interval = k * interval + interval + d * interval
    BY <2>1
  <2>3. d * interval \in Nat /\ k * interval \in Nat
    OBVIOUS
  <2> QED
    BY <2>2, <2>3
<1>3. i < j \/ j < i
  BY <1>1
<1> HIDE DEF i, j
<1>4. \/ i * interval + interval <= j * interval
      \/ j * interval + interval <= i * interval
  BY <1>1, <1>2, <1>3
<1> QED
  BY <1>4 DEF i, j

---------------------------------------------------------------------------
(* The configuration. *)

States == {"loaded", "configured", "rejected", "running", "panicked"}

\* The values of a configuration that was accepted and clamped.
Sound(f) ==
    /\ f.poll # 0 /\ f.threshold > 0 /\ f.minimum > 0 /\ f.healthPoll > 0
    /\ f.confirm >= Floor
    /\ f.poll >= Floor => f.confirm <= f.poll
    /\ f.override => f.distance >= 2

\* Configuration f, made from file g, was accepted for what g says of the nodes.
Accepted(f, g) ==
    /\ Sound(f)
    /\ g.grace >= 0 => f.grace >= 0
    /\ f.name = g.name /\ f.priority = g.priority
    /\ PeersValid(g) /\ PrioritiesValid(g)

Typed ==
    /\ file \in Files
    /\ file \in [Nodes -> Configs]
    /\ cfg \in [Nodes -> Configs]
    /\ pc \in [Nodes -> States]

Loaded(n) == pc[n] = "loaded" => cfg[n] = file[n]

Configured(n) ==
    pc[n] = "configured" => Accepted(cfg[n], file[n]) /\ cfg[n].peers = file[n].peers

Running(n) ==
    pc[n] = "running" =>
        /\ Accepted(cfg[n], file[n])
        /\ cfg[n].poll > 0
        /\ ~HasIP(file[n], IP[n])
        /\ cfg[n].peers = WithSelf(file[n], n).peers

IInv == Typed /\ \A n \in Nodes : Loaded(n) /\ Configured(n) /\ Running(n)

---------------------------------------------------------------------------

LEMMA Constants ==
    /\ Floor \in Nat /\ Floor > 0 /\ DefaultPoll \in Nat /\ DefaultPoll > 0
    /\ DefaultThreshold \in Nat /\ DefaultThreshold > 0
    /\ DefaultMinimum \in Nat /\ DefaultMinimum > 0
    /\ DefaultHealthPoll \in Nat /\ DefaultHealthPoll > 0
  BY FloorAssumption

\* The defaults leave alone what the file says of the nodes.
LEMMA DefaultsTyped ==
    ASSUME NEW f \in Configs
    PROVE  /\ SetDefaults(f) \in Configs
           /\ SetDefaults(f).name = f.name /\ SetDefaults(f).priority = f.priority
           /\ SetDefaults(f).peers = f.peers
           /\ f.grace >= 0 => SetDefaults(f).grace >= 0
<1>1. OrDefault(f.poll, DefaultPoll) \in Int
  BY Constants DEF Configs, OrDefault
<1> DEFINE poll == OrDefault(f.poll, DefaultPoll)
<1>2. /\ OrDefault(f.confirm, poll) \in Int /\ OrDefault(f.threshold, DefaultThreshold) \in Int
      /\ OrDefault(f.minimum, DefaultMinimum) \in Int
      /\ OrDefault(f.healthPoll, DefaultHealthPoll) \in Int
      /\ OrDefault(f.grace, 1) \in Int /\ (f.grace >= 0 => OrDefault(f.grace, 1) >= 0)
  BY <1>1, Constants DEF Configs, OrDefault
<1> QED
  BY <1>1, <1>2 DEF Configs, SetDefaults

\* What was valid before the floor was applied is sound after it.
LEMMA ClampedIsSound ==
    ASSUME NEW f \in Configs, TimingValid(f)
    PROVE  /\ Clamped(f) \in Configs /\ Sound(Clamped(f))
           /\ Clamped(f).grace = f.grace /\ Clamped(f).name = f.name /\ Clamped(f).priority = f.priority
           /\ Clamped(f).peers = f.peers
<1> DEFINE confirm == IF f.confirm < Floor THEN Floor ELSE f.confirm
           distance == IF f.override THEN SaferDistance(f.distance) ELSE f.distance
<1>1. /\ confirm \in Int /\ confirm >= Floor
      /\ f.poll >= Floor => confirm <= f.poll
  BY Constants DEF Configs, TimingValid
<1>2. distance \in Nat /\ (f.override => distance >= 2)
  BY DEF Configs, SaferDistance
<1>3. Clamped(f) = [f EXCEPT !.confirm = confirm, !.distance = distance]
  BY DEF Clamped
<1> HIDE DEF confirm, distance
<1>4. Clamped(f) \in Configs
  BY <1>1, <1>2, <1>3 DEF Configs
<1> QED
  BY <1>1, <1>2, <1>3, <1>4 DEF Configs, Sound, TimingValid

LEMMA WithSelfTyped ==
    ASSUME NEW n \in Nodes, NEW f \in Configs
    PROVE  /\ WithSelf(f, n) \in Configs
           /\ Sound(f) => Sound(WithSelf(f, n))
           /\ WithSelf(f, n).name = f.name /\ WithSelf(f, n).priority = f.priority
           /\ WithSelf(f, n).poll = f.poll /\ WithSelf(f, n).grace = f.grace
<1>1. Self(f, n) \in Peer
  BY IPAssumption DEF Self, Peer, Configs
<1>2. {p \in f.peers : p.name # f.name} \cup {Self(f, n)} \in SUBSET Peer
  BY <1>1 DEF Configs
<1> QED
  BY <1>2 DEF WithSelf, Configs, Sound

---------------------------------------------------------------------------

LEMMA InitInvariant == Init => IInv
<1> SUFFICES ASSUME Init PROVE IInv
  OBVIOUS
<1>1. file \in [Nodes -> Configs]
  BY FilesAssumption DEF Init
<1> QED
  BY <1>1 DEF Init, IInv, Typed, States, Loaded, Configured, Running

LEMMA InitializeInvariant ==
    ASSUME IInv, NEW n \in Nodes, Initialize(n)
    PROVE  IInv'
<1> DEFINE f == SetDefaults(cfg[n])
<1>1. Typed /\ Loaded(n) /\ pc[n] = "loaded" /\ file' = file
  BY DEF IInv, Initialize
<1>2. cfg[n] \in Configs /\ cfg[n] = file[n]
  BY <1>1 DEF Typed, Loaded
<1>3. /\ f \in Configs /\ (file[n].grace >= 0 => f.grace >= 0)
      /\ f.name = file[n].name /\ f.priority = file[n].priority /\ f.peers = file[n].peers
  BY <1>2, DefaultsTyped
<1> HIDE DEF f
<1>4. CASE Valid(f) /\ cfg' = [cfg EXCEPT ![n] = Clamped(f)]
               /\ pc' = [pc EXCEPT ![n] = "configured"]
  <2>1. TimingValid(f) /\ PeersValid(f) /\ PrioritiesValid(f)
    BY <1>4 DEF Valid
  <2>2. PeersValid(file[n]) /\ PrioritiesValid(file[n])
    BY <1>3, <2>1 DEF PeersValid, PrioritiesValid, AllOrNone, PrioritiesUnique
  <2>3. /\ Clamped(f) \in Configs
        /\ Accepted(Clamped(f), file[n]) /\ Clamped(f).peers = file[n].peers
    BY <1>3, <2>1, <2>2, ClampedIsSound DEF Accepted
  <2>4. Typed' /\ cfg'[n] = Clamped(f) /\ pc'[n] = "configured"
    BY <1>1, <1>4, <2>3 DEF Typed, States
  <2>5. \A m \in Nodes \ {n} : cfg'[m] = cfg[m] /\ pc'[m] = pc[m]
    BY <1>1, <1>4 DEF Typed
  <2>6. Loaded(n)' /\ Configured(n)' /\ Running(n)'
    BY <1>1, <2>3, <2>4 DEF Loaded, Configured, Running
  <2>7. \A m \in Nodes \ {n} : Loaded(m)' /\ Configured(m)' /\ Running(m)'
    BY <1>1, <2>5 DEF IInv, Loaded, Configured, Running
  <2> QED
    BY <2>4, <2>6, <2>7 DEF IInv
<1>5. CASE cfg' = [cfg EXCEPT ![n] = f] /\ pc' = [pc EXCEPT ![n] = "rejected"]
  <2>1. Typed' /\ pc'[n] = "rejected"
    BY <1>1, <1>3, <1>5 DEF Typed, States
  <2>2. \A m \in Nodes \ {n} : cfg'[m] = cfg[m] /\ pc'[m] = pc[m]
    BY <1>1, <1>5 DEF Typed
  <2>3. Loaded(n)' /\ Configured(n)' /\ Running(n)'
    BY <2>1 DEF Loaded, Configured, Running
  <2>4. \A m \in Nodes \ {n} : Loaded(m)' /\ Configured(m)' /\ Running(m)'
    BY <1>1, <2>2 DEF IInv, Loaded, Configured, Running
  <2> QED
    BY <2>1, <2>3, <2>4 DEF IInv
<1> QED
  BY <1>4, <1>5 DEF Initialize, f

LEMMA RunInvariant ==
    ASSUME IInv, NEW n \in Nodes, Run(n)
    PROVE  IInv'
<1>1. Typed /\ Configured(n) /\ pc[n] = "configured" /\ file' = file
  BY DEF IInv, Run
<1>2. /\ cfg[n] \in Configs
      /\ Accepted(cfg[n], file[n]) /\ cfg[n].peers = file[n].peers
  BY <1>1 DEF Typed, Configured
<1>3. CASE /\ ~HasIP(cfg[n], IP[n])
           /\ cfg' = [cfg EXCEPT ![n] = WithSelf(cfg[n], n)]
           /\ pc' = [pc EXCEPT ![n] = IF cfg[n].poll > 0 THEN "running" ELSE "panicked"]
  <2>1. ~HasIP(file[n], IP[n])
    BY <1>2, <1>3 DEF HasIP
  <2>2. WithSelf(cfg[n], n).peers = WithSelf(file[n], n).peers
    BY <1>1, <1>2 DEF WithSelf, Self, Accepted, Typed, Configs
  <2>3. /\ WithSelf(cfg[n], n) \in Configs
        /\ Accepted(WithSelf(cfg[n], n), file[n])
        /\ WithSelf(cfg[n], n).poll = cfg[n].poll
    BY <1>2, WithSelfTyped DEF Accepted
  <2>4. /\ Typed' /\ cfg'[n] = WithSelf(cfg[n], n)
        /\ pc'[n] \in {"running", "panicked"}
        /\ pc'[n] = "running" => cfg[n].poll > 0
    BY <1>1, <1>3, <2>3 DEF Typed, States
  <2>5. \A m \in Nodes \ {n} : cfg'[m] = cfg[m] /\ pc'[m] = pc[m]
    BY <1>1, <1>3 DEF Typed
  <2>6. Loaded(n)' /\ Configured(n)'
    BY <2>4 DEF Loaded, Configured
  <2>7. Running(n)'
    <3> SUFFICES ASSUME pc'[n] = "running"
                 PROVE  /\ Accepted(cfg'[n], file[n]) /\ cfg'[n].poll > 0
                        /\ ~HasIP(file[n], IP[n])
                        /\ cfg'[n].peers = WithSelf(file[n], n).peers
      BY <1>1 DEF Running
    <3> QED
      BY <2>1, <2>2, <2>3, <2>4
  <2>8. \A m \in Nodes \ {n} : Loaded(m)' /\ Configured(m)' /\ Running(m)'
    BY <1>1, <2>5 DEF IInv, Loaded, Configured, Running
  <2> QED
    BY <2>4, <2>6, <2>7, <2>8 DEF IInv
<1>4. CASE pc' = [pc EXCEPT ![n] = "rejected"] /\ UNCHANGED cfg
  <2>1. Typed' /\ pc'[n] = "rejected"
    BY <1>1, <1>4 DEF Typed, States
  <2>2. \A m \in Nodes \ {n} : cfg'[m] = cfg[m] /\ pc'[m] = pc[m]
    BY <1>1, <1>4 DEF Typed
  <2>3. Loaded(n)' /\ Configured(n)' /\ Running(n)'
    BY <2>1 DEF Loaded, Configured, Running
  <2>4. \A m \in Nodes \ {n} : Loaded(m)' /\ Configured(m)' /\ Running(m)'
    BY <1>1, <2>2 DEF IInv, Loaded, Configured, Running
  <2> QED
    BY <2>1, <2>3, <2>4 DEF IInv
<1> QED
  BY <1>3, <1>4 DEF Run

LEMMA Invariance == Spec => []IInv
<1>1. IInv /\ UNCHANGED vars => IInv'
  BY DEF IInv, vars, Typed, Loaded, Configured, Running
<1>2. IInv /\ [Next]_vars => IInv'
  BY <1>1, InitializeInvariant, RunInvariant DEF Next
<1> QED
  BY InitInvariant, <1>2, PTL DEF Spec

---------------------------------------------------------------------------

\* A manager that runs has the timing HaManager assumes, unless its poll interval
\* is below the floor, the counts and intervals LocalHealth assumes, unless the
\* file has a negative grace, and an address of its own, whatever else the files
\* say (SetDefaults, Validate, the clamping after it, and Manager.Run).
THEOREM StartsSound == Spec => []RunsAsAssumed
<1> SUFFICES ASSUME IInv PROVE RunsAsAssumed
  BY Invariance, PTL
<1> SUFFICES ASSUME NEW n \in Nodes, pc[n] = "running"
             PROVE  /\ cfg[n].poll >= Floor => TimingAssumed(cfg[n]) /\ cfg[n].confirm >= Floor
                    /\ file[n].grace >= 0 => HealthAssumed(cfg[n])
                    /\ PeersAssumed(cfg[n], n)
                    /\ cfg[n].override => cfg[n].distance >= 2
  BY DEF RunsAsAssumed
<1> DEFINE f == cfg[n]
           g == file[n]
<1>1. /\ f \in Configs /\ g \in Configs /\ Sound(f) /\ f.poll > 0
      /\ g.grace >= 0 => f.grace >= 0
      /\ ~HasIP(g, IP[n]) /\ PeersValid(g) /\ f.peers = WithSelf(g, n).peers
  BY DEF IInv, Typed, Running, Accepted
<1>2. f.peers = {p \in g.peers : p.name # g.name} \cup {Self(g, n)}
  BY <1>1 DEF WithSelf, Configs
<1>3. Self(g, n).ip = IP[n]
  BY DEF Self
<1> HIDE DEF f, g
<1>4. PeersAssumed(f, n)
  <2>1. HasIP(f, IP[n])
    BY <1>2, <1>3 DEF HasIP
  <2>2. \A p, q \in f.peers : p.ip = q.ip => p = q
    BY <1>1, <1>2, <1>3 DEF HasIP, PeersValid
  <2> QED
    BY <2>1, <2>2 DEF PeersAssumed
<1>5. f.poll >= Floor => TimingAssumed(f) /\ f.confirm >= Floor
  BY <1>1, Constants DEF Configs, Sound, TimingAssumed
<1>6. g.grace >= 0 => HealthAssumed(f)
  BY <1>1 DEF Configs, Sound, HealthAssumed
<1>7. f.override => f.distance >= 2
  BY <1>1 DEF Sound
<1> QED
  BY <1>4, <1>5, <1>6, <1>7 DEF f, g

\* In an accepted file the priorities known to a node are natural numbers, one
\* for each address.
LEMMA KeysDistinct ==
    ASSUME NEW n \in Nodes, NEW g \in Configs, PeersValid(g), PrioritiesValid(g),
           ~HasIP(g, IP[n]), g.priority # None
    PROVE  DistinctKeys(Prioritised(g, n), PriorityOf(g, n))
<1> DEFINE S == Prioritised(g, n)
           key == PriorityOf(g, n)
<1>1. key[IP[n]] = g.priority
  BY DEF PriorityOf, Prioritised
<1>2. ASSUME NEW ip \in S, ip # IP[n]
      PROVE  \E p \in g.peers : p.ip = ip /\ key[ip] = p.priority
  <2>1. PICK p \in g.peers : p.ip = ip
    BY <1>2 DEF Prioritised
  <2>2. (CHOOSE q \in g.peers : q.ip = ip) = p
    BY <2>1 DEF PeersValid
  <2> QED
    BY <1>2, <2>1, <2>2 DEF PriorityOf
<1>3. \A p \in g.peers : p.priority \in Int \cup {None} /\ p.priority # None
  BY DEF PrioritiesValid, AllOrNone, Configs, Peer
<1>4. /\ g.priority \in Nat
      /\ \A p \in g.peers : p.priority \in Nat /\ p.priority # g.priority
      /\ \A p, q \in g.peers : p.priority = q.priority => p = q
  BY <1>3 DEF PrioritiesValid, PrioritiesUnique, Configs
<1> HIDE DEF S, key
<1>5. \A ip \in S : key[ip] \in Nat
  BY <1>1, <1>2, <1>4
<1>6. ASSUME NEW i \in S, NEW j \in S, key[i] = key[j]
      PROVE  i = j
  BY <1>1, <1>2, <1>4, <1>6
<1> QED
  BY <1>5, <1>6 DEF DistinctKeys, S, key

\* The node's own entry, which Run adds, changes nothing in what it knows of the
\* priorities, unless it took the place of a peer.
LEMMA SelfChangesNothing ==
    ASSUME NEW n \in Nodes, NEW f \in Configs, NEW g \in Configs,
           PeersValid(g), ~HasIP(g, IP[n]),
           f.priority = g.priority, f.peers = WithSelf(g, n).peers,
           \A p \in g.peers : p.name # g.name
    PROVE  Prioritised(f, n) = Prioritised(g, n) /\ PriorityOf(f, n) = PriorityOf(g, n)
<1>1. f.peers = g.peers \cup {Self(g, n)}
  BY DEF WithSelf, Configs
<1>2. Self(g, n).ip = IP[n] /\ Self(g, n).priority = None
  BY DEF Self
<1>3. {q \in f.peers : q.priority # None} = {q \in g.peers : q.priority # None}
  BY <1>1, <1>2
<1>4. Prioritised(f, n) = Prioritised(g, n)
  BY <1>3 DEF Prioritised
<1>5. ASSUME NEW ip \in Prioritised(g, n), ip # IP[n]
      PROVE  (CHOOSE p \in f.peers : p.ip = ip) = (CHOOSE p \in g.peers : p.ip = ip)
  <2>1. PICK p \in g.peers : p.ip = ip
    BY <1>5 DEF Prioritised
  <2>2. (CHOOSE q \in g.peers : q.ip = ip) = p
    BY <2>1 DEF PeersValid
  <2>3. \A q \in f.peers : q.ip = ip => q = p
    BY <1>1, <1>2, <1>5, <2>1 DEF PeersValid
  <2>4. (CHOOSE q \in f.peers : q.ip = ip) = p
    BY <1>1, <2>1, <2>3
  <2> QED
    BY <2>2, <2>4
<1>6. \A ip \in Prioritised(g, n) : PriorityOf(f, n)[ip] = PriorityOf(g, n)[ip]
  <2> SUFFICES ASSUME NEW ip \in Prioritised(g, n)
               PROVE  PriorityOf(f, n)[ip] = PriorityOf(g, n)[ip]
    OBVIOUS
  <2>1. CASE ip = IP[n]
    BY <1>4, <2>1 DEF PriorityOf
  <2>2. CASE ip # IP[n]
    <3>1. PriorityOf(f, n)[ip] = (CHOOSE p \in f.peers : p.ip = ip).priority
      BY <1>4, <2>2 DEF PriorityOf
    <3>2. PriorityOf(g, n)[ip] = (CHOOSE p \in g.peers : p.ip = ip).priority
      BY <2>2 DEF PriorityOf
    <3> QED
      BY <1>5, <2>2, <3>1, <3>2
  <2> QED
    BY <2>1, <2>2
<1>7. /\ PriorityOf(f, n) = [ip \in Prioritised(g, n) |-> PriorityOf(f, n)[ip]]
      /\ PriorityOf(g, n) = [ip \in Prioritised(g, n) |-> PriorityOf(g, n)[ip]]
  BY <1>4 DEF PriorityOf
<1> QED
  BY <1>4, <1>6, <1>7

LEMMA PrioritisedFinite ==
    ASSUME NEW n \in Nodes, Typed
    PROVE  IsFiniteSet(Prioritised(file[n], n))
<1> DEFINE T == {q \in file[n].peers : q.priority # None}
<1>1. IsFiniteSet(T)
  <2>1. IsFiniteSet(file[n].peers)
    BY FilesAssumption DEF Typed
  <2> QED
    BY <2>1, FS_Subset
<1>2. IsFiniteSet({p.ip : p \in T})
  <2> DEFINE Address == [p \in T |-> p.ip]
  <2>1. Address \in Surjection(T, {p.ip : p \in T})
    BY DEF Surjection
  <2> QED
    BY <1>1, <2>1, FS_Surjection
<1>3. IsFiniteSet({IP[n]} \cup {p.ip : p \in T})
  BY <1>2, FS_AddElement
<1> QED
  BY <1>3 DEF Prioritised

\* Managers whose files agree, each of them accepted on its own, rank the nodes
\* alike and wait for times a poll interval or more apart before they take over:
\* the order of the priorities is compared nowhere else (failover.priority,
\* PeerIPPriorityRankMap, delayTakeoverAsActive).
THEOREM TakeoversAreSpaced == Spec => []TakeoversSpaced
<1> SUFFICES ASSUME IInv PROVE TakeoversSpaced
  BY Invariance, PTL
<1> SUFFICES ASSUME NEW n \in Nodes, NEW m \in Nodes, n # m,
                    pc[n] = "running", pc[m] = "running", Agreed(n, m)
             PROVE  LET i == RankOfSelf(n) * cfg[n].poll
                        j == RankOfSelf(m) * cfg[m].poll
                    IN  /\ PeerIPPriorityRankMap(cfg[n], n) = PeerIPPriorityRankMap(cfg[m], m)
                        /\ i + cfg[n].poll <= j \/ j + cfg[n].poll <= i
  BY DEF TakeoversSpaced
<1> DEFINE S == Prioritised(file[n], n)
           key == PriorityOf(file[n], n)
<1>1. ASSUME NEW k \in {n, m}
      PROVE  /\ cfg[k] \in Configs /\ file[k] \in Configs
             /\ PeersValid(file[k]) /\ PrioritiesValid(file[k])
             /\ ~HasIP(file[k], IP[k])
             /\ cfg[k].priority = file[k].priority
             /\ cfg[k].peers = WithSelf(file[k], k).peers
             /\ cfg[k].poll \in Nat
  BY DEF IInv, Typed, Running, Accepted, Configs
<1>2. /\ PriorityOf(file[m], m) = key /\ cfg[m].poll = cfg[n].poll
      /\ file[n].priority # None
      /\ \A p \in file[n].peers : p.name # file[n].name
      /\ \A p \in file[m].peers : p.name # file[m].name
  BY DEF Agreed
<1>3. Prioritised(file[m], m) = S
  <2>1. DOMAIN PriorityOf(file[m], m) = Prioritised(file[m], m) /\ DOMAIN key = S
    BY DEF PriorityOf
  <2> QED
    BY <1>2, <2>1
<1>4. /\ Prioritised(cfg[n], n) = S /\ PriorityOf(cfg[n], n) = key
      /\ Prioritised(cfg[m], m) = S /\ PriorityOf(cfg[m], m) = key
  BY <1>1, <1>2, <1>3, SelfChangesNothing
<1>5. DistinctKeys(S, key)
  BY <1>1, <1>2, KeysDistinct
<1>6. IsFiniteSet(S)
  BY PrioritisedFinite DEF IInv
<1>7. IP[n] \in S /\ IP[m] \in S /\ IP[n] # IP[m]
  BY <1>3, IPAssumption DEF Prioritised
<1> HIDE DEF S, key
<1>8. /\ PeerIPPriorityRankMap(cfg[n], n) = [ip \in S |-> Rank(S, key, ip)]
      /\ PeerIPPriorityRankMap(cfg[m], m) = [ip \in S |-> Rank(S, key, ip)]
  BY <1>4 DEF PeerIPPriorityRankMap
<1>9. /\ RankOfSelf(n) = Rank(S, key, IP[n])
      /\ RankOfSelf(m) = Rank(S, key, IP[m])
  BY <1>7, <1>8 DEF RankOfSelf
<1>10. cfg[n].poll \in Nat
  BY <1>1
<1>11. \/ Rank(S, key, IP[n]) * cfg[n].poll + cfg[n].poll <= Rank(S, key, IP[m]) * cfg[n].poll
       \/ Rank(S, key, IP[m]) * cfg[n].poll + cfg[n].poll <= Rank(S, key, IP[n]) * cfg[n].poll
  BY <1>5, <1>6, <1>7, <1>10, DelaysApart
<1> QED
  BY <1>2, <1>8, <1>9, <1>11
===========================================================================
