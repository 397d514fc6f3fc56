-------------------------- MODULE HaManagerProofs --------------------------
(***************************************************************************)
(* Proofs about HaManager, for every set of nodes, every configuration and *)
(* every environment.  The safety properties of a manager speak of three   *)
(* variables of one node: where its goroutine is, the view it holds and    *)
(* why it is failing over.  NodeInv is their conjunction for one node; it  *)
(* is inductive together with TypeOK, because every step changes the three *)
(* variables of at most one node.                                          *)
(***************************************************************************)
EXTENDS HaManager, Integers, FiniteSetTheorems, TLAPS

\* What NoLeaderInView says of one manager at location p with view v.
LeaderlessAt(p, v) ==
    p \in Candidacy \cup Takeover => v.active = {} /\ ~v.undeclared /\ v.count > 0

\* What FailoverJustified says of one manager, failing over because of t.
JustifiedAt(p, v, t) ==
    p \in Evaluating \cup {"sleeping"} =>
        \/ t = "threshold_reached" /\ v.count >= Threshold
        \/ /\ t = "bypass_triggered" /\ Bypass
           /\ p \in Candidacy => v.delinquent

NodeInv(p, v, t) == Sound(v) /\ LeaderlessAt(p, v) /\ JustifiedAt(p, v, t)

IInv == TypeOK /\ \A n \in Nodes : NodeInv(pc[n], gs[n], trigger[n])

---------------------------------------------------------------------------
(* Refresh. *)

\* Whatever the cluster answers, a refreshed view is a view.
LEMMA RefreshedType ==
    ASSUME NEW n \in Nodes, NEW view \in Views, NEW forgiven \in BOOLEAN
    PROVE  Refreshed(n, view, forgiven) \in Views
<1> DEFINE verdict == Verdict(forgiven)
<1>1. Visible(adverts, verdict) \subseteq Nodes
  BY DEF Visible
<1>2. \A L : NextCount(view.count, L) \in 0 .. MaxCount
  BY MaxCountAssumption DEF NextCount, Bump, Views
<1>3. Answered(view, adverts, verdict) \in Views
  BY <1>1, <1>2 DEF Answered, Views
<1>4. Failed(view) \in Views
  BY MaxCountAssumption DEF Failed, NewView, Views
<1> QED
  BY <1>3, <1>4 DEF Refreshed

\* A refreshed view is sound, and a count that had reached the threshold
\* either stays there or starts again from zero.
LEMMA RefreshedSound ==
    ASSUME NEW n \in Nodes, NEW view \in Views, NEW forgiven \in BOOLEAN
    PROVE  LET new == Refreshed(n, view, forgiven) IN
           /\ Sound(new)
           /\ view.count >= Threshold /\ new.count # 0 => new.count >= Threshold
<1> DEFINE verdict == Verdict(forgiven)
           leaders == Leaders(adverts, verdict)
           answered == Answered(view, adverts, verdict)
<1>1. view.count \in 0 .. MaxCount /\ MaxCount \in Nat \ {0} /\ Threshold \in 1 .. MaxCount
  BY MaxCountAssumption, ThresholdAssumption DEF Views
<1>2. /\ answered.active = leaders \cap Nodes /\ answered.undeclared = (Stranger \in leaders)
      /\ answered.seen = Visible(adverts, verdict) /\ answered.rpcErr = FALSE
      /\ answered.count = NextCount(view.count, leaders)
      /\ answered.delinquent = (\E h \in Claimants(adverts) : verdict[h] = "delinquent")
  BY DEF Answered
<1>3. answered.active \subseteq answered.seen
  BY <1>2 DEF Visible
<1>4. leaders # {} => answered.count = 0
  BY <1>2 DEF NextCount
<1>5. leaders = {} => answered.count > 0
  BY <1>1, <1>2 DEF NextCount, Bump
<1>6. answered.delinquent => leaders = {}
  <2> SUFFICES ASSUME answered.delinquent PROVE leaders = {}
    OBVIOUS
  <2>1. PICK h \in Claimants(adverts) : verdict[h] = "delinquent"
    BY <1>2
  <2>2. \A k \in Hosts : verdict[k] = "delinquent"
    BY <2>1 DEF Verdict, Claimants
  <2> QED
    BY <2>2 DEF Leaders, Claimants
<1>7. view.count >= Threshold /\ answered.count # 0 => answered.count >= Threshold
  BY <1>1, <1>2 DEF NextCount, Bump
<1>8. Sound(answered)
  BY <1>2, <1>3, <1>4, <1>5, <1>6 DEF Sound
<1>9. Sound(Failed(view)) /\ Failed(view).count = view.count
  BY DEF Sound, Failed, NewView
<1> QED
  BY <1>7, <1>8, <1>9 DEF Refreshed
---------------------------------------------------------------------------
(* Type correctness. *)

LEMMA InitType == Init => TypeOK
<1> SUFFICES ASSUME Init PROVE TypeOK
  OBVIOUS
<1>1. identity \in [Nodes -> Roles] /\ healthy \in [Nodes -> BOOLEAN] /\ longEnough = healthy
  BY DEF Init, Roles
<1>2. adverts \in Answers
  BY <1>1, NodesAssumption DEF Init, Answers, Hosts, Roles
<1>3. NewView \in Views
  BY MaxCountAssumption DEF NewView, Views
<1>4. gs \in [Nodes -> Views]
  BY <1>3, RefreshedType DEF Init
<1>5. pc \in [Nodes -> Locations] /\ wait \in [Nodes -> Nat]
  <2>1. NextBoundary \in Nat
    BY TimingAssumption DEF Init, NextBoundary
  <2> QED
    BY <2>1, TimingAssumption DEF Init, Locations
<1>6. /\ localRpc \in [Nodes -> BOOLEAN] /\ linked \in [Nodes -> BOOLEAN]
      /\ ghost \in [Hosts -> GhostKinds \cup {"no"}] /\ votes \in GhostKinds \cup {"current"}
      /\ clusterRpc \in [Nodes -> BOOLEAN] /\ trigger \in [Nodes -> Triggers]
      /\ fast \in [Nodes -> BOOLEAN] /\ status \in [Nodes -> Statuses]
  BY DEF Init, Triggers, Statuses
<1>7. clock \in 0 .. PollInterval - 1 /\ lag \in [Nodes -> Nat] /\ voteLag \in Nat /\ faults \in Nat
  BY TimingAssumption, FaultsAssumption DEF Init
<1> QED
  BY <1>1, <1>2, <1>4, <1>5, <1>6, <1>7 DEF TypeOK

\* The next boundary is ahead, and the confirmation poll too.
LEMMA ReturnType ==
    ASSUME TypeOK, NEW n \in Nodes, NEW view, Return(n, view)
    PROVE  /\ pc' \in [Nodes -> Locations] /\ trigger' \in [Nodes -> Triggers]
           /\ fast' \in [Nodes -> BOOLEAN] /\ wait' \in [Nodes -> Nat]
<1>1. NextBoundary \in Nat /\ ConfirmPoll \in Nat
  BY TimingAssumption DEF TypeOK, NextBoundary
<1>2. pc' \in [Nodes -> Locations] /\ trigger' \in [Nodes -> Triggers]
  BY DEF Return, TypeOK, Locations, Triggers
<1>3. fast' \in [Nodes -> BOOLEAN]
  BY DEF Return, TypeOK, FastPolling
<1>4. wait' \in [Nodes -> Nat]
  BY <1>1 DEF Return, TypeOK
<1> QED
  BY <1>2, <1>3, <1>4

LEMMA ProceedType ==
    ASSUME TypeOK, NEW n \in Nodes, NEW next \in Locations, Proceed(n, next)
    PROVE  /\ pc' \in [Nodes -> Locations] /\ trigger' \in [Nodes -> Triggers]
           /\ fast' \in [Nodes -> BOOLEAN] /\ wait' \in [Nodes -> Nat]
  BY DEF Proceed, TypeOK

\* Charging a fault leaves a natural number: faults are charged only while
\* there are some.
LEMMA ForgivenType ==
    ASSUME TypeOK, NEW forgiven \in VoteErrors, Charge(forgiven)
    PROVE  forgiven \in BOOLEAN /\ faults' \in Nat
<1>1. CASE forgiven = FALSE
  BY <1>1 DEF TypeOK, Charge
<1>2. CASE forgiven = TRUE
  <2>1. faults > 0
    BY <1>2 DEF VoteErrors, May
  <2> QED
    BY <1>2, <2>1 DEF TypeOK, Charge
<1> QED
  BY <1>1, <1>2 DEF VoteErrors

LEMMA OutcomeType ==
    ASSUME TypeOK, NEW kind, NEW bad, NEW outcome \in Outcomes(kind, bad),
           Charge(outcome # "done")
    PROVE  faults' \in Nat
  BY DEF TypeOK, Outcomes, Charge, May

\* The rank that delays a candidate counts members of a finite set.
LEMMA SelfRankType ==
    ASSUME TypeOK, NEW n \in Nodes
    PROVE  SelfRank(n) \in Nat
<1>1. IsFiniteSet(Ranked(n))
  BY NodesAssumption, FS_Subset DEF Ranked, TypeOK, Views
<1>2. Ahead(Ranked(n), Sorted(n), n) \subseteq Ranked(n)
  BY DEF Ahead
<1>3. IsFiniteSet(Ahead(Ranked(n), Sorted(n), n))
  BY <1>1, <1>2, FS_Subset
<1> QED
  BY <1>3, FS_CardinalityType DEF SelfRank, Rank

\* Every step of a manager keeps the types.
LEMMA ManagerType ==
    ASSUME TypeOK, NEW n \in Nodes, Manager(n)
    PROVE  TypeOK'
<1> USE DEF validators, cluster, time
<1>1. CASE Poll(n)
  <2>1. PICK forgiven \in VoteErrors :
          LET view == Refreshed(n, gs[n], forgiven)
              next == AfterPoll(n, view)
          IN  /\ gs' = [gs EXCEPT ![n] = view]
              /\ IF next = "idle"
                 THEN Return(n, view)
                 ELSE /\ pc' = [pc EXCEPT ![n] = next]
                      /\ trigger' = [trigger EXCEPT ![n] = TriggerOf(view)]
                      /\ wait' = [wait EXCEPT ![n] = EvalLag]
                      /\ UNCHANGED fast
              /\ Charge(forgiven)
    BY <1>1 DEF Poll
  <2> DEFINE view == Refreshed(n, gs[n], forgiven)
             next == AfterPoll(n, view)
  <2>2. forgiven \in BOOLEAN /\ faults' \in Nat
    BY <2>1, ForgivenType
  <2>3. view \in Views
    BY <2>2, RefreshedType DEF TypeOK
  <2>4. next \in Locations /\ TriggerOf(view) \in Triggers /\ EvalLag \in Nat
    BY TimingAssumption DEF AfterPoll, Locations, Evaluating, Candidacy, StandDown, Takeover,
       TriggerOf, Triggers
  <2>5. /\ pc' \in [Nodes -> Locations] /\ trigger' \in [Nodes -> Triggers]
        /\ fast' \in [Nodes -> BOOLEAN] /\ wait' \in [Nodes -> Nat]
    <3>1. CASE next = "idle"
      BY <2>1, <3>1, ReturnType
    <3>2. CASE next # "idle"
      BY <2>1, <2>4, <3>2 DEF TypeOK
    <3> QED
      BY <3>1, <3>2
  <2>6. gs' \in [Nodes -> Views]
    BY <2>1, <2>3 DEF TypeOK
  <2>7. status' \in [Nodes -> Statuses]
    BY <1>1 DEF Poll, TypeOK, Statuses
  <2> QED
    BY <1>1, <2>2, <2>5, <2>6, <2>7 DEF Poll, TypeOK
<1>2. CASE CheckHealthy(n)
  <2>1. "streak" \in Locations
    BY DEF Locations, Evaluating, Candidacy
  <2>2. /\ pc' \in [Nodes -> Locations] /\ trigger' \in [Nodes -> Triggers]
        /\ fast' \in [Nodes -> BOOLEAN] /\ wait' \in [Nodes -> Nat]
    BY <1>2, <2>1, ReturnType, ProceedType DEF CheckHealthy
  <2> QED
    BY <1>2, <2>2 DEF CheckHealthy, TypeOK
<1>3. CASE CheckHealthyLongEnough(n)
  <2>1. "identity" \in Locations
    BY DEF Locations, Evaluating, Candidacy
  <2>2. /\ pc' \in [Nodes -> Locations] /\ trigger' \in [Nodes -> Triggers]
        /\ fast' \in [Nodes -> BOOLEAN] /\ wait' \in [Nodes -> Nat]
    BY <1>3, <2>1, ReturnType, ProceedType DEF CheckHealthyLongEnough
  <2> QED
    BY <1>3, <2>2 DEF CheckHealthyLongEnough, TypeOK
<1>4. CASE CheckIdentityAndDelay(n)
  <2>1. "preActive" \in Locations /\ "sleeping" \in Locations
    BY DEF Locations, Evaluating, Takeover
  <2>2. SelfRank(n) * PollInterval \in Nat
    BY SelfRankType, TimingAssumption
  <2>3. /\ pc' \in [Nodes -> Locations] /\ trigger' \in [Nodes -> Triggers]
        /\ fast' \in [Nodes -> BOOLEAN] /\ wait' \in [Nodes -> Nat]
    <3>1. CASE Return(n, gs[n])
      BY <3>1, ReturnType
    <3>2. CASE Proceed(n, "preActive")
      BY <2>1, <3>2, ProceedType
    <3>3. CASE /\ pc' = [pc EXCEPT ![n] = "sleeping"]
               /\ wait' = [wait EXCEPT ![n] = SelfRank(n) * PollInterval]
               /\ UNCHANGED <<trigger, fast>>
      BY <2>1, <2>2, <3>3 DEF TypeOK
    <3> QED
      BY <1>4, <3>1, <3>2, <3>3 DEF CheckIdentityAndDelay
  <2> QED
    BY <1>4, <2>3 DEF CheckIdentityAndDelay, TypeOK
<1>5. CASE WakeAndRevalidate(n)
  <2>1. PICK forgiven \in VoteErrors :
          LET view == Refreshed(n, gs[n], forgiven)
          IN  /\ gs' = [gs EXCEPT ![n] = view]
              /\ IF TakeoverAborted(view, TRUE)
                 THEN Return(n, view)
                 ELSE /\ pc' = [pc EXCEPT ![n] = "preActive"]
                      /\ wait' = [wait EXCEPT ![n] = EvalLag]
                      /\ UNCHANGED <<trigger, fast>>
              /\ Charge(forgiven)
    BY <1>5 DEF WakeAndRevalidate
  <2> DEFINE view == Refreshed(n, gs[n], forgiven)
  <2>2. forgiven \in BOOLEAN /\ faults' \in Nat
    BY <2>1, ForgivenType
  <2>3. gs' \in [Nodes -> Views]
    BY <2>1, <2>2, RefreshedType DEF TypeOK
  <2>4. /\ pc' \in [Nodes -> Locations] /\ trigger' \in [Nodes -> Triggers]
        /\ fast' \in [Nodes -> BOOLEAN] /\ wait' \in [Nodes -> Nat]
    <3>1. CASE TakeoverAborted(view, TRUE)
      BY <2>1, <3>1, ReturnType
    <3>2. CASE ~TakeoverAborted(view, TRUE)
      BY <2>1, <3>2, TimingAssumption DEF TypeOK, Locations, Evaluating, Takeover
    <3> QED
      BY <3>1, <3>2
  <2> QED
    BY <1>5, <2>2, <2>3, <2>4 DEF WakeAndRevalidate, TypeOK
<1>6. CASE RunPreActiveHooks(n)
  <2>1. "runActive" \in Locations
    BY DEF Locations, Evaluating, Takeover
  <2>2. /\ pc' \in [Nodes -> Locations] /\ trigger' \in [Nodes -> Triggers]
        /\ fast' \in [Nodes -> BOOLEAN] /\ wait' \in [Nodes -> Nat]
    BY <1>6, <2>1, ReturnType, ProceedType DEF RunPreActiveHooks
  <2>3. faults' \in Nat
    BY <1>6, OutcomeType DEF RunPreActiveHooks
  <2>4. status' \in [Nodes -> Statuses]
    BY <1>6 DEF RunPreActiveHooks, TypeOK, Statuses
  <2> QED
    BY <1>6, <2>2, <2>3, <2>4 DEF RunPreActiveHooks, TypeOK
<1>7. CASE RunActiveCommand(n)
  <2>1. /\ pc' \in [Nodes -> Locations] /\ trigger' \in [Nodes -> Triggers]
        /\ fast' \in [Nodes -> BOOLEAN] /\ wait' \in [Nodes -> Nat]
    BY <1>7, ReturnType DEF RunActiveCommand
  <2>2. faults' \in Nat
    BY <1>7, OutcomeType DEF RunActiveCommand
  <2>3. identity' \in [Nodes -> Roles]
    BY <1>7 DEF RunActiveCommand, TypeOK, Roles
  <2> QED
    BY <1>7, <2>1, <2>2, <2>3 DEF RunActiveCommand, TypeOK
<1>8. CASE RunPrePassiveHooks(n)
  <2>1. "runPassive" \in Locations
    BY DEF Locations, Evaluating, StandDown
  <2>2. /\ pc' \in [Nodes -> Locations] /\ trigger' \in [Nodes -> Triggers]
        /\ fast' \in [Nodes -> BOOLEAN] /\ wait' \in [Nodes -> Nat]
    BY <1>8, <2>1, ReturnType, ProceedType DEF RunPrePassiveHooks
  <2>3. faults' \in Nat
    BY <1>8, OutcomeType DEF RunPrePassiveHooks
  <2>4. status' \in [Nodes -> Statuses]
    BY <1>8 DEF RunPrePassiveHooks, TypeOK, Statuses
  <2> QED
    BY <1>8, <2>2, <2>3, <2>4 DEF RunPrePassiveHooks, TypeOK
<1>9. CASE RunPassiveCommand(n)
  <2>1. "confirmPassive" \in Locations
    BY DEF Locations, Evaluating, StandDown
  <2>2. /\ pc' \in [Nodes -> Locations] /\ trigger' \in [Nodes -> Triggers]
        /\ fast' \in [Nodes -> BOOLEAN] /\ wait' \in [Nodes -> Nat]
    BY <1>9, <2>1, ReturnType, ProceedType DEF RunPassiveCommand
  <2>3. faults' \in Nat
    BY <1>9, OutcomeType DEF RunPassiveCommand
  <2>4. identity' \in [Nodes -> Roles]
    BY <1>9 DEF RunPassiveCommand, TypeOK, Roles
  <2> QED
    BY <1>9, <2>2, <2>3, <2>4 DEF RunPassiveCommand, TypeOK
<1>10. CASE ConfirmPassive(n)
  <2>1. /\ gs' \in [Nodes -> Views] /\ faults' \in Nat
        /\ \E view : Return(n, view)
    <3>1. CASE IsSelfPassive(n)
      <4>1. PICK forgiven \in VoteErrors :
              LET view == Refreshed(n, gs[n], forgiven)
              IN  gs' = [gs EXCEPT ![n] = view] /\ Return(n, view) /\ Charge(forgiven)
        BY <1>10, <3>1 DEF ConfirmPassive
      <4>2. forgiven \in BOOLEAN /\ faults' \in Nat
        BY <4>1, ForgivenType
      <4> QED
        BY <4>1, <4>2, RefreshedType DEF TypeOK
    <3>2. CASE ~IsSelfPassive(n)
      BY <1>10, <3>2 DEF ConfirmPassive, TypeOK
    <3> QED
      BY <3>1, <3>2
  <2>2. /\ pc' \in [Nodes -> Locations] /\ trigger' \in [Nodes -> Triggers]
        /\ fast' \in [Nodes -> BOOLEAN] /\ wait' \in [Nodes -> Nat]
    BY <2>1, ReturnType
  <2> QED
    BY <1>10, <2>1, <2>2 DEF ConfirmPassive, TypeOK
<1>11. CASE Start(n)
  <2>1. PICK forgiven \in VoteErrors :
          gs' = [gs EXCEPT ![n] = Refreshed(n, NewView, forgiven)] /\ Charge(forgiven)
    BY <1>11 DEF Start
  <2>2. forgiven \in BOOLEAN /\ faults' \in Nat
    BY <2>1, ForgivenType
  <2>3. NewView \in Views
    BY MaxCountAssumption DEF NewView, Views
  <2>4. gs' \in [Nodes -> Views]
    BY <2>1, <2>2, <2>3, RefreshedType DEF TypeOK
  <2>5. pc' \in [Nodes -> Locations]
    BY <1>11 DEF Start, TypeOK, Locations
  <2>6. wait' \in [Nodes -> Nat]
    BY <1>11, TimingAssumption DEF Start, TypeOK, NextBoundary
  <2> QED
    BY <1>11, <2>2, <2>4, <2>5, <2>6 DEF Start, TypeOK
<1> QED
  BY <1>1, <1>2, <1>3, <1>4, <1>5, <1>6, <1>7, <1>8, <1>9, <1>10, <1>11 DEF Manager

\* So does every step of the cluster, of time and of the faults.
LEMMA EnvironmentType ==
    ASSUME TypeOK, [Next]_vars, ~\E n \in Nodes : Manager(n)
    PROVE  TypeOK'
<1> USE DEF validators, cluster, managers, time
<1>1. ASSUME NEW n \in Nodes, Publish(n) PROVE TypeOK'
  BY <1>1 DEF Publish, TypeOK, Answers, Hosts
<1>2. ASSUME NEW n \in Nodes, Expire(n) PROVE TypeOK'
  BY <1>2 DEF Expire, TypeOK, Answers, Hosts
<1>3. CASE VotesLand
  BY <1>3 DEF VotesLand, TypeOK
<1>4. CASE DeclareDelinquent
  <2>1. votes' \in GhostKinds \cup {"current"}
    <3>1. Voters = {} => \A h \in Holders : ghost[h] \in GhostKinds
      BY DEF TypeOK, Voters, Holders, Hosts
    <3> QED
      BY <1>4, <3>1 DEF DeclareDelinquent, GhostKinds
  <2> QED
    BY <1>4, <2>1 DEF DeclareDelinquent, TypeOK
<1>5. CASE Tick
  <2>1. clock' \in 0 .. PollInterval - 1
    BY <1>5, TimingAssumption DEF Tick, TypeOK
  <2>2. wait' \in [Nodes -> Nat]
    BY <1>5 DEF Tick, TypeOK
  <2>3. lag' \in [Nodes -> Nat]
    BY <1>5, TimingAssumption DEF Tick, TypeOK
  <2>4. voteLag' \in Nat
    BY <1>5, TimingAssumption DEF Tick, TypeOK
  <2> QED
    BY <1>5, <2>1, <2>2, <2>3, <2>4 DEF Tick, TypeOK
<1>6. ASSUME NEW n \in Nodes, Crash(n) PROVE TypeOK'
  <2>1. identity' \in [Nodes -> Roles]
    BY <1>6 DEF Crash, TypeOK, Roles
  <2>2. gs' \in [Nodes -> Views]
    BY <1>6, MaxCountAssumption DEF Crash, TypeOK, NewView, Views
  <2>3. pc' \in [Nodes -> Locations] /\ trigger' \in [Nodes -> Triggers]
    BY <1>6 DEF Crash, TypeOK, Locations, Triggers
  <2>4. /\ fast' \in [Nodes -> BOOLEAN] /\ status' \in [Nodes -> Statuses]
        /\ wait' \in [Nodes -> Nat]
    BY <1>6 DEF Crash, TypeOK, Statuses
  <2>5. faults' \in Nat
    BY <1>6 DEF Crash, TypeOK, May
  <2> QED
    BY <1>6, <2>1, <2>2, <2>3, <2>4, <2>5 DEF Crash, TypeOK
<1>7. ASSUME NEW kind, Inject(kind) PROVE faults' \in Nat
  BY <1>7 DEF Inject, May, TypeOK
<1>8. ASSUME NEW n \in Nodes, Drop(n) PROVE TypeOK'
  BY <1>7, <1>8 DEF Drop, TypeOK
<1>9. ASSUME NEW n \in Nodes, Reconnect(n) PROVE TypeOK'
  BY <1>9 DEF Reconnect, TypeOK
<1>10. ASSUME NEW n \in Nodes, LoseClusterRpc(n) PROVE TypeOK'
  BY <1>7, <1>10 DEF LoseClusterRpc, TypeOK
<1>11. ASSUME NEW n \in Nodes, RegainClusterRpc(n) PROVE TypeOK'
  BY <1>11 DEF RegainClusterRpc, TypeOK
<1>12. ASSUME NEW n \in Nodes, ToggleLocalRpc(n) PROVE TypeOK'
  BY <1>7, <1>12 DEF ToggleLocalRpc, TypeOK
<1>13. ASSUME NEW n \in Nodes, ChangeHealth(n) PROVE TypeOK'
  BY <1>7, <1>13 DEF ChangeHealth, TypeOK
<1>14. ASSUME NEW h \in Hosts, ChangeVoting(h) PROVE TypeOK'
  BY <1>7, <1>14 DEF ChangeVoting, TypeOK
<1>15. CASE ChangeStranger
  BY <1>7, <1>15 DEF ChangeStranger, TypeOK, Answers, Roles
<1>16. CASE UNCHANGED vars
  BY <1>16 DEF vars, TypeOK
<1> QED
  BY <1>1, <1>2, <1>3, <1>4, <1>5, <1>6, <1>8, <1>9, <1>10, <1>11, <1>12, <1>13, <1>14,
     <1>15, <1>16 DEF Next, Environment

\* Every reachable state has the declared types; no wait, lag or count of
\* faults ever goes below zero (TypeOK of HaManager).
THEOREM TypeCorrect == Spec => []TypeOK
<1>1. TypeOK /\ [Next]_vars => TypeOK'
  BY ManagerType, EnvironmentType
<1> QED
  BY <1>1, InitType, PTL DEF Spec

---------------------------------------------------------------------------
(* The invariant of each manager. *)

LEMMA InitNodeInv ==
    ASSUME Init, NEW n \in Nodes
    PROVE  NodeInv(pc[n], gs[n], trigger[n])
<1>1. NewView \in Views
  BY MaxCountAssumption DEF NewView, Views
<1>2. Sound(gs[n])
  BY <1>1, RefreshedSound DEF Init
<1>3. pc[n] = "idle"
  BY DEF Init
<1> QED
  BY <1>2, <1>3 DEF NodeInv, LeaderlessAt, JustifiedAt, Evaluating, Candidacy,
     Takeover, StandDown

\* A manager that waits owes nothing but a sound view.
LEMMA ReturnNodeInv ==
    ASSUME TypeOK, NEW n \in Nodes, NEW view, Sound(view), Return(n, view), gs'[n] = view
    PROVE  NodeInv(pc'[n], gs'[n], trigger'[n])
<1>1. pc'[n] = "idle"
  BY DEF Return, TypeOK
<1> QED
  BY <1>1 DEF NodeInv, LeaderlessAt, JustifiedAt, Evaluating, Candidacy,
     Takeover, StandDown

\* Going on inside the candidacy, or from it into the takeover, on the same
\* view and for the same reason keeps the invariant.
LEMMA ProceedNodeInv ==
    ASSUME TypeOK, NEW n \in Nodes, NEW next,
           NodeInv(pc[n], gs[n], trigger[n]), Proceed(n, next), gs'[n] = gs[n],
           \/ pc[n] \in Candidacy /\ next \in Candidacy \cup Takeover
           \/ pc[n] \in Takeover /\ next \in Takeover
           \/ pc[n] = "prePassive" /\ next = "runPassive"
           \/ pc[n] = "runPassive" /\ next = "confirmPassive"
    PROVE  NodeInv(pc'[n], gs'[n], trigger'[n])
<1>1. pc'[n] = next /\ trigger'[n] = trigger[n]
  BY DEF Proceed, TypeOK
<1>2. LeaderlessAt(next, gs[n])
  BY DEF NodeInv, LeaderlessAt, Candidacy, Takeover
<1>3. JustifiedAt(next, gs[n], trigger[n])
  BY DEF NodeInv, JustifiedAt, Evaluating, Candidacy, Takeover, StandDown
<1> QED
  BY <1>1, <1>2, <1>3 DEF NodeInv

\* What the decision of a poll rests on.
LEMMA AfterPollFacts ==
    ASSUME NEW n \in Nodes, NEW view \in Views, Sound(view), AfterPoll(n, view) # "idle"
    PROVE  /\ AfterPoll(n, view) \in {"health", "prePassive"}
           /\ ~NoFailover(view)
           /\ view.count > 0 /\ view.active = {} /\ ~view.undeclared
           /\ AfterPoll(n, view) = "health" => n \in view.seen
           /\ JustifiedAt(AfterPoll(n, view), view, TriggerOf(view))
<1>1. ~NoFailover(view)
  BY DEF AfterPoll
<1>2. /\ AfterPoll(n, view) \in {"health", "prePassive"}
      /\ AfterPoll(n, view) = "health" => n \in view.seen
  BY <1>1 DEF AfterPoll
<1>3. view.count \in Nat /\ Threshold \in Nat \ {0}
  BY MaxCountAssumption, ThresholdAssumption DEF Views
<1>4. ~view.undeclared /\ (view.count >= Threshold \/ (Bypass /\ view.delinquent))
  BY <1>1, <1>3 DEF NoFailover, BypassTriggered
<1>5. view.count > 0
  BY <1>3, <1>4 DEF Sound
<1>6. view.active = {}
  BY <1>5 DEF Sound
<1>7. JustifiedAt(AfterPoll(n, view), view, TriggerOf(view))
  BY <1>4 DEF JustifiedAt, TriggerOf
<1> QED
  BY <1>1, <1>2, <1>4, <1>5, <1>6, <1>7

\* A step of n changes neither the location, the view nor the reason of any
\* other manager.
LEMMA ManagerFrame ==
    ASSUME TypeOK, NEW n \in Nodes, Manager(n), NEW m \in Nodes \ {n}
    PROVE  pc'[m] = pc[m] /\ gs'[m] = gs[m] /\ trigger'[m] = trigger[m]
<1>1. \A view : Return(n, view) => pc'[m] = pc[m] /\ trigger'[m] = trigger[m]
  BY DEF Return, TypeOK
<1>2. \A next : Proceed(n, next) => pc'[m] = pc[m] /\ trigger'[m] = trigger[m]
  BY DEF Proceed, TypeOK
<1>3. CASE Poll(n)
  BY <1>1, <1>3 DEF Poll, TypeOK
<1>4. CASE CheckHealthy(n)
  BY <1>1, <1>2, <1>4 DEF CheckHealthy
<1>5. CASE CheckHealthyLongEnough(n)
  BY <1>1, <1>2, <1>5 DEF CheckHealthyLongEnough
<1>6. CASE CheckIdentityAndDelay(n)
  BY <1>1, <1>2, <1>6 DEF CheckIdentityAndDelay, TypeOK
<1>7. CASE WakeAndRevalidate(n)
  BY <1>1, <1>7 DEF WakeAndRevalidate, TypeOK
<1>8. CASE RunPreActiveHooks(n)
  BY <1>1, <1>2, <1>8 DEF RunPreActiveHooks
<1>9. CASE RunActiveCommand(n)
  BY <1>1, <1>9 DEF RunActiveCommand
<1>10. CASE RunPrePassiveHooks(n)
  BY <1>1, <1>2, <1>10 DEF RunPrePassiveHooks
<1>11. CASE RunPassiveCommand(n)
  BY <1>1, <1>2, <1>11 DEF RunPassiveCommand
<1>12. CASE ConfirmPassive(n)
  BY <1>1, <1>12 DEF ConfirmPassive, TypeOK
<1>13. CASE Start(n)
  BY <1>13 DEF Start, TypeOK
<1> QED
  BY <1>3, <1>4, <1>5, <1>6, <1>7, <1>8, <1>9, <1>10, <1>11, <1>12, <1>13 DEF Manager

\* Every step of the manager of n keeps the invariant of n.
LEMMA ManagerNodeInv ==
    ASSUME TypeOK, NEW n \in Nodes, Manager(n), NodeInv(pc[n], gs[n], trigger[n])
    PROVE  NodeInv(pc'[n], gs'[n], trigger'[n])
<1>1. gs[n] \in Views /\ Sound(gs[n])
  BY DEF TypeOK, NodeInv
<1>2. \A forgiven \in VoteErrors : forgiven \in BOOLEAN
  BY DEF VoteErrors
<1>3. CASE Poll(n)
  <2>1. PICK forgiven \in VoteErrors :
          LET view == Refreshed(n, gs[n], forgiven)
              next == AfterPoll(n, view)
          IN  /\ gs' = [gs EXCEPT ![n] = view]
              /\ IF next = "idle"
                 THEN Return(n, view)
                 ELSE /\ pc' = [pc EXCEPT ![n] = next]
                      /\ trigger' = [trigger EXCEPT ![n] = TriggerOf(view)]
                      /\ wait' = [wait EXCEPT ![n] = EvalLag]
                      /\ UNCHANGED fast
              /\ Charge(forgiven)
    BY <1>3 DEF Poll
  <2> DEFINE view == Refreshed(n, gs[n], forgiven)
             next == AfterPoll(n, view)
  <2>2. view \in Views /\ Sound(view) /\ gs'[n] = view
    BY <1>1, <1>2, <2>1, RefreshedType, RefreshedSound DEF TypeOK
  <2>3. CASE next = "idle"
    BY <2>1, <2>2, <2>3, ReturnNodeInv
  <2>4. CASE next # "idle"
    <3>1. pc'[n] = next /\ trigger'[n] = TriggerOf(view)
      BY <2>1, <2>4 DEF TypeOK
    <3> HIDE DEF view, next
    <3>2. /\ LeaderlessAt(next, view) /\ JustifiedAt(next, view, TriggerOf(view))
      BY <2>2, <2>4, AfterPollFacts DEF LeaderlessAt, next
    <3> QED
      BY <2>2, <3>1, <3>2 DEF NodeInv
  <2> QED
    BY <2>3, <2>4
<1>4. CASE CheckHealthy(n)
  BY <1>1, <1>4, ReturnNodeInv, ProceedNodeInv DEF CheckHealthy, Candidacy
<1>5. CASE CheckHealthyLongEnough(n)
  BY <1>1, <1>5, ReturnNodeInv, ProceedNodeInv DEF CheckHealthyLongEnough, Candidacy
<1>6. CASE CheckIdentityAndDelay(n)
  <2>1. pc[n] = "identity" /\ gs' = gs
    BY <1>6 DEF CheckIdentityAndDelay
  <2>2. CASE Return(n, gs[n])
    BY <1>1, <2>1, <2>2, ReturnNodeInv
  <2>3. CASE Proceed(n, "preActive")
    BY <2>1, <2>3, ProceedNodeInv DEF Candidacy, Takeover
  <2>4. CASE /\ pc' = [pc EXCEPT ![n] = "sleeping"]
             /\ UNCHANGED <<trigger, fast>>
    <3>1. pc'[n] = "sleeping" /\ trigger'[n] = trigger[n] /\ gs'[n] = gs[n]
      BY <2>1, <2>4 DEF TypeOK
    <3>2. JustifiedAt("sleeping", gs[n], trigger[n])
      BY <2>1 DEF NodeInv, JustifiedAt, Evaluating, Candidacy
    <3> QED
      BY <1>1, <3>1, <3>2 DEF NodeInv, LeaderlessAt, Candidacy, Takeover
  <2> QED
    BY <1>6, <2>2, <2>3, <2>4 DEF CheckIdentityAndDelay
<1>7. CASE WakeAndRevalidate(n)
  <2>1. PICK forgiven \in VoteErrors :
          LET view == Refreshed(n, gs[n], forgiven)
          IN  /\ gs' = [gs EXCEPT ![n] = view]
              /\ IF TakeoverAborted(view, TRUE)
                 THEN Return(n, view)
                 ELSE /\ pc' = [pc EXCEPT ![n] = "preActive"]
                      /\ wait' = [wait EXCEPT ![n] = EvalLag]
                      /\ UNCHANGED <<trigger, fast>>
              /\ Charge(forgiven)
    BY <1>7 DEF WakeAndRevalidate
  <2> DEFINE view == Refreshed(n, gs[n], forgiven)
  <2>2. /\ view \in Views /\ Sound(view) /\ gs'[n] = view
        /\ gs[n].count >= Threshold /\ view.count # 0 => view.count >= Threshold
    BY <1>1, <1>2, <2>1, RefreshedType, RefreshedSound DEF TypeOK
  <2>3. CASE TakeoverAborted(view, TRUE)
    BY <2>1, <2>2, <2>3, ReturnNodeInv
  <2>4. CASE ~TakeoverAborted(view, TRUE)
    <3>1. pc'[n] = "preActive" /\ trigger'[n] = trigger[n]
      BY <2>1, <2>4 DEF TypeOK
    <3>2. JustifiedAt("sleeping", gs[n], trigger[n])
      BY <1>7 DEF WakeAndRevalidate, NodeInv
    <3> HIDE DEF view
    <3>3. ~view.undeclared /\ view.count # 0 /\ view.count \in Nat
      BY <2>2, <2>4 DEF TakeoverAborted, Views
    <3>4. LeaderlessAt("preActive", view)
      BY <2>2, <3>3 DEF LeaderlessAt, Sound
    <3>5. JustifiedAt("preActive", view, trigger[n])
      BY <2>2, <3>2, <3>3 DEF JustifiedAt, Candidacy
    <3> QED
      BY <2>2, <3>1, <3>4, <3>5 DEF NodeInv
  <2> QED
    BY <2>3, <2>4
<1>8. CASE RunPreActiveHooks(n)
  BY <1>1, <1>8, ReturnNodeInv, ProceedNodeInv DEF RunPreActiveHooks, Takeover
<1>9. CASE RunActiveCommand(n)
  BY <1>1, <1>9, ReturnNodeInv DEF RunActiveCommand
<1>10. CASE RunPrePassiveHooks(n)
  BY <1>1, <1>10, ReturnNodeInv, ProceedNodeInv DEF RunPrePassiveHooks
<1>11. CASE RunPassiveCommand(n)
  BY <1>1, <1>11, ReturnNodeInv, ProceedNodeInv DEF RunPassiveCommand
<1>12. CASE ConfirmPassive(n)
  <2>1. CASE IsSelfPassive(n)
    <3>1. PICK forgiven \in VoteErrors :
            LET view == Refreshed(n, gs[n], forgiven)
            IN  gs' = [gs EXCEPT ![n] = view] /\ Return(n, view) /\ Charge(forgiven)
      BY <1>12, <2>1 DEF ConfirmPassive
    <3>2. /\ Sound(Refreshed(n, gs[n], forgiven))
          /\ gs'[n] = Refreshed(n, gs[n], forgiven)
      BY <1>1, <1>2, <3>1, RefreshedSound DEF TypeOK
    <3> QED
      BY <3>1, <3>2, ReturnNodeInv
  <2>2. CASE ~IsSelfPassive(n)
    BY <1>1, <1>12, <2>2, ReturnNodeInv DEF ConfirmPassive
  <2> QED
    BY <2>1, <2>2
<1>13. CASE Start(n)
  <2>1. PICK forgiven \in VoteErrors :
          gs' = [gs EXCEPT ![n] = Refreshed(n, NewView, forgiven)]
    BY <1>13 DEF Start
  <2>2. NewView \in Views
    BY MaxCountAssumption DEF NewView, Views
  <2>3. Sound(gs'[n]) /\ pc'[n] = "idle"
    BY <1>2, <1>13, <2>1, <2>2, RefreshedSound DEF Start, TypeOK
  <2> QED
    BY <2>3 DEF NodeInv, LeaderlessAt, JustifiedAt, Evaluating, Candidacy,
       Takeover, StandDown
<1> QED
  BY <1>3, <1>4, <1>5, <1>6, <1>7, <1>8, <1>9, <1>10, <1>11, <1>12, <1>13 DEF Manager

\* The rest of the system does not touch a manager, but for a crash, which
\* leaves it with nothing.
LEMMA EnvironmentNodeInv ==
    ASSUME TypeOK, [Next]_vars, ~\E n \in Nodes : Manager(n),
           NEW m \in Nodes, NodeInv(pc[m], gs[m], trigger[m])
    PROVE  NodeInv(pc'[m], gs'[m], trigger'[m])
<1>1. CASE UNCHANGED <<pc, gs, trigger>>
  BY <1>1
<1>2. ASSUME NEW n \in Nodes, Crash(n)
      PROVE  NodeInv(pc'[m], gs'[m], trigger'[m])
  <2>1. CASE m = n
    <3>1. pc'[m] = "down" /\ gs'[m] = NewView
      BY <1>2, <2>1 DEF Crash, TypeOK
    <3>2. Sound(NewView)
      BY DEF Sound, NewView
    <3> QED
      BY <3>1, <3>2 DEF NodeInv, LeaderlessAt, JustifiedAt, Evaluating,
         Candidacy, Takeover, StandDown
  <2>2. CASE m # n
    BY <1>2, <2>2 DEF Crash, TypeOK
  <2> QED
    BY <2>1, <2>2
<1>3. (\E n \in Nodes : Crash(n)) \/ UNCHANGED <<pc, gs, trigger>>
  BY DEF Next, vars, managers, Publish, Expire, VotesLand, DeclareDelinquent, Tick,
     Environment, Drop, Reconnect, LoseClusterRpc, RegainClusterRpc, ToggleLocalRpc,
     ChangeHealth, ChangeVoting, ChangeStranger
<1> QED
  BY <1>1, <1>2, <1>3

\* IInv holds in every reachable state.
LEMMA Inductive == Spec => []IInv
<1>1. Init => IInv
  BY InitType, InitNodeInv DEF IInv
<1>2. IInv /\ [Next]_vars => IInv'
  <2> SUFFICES ASSUME IInv, [Next]_vars PROVE IInv'
    OBVIOUS
  <2>1. TypeOK /\ TypeOK'
    BY ManagerType, EnvironmentType DEF IInv
  <2>2. ASSUME NEW m \in Nodes PROVE NodeInv(pc'[m], gs'[m], trigger'[m])
    <3>1. CASE \E n \in Nodes : Manager(n)
      <4>1. PICK n \in Nodes : Manager(n)
        BY <3>1
      <4>2. NodeInv(pc[m], gs[m], trigger[m])
        BY DEF IInv
      <4>3. CASE m = n
        BY <2>1, <4>1, <4>2, <4>3, ManagerNodeInv
      <4>4. CASE m # n
        BY <2>1, <4>1, <4>2, <4>4, ManagerFrame
      <4> QED
        BY <4>3, <4>4
    <3>2. CASE ~\E n \in Nodes : Manager(n)
      BY <2>1, <3>2, EnvironmentNodeInv DEF IInv
    <3> QED
      BY <3>1, <3>2
  <2> QED
    BY <2>1, <2>2 DEF IInv
<1> QED
  BY <1>1, <1>2, PTL DEF Spec

---------------------------------------------------------------------------
(* The safety properties. *)

\* Every view a manager ever holds is consistent with itself: a leader and a
\* leaderless count, or a failed refresh and an old verdict, never go together
\* (what State.Refresh leaves for ensureHAState to decide on).
THEOREM ViewsAreSound == Spec => []ViewsSound
<1>1. IInv => ViewsSound
  BY DEF IInv, NodeInv, ViewsSound
<1> QED
  BY <1>1, Inductive, PTL

\* No manager that checks whether to take over, or takes over, has a leader in
\* the view it holds (the guards of ensureHAState up to the call of ensureActive).
THEOREM TakeoverSeesNoLeader == Spec => []NoLeaderInView
<1>1. IInv => NoLeaderInView
  BY DEF IInv, NodeInv, LeaderlessAt, NoLeaderInView
<1> QED
  BY <1>1, Inductive, PTL

\* A failover never outlives its reason: through the delay and the second
\* refresh its count stays at the threshold, or it was begun by the bypass.
THEOREM FailoverStaysJustified == Spec => []FailoverJustified
<1>1. IInv => FailoverJustified
  BY DEF IInv, NodeInv, JustifiedAt, FailoverJustified
<1> QED
  BY <1>1, Inductive, PTL

---------------------------------------------------------------------------
(* The steps into a takeover. *)

\* A refresh that counts a leaderless sample has read a gossip without a leader,
\* or has read nothing: forgiving a failed lookup only adds leaders.
LEMMA LeaderlessSample ==
    ASSUME NEW n \in Nodes, NEW view \in Views, NEW forgiven \in BOOLEAN,
           clusterRpc[n], Refreshed(n, view, forgiven).count # 0
    PROVE  Leaders(adverts, Verdict(FALSE)) = {}
<1>1. Leaders(adverts, Verdict(forgiven)) = {}
  BY DEF Refreshed, Answered, NextCount
<1>2. \A h \in Hosts : Verdict(FALSE)[h] = "voting" => Verdict(forgiven)[h] = "voting"
  BY DEF Verdict
<1> QED
  BY <1>1, <1>2 DEF Leaders, Claimants

\* Only a poll begins the checks of a takeover.
LEMMA OnlyPollBegins ==
    ASSUME TypeOK, NEW n \in Nodes, NEW m \in Nodes, Manager(n),
           pc[m] = "idle", pc'[m] = "health"
    PROVE  m = n /\ Poll(n)
<1>1. m = n
  BY ManagerFrame
<1>2. ~Start(n)
  BY <1>1 DEF Start, TypeOK
<1>3. Poll(n)
  BY <1>1, <1>2 DEF Manager, CheckHealthy, CheckHealthyLongEnough, CheckIdentityAndDelay,
     WakeAndRevalidate, RunPreActiveHooks, RunActiveCommand, RunPrePassiveHooks,
     RunPassiveCommand, ConfirmPassive
<1> QED
  BY <1>1, <1>3

\* Only the second look ends the delay.
LEMMA OnlyWakeGoesOn ==
    ASSUME TypeOK, NEW n \in Nodes, NEW m \in Nodes, Manager(n),
           pc[m] = "sleeping", pc'[m] = "preActive"
    PROVE  m = n /\ WakeAndRevalidate(n)
<1>1. m = n
  BY ManagerFrame
<1>2. WakeAndRevalidate(n)
  BY <1>1 DEF Manager, Poll, CheckHealthy, CheckHealthyLongEnough, CheckIdentityAndDelay,
     RunPreActiveHooks, RunActiveCommand, RunPrePassiveHooks, RunPassiveCommand,
     ConfirmPassive, Start
<1> QED
  BY <1>1, <1>2

\* No step outside the managers moves one into a takeover.
LEMMA EnvironmentBeginsNothing ==
    ASSUME TypeOK, [Next]_vars, ~\E n \in Nodes : Manager(n), NEW m \in Nodes
    PROVE  pc'[m] = pc[m] \/ pc'[m] = "down"
<1>1. ASSUME NEW n \in Nodes, Crash(n) PROVE pc'[m] = pc[m] \/ pc'[m] = "down"
  BY <1>1 DEF Crash, TypeOK
<1>2. (\E n \in Nodes : Crash(n)) \/ UNCHANGED pc
  BY DEF Next, vars, managers, Publish, Expire, VotesLand, DeclareDelinquent, Tick,
     Environment, Drop, Reconnect, LoseClusterRpc, RegainClusterRpc, ToggleLocalRpc,
     ChangeHealth, ChangeVoting, ChangeStranger
<1> QED
  BY <1>1, <1>2

\* A takeover is begun, and gone on with after the delay, only while the gossip
\* that is read shows no voting leader (the two refreshes of ensureHAState).
THEOREM TakeoverEntersLeaderless == Spec => EntersLeaderless
<1>1. /\ IInv
      /\ [Next]_vars
      => [\A n \in Nodes :
            /\ pc[n] = "idle" /\ pc'[n] = "health" => Leaders(adverts, Verdict(FALSE)) = {}
            /\ pc[n] = "sleeping" /\ pc'[n] = "preActive" =>
                   Leaders(adverts, Verdict(FALSE)) = {} \/ ~clusterRpc[n]]_vars
  <2> SUFFICES ASSUME IInv, [Next]_vars, NEW m \in Nodes
               PROVE  /\ pc[m] = "idle" /\ pc'[m] = "health" =>
                             Leaders(adverts, Verdict(FALSE)) = {}
                      /\ pc[m] = "sleeping" /\ pc'[m] = "preActive" =>
                             Leaders(adverts, Verdict(FALSE)) = {} \/ ~clusterRpc[m]
    OBVIOUS
  <2>1. TypeOK /\ gs[m] \in Views
    BY DEF IInv, TypeOK
  <2>2. \A forgiven \in VoteErrors : forgiven \in BOOLEAN
    BY DEF VoteErrors
  <2>3. ASSUME pc[m] = "idle", pc'[m] = "health"
        PROVE  Leaders(adverts, Verdict(FALSE)) = {}
    <3>1. Poll(m)
      BY <2>1, <2>3, OnlyPollBegins, EnvironmentBeginsNothing
    <3>2. PICK forgiven \in VoteErrors :
            LET view == Refreshed(m, gs[m], forgiven)
                next == AfterPoll(m, view)
            IN  IF next = "idle" THEN Return(m, view) ELSE pc' = [pc EXCEPT ![m] = next]
      BY <3>1 DEF Poll
    <3> DEFINE view == Refreshed(m, gs[m], forgiven)
               next == AfterPoll(m, view)
    <3>3. next = "health"
      BY <2>1, <2>3, <3>2 DEF Return, TypeOK
    <3>4. view \in Views /\ Sound(view)
      BY <2>1, <2>2, RefreshedType, RefreshedSound
    <3>5. view.count > 0 /\ m \in view.seen
      <4> HIDE DEF view
      <4> QED
        BY <3>3, <3>4, AfterPollFacts
    <3>6. clusterRpc[m]
      BY <3>5 DEF Refreshed, Failed, NewView
    <3>7. view.count # 0
      BY <3>4, <3>5 DEF Views
    <3> QED
      BY <2>1, <2>2, <3>6, <3>7, LeaderlessSample
  <2>4. ASSUME pc[m] = "sleeping", pc'[m] = "preActive", clusterRpc[m]
        PROVE  Leaders(adverts, Verdict(FALSE)) = {}
    <3>1. WakeAndRevalidate(m)
      BY <2>1, <2>4, OnlyWakeGoesOn, EnvironmentBeginsNothing
    <3>2. PICK forgiven \in VoteErrors :
            LET view == Refreshed(m, gs[m], forgiven)
            IN  TakeoverAborted(view, TRUE) => Return(m, view)
      BY <3>1 DEF WakeAndRevalidate
    <3>3. Refreshed(m, gs[m], forgiven).count # 0
      BY <2>1, <2>4, <3>2 DEF TakeoverAborted, Return, TypeOK
    <3> QED
      BY <2>1, <2>2, <2>4, <3>3, LeaderlessSample
  <2> QED
    BY <2>3, <2>4
<1> QED
  BY <1>1, Inductive, PTL DEF Spec, EntersLeaderless

---------------------------------------------------------------------------
(* The confirmation polls. *)

\* The loop that n is in while it waits goes with the count of its view, and a
\* manager starts in the loop of the ticker.
FastAt(n) ==
    /\ pc[n] = "down" => ~fast[n]
    /\ pc[n] = "idle" /\ fast[n] => gs[n].count = Threshold - 1

FastInv == \A n \in Nodes : FastAt(n)

LEMMA ReturnFast ==
    ASSUME TypeOK, NEW n \in Nodes, NEW view, Return(n, view), gs'[n] = view
    PROVE  FastAt(n)'
<1>1. pc'[n] = "idle" /\ (fast'[n] => view.count = Threshold - 1)
  BY DEF Return, TypeOK
<1> QED
  BY <1>1 DEF FastAt

\* A manager that goes on is in the middle of an evaluation.
LEMMA ProceedFast ==
    ASSUME TypeOK, NEW n \in Nodes, NEW next \in Evaluating, Proceed(n, next)
    PROVE  FastAt(n)'
<1>1. pc'[n] = next /\ next \notin {"down", "idle"}
  BY DEF Proceed, TypeOK, Evaluating, Candidacy, Takeover, StandDown
<1> QED
  BY <1>1 DEF FastAt

LEMMA FastFrame ==
    ASSUME TypeOK, NEW n \in Nodes, Manager(n), NEW m \in Nodes \ {n}
    PROVE  fast'[m] = fast[m]
<1>1. \A view : Return(n, view) => fast'[m] = fast[m]
  BY DEF Return, TypeOK
<1>2. \A next : Proceed(n, next) => fast' = fast
  BY DEF Proceed
<1>3. CASE Poll(n)
  BY <1>1, <1>3 DEF Poll
<1>4. CASE CheckHealthy(n) \/ CheckHealthyLongEnough(n) \/ CheckIdentityAndDelay(n)
  BY <1>1, <1>2, <1>4 DEF CheckHealthy, CheckHealthyLongEnough, CheckIdentityAndDelay
<1>5. CASE WakeAndRevalidate(n) \/ ConfirmPassive(n) \/ Start(n)
  BY <1>1, <1>5 DEF WakeAndRevalidate, ConfirmPassive, Start
<1>6. CASE RunPreActiveHooks(n) \/ RunActiveCommand(n)
  BY <1>1, <1>2, <1>6 DEF RunPreActiveHooks, RunActiveCommand
<1>7. CASE RunPrePassiveHooks(n) \/ RunPassiveCommand(n)
  BY <1>1, <1>2, <1>7 DEF RunPrePassiveHooks, RunPassiveCommand
<1> QED
  BY <1>3, <1>4, <1>5, <1>6, <1>7 DEF Manager

LEMMA ManagerFast ==
    ASSUME TypeOK, NEW n \in Nodes, Manager(n), FastAt(n)
    PROVE  FastAt(n)'
<1>1. {"streak", "identity", "preActive", "runActive", "runPassive", "confirmPassive"}
          \subseteq Evaluating
  BY DEF Evaluating, Candidacy, Takeover, StandDown
<1>2. \A view : Return(n, view) /\ gs'[n] = view => FastAt(n)'
  BY ReturnFast
<1>3. \A next \in Evaluating : Proceed(n, next) => FastAt(n)'
  BY ProceedFast
<1>4. CASE Poll(n)
  <2>1. PICK forgiven \in VoteErrors :
          LET view == Refreshed(n, gs[n], forgiven)
              next == AfterPoll(n, view)
          IN  /\ gs' = [gs EXCEPT ![n] = view]
              /\ IF next = "idle" THEN Return(n, view) ELSE pc' = [pc EXCEPT ![n] = next]
    BY <1>4 DEF Poll
  <2> DEFINE view == Refreshed(n, gs[n], forgiven)
             next == AfterPoll(n, view)
  <2>2. gs'[n] = view
    BY <2>1 DEF TypeOK
  <2>3. CASE next = "idle"
    BY <1>2, <2>1, <2>2, <2>3
  <2>4. CASE next # "idle"
    <3>1. pc'[n] = next /\ next # "down"
      BY <2>1, <2>4 DEF TypeOK, AfterPoll
    <3> QED
      BY <2>4, <3>1 DEF FastAt
  <2> QED
    BY <2>3, <2>4
<1>5. CASE CheckHealthy(n)
  BY <1>1, <1>2, <1>3, <1>5 DEF CheckHealthy
<1>6. CASE CheckHealthyLongEnough(n)
  BY <1>1, <1>2, <1>3, <1>6 DEF CheckHealthyLongEnough
<1>7. CASE CheckIdentityAndDelay(n)
  <2>1. CASE pc' = [pc EXCEPT ![n] = "sleeping"]
    BY <2>1 DEF FastAt, TypeOK
  <2> QED
    BY <1>1, <1>2, <1>3, <1>7, <2>1 DEF CheckIdentityAndDelay
<1>8. CASE WakeAndRevalidate(n)
  <2>1. PICK view :
          /\ gs' = [gs EXCEPT ![n] = view]
          /\ Return(n, view) \/ pc' = [pc EXCEPT ![n] = "preActive"]
    BY <1>8 DEF WakeAndRevalidate
  <2>2. gs'[n] = view
    BY <2>1 DEF TypeOK
  <2>3. CASE pc' = [pc EXCEPT ![n] = "preActive"]
    BY <2>3 DEF FastAt, TypeOK
  <2> QED
    BY <1>2, <2>1, <2>2, <2>3
<1>9. CASE RunPreActiveHooks(n)
  BY <1>1, <1>2, <1>3, <1>9 DEF RunPreActiveHooks
<1>10. CASE RunActiveCommand(n)
  BY <1>2, <1>10 DEF RunActiveCommand
<1>11. CASE RunPrePassiveHooks(n)
  BY <1>1, <1>2, <1>3, <1>11 DEF RunPrePassiveHooks
<1>12. CASE RunPassiveCommand(n)
  BY <1>1, <1>2, <1>3, <1>12 DEF RunPassiveCommand
<1>13. CASE ConfirmPassive(n)
  <2>1. CASE IsSelfPassive(n)
    <3>1. PICK forgiven \in VoteErrors :
            LET view == Refreshed(n, gs[n], forgiven)
            IN  gs' = [gs EXCEPT ![n] = view] /\ Return(n, view)
      BY <1>13, <2>1 DEF ConfirmPassive
    <3>2. gs'[n] = Refreshed(n, gs[n], forgiven)
      BY <3>1 DEF TypeOK
    <3> QED
      BY <1>2, <3>1, <3>2
  <2>2. CASE ~IsSelfPassive(n)
    BY <1>2, <1>13, <2>2 DEF ConfirmPassive
  <2> QED
    BY <2>1, <2>2
<1>14. CASE Start(n)
  BY <1>14 DEF Start, FastAt, TypeOK
<1> QED
  BY <1>4, <1>5, <1>6, <1>7, <1>8, <1>9, <1>10, <1>11, <1>12, <1>13, <1>14 DEF Manager

LEMMA EnvironmentFast ==
    ASSUME TypeOK, [Next]_vars, ~\E n \in Nodes : Manager(n), NEW m \in Nodes, FastAt(m)
    PROVE  FastAt(m)'
<1>1. ASSUME NEW n \in Nodes, Crash(n) PROVE FastAt(m)'
  BY <1>1 DEF Crash, FastAt, TypeOK
<1>2. (\E n \in Nodes : Crash(n)) \/ UNCHANGED <<pc, gs, fast>>
  BY DEF Next, vars, managers, Publish, Expire, VotesLand, DeclareDelinquent, Tick,
     Environment, Drop, Reconnect, LoseClusterRpc, RegainClusterRpc, ToggleLocalRpc,
     ChangeHealth, ChangeVoting, ChangeStranger
<1> QED
  BY <1>1, <1>2 DEF FastAt

\* A manager that waits in runConfirmationPollLoop has seen a leaderless sample
\* and is one short of the threshold, which has to be above one: at a threshold
\* of one the loop is never left for a healthy cluster.
THEOREM FastPollsAreConfirmations ==
    ASSUME Threshold > 1
    PROVE  Spec => []FastPollNearThreshold
<1>1. Init => FastInv
  BY DEF Init, FastInv, FastAt
<1>2. IInv /\ FastInv /\ [Next]_vars => FastInv'
  <2> SUFFICES ASSUME IInv, FastInv, [Next]_vars, NEW m \in Nodes PROVE FastAt(m)'
    BY DEF FastInv
  <2>1. TypeOK /\ FastAt(m)
    BY DEF IInv, FastInv
  <2>2. CASE \E n \in Nodes : Manager(n)
    <3>1. PICK n \in Nodes : Manager(n)
      BY <2>2
    <3>2. CASE m = n
      BY <2>1, <3>1, <3>2, ManagerFast
    <3>3. CASE m # n
      BY <2>1, <3>1, <3>3, ManagerFrame, FastFrame DEF FastAt
    <3> QED
      BY <3>2, <3>3
  <2>3. CASE ~\E n \in Nodes : Manager(n)
    BY <2>1, <2>3, EnvironmentFast
  <2> QED
    BY <2>2, <2>3
<1>3. FastInv => FastPollNearThreshold
  <2>1. Threshold - 1 > 0
    BY ThresholdAssumption, MaxCountAssumption
  <2> QED
    BY <2>1 DEF FastInv, FastAt, FastPollNearThreshold
<1> QED
  BY <1>1, <1>2, <1>3, Inductive, PTL DEF Spec
===========================================================================
