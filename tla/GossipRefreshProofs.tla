------------------------ MODULE GossipRefreshProofs ------------------------
(***************************************************************************)
(* State.Refresh keeps the promise of GossipPromise for every set of       *)
(* nodes, every answer, every order of its entries and every behaviour of  *)
(* the vote accounts.  The invariant says what the refresh has gathered so *)
(* far: exactly what GossipView makes of the entries it is done with.      *)
(***************************************************************************)
EXTENDS GossipRefresh, FiniteSetTheorems, TLAPS

\* The walk has dealt with the entry of h with role r.
Done(h, r) ==
    /\ r \in answer[h]
    /\ <<h, r>> \notin todo
    /\ ~(at \in Lookup /\ host = h /\ r = "active")

Leading(h) == Done(h, "active") /\ found[h] = "voting"

\* What is left to do comes from the answer.
TodoListed ==
    /\ \A h \in Hosts, r \in Roles : <<h, r>> \in todo => r \in answer[h]
    /\ at \in Lookup => "active" \in answer[host] /\ <<host, "active">> \notin todo

\* What has been gathered is what the entries done with amount to.
Gathered ==
    /\ \A n \in Nodes : latest[n] = "active" <=> Leading(n)
    /\ \A n \in Nodes : latest[n] # "missing" <=> Leading(n) \/ Done(n, "passive")
    /\ new.undeclared <=> Leading(Stranger)
    /\ new.delinquent <=> \E h \in Hosts : Done(h, "active") /\ found[h] = "delinquent"
    /\ new.leaderless <=> \A h \in Hosts : ~Leading(h)

RInv == TypeOK /\ (at # "idle" => TodoListed /\ Gathered)

\* Bump stays in its bound.
LEMMA BumpType == \A c \in 0 .. MaxCount : Bump(c) \in 0 .. MaxCount
  BY MaxCountAssumption DEF Bump

LEMMA InitRInv == Init => RInv
<1> SUFFICES ASSUME Init PROVE TypeOK /\ at = "idle"
  BY DEF RInv
<1>1. /\ standing \in [VoteKeys -> {"closed", "current", "delinquent"}]
      /\ ours \in [VoteKeys -> BOOLEAN]
  <2>1. PICK k \in VoteKeys :
          /\ standing = [v \in VoteKeys |-> IF v = k THEN "current" ELSE "closed"]
          /\ ours = [v \in VoteKeys |-> v = k]
    BY DEF Init
  <2> QED
    BY <2>1
<1>2. /\ poor \in BOOLEAN /\ changes \in 0 .. MaxChanges
      /\ peerStates \in [Nodes -> Presence] /\ latest \in [Nodes -> Presence]
      /\ rpcError \in BOOLEAN /\ undeclared \in BOOLEAN /\ delinquent \in BOOLEAN
      /\ steady \in BOOLEAN
      /\ count \in 0 .. MaxCount /\ votePubkeyCache \in VoteKeys \cup {NoKey}
  <2>1. poor \in BOOLEAN /\ changes \in 0 .. MaxChanges /\ count \in 0 .. MaxCount
    <3>1. poor = FALSE /\ changes = 0 /\ count = 0
      BY DEF Init
    <3>2. MaxCount \in Nat /\ MaxChanges \in Nat
      BY MaxCountAssumption, BoundsAssumption
    <3>3. 0 \in 0 .. MaxCount /\ 0 \in 0 .. MaxChanges
      BY <3>2
    <3> QED
      BY <3>1, <3>3
  <2>2. peerStates \in [Nodes -> Presence] /\ latest \in [Nodes -> Presence]
    BY DEF Init, Presence
  <2>3. /\ rpcError \in BOOLEAN /\ undeclared \in BOOLEAN /\ delinquent \in BOOLEAN
        /\ steady \in BOOLEAN /\ votePubkeyCache \in VoteKeys \cup {NoKey}
    BY DEF Init
  <2> QED
    BY <2>1, <2>2, <2>3
<1>3. /\ at \in {"idle", "walk"} \cup Lookup /\ todo \subseteq Entries /\ host \in Hosts
      /\ new \in [undeclared : BOOLEAN, delinquent : BOOLEAN, leaderless : BOOLEAN]
  BY DEF Init, Hosts, NewFlags
<1>4. answer \in Answers /\ found \in [Hosts -> Verdicts]
  BY DEF Init, Answers, Verdicts
<1> QED
  BY <1>1, <1>2, <1>3, <1>4 DEF TypeOK, Init

---------------------------------------------------------------------------
(* The steps. *)

\* A refresh that begins has gathered nothing.
LEMMA BeginRInv == RInv /\ Begin => RInv'
<1> SUFFICES ASSUME RInv, Begin PROVE RInv'
  OBVIOUS
<1> USE DEF network, published
<1>1. PICK entries \in SUBSET Entries : todo' = entries /\ answer' = Listed(entries)
  BY DEF Begin
<1>2. answer' \in Answers /\ todo' \subseteq Entries
  BY <1>1 DEF Listed, Answers
<1>3. /\ at' = "walk" /\ latest' = [n \in Nodes |-> "missing"]
      /\ new' = [undeclared |-> FALSE, delinquent |-> FALSE, leaderless |-> TRUE]
  BY DEF Begin, Reset, NewFlags
<1>4. found' \in [Hosts -> Verdicts] /\ latest' \in [Nodes -> Presence]
  BY DEF Begin, Verdicts, Presence
<1>5. TypeOK'
  BY <1>2, <1>3, <1>4 DEF Begin, RInv, TypeOK
<1>6. \A h \in Hosts, r \in Roles : r \in answer'[h] <=> <<h, r>> \in todo'
  BY <1>1 DEF Listed
<1>7. \A h \in Hosts, r \in Roles : ~Done(h, r)'
  BY <1>6 DEF Done
<1>8. TodoListed'
  BY <1>3, <1>6 DEF TodoListed, Lookup
<1>9. Gathered'
  BY <1>3, <1>7 DEF Gathered, Leading, Roles, Hosts
<1> QED
  BY <1>5, <1>8, <1>9 DEF RInv

\* A passive entry makes its node present, unless it leads already.
LEMMA WalkPassiveRInv == RInv /\ WalkPassive => RInv'
<1> SUFFICES ASSUME RInv, WalkPassive PROVE RInv'
  OBVIOUS
<1> USE DEF network, published, history
<1>1. PICK h \in Hosts :
        /\ <<h, "passive">> \in todo /\ todo' = todo \ {<<h, "passive">>}
        /\ latest' = IF h \in Nodes THEN Passive(h) ELSE latest
  BY DEF WalkPassive
<1>2. /\ TypeOK /\ TodoListed /\ Gathered /\ at = "walk" /\ at' = "walk"
      /\ answer' = answer /\ found' = found /\ new' = new
  BY DEF WalkPassive, RInv
<1>3. TypeOK'
  <2>1. latest' \in [Nodes -> Presence] /\ todo' \subseteq Entries
    BY <1>1, <1>2 DEF Passive, TypeOK, Presence
  <2> QED
    BY <2>1, <1>2 DEF WalkPassive, TypeOK
<1>4. \A k \in Hosts, r \in Roles :
        Done(k, r)' <=> Done(k, r) \/ (k = h /\ r = "passive")
  BY <1>1, <1>2 DEF Done, TodoListed, Lookup, Roles
<1>5. \A k \in Hosts : Leading(k)' <=> Leading(k)
  BY <1>2, <1>4 DEF Leading, Roles
<1>6. TodoListed'
  BY <1>1, <1>2 DEF TodoListed, Lookup
<1>7. Nodes \subseteq Hosts /\ Stranger \in Hosts
  BY DEF Hosts
<1>8. \A n \in Nodes : /\ latest'[n] = "active" <=> Leading(n)'
                       /\ latest'[n] # "missing" <=> Leading(n)' \/ Done(n, "passive")'
  <2> SUFFICES ASSUME NEW n \in Nodes
               PROVE  /\ latest'[n] = "active" <=> Leading(n)'
                      /\ latest'[n] # "missing" <=> Leading(n)' \/ Done(n, "passive")'
    OBVIOUS
  <2>1. /\ latest[n] = "active" <=> Leading(n)
        /\ latest[n] # "missing" <=> Leading(n) \/ Done(n, "passive")
    BY <1>2 DEF Gathered
  <2>2. CASE n # h
    <3>1. latest'[n] = latest[n]
      BY <1>1, <1>2, <2>2 DEF Passive, TypeOK
    <3> QED
      BY <1>4, <1>5, <1>7, <2>1, <2>2, <3>1 DEF Roles
  <2>3. CASE n = h
    <3>1. latest'[n] = IF latest[n] = "active" THEN "active" ELSE "passive"
      BY <1>1, <1>2, <2>3 DEF Passive, TypeOK
    <3> QED
      BY <1>4, <1>5, <1>7, <2>1, <2>3, <3>1 DEF Roles
  <2> QED
    BY <2>2, <2>3
<1>9. Gathered'
  <2>1. \A k \in Hosts : Done(k, "active")' <=> Done(k, "active")
    BY <1>4 DEF Roles
  <2> QED
    BY <1>2, <1>5, <1>7, <1>8, <2>1 DEF Gathered
<1> QED
  BY <1>3, <1>6, <1>9 DEF RInv

\* An active entry that is taken up is not done with before its lookup ends.
LEMMA WalkActiveRInv == RInv /\ WalkActive => RInv'
<1> SUFFICES ASSUME RInv, WalkActive PROVE RInv'
  OBVIOUS
<1> USE DEF network, published
<1>1. PICK h \in Hosts :
        <<h, "active">> \in todo /\ todo' = todo \ {<<h, "active">>} /\ host' = h
  BY DEF WalkActive
<1>2. /\ TypeOK /\ TodoListed /\ Gathered /\ at = "walk" /\ at' \in Lookup
      /\ answer' = answer /\ found' = found /\ new' = new /\ latest' = latest
  BY DEF WalkActive, RInv, Lookup
<1>3. TypeOK'
  BY <1>1, <1>2 DEF WalkActive, TypeOK
<1>4. \A k \in Hosts, r \in Roles : Done(k, r)' <=> Done(k, r)
  BY <1>1, <1>2 DEF Done, Lookup
<1>5. TodoListed'
  BY <1>1, <1>2 DEF TodoListed, Roles
<1>6. \A k \in Hosts : Leading(k)' <=> Leading(k)
  BY <1>2, <1>4 DEF Leading, Roles
<1>7. Nodes \subseteq Hosts /\ Stranger \in Hosts /\ Roles = {"active", "passive"}
  BY DEF Hosts, Roles
<1>8. Gathered'
  BY <1>2, <1>4, <1>6, <1>7 DEF Gathered
<1> QED
  BY <1>3, <1>5, <1>8 DEF RInv

\* The end of a lookup adds its claimant to what is done with.
LEMMA JudgeRInv ==
    ASSUME RInv, at \in Lookup, NEW verdict \in Verdicts, Judge(verdict),
           votePubkeyCache' \in VoteKeys \cup {NoKey}
    PROVE  RInv'
<1> USE DEF network, published
<1>1. /\ TypeOK /\ TodoListed /\ Gathered /\ at' = "walk"
      /\ answer' = answer /\ todo' = todo /\ host' = host /\ host \in Hosts
      /\ found' = [found EXCEPT ![host] = verdict]
  BY DEF Judge, RInv, Lookup, TypeOK
<1>2. /\ new'.undeclared = (new.undeclared \/ (verdict = "voting" /\ host = Stranger))
      /\ new'.delinquent = (new.delinquent \/ verdict = "delinquent")
      /\ new'.leaderless = (new.leaderless /\ verdict # "voting")
  BY DEF Judge
<1>3. latest' = IF verdict = "voting" /\ host \in Nodes
                THEN [latest EXCEPT ![host] = "active"] ELSE latest
  BY DEF Judge
<1>4. TypeOK'
  <2>1. latest' \in [Nodes -> Presence]
    BY <1>1, <1>3 DEF TypeOK, Presence
  <2>2. found' \in [Hosts -> Verdicts]
    BY <1>1 DEF TypeOK
  <2>3. new' \in [undeclared : BOOLEAN, delinquent : BOOLEAN, leaderless : BOOLEAN]
    BY <1>1 DEF Judge, TypeOK
  <2> QED
    BY <1>1, <2>1, <2>2, <2>3 DEF Judge, TypeOK
<1>5. \A k \in Hosts, r \in Roles :
        Done(k, r)' <=> Done(k, r) \/ (k = host /\ r = "active")
  BY <1>1 DEF Done, TodoListed, Lookup
<1>6. ~Done(host, "active")
  BY DEF Done
<1>7. \A k \in Hosts : found'[k] = IF k = host THEN verdict ELSE found[k]
  BY <1>1 DEF TypeOK
<1>8. "active" \in Roles /\ "passive" \in Roles /\ Nodes \subseteq Hosts /\ Stranger \in Hosts
      /\ Stranger \notin Nodes
  BY NodesAssumption DEF Roles, Hosts
<1>9. \A k \in Hosts : Leading(k)' <=> Leading(k) \/ (k = host /\ verdict = "voting")
  BY <1>5, <1>6, <1>7, <1>8 DEF Leading
<1>10. TodoListed'
  BY <1>1 DEF TodoListed, Lookup
<1>11. \A n \in Nodes : /\ latest'[n] = "active" <=> Leading(n)'
                        /\ latest'[n] # "missing" <=> Leading(n)' \/ Done(n, "passive")'
  <2> SUFFICES ASSUME NEW n \in Nodes
               PROVE  /\ latest'[n] = "active" <=> Leading(n)'
                      /\ latest'[n] # "missing" <=> Leading(n)' \/ Done(n, "passive")'
    OBVIOUS
  <2>1. /\ latest[n] = "active" <=> Leading(n)
        /\ latest[n] # "missing" <=> Leading(n) \/ Done(n, "passive")
    BY <1>1 DEF Gathered
  <2>2. Done(n, "passive")' <=> Done(n, "passive")
    BY <1>5, <1>8
  <2>3. latest'[n] = IF verdict = "voting" /\ host = n THEN "active" ELSE latest[n]
    BY <1>1, <1>3 DEF TypeOK
  <2> QED
    BY <1>8, <1>9, <2>1, <2>2, <2>3
<1>12. new'.delinquent <=> \E h \in Hosts : (Done(h, "active") /\ found[h] = "delinquent")'
  <2>1. new.delinquent <=> \E h \in Hosts : Done(h, "active") /\ found[h] = "delinquent"
    BY <1>1 DEF Gathered
  <2> QED
    BY <1>1, <1>2, <1>5, <1>6, <1>7, <1>8, <2>1
<1>13. /\ new'.undeclared <=> Leading(Stranger)'
       /\ new'.leaderless <=> \A h \in Hosts : ~Leading(h)'
  BY <1>1, <1>2, <1>8, <1>9 DEF Gathered
<1>14. Gathered'
  BY <1>11, <1>12, <1>13 DEF Gathered
<1> QED
  BY <1>4, <1>10, <1>14 DEF RInv

\* A lookup that goes on to another call has gathered nothing yet.
LEMMA StayRInv ==
    ASSUME RInv, at \in Lookup, at' \in Lookup, votePubkeyCache' \in VoteKeys \cup {NoKey},
           UNCHANGED <<network, published, todo, host, latest, new, history>>
    PROVE  RInv'
<1> USE DEF network, published, history
<1>1. TypeOK'
  BY DEF RInv, TypeOK
<1>2. \A k \in Hosts, r \in Roles : Done(k, r)' <=> Done(k, r)
  BY DEF Done
<1>3. TodoListed /\ Gathered
  BY DEF RInv, Lookup
<1>4. TodoListed'
  BY <1>3 DEF TodoListed
<1>5. \A k \in Hosts : Leading(k)' <=> Leading(k)
  BY <1>2 DEF Leading, Roles
<1>6. Gathered'
  BY <1>2, <1>3, <1>5 DEF Gathered, Roles, Hosts
<1> QED
  BY <1>1, <1>4, <1>6 DEF RInv

LEMMA ExamineRInv ==
    ASSUME RInv, at \in Lookup, NEW keys, Examine(keys)
    PROVE  RInv'
<1>1. "voting" \in Verdicts /\ "absent" \in Verdicts /\ "balance" \in Lookup
  BY DEF Verdicts, Lookup
<1>2. Ours("delinquent") \subseteq VoteKeys /\ Ours("current") \subseteq VoteKeys
  BY DEF Ours
<1>3. CASE keys \cap Ours("delinquent") # {}
  BY <1>1, <1>2, <1>3, StayRInv DEF Examine
<1>4. CASE keys \cap Ours("delinquent") = {} /\ keys \cap Ours("current") # {}
  BY <1>1, <1>2, <1>4, JudgeRInv DEF Examine
<1>5. CASE keys \cap Ours("delinquent") = {} /\ keys \cap Ours("current") = {}
  BY <1>1, <1>5, JudgeRInv DEF Examine, RInv, TypeOK
<1> QED
  BY <1>3, <1>4, <1>5

\* A step of the network alone changes nothing that has been gathered.
LEMMA ChangeRInv ==
    ASSUME RInv, Change,
           standing' \in [VoteKeys -> {"closed", "current", "delinquent"}],
           ours' \in [VoteKeys -> BOOLEAN], poor' \in BOOLEAN
    PROVE  RInv'
<1> USE DEF published, refresh
<1>1. TypeOK'
  <2>1. changes' \in 0 .. MaxChanges
    BY BoundsAssumption DEF Change, RInv, TypeOK
  <2> QED
    BY <2>1 DEF Change, RInv, TypeOK
<1>2. CASE at = "idle"
  BY <1>1, <1>2 DEF Change, RInv
<1>3. CASE at # "idle"
  <2>1. \A k, r : Done(k, r)' <=> Done(k, r)
    BY DEF Change, Done
  <2>2. \A k : Leading(k)' <=> Leading(k)
    BY <2>1 DEF Leading, Change
  <2>3. TodoListed'
    BY <1>3 DEF RInv, TodoListed, Change
  <2>4. Gathered'
    BY <1>3, <2>1, <2>2 DEF RInv, Gathered, Change
  <2> QED
    BY <1>1, <2>3, <2>4 DEF RInv
<1> QED
  BY <1>2, <1>3

\* RInv holds in every reachable state.
LEMMA GatheredSoFar == Spec => []RInv
<1>1. RInv /\ [Next]_vars => RInv'
  <2> SUFFICES ASSUME RInv, [Next]_vars PROVE RInv'
    OBVIOUS
  <2>1. CASE Begin
    BY <2>1, BeginRInv
  <2>2. CASE BeginFailed
    <3>1. TypeOK'
      BY <2>2 DEF BeginFailed, RInv, TypeOK, Presence, network, refresh, history
    <3> QED
      BY <2>2, <3>1 DEF BeginFailed, RInv, refresh
  <2>3. CASE WalkPassive
    BY <2>3, WalkPassiveRInv
  <2>4. CASE WalkActive
    BY <2>4, WalkActiveRInv
  <2>5. CASE Publish
    <3>1. count' \in 0 .. MaxCount
      BY <2>5, BumpType, MaxCountAssumption DEF Publish, RInv, TypeOK
    <3>2. undeclared' \in BOOLEAN /\ delinquent' \in BOOLEAN
      BY <2>5 DEF Publish, RInv, TypeOK
    <3>3. TypeOK'
      BY <2>5, <3>1, <3>2 DEF Publish, RInv, TypeOK, network, history
    <3> QED
      BY <2>5, <3>3 DEF Publish, RInv
  <2>6. CASE LookupError
    BY <2>6, JudgeRInv DEF LookupError, Verdicts, RInv, TypeOK
  <2>7. CASE FilteredLookup
    <3>1. at \in Lookup /\ "unfiltered" \in Lookup
      BY <2>7 DEF FilteredLookup, Lookup
    <3>2. CASE Examine({votePubkeyCache})
      BY <3>1, <3>2, ExamineRInv
    <3>3. CASE ~Examine({votePubkeyCache})
      BY <2>7, <3>1, <3>3, StayRInv DEF FilteredLookup
    <3> QED
      BY <3>2, <3>3
  <2>8. CASE UnfilteredLookup
    BY <2>8, ExamineRInv DEF UnfilteredLookup, Lookup
  <2>9. CASE CheckBalance
    BY <2>9, JudgeRInv DEF CheckBalance, Lookup, Verdicts, RInv, TypeOK
  <2>10. CASE FallBehind
    BY <2>10, ChangeRInv DEF FallBehind, RInv, TypeOK
  <2>11. CASE CatchUp
    BY <2>11, ChangeRInv DEF CatchUp, RInv, TypeOK
  <2>12. CASE ChangeBalance
    BY <2>12, ChangeRInv DEF ChangeBalance, RInv, TypeOK
  <2>13. CASE Rotate
    <3>1. /\ standing' \in [VoteKeys -> {"closed", "current", "delinquent"}]
          /\ ours' \in [VoteKeys -> BOOLEAN]
      BY <2>13 DEF Rotate, RInv, TypeOK
    <3> QED
      BY <2>13, <3>1, ChangeRInv DEF Rotate, RInv, TypeOK
  <2>14. CASE UNCHANGED vars
    BY <2>14 DEF vars, network, published, refresh, history, RInv, TypeOK, TodoListed,
       Gathered, Leading, Done
  <2> QED
    BY <2>1, <2>2, <2>3, <2>4, <2>5, <2>6, <2>7, <2>8, <2>9, <2>10, <2>11, <2>12, <2>13,
       <2>14 DEF Next
<1> QED
  BY <1>1, InitRInv, PTL DEF Spec

---------------------------------------------------------------------------
(* The refinement. *)

\* The state a finished refresh publishes is the view GossipView makes of the
\* whole answer.
LEMMA PublishedView ==
    ASSUME RInv, Publish
    PROVE  View' = Promise!Answered(View, answer, found)
<1> DEFINE leaders == Promise!Leaders(answer, found)
<1>1. /\ TypeOK /\ Gathered /\ at = "walk" /\ todo = {}
      /\ peerStates' = latest /\ rpcError' = FALSE
      /\ undeclared' = new.undeclared /\ delinquent' = new.delinquent
      /\ count' = IF new.leaderless THEN Bump(count) ELSE 0
  BY DEF Publish, RInv
<1>2. \A h \in Hosts, r \in Roles : Done(h, r) <=> r \in answer[h]
  BY <1>1 DEF Done, Lookup
<1>3. "active" \in Roles /\ "passive" \in Roles /\ Nodes \subseteq Hosts /\ Stranger \in Hosts
  BY DEF Roles, Hosts
<1>4. \A h \in Hosts : h \in leaders <=> Leading(h)
  BY <1>2, <1>3 DEF Leading, Promise!Leaders, Promise!Claimants, Promise!Hosts, Hosts
<1>5. {n \in Nodes : peerStates'[n] = "active"} = leaders \cap Nodes
  BY <1>1, <1>3, <1>4 DEF Gathered
<1>6. {n \in Nodes : peerStates'[n] # "missing"} = Promise!Visible(answer, found)
  <2>1. \A n \in Nodes : peerStates'[n] # "missing" <=> n \in leaders \/ "passive" \in answer[n]
    BY <1>1, <1>2, <1>3, <1>4 DEF Gathered
  <2> QED
    BY <1>3, <2>1 DEF Promise!Visible, Promise!Hosts, Hosts
<1>7. undeclared' = (Stranger \in leaders)
  BY <1>1, <1>3, <1>4 DEF Gathered, TypeOK
<1>8. delinquent' = (\E h \in Promise!Claimants(answer) : found[h] = "delinquent")
  BY <1>1, <1>2, <1>3 DEF Gathered, TypeOK, Promise!Claimants, Promise!Hosts, Hosts
<1>9. new.leaderless <=> leaders = {}
  <2>1. leaders \subseteq Hosts
    BY DEF Promise!Leaders, Promise!Claimants, Promise!Hosts, Hosts
  <2> QED
    BY <1>1, <1>4, <2>1 DEF Gathered
<1>10. count' = Promise!NextCount(count, leaders)
  BY <1>1, <1>9 DEF Promise!NextCount, Promise!Bump, Bump
<1> QED
  BY <1>1, <1>5, <1>6, <1>7, <1>8, <1>10 DEF View, Promise!Answered

\* A refresh that fails at once forgets the peers and keeps the count.
LEMMA FailedView == ASSUME BeginFailed PROVE View' = Promise!Failed(View)
<1>1. /\ {n \in Nodes : peerStates'[n] # "missing"} = {}
      /\ {n \in Nodes : peerStates'[n] = "active"} = {}
  BY DEF BeginFailed
<1>2. rpcError' = TRUE /\ undeclared' = FALSE /\ delinquent' = FALSE /\ count' = count
  BY DEF BeginFailed
<1> QED
  BY <1>1, <1>2 DEF View, Promise!Failed

\* State.Refresh implements GossipPromise: whatever the order of the entries
\* and whenever the vote accounts change, the HA loop sees GossipView's view.
THEOREM RefreshKeepsPromise == Spec => PromiseKept
<1>1. Init => Promise!Init
  BY DEF Init, Promise!Init, View, Promise!NewView
<1>2. RInv /\ [Next]_vars => [Promise!Next]_View
  <2> SUFFICES ASSUME RInv, [Next]_vars
               PROVE  UNCHANGED View \/ Promise!Next
    BY DEF Promise!Next
  <2>1. CASE Publish
    BY <2>1, PublishedView DEF Promise!Next
  <2>2. CASE BeginFailed
    BY <2>2, FailedView DEF Promise!Next
  <2>3. CASE UNCHANGED published
    BY <2>3 DEF published, View
  <2>4. Publish \/ BeginFailed \/ UNCHANGED published
    BY DEF Next, vars, Begin, WalkPassive, WalkActive, LookupError, FilteredLookup,
       UnfilteredLookup, CheckBalance, FallBehind, CatchUp, ChangeBalance, Rotate, Change,
       Examine, Judge, refresh
  <2> QED
    BY <2>1, <2>2, <2>3, <2>4
<1> QED
  BY <1>1, <1>2, GatheredSoFar, PTL DEF Spec, PromiseKept, Promise!Spec

\* The State and the lookup are well typed for every set of nodes and vote
\* accounts, every bound and every order of the entries.
THEOREM TypeCorrect == Spec => []TypeOK
<1>1. RInv => TypeOK
  BY DEF RInv
<1> QED
  BY <1>1, GatheredSoFar, PTL

---------------------------------------------------------------------------
(* What is published is sound. *)

\* At most one entry of the answer has the active identity.
LoneClaimant ==
    \A h, k \in Hosts : "active" \in answer[h] /\ "active" \in answer[k] => h = k

SoundInv == LoneClaimant /\ PublishedSound

LEMMA AtMostOne ==
    ASSUME NEW S, IsFiniteSet(S), Cardinality(S) <= 1, NEW a \in S, NEW b \in S
    PROVE  a = b
<1> SUFFICES ASSUME a # b PROVE FALSE
  OBVIOUS
<1>1. /\ IsFiniteSet(S \ {a}) /\ Cardinality(S \ {a}) = Cardinality(S) - 1
      /\ Cardinality(S) \in Nat /\ Cardinality(S \ {a}) \in Nat
  BY FS_RemoveElement, FS_CardinalityType
<1>2. Cardinality(S \ {a}) = 0
  BY <1>1
<1>3. S \ {a} = {}
  BY <1>1, <1>2, FS_EmptySet
<1> QED
  BY <1>3

LEMMA BeginLone ==
    ASSUME MaxClaims = 1, Begin
    PROVE  LoneClaimant'
<1>1. PICK entries \in SUBSET Entries :
        /\ Cardinality({h \in Hosts : <<h, "active">> \in entries}) <= MaxClaims
        /\ answer' = Listed(entries)
  BY DEF Begin
<1> DEFINE claimants == {h \in Hosts : <<h, "active">> \in entries}
<1>2. IsFiniteSet(claimants)
  <2>1. IsFiniteSet(Hosts)
    BY NodesAssumption, FS_AddElement DEF Hosts
  <2> QED
    BY <2>1, FS_Subset
<1>3. \A h \in Hosts : "active" \in answer'[h] => h \in claimants
  BY <1>1 DEF Listed
<1>4. \A h, k \in claimants : h = k
  BY <1>1, <1>2, AtMostOne
<1> QED
  BY <1>3, <1>4 DEF LoneClaimant

\* A lone claimant cannot lead and be delinquent at once.
LEMMA PublishSound ==
    ASSUME RInv, LoneClaimant, Publish
    PROVE  PublishedSound'
<1> DEFINE leaders == Promise!Leaders(answer, found)
<1>1. View' = Promise!Answered(View, answer, found)
  BY PublishedView
<1>2. View.count \in 0 .. MaxCount
  BY DEF View, RInv, TypeOK
<1>3. /\ leaders = {h \in Hosts : "active" \in answer[h] /\ found[h] = "voting"}
      /\ Promise!Claimants(answer) = {h \in Hosts : "active" \in answer[h]}
  BY DEF Promise!Leaders, Promise!Claimants, Promise!Hosts, Hosts
<1>4. leaders \cap Nodes \subseteq Promise!Visible(answer, found)
  BY DEF Promise!Visible
<1>5. /\ leaders # {} => Promise!NextCount(View.count, leaders) = 0
      /\ leaders = {} => Promise!NextCount(View.count, leaders) > 0
  <2>1. MaxCount \in Nat /\ MaxCount > 0 /\ View.count \in Nat
    BY <1>2, MaxCountAssumption
  <2>2. Promise!Bump(View.count) > 0
    BY <1>2, <2>1 DEF Promise!Bump
  <2> QED
    BY <2>2 DEF Promise!NextCount
<1>6. (\E h \in Promise!Claimants(answer) : found[h] = "delinquent") => leaders = {}
  BY <1>3 DEF LoneClaimant
<1>7. /\ View'.rpcErr = FALSE
      /\ View'.seen = Promise!Visible(answer, found)
      /\ View'.active = leaders \cap Nodes
      /\ View'.undeclared = (Stranger \in leaders)
      /\ View'.delinquent = (\E h \in Promise!Claimants(answer) : found[h] = "delinquent")
      /\ View'.count = Promise!NextCount(View.count, leaders)
  BY <1>1 DEF Promise!Answered
<1>8. View'.active # {} \/ View'.undeclared => View'.count = 0
  BY <1>5, <1>7
<1>9. View'.delinquent => View'.count > 0
  BY <1>5, <1>6, <1>7
<1> QED
  BY <1>4, <1>7, <1>8, <1>9 DEF PublishedSound, Sound

LEMMA BeginFailedSound ==
    ASSUME BeginFailed
    PROVE  PublishedSound'
<1>1. View' = Promise!Failed(View)
  BY FailedView
<1>2. /\ View'.seen = {} /\ View'.active = {}
      /\ View'.undeclared = FALSE /\ View'.delinquent = FALSE
  BY <1>1 DEF Promise!Failed
<1> QED
  BY <1>2 DEF PublishedSound, Sound

\* While an answer lists the active identity once, no refresh publishes a view
\* that contradicts itself: the flags Refresh resets and isNodeActiveAndVoting
\* sets go with the peers and the count of the same answer.
THEOREM PublishedIsSound ==
    ASSUME MaxClaims = 1
    PROVE  Spec => []PublishedSound
<1>1. Init => SoundInv
  BY DEF Init, SoundInv, LoneClaimant, PublishedSound, Sound, View
<1>2. RInv /\ SoundInv /\ [Next]_vars => SoundInv'
  <2> SUFFICES ASSUME RInv, SoundInv, [Next]_vars PROVE SoundInv'
    OBVIOUS
  <2>1. CASE Begin
    BY <2>1, BeginLone DEF Begin, published, SoundInv, PublishedSound, Sound, View
  <2>2. CASE Publish
    BY <2>2, PublishSound DEF Publish, history, SoundInv, LoneClaimant
  <2>3. CASE BeginFailed
    BY <2>3, BeginFailedSound DEF BeginFailed, history, SoundInv, LoneClaimant
  <2>4. CASE UNCHANGED <<published, answer>>
    BY <2>4 DEF published, SoundInv, LoneClaimant, PublishedSound, Sound, View
  <2> QED
    BY <2>1, <2>2, <2>3, <2>4
    DEF Next, vars, WalkPassive, WalkActive, LookupError, FilteredLookup, UnfilteredLookup,
        CheckBalance, FallBehind, CatchUp, ChangeBalance, Rotate, Change, Examine, Judge,
        refresh, history
<1>3. SoundInv => PublishedSound
  BY DEF SoundInv
<1> QED
  BY <1>1, <1>2, <1>3, GatheredSoFar, PTL DEF Spec

---------------------------------------------------------------------------
(* A voting leader is not left out. *)

\* The call with a key has a key, and a lookup that nothing has disturbed asks
\* for the balance because an account is delinquent.
LookupInv ==
    /\ at = "filtered" => votePubkeyCache \in VoteKeys
    /\ at = "balance" /\ steady => Ours("delinquent") # {}

LEMMA ExamineLookupInv ==
    ASSUME RInv, NEW keys, Examine(keys)
    PROVE  LookupInv'
<1>1. CASE keys \cap Ours("delinquent") # {}
  BY <1>1 DEF Examine, LookupInv, Ours, network, history
<1>2. CASE keys \cap Ours("delinquent") = {}
  BY <1>2 DEF Examine, Judge, LookupInv
<1> QED
  BY <1>1, <1>2

LEMMA NextLookupInv ==
    ASSUME RInv, LookupInv, [Next]_vars
    PROVE  LookupInv'
<1>1. CASE Begin \/ WalkPassive \/ Publish
  BY <1>1 DEF Begin, WalkPassive, Publish, LookupInv
<1>2. CASE WalkActive
  BY <1>2 DEF WalkActive, LookupInv, RInv, TypeOK
<1>3. CASE LookupError \/ CheckBalance
  BY <1>3 DEF LookupError, CheckBalance, Judge, LookupInv
<1>4. CASE FilteredLookup
  BY <1>4, ExamineLookupInv DEF FilteredLookup, LookupInv
<1>5. CASE UnfilteredLookup
  BY <1>5, ExamineLookupInv DEF UnfilteredLookup
<1>6. CASE FallBehind \/ CatchUp \/ ChangeBalance \/ Rotate
  BY <1>6 DEF FallBehind, CatchUp, ChangeBalance, Rotate, Change, refresh, LookupInv
<1>7. CASE BeginFailed \/ UNCHANGED vars
  BY <1>7 DEF BeginFailed, vars, network, refresh, history, LookupInv, Ours
<1> QED
  BY <1>1, <1>2, <1>3, <1>4, <1>5, <1>6, <1>7 DEF Next

\* A lookup that ends by not finding a vote has seen that no account is current,
\* or an outdated account hides it.
LEMMA ExamineKeeps ==
    ASSUME Examine(VoteKeys), found \in [Hosts -> Verdicts], host \in Hosts, at' = "walk",
           found'[host] # "voting"
    PROVE  Ours("current") = {}
<1>1. Ours("delinquent") \subseteq VoteKeys /\ Ours("current") \subseteq VoteKeys
  BY DEF Ours
<1> QED
  BY <1>1 DEF Examine, Judge

\* A claimant with a vote account that is current during its whole lookup is
\* left out only if an outdated account hides it: isNodeActiveAndVoting never
\* trusts a cached key whose account is gone.
THEOREM VotingLeaderIsKept == Spec => VotingLeaderKept
<1>1. Init => LookupInv
  BY DEF Init, LookupInv
<1>2. RInv /\ LookupInv /\ [Next]_vars => LookupInv'
  BY NextLookupInv
<1>3. RInv /\ LookupInv /\ [Next]_vars =>
        [steady /\ at \in Lookup /\ at' = "walk" /\ found'[host] # "voting"
            => Ours("current") = {} \/ Outdated]_vars
  <2> SUFFICES ASSUME RInv, LookupInv, Next, steady, at \in Lookup, at' = "walk",
                      found'[host] # "voting", Ours("current") # {}
               PROVE  Outdated
    OBVIOUS
  <2>1. found \in [Hosts -> Verdicts] /\ host \in Hosts
        /\ standing \in [VoteKeys -> {"closed", "current", "delinquent"}]
    BY DEF RInv, TypeOK
  <2>2. CASE LookupError
    BY <2>1, <2>2 DEF LookupError, Judge
  <2>3. CASE FilteredLookup
    <3>1. at = "filtered" /\ votePubkeyCache \in VoteKeys
      BY <2>3 DEF FilteredLookup, LookupInv
    <3>2. standing[votePubkeyCache] # "closed" /\ Examine({votePubkeyCache})
      BY <2>3 DEF FilteredLookup
    <3>3. CASE Ours("delinquent") # {}
      BY <3>3 DEF Outdated
    <3>4. CASE {votePubkeyCache} \cap Ours("current") # {}
      BY <2>1, <3>2, <3>4 DEF Examine, Judge
    <3>5. CASE Ours("delinquent") = {} /\ {votePubkeyCache} \cap Ours("current") = {}
      BY <2>1, <3>1, <3>2, <3>5 DEF Ours, Outdated
    <3> QED
      BY <3>3, <3>4, <3>5
  <2>4. CASE UnfilteredLookup
    BY <2>1, <2>4, ExamineKeeps DEF UnfilteredLookup
  <2>5. CASE CheckBalance
    BY <2>5 DEF CheckBalance, LookupInv, Outdated
  <2> QED
    BY <2>2, <2>3, <2>4, <2>5
    DEF Next, Lookup, Begin, BeginFailed, WalkPassive, WalkActive, Publish, FallBehind,
        CatchUp, ChangeBalance, Rotate, Change, refresh
<1> QED
  BY <1>1, <1>2, <1>3, GatheredSoFar, PTL DEF Spec, VotingLeaderKept
===========================================================================
