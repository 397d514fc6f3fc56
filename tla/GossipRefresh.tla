--------------------------- MODULE GossipRefresh ---------------------------
(***************************************************************************)
(* State.Refresh entry by entry, as internal/gossip/state.go runs it: the  *)
(* walk over the cluster nodes, and for each entry with the active         *)
(* identity the lookup of isNodeActiveAndVoting, which asks for the vote   *)
(* accounts (through a cached vote key when there is one) and perhaps for  *)
(* a balance.  The vote accounts change between any two of these calls.    *)
(*                                                                         *)
(* getClusterNodes lists entries in no particular order, so the walk takes *)
(* any entry that is left.  Only the HA loop's goroutine reads a State,    *)
(* and only between refreshes: the two flags the code writes in place are  *)
(* published with the rest.                                                *)
(***************************************************************************)
EXTENDS GossipView

CONSTANTS
    VoteKeys,    \* vote accounts that may name the active identity
    NoKey,       \* no vote key is cached
    MaxClaims,   \* bound: entries of one answer with the active identity
    MaxChanges   \* bound: how often the vote accounts change

ASSUME KeysAssumption == NoKey \notin VoteKeys
ASSUME BoundsAssumption == MaxClaims \in Nat /\ MaxChanges \in Nat

VARIABLES
    \* the network
    standing,    \* each vote account: "closed", "current" or "delinquent"
    ours,        \* each vote account names the active identity
    poor,        \* the identity's balance is below rent exemption
    changes,
    \* gossip.State, as the HA loop reads it
    peerStates,  \* each declared node: "missing", "passive" or "active"
    rpcError, undeclared, delinquent, count,
    votePubkeyCache,
    \* the refresh that is running
    at,          \* "idle", "walk" or a call of isNodeActiveAndVoting
    todo,        \* entries of the answer not looked at yet
    host,        \* the claimant being looked up
    latest,      \* the new peerStates
    new,         \* the new flags
    \* history, for the properties
    answer, found, steady

network == <<standing, ours, poor, changes>>
published == <<peerStates, rpcError, undeclared, delinquent, count>>
refresh == <<at, todo, host, latest, new>>
history == <<answer, found, steady>>
vars == <<network, published, votePubkeyCache, refresh, history>>

Lookup == {"filtered", "unfiltered", "balance"}
Presence == {"missing", "passive", "active"}
Entries == Hosts \X Roles
NewFlags == [undeclared |-> FALSE, delinquent |-> FALSE, leaderless |-> TRUE]

TypeOK ==
    /\ standing \in [VoteKeys -> {"closed", "current", "delinquent"}]
    /\ ours \in [VoteKeys -> BOOLEAN] /\ poor \in BOOLEAN /\ changes \in 0 .. MaxChanges
    /\ peerStates \in [Nodes -> Presence] /\ latest \in [Nodes -> Presence]
    /\ {rpcError, undeclared, delinquent, steady} \subseteq BOOLEAN
    /\ count \in 0 .. MaxCount
    /\ votePubkeyCache \in VoteKeys \cup {NoKey}
    /\ at \in {"idle", "walk"} \cup Lookup
    /\ todo \subseteq Entries /\ host \in Hosts
    /\ new \in [undeclared : BOOLEAN, delinquent : BOOLEAN, leaderless : BOOLEAN]
    /\ answer \in Answers /\ found \in [Hosts -> Verdicts]

Listed(entries) == [h \in Hosts |-> {r \in Roles : <<h, r>> \in entries}]

\* The vote accounts getVoteAccounts reports for the identity.
Ours(state) == {k \in VoteKeys : ours[k] /\ standing[k] = state}

---------------------------------------------------------------------------
(* The walk. *)

\* Mutant of Reset: the delinquency of the last refresh is kept.
ResetButDelinquency == [NewFlags EXCEPT !.delinquent = delinquent]

\* The flags are reset on every refresh.
Reset == NewFlags

\* GetClusterNodes answers: everything but the cache starts afresh.
Begin ==
    /\ at = "idle"
    /\ \E entries \in SUBSET Entries :
           /\ Cardinality({h \in Hosts : <<h, "active">> \in entries}) <= MaxClaims
           /\ todo' = entries /\ answer' = Listed(entries)
    /\ at' = "walk"
    /\ latest' = [n \in Nodes |-> "missing"]
    /\ new' = Reset
    /\ found' = [h \in Hosts |-> "absent"]
    /\ UNCHANGED <<network, published, votePubkeyCache, host, steady>>

\* GetClusterNodes fails.
BeginFailed ==
    /\ at = "idle"
    /\ peerStates' = [n \in Nodes |-> "missing"]
    /\ rpcError' = TRUE /\ undeclared' = FALSE /\ delinquent' = FALSE
    /\ UNCHANGED <<network, count, votePubkeyCache, refresh, history>>

\* Mutant of Passive: the later of two entries of a peer wins.
PassiveOverwrites(n) == [latest EXCEPT ![n] = "passive"]

\* The peers after a passive entry of n: presence as the leader goes before it.
Passive(n) == IF latest[n] = "active" THEN latest ELSE [latest EXCEPT ![n] = "passive"]

WalkPassive ==
    /\ at = "walk"
    /\ \E h \in Hosts :
           /\ <<h, "passive">> \in todo
           /\ todo' = todo \ {<<h, "passive">>}
           /\ latest' = IF h \in Nodes THEN Passive(h) ELSE latest
    /\ UNCHANGED <<network, published, votePubkeyCache, at, host, new, history>>

\* An entry with the active identity is looked up, with the cached key first.
WalkActive ==
    /\ at = "walk"
    /\ \E h \in Hosts :
           /\ <<h, "active">> \in todo
           /\ todo' = todo \ {<<h, "active">>}
           /\ host' = h
    /\ at' = IF votePubkeyCache = NoKey THEN "unfiltered" ELSE "filtered"
    /\ steady' = TRUE
    /\ UNCHANGED <<network, published, votePubkeyCache, latest, new, answer, found>>

\* The walk is over: the leaderless sample is counted or the count is reset.
Publish ==
    /\ at = "walk" /\ todo = {}
    /\ peerStates' = latest
    /\ rpcError' = FALSE
    /\ undeclared' = new.undeclared /\ delinquent' = new.delinquent
    /\ count' = IF new.leaderless THEN Bump(count) ELSE 0
    /\ at' = "idle"
    /\ UNCHANGED <<network, votePubkeyCache, todo, host, latest, new, history>>

---------------------------------------------------------------------------
(* The lookup of one claimant, isNodeActiveAndVoting. *)

\* The lookup ends. A claimant that does not vote is left out of the state.
Judge(verdict) ==
    /\ at' = "walk"
    /\ found' = [found EXCEPT ![host] = verdict]
    /\ new' = [undeclared |-> new.undeclared \/ (verdict = "voting" /\ host = Stranger),
               delinquent |-> new.delinquent \/ verdict = "delinquent",
               leaderless |-> new.leaderless /\ verdict # "voting"]
    /\ latest' = IF verdict = "voting" /\ host \in Nodes
                 THEN [latest EXCEPT ![host] = "active"] ELSE latest
    /\ UNCHANGED <<network, published, todo, host, answer, steady>>

\* A call of the lookup fails: the claimant is presumed to vote.
LookupError ==
    /\ at \in Lookup
    /\ Judge("voting")
    /\ UNCHANGED votePubkeyCache

\* The accounts that came back: one that is delinquent is looked for first,
\* and the key that is found is cached.
Examine(keys) ==
    IF keys \cap Ours("delinquent") # {}
    THEN /\ votePubkeyCache' \in keys \cap Ours("delinquent")
         /\ at' = "balance"
         /\ UNCHANGED <<network, published, todo, host, latest, new, history>>
    ELSE IF keys \cap Ours("current") # {}
    THEN votePubkeyCache' \in keys \cap Ours("current") /\ Judge("voting")
    ELSE UNCHANGED votePubkeyCache /\ Judge("absent")

\* Mutant of FilteredLookup: an empty answer is taken at its word.
FilteredLookupFinal ==
    /\ at = "filtered"
    /\ Examine({k \in {votePubkeyCache} : standing[k] # "closed"})

\* The call with the cached key: an empty answer drops the key and falls back.
FilteredLookup ==
    /\ at = "filtered"
    /\ IF standing[votePubkeyCache] # "closed"
       THEN Examine({votePubkeyCache})
       ELSE /\ votePubkeyCache' = NoKey
            /\ at' = "unfiltered"
            /\ UNCHANGED <<network, published, todo, host, latest, new, history>>

UnfilteredLookup ==
    /\ at = "unfiltered"
    /\ Examine(VoteKeys)

\* A delinquency is forgiven while the balance explains it.
CheckBalance ==
    /\ at = "balance"
    /\ Judge(IF poor THEN "voting" ELSE "delinquent")
    /\ UNCHANGED votePubkeyCache

---------------------------------------------------------------------------
(* The network. *)

\* A change is seen by a lookup only if one is running.
Change ==
    /\ changes < MaxChanges /\ changes' = changes + 1
    /\ steady' = FALSE
    /\ UNCHANGED <<published, votePubkeyCache, refresh, answer, found>>

FallBehind ==
    /\ \E k \in VoteKeys :
           standing[k] = "current" /\ standing' = [standing EXCEPT ![k] = "delinquent"]
    /\ UNCHANGED <<ours, poor>>
    /\ Change

CatchUp ==
    /\ \E k \in VoteKeys :
           standing[k] = "delinquent" /\ standing' = [standing EXCEPT ![k] = "current"]
    /\ UNCHANGED <<ours, poor>>
    /\ Change

ChangeBalance ==
    /\ poor' = ~poor
    /\ UNCHANGED <<standing, ours>>
    /\ Change

\* A new vote account takes the place of the old one, which is closed, is given
\* to another identity, or stays behind and falls delinquent.
Rotate ==
    /\ \E old, key \in VoteKeys, kind \in {"reopen", "reassign", "second"} :
           /\ standing[old] # "closed" /\ ours[old] /\ standing[key] = "closed"
           /\ standing' = [standing EXCEPT
                  ![key] = "current",
                  ![old] = CASE kind = "reopen"   -> "closed"
                             [] kind = "reassign" -> "current"
                             [] kind = "second"   -> "delinquent"]
           /\ ours' = [ours EXCEPT ![key] = TRUE, ![old] = (kind # "reassign")]
    /\ UNCHANGED poor
    /\ Change

---------------------------------------------------------------------------
\* One vote account, voting, and a State that has seen nothing.
Init ==
    /\ \E k \in VoteKeys :
           /\ standing = [v \in VoteKeys |-> IF v = k THEN "current" ELSE "closed"]
           /\ ours = [v \in VoteKeys |-> v = k]
    /\ poor = FALSE /\ changes = 0
    /\ peerStates = [n \in Nodes |-> "missing"]
    /\ rpcError = FALSE /\ undeclared = FALSE /\ delinquent = FALSE /\ count = 0
    /\ votePubkeyCache = NoKey
    /\ at = "idle" /\ todo = {} /\ host = Stranger
    /\ latest = [n \in Nodes |-> "missing"] /\ new = NewFlags
    /\ answer = [h \in Hosts |-> {}] /\ found = [h \in Hosts |-> "absent"]
    /\ steady = TRUE

Next ==
    \/ Begin
    \/ BeginFailed
    \/ WalkPassive
    \/ WalkActive
    \/ Publish
    \/ LookupError
    \/ FilteredLookup
    \/ UnfilteredLookup
    \/ CheckBalance
    \/ FallBehind
    \/ CatchUp
    \/ ChangeBalance
    \/ Rotate

Spec == Init /\ [][Next]_vars

---------------------------------------------------------------------------
(* Properties. *)

\* The peer states and flags, read as the view the HA loop decides on.
View == [rpcErr     |-> rpcError,
         seen       |-> {n \in Nodes : peerStates[n] # "missing"},
         active     |-> {n \in Nodes : peerStates[n] = "active"},
         undeclared |-> undeclared,
         delinquent |-> delinquent,
         count      |-> count]

Promise == INSTANCE GossipPromise WITH view <- View

\* In whatever order the entries come, a refresh publishes the view GossipView
\* defines: a host listed under both identities counts as the leader, a claimant
\* that does not vote counts for nothing (Refresh, the active-wins guard).
PromiseKept == Promise!Spec

\* While an answer lists the active identity once, no refresh publishes a view
\* that contradicts itself: the delinquency bypass never fires on a sample that
\* has a leader (the flags Refresh resets and isNodeActiveAndVoting sets).
PublishedSound == Sound(View)

\* The identity has a vote account that answers in place of the current one: it
\* is delinquent, or it is cached and names another identity by now.
Outdated == Ours("delinquent") # {} \/ \E k \in {votePubkeyCache} \cap VoteKeys : ~ours[k]

\* A claimant with a vote account that is current during its whole lookup is
\* left out only if an outdated account hides it: a cached key whose account is
\* gone is always looked up afresh ("re-discovering", state.go:494).
VotingLeaderKept ==
    [][steady /\ at \in Lookup /\ at' = "walk" /\ found'[host] # "voting"
        => Ours("current") = {} \/ Outdated]_vars
===========================================================================
