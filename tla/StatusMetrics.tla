--------------------------- MODULE StatusMetrics --------------------------
(***************************************************************************)
(* What a manager shows of itself and how it changes its role: the status  *)
(* cache, which the HA loop and the update checker write to, the gauges    *)
(* copied from it one by one while Prometheus may scrape them, and the     *)
(* hooks and the command of ensureActive and ensurePassive.                *)
(*                                                                         *)
(* Whether a poll ends in a change of role is the environment's choice     *)
(* here; HaManager has the decision.                                       *)
(***************************************************************************)
EXTENDS Naturals, Sequences

CONSTANTS
    Pre,        \* must_succeed of each pre hook, in their order
    PostHooks   \* the number of post hooks

ASSUME HooksAssumption == Pre \in Seq(BOOLEAN) /\ PostHooks \in Nat

VARIABLES
    identity, rpcUp,    \* what the validator runs as, and whether its RPC answers
    dryRun,             \* failover.dry_run
    pc,                 \* where the HA loop is
    role,               \* role in refreshMetrics
    cache,              \* Cache.state
    state,              \* the copy of it that the loop works on
    gauges,             \* the registry
    change,             \* the change of role under way
    checker, latest,    \* the update checker, and what it last fetched
    \* history
    during, failed,     \* the identities held, and a failed call, while asking
    shown,              \* whether the role in the gauge was true when asked for
    executed            \* whether a process was ever started

validator == <<identity, rpcUp>>
asking == <<role, during, failed>>
loop == <<pc, asking, state, change>>
updates == <<checker, latest>>
vars == <<validator, dryRun, loop, cache, gauges, updates, shown, executed>>

\* Any identity other than the active one counts as the passive one.
Identities == {"active", "passive"}
Roles == Identities \cup {"unknown"}
Healths == {"healthy", "unhealthy"}

\* PeerCount and SelfInGossip are left out: they are copied along and decide
\* on nothing.
NoState == [role |-> "", status |-> "", failover |-> "", update |-> FALSE]
States == [role : Roles \cup {""}, status : Healths \cup {""},
           failover : {"", "idle", "becoming_active", "becoming_passive"}, update : BOOLEAN]

\* The series of the two gauges labelled with a status, and the plain gauges.
Series == [role : Roles, status : Healths]
Gauges == [metadata : SUBSET Series,
           failover : SUBSET {"idle", "becoming_active", "becoming_passive"}, update : BOOLEAN]

\* The pre hooks run so far, the command, and the number of post hooks run.
NoChange == [role |-> "none", pre |-> <<>>, command |-> "pending", post |-> 0]
Changes == [role : Identities \cup {"none"}, pre : Seq(BOOLEAN),
            command : {"pending", "done"}, post : 0 .. PostHooks]

ExportSteps == {"reset", "metadata", "gossip", "failover", "update"}

TypeOK ==
    /\ identity \in Identities /\ rpcUp \in BOOLEAN /\ dryRun \in BOOLEAN
    /\ pc \in {"idle", "active?", "passive?", "healthy?", "publish", "refresh", "decide",
               "mark", "pre", "command", "post"} \cup ExportSteps
    /\ role \in Roles
    /\ cache \in States /\ state \in States
    /\ gauges \in Gauges
    /\ change \in Changes /\ Len(change.pre) <= Len(Pre)
    /\ checker \in {"waiting", "fetching"} /\ latest \in BOOLEAN
    /\ during \subseteq Identities /\ failed \in BOOLEAN
    /\ shown \in BOOLEAN /\ executed \in BOOLEAN

---------------------------------------------------------------------------
(* The cache. *)

\* Mutant of UpdateState: the flag of the update checker is written back, too.
UpdateStateWhole(s) == cache' = s

UpdateState(s) == cache' = [s EXCEPT !.update = cache.update]

SetUpdateAvailable(available) == cache' = [cache EXCEPT !.update = available]

---------------------------------------------------------------------------
(* refreshMetrics: the role and the health are asked for in separate calls. *)

\* Refresh and ring.Add are behind.
StartPoll ==
    /\ pc = "idle"
    /\ pc' = "active?"
    /\ during' = {identity}
    /\ UNCHANGED <<validator, dryRun, role, failed, change, cache, state, gauges, updates, shown, executed>>

\* IsSelfActive.
AskActive ==
    /\ pc = "active?"
    /\ IF rpcUp /\ identity = "active"
       THEN role' = "active" /\ pc' = "healthy?"
       ELSE UNCHANGED role /\ pc' = "passive?"
    /\ failed' = (failed \/ ~rpcUp)
    /\ UNCHANGED <<validator, dryRun, state, change, cache, gauges, updates, during,
                   shown, executed>>

\* Mutant of FoundPassive: no answer is taken for another identity.
FoundPassiveBlind == ~rpcUp \/ identity # "active"

\* IsSelfPassive.
FoundPassive == rpcUp /\ identity # "active"

AskPassive ==
    /\ pc = "passive?"
    /\ role' = IF FoundPassive THEN "passive" ELSE "unknown"
    /\ failed' = (failed \/ ~rpcUp)
    /\ pc' = "healthy?"
    /\ UNCHANGED <<validator, dryRun, state, change, cache, gauges, updates, during,
                   shown, executed>>

\* IsSelfHealthy, and what is to be put into the cache.
AskHealthy ==
    /\ pc = "healthy?"
    /\ \E status \in Healths :
        /\ status = "healthy" => rpcUp
        /\ state' = [role |-> role, status |-> status, failover |-> "idle", update |-> FALSE]
    /\ pc' = "publish" /\ role' = "unknown"
    /\ UNCHANGED <<validator, dryRun, during, failed, change, cache, gauges, updates, shown, executed>>

Publish ==
    /\ pc = "publish"
    /\ UpdateState(state) /\ state' = NoState
    /\ pc' = "refresh"
    /\ UNCHANGED <<validator, dryRun, asking, change, gauges, updates, shown, executed>>

---------------------------------------------------------------------------
(* RefreshMetrics: one copy of the cache, exported gauge by gauge. *)

ReadCache ==
    /\ pc = "refresh"
    /\ state' = cache
    /\ pc' = "reset"
    /\ UNCHANGED <<validator, dryRun, asking, change, cache, gauges, updates, shown, executed>>

\* Mutant of Reset: series of another role stay.
ResetOwnRole ==
    [gauges EXCEPT !.metadata = {m \in gauges.metadata : m.role # state.role}]

Reset == [gauges EXCEPT !.metadata = {}]

\* Whether one of the two answers could give this role.
Justified(r) == IF r = "unknown" THEN failed \/ during = Identities ELSE r \in during

\* Mutant of Metadata: the values of the two labels are swapped.
MetadataSwapped == [role |-> state.status, status |-> state.role]

Metadata == [role |-> state.role, status |-> state.status]

ExportMetadata ==
    \/ /\ pc = "reset"
       /\ gauges' = Reset
       /\ pc' = "metadata"
       /\ UNCHANGED <<state, shown, during, failed>>
    \/ /\ pc = "metadata"
       /\ gauges' = [gauges EXCEPT !.metadata = @ \cup {Metadata}]
       /\ pc' = "gossip"
       /\ shown' = Justified(state.role) /\ during' = {} /\ failed' = FALSE
       /\ UNCHANGED state

\* The peer count and whether the node is among the peers.
ExportGossip ==
    /\ pc = "gossip"
    /\ pc' = "failover"
    /\ UNCHANGED <<gauges, state, shown, during, failed>>

\* This one is not reset.
ExportFailoverStatus ==
    /\ pc = "failover"
    /\ gauges' = [gauges EXCEPT !.failover = @ \cup {state.failover}]
    /\ pc' = "update"
    /\ UNCHANGED <<state, shown, during, failed>>

ExportUpdateAvailable ==
    /\ pc = "update"
    /\ gauges' = [gauges EXCEPT !.update = state.update]
    /\ pc' = "decide" /\ state' = NoState
    /\ UNCHANGED <<shown, during, failed>>

Export ==
    /\ \/ ExportMetadata \/ ExportGossip \/ ExportFailoverStatus \/ ExportUpdateAvailable
    /\ UNCHANGED <<validator, dryRun, role, change, cache, updates, executed>>

---------------------------------------------------------------------------
(* ensureActive and ensurePassive, which differ in the role alone. What    *)
(* they ask and refresh at their end changes none of this.                 *)

NoRoleChange ==
    /\ pc = "decide"
    /\ pc' = "idle"
    /\ UNCHANGED <<validator, dryRun, asking, state, change, cache, gauges, updates,
                   shown, executed>>

\* The failover status is read, changed ...
StartChange(r) ==
    /\ pc = "decide"
    /\ state' = [cache EXCEPT !.failover =
                     IF r = "active" THEN "becoming_active" ELSE "becoming_passive"]
    /\ change' = [NoChange EXCEPT !.role = r]
    /\ pc' = "mark"
    /\ UNCHANGED <<validator, dryRun, asking, cache, gauges, updates, shown, executed>>

\* Mutant of AfterPre: what counts is the error of the last hook.
AfterPreLastError(pre) ==
    IF Len(pre) < Len(Pre) THEN "pre"
    ELSE IF pre # <<>> /\ ~pre[Len(pre)] /\ Pre[Len(pre)] THEN "idle" ELSE "command"

\* RunPre: a hook that must succeed and does not ends the change.
AfterPre(pre) ==
    IF pre # <<>> /\ ~pre[Len(pre)] /\ Pre[Len(pre)] THEN "idle"
    ELSE IF Len(pre) < Len(Pre) THEN "pre" ELSE "command"

\* ... and written back, and the hooks begin.
Mark ==
    /\ pc = "mark"
    /\ UpdateState(state) /\ state' = NoState
    /\ pc' = AfterPre(<<>>)
    /\ UNCHANGED <<validator, dryRun, asking, change, gauges, updates, shown, executed>>

\* command.Run: nothing is started, and nothing can fail, in a dry run.
Ran(ok) == (dryRun => ok) /\ executed' = (executed \/ ~dryRun)

RunPreHook ==
    /\ pc = "pre"
    /\ \E ok \in BOOLEAN :
        /\ Ran(ok)
        /\ pc' = AfterPre(Append(change.pre, ok))
        /\ change' = IF pc' = "idle" THEN NoChange
                     ELSE [change EXCEPT !.pre = Append(@, ok)]
    /\ UNCHANGED <<validator, dryRun, asking, state, cache, gauges, updates, shown>>

\* RunCommand: it sets the role or, successful or not, does not.
RunCommand ==
    /\ pc = "command"
    /\ \E ok \in BOOLEAN :
        /\ Ran(ok)
        /\ identity' \in IF dryRun THEN {identity} ELSE {identity, change.role}
        /\ pc' = IF ok /\ PostHooks > 0 THEN "post" ELSE "idle"
        /\ change' = IF pc' = "idle" THEN NoChange ELSE [change EXCEPT !.command = "done"]
    /\ UNCHANGED <<rpcUp, dryRun, asking, state, cache, gauges, updates, shown>>

\* RunPost: the errors of post hooks change nothing.
RunPostHook ==
    /\ pc = "post"
    /\ \E ok \in BOOLEAN : Ran(ok)
    /\ pc' = IF change.post + 1 < PostHooks THEN "post" ELSE "idle"
    /\ change' = IF pc' = "idle" THEN NoChange ELSE [change EXCEPT !.post = @ + 1]
    /\ UNCHANGED <<validator, dryRun, asking, state, cache, gauges, updates, shown>>

---------------------------------------------------------------------------
(* The update checker. *)

\* The ticker fires.
StartCheck ==
    /\ checker = "waiting"
    /\ checker' = "fetching"
    /\ UNCHANGED <<validator, dryRun, loop, cache, gauges, latest, shown, executed>>

\* fetchLatestVersion: an error leaves the flag as it was.
EndCheck ==
    /\ checker = "fetching"
    /\ checker' = "waiting"
    /\ \/ UNCHANGED <<cache, latest>>
       \/ \E newer \in BOOLEAN : SetUpdateAvailable(newer) /\ latest' = newer
    /\ UNCHANGED <<validator, dryRun, loop, gauges, shown, executed>>

---------------------------------------------------------------------------
(* The validator. *)

\* It is restarted under an identity by someone else.
Restart ==
    /\ identity' \in Identities \ {identity}
    /\ during' = IF pc \in {"active?", "passive?"} THEN Identities ELSE during
    /\ UNCHANGED <<rpcUp, dryRun, pc, role, failed, state, change, cache, gauges, updates,
                   shown, executed>>

\* Its RPC goes or comes.
Flip ==
    /\ rpcUp' = ~rpcUp
    /\ UNCHANGED <<identity, dryRun, loop, cache, gauges, updates, shown, executed>>

---------------------------------------------------------------------------
Init ==
    /\ identity \in Identities /\ rpcUp = TRUE /\ dryRun \in BOOLEAN
    /\ pc = "idle" /\ role = "unknown" /\ change = NoChange
    /\ cache = NoState /\ state = NoState
    /\ gauges = [metadata |-> {}, failover |-> {}, update |-> FALSE]
    /\ checker = "waiting" /\ latest = FALSE
    /\ during = {} /\ failed = FALSE /\ shown = TRUE /\ executed = FALSE

\* The steps that end by themselves: RPC calls have a timeout.
LoopStep ==
    \/ StartPoll \/ AskActive \/ AskPassive \/ AskHealthy \/ Publish
    \/ ReadCache \/ Export
    \/ NoRoleChange \/ \E r \in Identities : StartChange(r)
    \/ Mark

Next ==
    \/ LoopStep
    \/ RunPreHook \/ RunCommand \/ RunPostHook
    \/ StartCheck \/ EndCheck
    \/ Restart \/ Flip

Spec == Init /\ [][Next]_vars

\* Nothing is assumed of hooks and commands, which have no timeout.
FairSpec == Spec /\ WF_vars(LoopStep)

---------------------------------------------------------------------------
\* Whatever the HA loop reads, changes and writes back, the cache holds what
\* the update checker last found (UpdateState preserves UpdateAvailable).
UpdateFlagKept == cache.update = latest

\* A scrape never finds a role that the validator did not have while it was
\* being asked for, nor "unknown" without a failed call or a change of identity
\* (IsSelfActive and IsSelfPassive are separate calls, the gauges are exported
\* later).
RoleShownWasTrue == gauges.metadata # {} => shown

\* The command of a role runs only after all pre hooks, those that must succeed
\* with success, and post hooks only after the command succeeded; a dry run
\* starts no process (RunPre, RunPost, RunCommand).
TransitionGated ==
    /\ pc \in {"command", "post"} =>
           Len(change.pre) = Len(Pre) /\ \A i \in DOMAIN Pre : Pre[i] => change.pre[i]
    /\ pc = "post" => change.command = "done"
    /\ dryRun => ~executed

\* A validator that keeps its identity and answers is shown with its role in
\* the end, and with no other, unless a hook or a command never returns.
RoleCatchesUp ==
    \A r \in Identities :
        <>[](rpcUp /\ identity = r) =>
            \/ <>[](pc \in {"pre", "command", "post"})
            \/ /\ []<>(gauges.metadata # {})
               /\ <>[](\A m \in gauges.metadata : m.role = r)
===========================================================================
