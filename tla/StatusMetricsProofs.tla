------------------------ MODULE StatusMetricsProofs -----------------------
(***************************************************************************)
(* The properties of StatusMetrics for any hooks. The invariant adds what  *)
(* the loop knows at each of its steps: the answers that can have led to a *)
(* role on its way to the gauge, and the hooks run so far.                 *)
(***************************************************************************)
EXTENDS StatusMetrics, TLAPS

\* The role on its way from the question to the gauge is one that the
\* identities held during the asking, or a failed call, account for.
RoleOnItsWay ==
    /\ pc \in {"active?", "passive?"} => identity \in during
    /\ pc = "passive?" => failed \/ "passive" \in during
    /\ pc = "healthy?" => Justified(role)
    /\ pc \in {"publish", "reset", "metadata"} => Justified(state.role)
    /\ pc = "refresh" => Justified(cache.role)
    /\ shown

\* What is exported is always a status written by refreshMetrics.
Filled == [role : Roles, status : Healths, failover : {"idle"}, update : BOOLEAN]

OnlyIdleShown ==
    /\ pc \in {"publish"} \cup ExportSteps => state \in Filled
    /\ pc = "refresh" => cache \in Filled
    /\ gauges.failover \subseteq {"idle"}

\* The hooks run so far that had to succeed did.
Passed(pre) == \A i \in DOMAIN pre : Pre[i] => pre[i]

HooksSoFar ==
    /\ change.pre # <<>> => pc \in {"pre", "command", "post"}
    /\ pc \in {"pre", "command", "post"} => Passed(change.pre)
    /\ pc \in {"mark", "pre", "command", "post"} => change.role \in Identities
    /\ pc = "mark" => change.pre = <<>>
    /\ pc = "pre" => Len(change.pre) < Len(Pre)
    /\ pc \in {"command", "post"} => Len(change.pre) = Len(Pre)
    /\ pc \in {"mark", "pre", "command"} => change.post = 0
    /\ pc = "post" => change.command = "done" /\ change.post < PostHooks
    /\ dryRun => ~executed

IInv == TypeOK /\ UpdateFlagKept /\ RoleOnItsWay /\ OnlyIdleShown /\ HooksSoFar

---------------------------------------------------------------------------
LEMMA NoTypes == NoState \in States /\ NoChange \in Changes
  BY HooksAssumption DEF NoState, States, NoChange, Changes, Roles

LEMMA Initially == Init => IInv
  <1> SUFFICES ASSUME Init PROVE IInv
    OBVIOUS
  <1>0. gauges \in Gauges /\ Len(change.pre) <= Len(Pre)
    BY HooksAssumption DEF Init, Gauges, NoChange
  <1>1. TypeOK
    BY <1>0, NoTypes DEF Init, TypeOK, Roles, Identities
  <1>2. UpdateFlagKept /\ RoleOnItsWay /\ HooksSoFar /\ OnlyIdleShown
    BY DEF Init, UpdateFlagKept, RoleOnItsWay, HooksSoFar, OnlyIdleShown, ExportSteps,
           NoState, NoChange
  <1> QED BY <1>1, <1>2 DEF IInv

\* What AfterPre says of hooks that have passed so far.
LEMMA AfterPreStep ==
    ASSUME NEW pre \in Seq(BOOLEAN), NEW ok \in BOOLEAN, Passed(pre), Len(pre) < Len(Pre)
    PROVE  LET more == Append(pre, ok)
               next == AfterPre(more)
           IN  /\ next \in {"idle", "pre", "command"}
               /\ more \in Seq(BOOLEAN) /\ Len(more) <= Len(Pre)
               /\ next # "idle" => Passed(more)
               /\ next = "pre" => Len(more) < Len(Pre)
               /\ next = "command" => Len(more) = Len(Pre)
  <1> DEFINE more == Append(pre, ok)
  <1>1. more \in Seq(BOOLEAN) /\ Len(more) = Len(pre) + 1 /\ more[Len(more)] = ok
        /\ \A i \in 1 .. Len(pre) : more[i] = pre[i]
    OBVIOUS
  <1>2. Len(Pre) \in Nat /\ Len(pre) \in Nat
    BY HooksAssumption
  <1>3. more # <<>>
    BY <1>1, <1>2
  <1>4. AfterPre(more) # "idle" => (Pre[Len(more)] => ok)
    BY <1>1, <1>3 DEF AfterPre
  <1>5. ASSUME AfterPre(more) # "idle", NEW i \in DOMAIN more, Pre[i] PROVE more[i]
    <2>1. i \in 1 .. Len(pre) \/ i = Len(more)
      BY <1>1, <1>2
    <2>2. CASE i = Len(more)
      BY <1>1, <1>4, <1>5, <2>2
    <2>3. CASE i \in 1 .. Len(pre)
      BY <1>1, <1>5, <2>3 DEF Passed
    <2> QED BY <2>1, <2>2, <2>3
  <1>6. AfterPre(more) # "idle" => Passed(more)
    BY <1>5 DEF Passed
  <1> HIDE DEF more
  <1>7. /\ AfterPre(more) \in {"idle", "pre", "command"}
        /\ AfterPre(more) = "pre" => Len(more) < Len(Pre)
        /\ AfterPre(more) = "command" => Len(more) = Len(Pre)
    BY <1>1, <1>2 DEF AfterPre
  <1>8. Len(more) <= Len(Pre)
    BY <1>1, <1>2
  <1> QED BY <1>1, <1>6, <1>7, <1>8 DEF more

LEMMA Inductive == IInv /\ [Next]_vars => IInv'
  <1> SUFFICES ASSUME IInv, [Next]_vars PROVE IInv'
    OBVIOUS
  <1> USE DEF validator, asking, loop, updates
  <1>t. TypeOK /\ UpdateFlagKept /\ RoleOnItsWay /\ OnlyIdleShown /\ HooksSoFar
    BY DEF IInv
  <1>1. CASE StartPoll
    <2>1. TypeOK'
      BY <1>t, <1>1 DEF StartPoll, TypeOK, Identities
    <2>2. UpdateFlagKept' /\ RoleOnItsWay' /\ OnlyIdleShown' /\ HooksSoFar'
      BY <1>t, <1>1
         DEF StartPoll, UpdateFlagKept, RoleOnItsWay, OnlyIdleShown, ExportSteps, HooksSoFar
    <2> QED BY <2>1, <2>2 DEF IInv
  <1>2. CASE AskActive
    <2>1. TypeOK'
      BY <1>t, <1>2 DEF AskActive, TypeOK, Identities, Roles
    <2>2. UpdateFlagKept' /\ OnlyIdleShown' /\ HooksSoFar'
      BY <1>t, <1>2 DEF AskActive, UpdateFlagKept, OnlyIdleShown, ExportSteps, HooksSoFar
    <2>3. RoleOnItsWay'
      BY <1>t, <1>2 DEF AskActive, RoleOnItsWay, Justified, TypeOK, Identities
    <2> QED BY <2>1, <2>2, <2>3 DEF IInv
  <1>3. CASE AskPassive
    <2>1. TypeOK'
      BY <1>t, <1>3 DEF AskPassive, TypeOK, Identities, Roles
    <2>2. UpdateFlagKept' /\ OnlyIdleShown' /\ HooksSoFar'
      BY <1>t, <1>3 DEF AskPassive, UpdateFlagKept, OnlyIdleShown, ExportSteps, HooksSoFar
    <2>3. RoleOnItsWay'
      BY <1>t, <1>3 DEF AskPassive, FoundPassive, RoleOnItsWay, Justified, TypeOK, Identities
    <2> QED BY <2>1, <2>2, <2>3 DEF IInv
  <1>4. CASE AskHealthy
    <2>1. PICK status \in Healths :
              state' = [role |-> role, status |-> status, failover |-> "idle", update |-> FALSE]
      BY <1>4 DEF AskHealthy
    <2>2. state' \in States /\ state' \in Filled
      BY <1>t, <2>1 DEF States, Filled, TypeOK
    <2>3. TypeOK'
      BY <1>t, <1>4, <2>2 DEF AskHealthy, TypeOK, Roles
    <2>4. UpdateFlagKept' /\ OnlyIdleShown' /\ HooksSoFar'
      BY <1>t, <1>4, <2>2
         DEF AskHealthy, UpdateFlagKept, OnlyIdleShown, ExportSteps, HooksSoFar
    <2>5. RoleOnItsWay'
      BY <1>t, <1>4, <2>1 DEF AskHealthy, RoleOnItsWay, Justified
    <2> QED BY <2>3, <2>4, <2>5 DEF IInv
  <1>5. CASE Publish
    <2>1. /\ cache' \in States /\ cache' \in Filled
          /\ cache'.update = cache.update /\ cache'.role = state.role
      BY <1>t, <1>5 DEF Publish, UpdateState, TypeOK, States, OnlyIdleShown, Filled
    <2>2. TypeOK'
      BY <1>t, <1>5, <2>1, NoTypes DEF Publish, TypeOK
    <2>3. UpdateFlagKept' /\ OnlyIdleShown' /\ HooksSoFar'
      BY <1>t, <1>5, <2>1
         DEF Publish, UpdateFlagKept, OnlyIdleShown, ExportSteps, HooksSoFar
    <2>4. RoleOnItsWay'
      BY <1>t, <1>5, <2>1 DEF Publish, RoleOnItsWay, Justified
    <2> QED BY <2>2, <2>3, <2>4 DEF IInv
  <1>6. CASE ReadCache
    <2>1. TypeOK'
      BY <1>t, <1>6 DEF ReadCache, TypeOK, ExportSteps
    <2>2. UpdateFlagKept' /\ RoleOnItsWay' /\ OnlyIdleShown' /\ HooksSoFar'
      BY <1>t, <1>6 DEF ReadCache, UpdateFlagKept, RoleOnItsWay, Justified, OnlyIdleShown,
                        ExportSteps, HooksSoFar
    <2> QED BY <2>1, <2>2 DEF IInv
  <1>7. CASE Export
    <2>1. state \in Filled
      BY <1>t, <1>7
         DEF Export, ExportMetadata, ExportGossip, ExportFailoverStatus,
             ExportUpdateAvailable, OnlyIdleShown, ExportSteps
    <2>2. CASE pc = "reset"
      <3>1. gauges' = [gauges EXCEPT !.metadata = {}] /\ pc' = "metadata"
        BY <1>7, <2>2
           DEF Export, ExportMetadata, ExportGossip, ExportFailoverStatus,
               ExportUpdateAvailable, Reset
      <3>2. UNCHANGED <<state, shown, during, failed>>
        BY <1>7, <2>2
           DEF Export, ExportMetadata, ExportGossip, ExportFailoverStatus,
               ExportUpdateAvailable
      <3>3. gauges' \in Gauges /\ gauges'.failover = gauges.failover
        BY <1>t, <3>1 DEF TypeOK, Gauges
      <3>4. TypeOK'
        BY <1>t, <1>7, <3>1, <3>2, <3>3 DEF Export, TypeOK, ExportSteps
      <3>5. UpdateFlagKept' /\ RoleOnItsWay' /\ OnlyIdleShown' /\ HooksSoFar'
        BY <1>t, <1>7, <2>2, <3>1, <3>2, <3>3
           DEF Export, UpdateFlagKept, RoleOnItsWay, Justified, OnlyIdleShown, ExportSteps,
               HooksSoFar
      <3> QED BY <3>4, <3>5 DEF IInv
    <2>3. CASE pc = "metadata"
      <3>1. /\ gauges' = [gauges EXCEPT !.metadata = @ \cup {Metadata}] /\ pc' = "gossip"
            /\ shown' = Justified(state.role) /\ during' = {} /\ failed' = FALSE
            /\ state' = state
        BY <1>7, <2>3
           DEF Export, ExportMetadata, ExportGossip, ExportFailoverStatus,
               ExportUpdateAvailable
      <3>2. shown'
        BY <1>t, <2>3, <3>1 DEF RoleOnItsWay
      <3>3. Metadata \in Series
        BY <2>1 DEF Filled, Metadata, Series
      <3>4. gauges' \in Gauges /\ gauges'.failover = gauges.failover
        BY <1>t, <3>1, <3>3 DEF TypeOK, Gauges
      <3>5. shown = TRUE /\ shown' = TRUE
        BY <1>t, <3>2, <3>1 DEF RoleOnItsWay, TypeOK, Justified
      <3>6. TypeOK'
        BY <1>t, <1>7, <3>1, <3>4, <3>5 DEF Export, TypeOK, ExportSteps
      <3>7. UpdateFlagKept' /\ RoleOnItsWay' /\ OnlyIdleShown' /\ HooksSoFar'
        BY <1>t, <1>7, <2>3, <3>1, <3>4, <3>5
           DEF Export, UpdateFlagKept, RoleOnItsWay, OnlyIdleShown, ExportSteps, HooksSoFar
      <3> QED BY <3>6, <3>7 DEF IInv
    <2>4. CASE pc \in {"gossip", "failover", "update"}
      <3>1. /\ pc' \in {"failover", "update", "decide"}
            /\ state' = state \/ (state' = NoState /\ pc' = "decide")
            /\ UNCHANGED <<shown, during, failed>>
        BY <1>7, <2>4
           DEF Export, ExportMetadata, ExportGossip, ExportFailoverStatus,
               ExportUpdateAvailable
      <3>2. gauges' \in Gauges /\ gauges'.failover \subseteq {"idle"}
        <4>1. \/ gauges' = gauges
              \/ gauges' = [gauges EXCEPT !.failover = @ \cup {state.failover}]
              \/ gauges' = [gauges EXCEPT !.update = state.update]
          BY <1>7, <2>4
             DEF Export, ExportMetadata, ExportGossip, ExportFailoverStatus,
                 ExportUpdateAvailable
        <4>2. state.failover = "idle" /\ state.update \in BOOLEAN
          BY <2>1 DEF Filled
        <4>3. gauges \in Gauges /\ gauges.failover \subseteq {"idle"}
          BY <1>t DEF TypeOK, OnlyIdleShown
        <4>4. CASE gauges' = gauges
          BY <4>3, <4>4
        <4>5. CASE gauges' = [gauges EXCEPT !.failover = @ \cup {state.failover}]
          BY <4>2, <4>3, <4>5 DEF Gauges
        <4>6. CASE gauges' = [gauges EXCEPT !.update = state.update]
          BY <4>2, <4>3, <4>6 DEF Gauges
        <4> QED BY <4>1, <4>4, <4>5, <4>6
      <3>3. TypeOK'
        BY <1>t, <1>7, <3>1, <3>2, NoTypes DEF Export, TypeOK, ExportSteps
      <3>4. UpdateFlagKept' /\ RoleOnItsWay' /\ OnlyIdleShown' /\ HooksSoFar'
        BY <1>t, <1>7, <2>1, <2>4, <3>1, <3>2
           DEF Export, UpdateFlagKept, RoleOnItsWay, OnlyIdleShown, ExportSteps, HooksSoFar
      <3> QED BY <3>3, <3>4 DEF IInv
    <2> QED
      BY <1>7, <2>2, <2>3, <2>4
         DEF Export, ExportMetadata, ExportGossip, ExportFailoverStatus, ExportUpdateAvailable
  <1>8. CASE NoRoleChange
    <2>1. TypeOK'
      BY <1>t, <1>8 DEF NoRoleChange, TypeOK
    <2>2. UpdateFlagKept' /\ RoleOnItsWay' /\ OnlyIdleShown' /\ HooksSoFar'
      BY <1>t, <1>8 DEF NoRoleChange, UpdateFlagKept, RoleOnItsWay, OnlyIdleShown,
                        ExportSteps, HooksSoFar
    <2> QED BY <2>1, <2>2 DEF IInv
  <1>9. ASSUME NEW r \in Identities, StartChange(r) PROVE IInv'
    <2>1. state' \in States
      BY <1>t, <1>9 DEF StartChange, TypeOK, States
    <2>2. change' = [role |-> r, pre |-> <<>>, command |-> "pending", post |-> 0]
      BY <1>9 DEF StartChange, NoChange
    <2>5. /\ change' \in Changes /\ Len(change'.pre) <= Len(Pre)
          /\ change'.role \in Identities /\ change'.pre = <<>> /\ change'.post = 0
      BY <2>2, HooksAssumption DEF Changes
    <2>3. TypeOK'
      BY <1>t, <1>9, <2>1, <2>5 DEF StartChange, TypeOK
    <2>4. UpdateFlagKept' /\ RoleOnItsWay' /\ OnlyIdleShown' /\ HooksSoFar'
      BY <1>t, <1>9, <2>5 DEF StartChange, UpdateFlagKept, RoleOnItsWay, OnlyIdleShown,
                              ExportSteps, HooksSoFar
    <2> QED BY <2>3, <2>4 DEF IInv
  <1>10. CASE Mark
    <2>1. cache' \in States /\ cache'.update = cache.update
      BY <1>t, <1>10 DEF Mark, UpdateState, TypeOK, States
    <2>2. change.pre = <<>> /\ Passed(<<>>) /\ Len(<<>>) = 0 /\ Len(Pre) \in Nat
      BY <1>t, <1>10, HooksAssumption DEF Mark, HooksSoFar, NoChange, Passed
    <2>3. pc' = IF Len(Pre) > 0 THEN "pre" ELSE "command"
      BY <1>10, <2>2 DEF Mark, AfterPre
    <2>4. TypeOK'
      BY <1>t, <1>10, <2>1, <2>3, NoTypes DEF Mark, TypeOK
    <2>5. UpdateFlagKept' /\ RoleOnItsWay' /\ OnlyIdleShown'
      BY <1>t, <1>10, <2>1, <2>3
         DEF Mark, UpdateFlagKept, RoleOnItsWay, OnlyIdleShown, ExportSteps
    <2>6. HooksSoFar'
      BY <1>t, <1>10, <2>2, <2>3 DEF Mark, HooksSoFar
    <2> QED BY <2>4, <2>5, <2>6 DEF IInv
  <1>11. CASE RunPreHook
    <2>1. PICK ok \in BOOLEAN :
              /\ Ran(ok)
              /\ pc' = AfterPre(Append(change.pre, ok))
              /\ change' = IF pc' = "idle" THEN NoChange
                           ELSE [change EXCEPT !.pre = Append(@, ok)]
      BY <1>11 DEF RunPreHook
    <2> DEFINE more == Append(change.pre, ok)
    <2>2. /\ change.pre \in Seq(BOOLEAN) /\ Passed(change.pre) /\ Len(change.pre) < Len(Pre)
          /\ change \in Changes /\ change.role \in Identities /\ change.post = 0
      BY <1>t, <1>11 DEF RunPreHook, TypeOK, Changes, HooksSoFar
    <2>3. /\ pc' \in {"idle", "pre", "command"}
          /\ more \in Seq(BOOLEAN) /\ Len(more) <= Len(Pre)
          /\ pc' # "idle" => Passed(more)
          /\ pc' = "pre" => Len(more) < Len(Pre)
          /\ pc' = "command" => Len(more) = Len(Pre)
      BY <2>1, <2>2, AfterPreStep
    <2> HIDE DEF more
    <2>4. change' = IF pc' = "idle" THEN NoChange ELSE [change EXCEPT !.pre = more]
      BY <2>1 DEF more
    <2>5. /\ change' \in Changes
          /\ pc' = "idle" => change'.pre = <<>>
          /\ pc' # "idle" => /\ change'.pre = more /\ change'.post = 0
                            /\ change'.role \in Identities
      BY <2>2, <2>3, <2>4, NoTypes DEF Changes, NoChange
    <2>6. Len(change'.pre) <= Len(Pre)
      BY <2>3, <2>5, HooksAssumption
    <2>7. executed' \in BOOLEAN /\ (dryRun => ~executed')
      BY <1>t, <2>1 DEF Ran, TypeOK, HooksSoFar
    <2>8. TypeOK'
      BY <1>t, <1>11, <2>3, <2>5, <2>6, <2>7 DEF RunPreHook, TypeOK
    <2>9. UpdateFlagKept' /\ RoleOnItsWay' /\ OnlyIdleShown'
      BY <1>t, <1>11, <2>3
         DEF RunPreHook, UpdateFlagKept, RoleOnItsWay, OnlyIdleShown, ExportSteps
    <2>10. HooksSoFar'
      BY <1>11, <2>3, <2>5, <2>7 DEF RunPreHook, HooksSoFar
    <2> QED BY <2>8, <2>9, <2>10 DEF IInv
  <1>12. CASE RunCommand
    <2>1. PICK ok \in BOOLEAN :
              /\ Ran(ok)
              /\ identity' \in IF dryRun THEN {identity} ELSE {identity, change.role}
              /\ pc' = IF ok /\ PostHooks > 0 THEN "post" ELSE "idle"
              /\ change' = IF pc' = "idle" THEN NoChange
                           ELSE [change EXCEPT !.command = "done"]
      BY <1>12 DEF RunCommand
    <2>2. change \in Changes /\ Passed(change.pre) /\ Len(change.pre) = Len(Pre)
      BY <1>t, <1>12 DEF RunCommand, TypeOK, HooksSoFar
    <2>3. executed' \in BOOLEAN /\ (dryRun => ~executed')
      BY <1>t, <2>1 DEF Ran, TypeOK, HooksSoFar
    <2>4. identity' \in Identities /\ change.role \in Identities
      BY <1>t, <1>12, <2>1 DEF RunCommand, TypeOK, HooksSoFar
    <2>5. PostHooks \in Nat /\ pc' \in {"post", "idle"} /\ (pc' = "post" => PostHooks > 0)
      BY <2>1, HooksAssumption
    <2>6. /\ change' \in Changes /\ Len(change'.pre) <= Len(Pre)
          /\ pc' = "idle" => change'.pre = <<>>
          /\ pc' = "post" => /\ change' = [change EXCEPT !.command = "done"]
                            /\ change'.pre = change.pre /\ change'.command = "done"
                            /\ change'.role \in Identities
      <3>1. CASE pc' = "idle"
        BY <1>t, <2>1, <3>1, NoTypes, HooksAssumption DEF NoChange
      <3>2. CASE pc' = "post"
        BY <1>t, <2>1, <2>2, <2>4, <3>2 DEF Changes, TypeOK
      <3> QED BY <2>5, <3>1, <3>2
    <2>7. TypeOK'
      BY <1>t, <1>12, <2>3, <2>4, <2>5, <2>6 DEF RunCommand, TypeOK
    <2>8. UpdateFlagKept' /\ RoleOnItsWay' /\ OnlyIdleShown'
      BY <1>t, <1>12, <2>5
         DEF RunCommand, UpdateFlagKept, RoleOnItsWay, OnlyIdleShown, ExportSteps
    <2>9. change.post = 0
      BY <1>t, <1>12 DEF RunCommand, HooksSoFar
    <2>10. pc' = "post" => change'.post < PostHooks
      BY <2>2, <2>5, <2>6, <2>9 DEF Changes
    <2>11. HooksSoFar'
      BY <1>12, <2>2, <2>3, <2>5, <2>6, <2>10 DEF RunCommand, HooksSoFar
    <2> QED BY <2>7, <2>8, <2>11 DEF IInv
  <1>13. CASE RunPostHook
    <2>1. /\ change \in Changes /\ Passed(change.pre) /\ Len(change.pre) = Len(Pre)
          /\ change.role \in Identities /\ change.command = "done"
          /\ change.post < PostHooks /\ change.post \in Nat /\ PostHooks \in Nat
      BY <1>t, <1>13, HooksAssumption DEF RunPostHook, TypeOK, HooksSoFar, Changes
    <2>2. executed' \in BOOLEAN /\ (dryRun => ~executed')
      BY <1>t, <1>13 DEF RunPostHook, Ran, TypeOK, HooksSoFar
    <2>3. CASE pc' = "idle"
      <3>1. change' \in Changes /\ Len(change'.pre) <= Len(Pre) /\ change'.pre = <<>>
        BY <1>13, <2>3, NoTypes, HooksAssumption DEF RunPostHook, NoChange
      <3>2. TypeOK'
        BY <1>t, <1>13, <2>2, <2>3, <3>1 DEF RunPostHook, TypeOK
      <3>3. UpdateFlagKept' /\ RoleOnItsWay' /\ OnlyIdleShown' /\ HooksSoFar'
        BY <1>t, <1>13, <2>2, <2>3, <3>1
           DEF RunPostHook, UpdateFlagKept, RoleOnItsWay, OnlyIdleShown, ExportSteps,
               HooksSoFar
      <3> QED BY <3>2, <3>3 DEF IInv
    <2>4. CASE pc' = "post" /\ change.post + 1 < PostHooks
      <3>1. change' = [change EXCEPT !.post = change.post + 1]
        BY <1>13, <2>4 DEF RunPostHook
      <3>2. /\ change' \in Changes /\ change'.pre = change.pre /\ change'.command = "done"
            /\ change'.role \in Identities /\ change'.post < PostHooks
        BY <2>1, <2>4, <3>1 DEF Changes
      <3>3. TypeOK'
        BY <1>t, <1>13, <2>2, <2>4, <3>2 DEF RunPostHook, TypeOK
      <3>4. UpdateFlagKept' /\ RoleOnItsWay' /\ OnlyIdleShown'
        BY <1>t, <1>13, <2>4
           DEF RunPostHook, UpdateFlagKept, RoleOnItsWay, OnlyIdleShown, ExportSteps
      <3>5. HooksSoFar'
        BY <1>13, <2>1, <2>2, <2>4, <3>2 DEF RunPostHook, HooksSoFar
      <3> QED BY <3>3, <3>4, <3>5 DEF IInv
    <2> QED BY <1>13, <2>3, <2>4 DEF RunPostHook
  <1>14. CASE StartCheck
    <2>1. TypeOK'
      BY <1>t, <1>14 DEF StartCheck, TypeOK
    <2>2. UpdateFlagKept' /\ RoleOnItsWay' /\ OnlyIdleShown' /\ HooksSoFar'
      BY <1>t, <1>14 DEF StartCheck, UpdateFlagKept, RoleOnItsWay, Justified, OnlyIdleShown,
                         HooksSoFar
    <2> QED BY <2>1, <2>2 DEF IInv
  <1>15. CASE EndCheck
    <2>1. /\ cache' \in States /\ latest' \in BOOLEAN /\ cache'.update = latest'
          /\ cache'.role = cache.role /\ (cache \in Filled => cache' \in Filled)
      BY <1>t, <1>15 DEF EndCheck, SetUpdateAvailable, TypeOK, UpdateFlagKept, States, Filled
    <2>2. TypeOK'
      BY <1>t, <1>15, <2>1 DEF EndCheck, TypeOK
    <2>3. UpdateFlagKept' /\ RoleOnItsWay' /\ OnlyIdleShown' /\ HooksSoFar'
      BY <1>t, <1>15, <2>1 DEF EndCheck, UpdateFlagKept, RoleOnItsWay, Justified,
                               OnlyIdleShown, HooksSoFar
    <2> QED BY <2>2, <2>3 DEF IInv
  <1>16. CASE Restart
    <2>1. TypeOK'
      BY <1>t, <1>16 DEF Restart, TypeOK
    <2>2. UpdateFlagKept' /\ OnlyIdleShown' /\ HooksSoFar'
      BY <1>t, <1>16 DEF Restart, UpdateFlagKept, OnlyIdleShown, HooksSoFar
    <2>3. RoleOnItsWay'
      BY <1>t, <1>16 DEF Restart, RoleOnItsWay, Justified, Identities
    <2> QED BY <2>1, <2>2, <2>3 DEF IInv
  <1>17. CASE Flip
    <2>1. TypeOK'
      BY <1>t, <1>17 DEF Flip, TypeOK
    <2>2. UpdateFlagKept' /\ RoleOnItsWay' /\ OnlyIdleShown' /\ HooksSoFar'
      BY <1>t, <1>17 DEF Flip, UpdateFlagKept, RoleOnItsWay, Justified, OnlyIdleShown,
                         HooksSoFar
    <2> QED BY <2>1, <2>2 DEF IInv
  <1>18. CASE UNCHANGED vars
    <2>1. TypeOK'
      BY <1>t, <1>18 DEF vars, TypeOK
    <2>2. UpdateFlagKept' /\ RoleOnItsWay' /\ OnlyIdleShown' /\ HooksSoFar'
      BY <1>t, <1>18 DEF vars, UpdateFlagKept, RoleOnItsWay, Justified, OnlyIdleShown,
                         HooksSoFar
    <2> QED BY <2>1, <2>2 DEF IInv
  <1> QED
    BY <1>1, <1>2, <1>3, <1>4, <1>5, <1>6, <1>7, <1>8, <1>9, <1>10, <1>11, <1>12, <1>13,
       <1>14, <1>15, <1>16, <1>17, <1>18 DEF Next, LoopStep

LEMMA Always == Spec => []IInv
  BY Initially, Inductive, PTL DEF Spec

---------------------------------------------------------------------------
\* The loop, the cache and the gauges keep their types.
THEOREM TypeCorrect == Spec => []TypeOK
  BY Always, PTL DEF IInv

\* No write of the HA loop undoes a result of the update checker.
THEOREM UpdateFlagIsKept == Spec => []UpdateFlagKept
  BY Always, PTL DEF IInv

\* The role in the gauge was true when it was asked for.
THEOREM RoleShownIsTrue == Spec => []RoleShownWasTrue
  <1>1. IInv => RoleShownWasTrue
    BY DEF IInv, RoleOnItsWay, RoleShownWasTrue
  <1> QED BY <1>1, Always, PTL

\* A command has its pre hooks behind it, and a dry run starts nothing, for any
\* list of hooks.
THEOREM TransitionIsGated == Spec => []TransitionGated
  <1>1. ASSUME IInv PROVE TransitionGated
    <2>1. Len(Pre) \in Nat /\ DOMAIN Pre = 1 .. Len(Pre)
      BY HooksAssumption
    <2>2. change.pre \in Seq(BOOLEAN) /\ DOMAIN change.pre = 1 .. Len(change.pre)
      BY <1>1 DEF IInv, TypeOK, Changes
    <2> QED BY <1>1, <2>1, <2>2 DEF IInv, HooksSoFar, Passed, TransitionGated
  <1> QED BY <1>1, Always, PTL

\* The failover status gauge never shows a change of role: what the loop puts
\* into the cache while it makes one is overwritten before the next export.
THEOREM FailoverStatusStaysIdle == Spec => [](gauges.failover \subseteq {"idle"})
  <1>1. IInv => gauges.failover \subseteq {"idle"}
    BY DEF IInv, OnlyIdleShown
  <1> QED BY <1>1, Always, PTL
===========================================================================
