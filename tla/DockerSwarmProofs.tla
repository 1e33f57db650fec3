------------------------- MODULE DockerSwarmProofs --------------------------
(***************************************************************************)
(* Proofs about DockerSwarm, for every value of the constants that         *)
(* satisfies ParamsAssumption and DockerSwarmAssumption.                   *)
(***************************************************************************)
EXTENDS DockerSwarm, TLAPS

\* The enumerated sets and the poll bound are small and always expanded.
USE DEF States, NodeRoles, TargetStates, PCs, Outcomes, RepeatCheck, ParamDomain,
        FromAnsibleParams, PlaybookSpecs

-----------------------------------------------------------------------------
(* Lemmas on the TaskParameters operators.                                 *)

\* update_from_swarm_info turns a spec into a spec.
LEMMA UpdateFromSwarmInfoType ==
    ASSUME NEW p \in Specs, NEW o \in Specs
    PROVE  UpdateFromSwarmInfo(p, o) \in Specs
BY DEF UpdateFromSwarmInfo, Specs

\* update_parameters turns a spec into a spec.
LEMMA UpdateParametersType ==
    ASSUME NEW p \in Specs
    PROVE  UpdateParameters(p) \in Specs
BY ParamsAssumption DEF UpdateParameters, Specs, SpecVal

\* The engine's merge of a submitted spec into the stored one is a spec.
LEMMA MergeSpecType ==
    ASSUME NEW s \in Specs, NEW t \in Specs
    PROVE  MergeSpec(s, t) \in Specs
BY DEF MergeSpec, Specs

\* compare_to_active only ever records names the DifferenceTracker knows.
LEMMA CompareToActiveType ==
    ASSUME NEW p \in Specs, NEW o \in Specs, NEW r \in SUBSET RotateKinds
    PROVE  CompareToActive(p, o, r) \subseteq DiffNames
BY DEF CompareToActive, DiffNames

\* The pseudo-fields "state" and "joined" are names the tracker knows.
LEMMA PseudoDiffNames ==
    ASSUME NEW d \in SUBSET DiffNames
    PROVE  /\ d \cup {"state"} \subseteq DiffNames
           /\ d \cup {"joined"} \subseteq DiffNames
BY DEF DiffNames

-----------------------------------------------------------------------------
(***************************************************************************)
(* TypeOK alone is not inductive: a status check at polls = RepeatCheck    *)
(* would count past the bound.  The strengthening says the count stays     *)
(* below the bound while an invocation runs; it reaches the bound only in  *)
(* the step that ends the invocation with fail().                          *)
(***************************************************************************)
IInv ==
    /\ TypeOK
    /\ pc # "done" => polls < RepeatCheck

\* TypeOK in three groups: the engine, the invocation's data, and the
\* Boolean flags (which Zenon handles better than SMT).
TypeEngine ==
    /\ local \in NodeRoles /\ cluster \in Specs /\ version \in 0..MaxVersion
    /\ target \in TargetStates
TypeRun ==
    /\ params \in ParamChoices /\ action \in States /\ pc \in PCs
    /\ info \in Infos \cup {None} /\ desired \in Specs /\ diff \subseteq DiffNames
    /\ polls \in 0..RepeatCheck /\ outcome \in Outcomes
    /\ prev \in [action: States, check: BOOLEAN, outcome: Outcomes]
TypeFlags ==
    /\ check \in BOOLEAN /\ created \in BOOLEAN /\ sawDown \in BOOLEAN
    /\ changed \in BOOLEAN /\ mutated \in BOOLEAN /\ extCur \in BOOLEAN
    /\ extPrev \in BOOLEAN /\ extSinceInspect \in BOOLEAN
    /\ lockedAtStart \in BOOLEAN /\ keyLost \in BOOLEAN

\* The invariant after a step, from its three groups and the poll bound.
LEMMA IInvFromGroups ==
    ASSUME TypeEngine', TypeRun', TypeFlags', pc' # "done" => polls' < RepeatCheck
    PROVE  IInv'
BY DEF IInv, TypeOK, TypeEngine, TypeRun, TypeFlags

\* The inspect helper yields swarm_info of the right shape.
LEMMA InspectedType ==
    ASSUME IInv, NEW failed \in BOOLEAN, NEW keyFailed \in BOOLEAN
    PROVE  Inspected(failed, keyFailed) \in Infos \cup {None}
BY DEF IInv, TypeOK, Inspected, InspectOK, Infos, EngineUnlockKey, Key

\* A playbook parameter's spec is a spec and its join role a node role.
LEMMA ParamsType ==
    ASSUME IInv
    PROVE  /\ params.spec \in Specs /\ params.joinRole \in NodeRoles
           /\ params.rotate \in SUBSET RotateKinds
BY DockerSwarmAssumption DEF IInv, TypeOK

LEMMA InitIInv == Init => IInv
<1> SUFFICES ASSUME Init PROVE IInv
  OBVIOUS
<1>1. params \in [spec: Specs, force: BOOLEAN, rotate: SUBSET RotateKinds,
                  joinRole: {"worker", "manager"}]
  BY DockerSwarmAssumption DEF Init
<1>2. TypeEngine
  BY DockerSwarmAssumption DEF Init, TypeEngine
<1>3. desired \in Specs
  BY <1>1 DEF Init
<1>4. TypeRun
  BY <1>3 DEF Init, TypeRun
<1>5. TypeFlags
  BY Zenon DEF Init, TypeFlags
<1>6. QED
  BY <1>2, <1>4, <1>5 DEF Init, IInv, TypeOK, TypeEngine, TypeRun, TypeFlags

\* Starting an invocation resets the run and records the previous one.
LEMMA StartIInv ==
    ASSUME IInv, NEW a \in Actions, NEW c \in BOOLEAN, Start(a, c) PROVE IInv'
<1>1. a \in States /\ params.spec \in Specs
  BY DockerSwarmAssumption, ParamsType
<1>2. TypeEngine'
  BY DEF Start, IInv, TypeOK, TypeEngine, engine
<1>3. TypeRun'
  BY <1>1 DEF Start, Fail, IInv, TypeOK, TypeRun
<1>4. TypeFlags'
  BY Zenon DEF Start, IInv, TypeOK, TypeFlags
<1>5. pc' # "done" => polls' < RepeatCheck
  BY DEF Start, Fail
<1>6. QED
  BY <1>2, <1>3, <1>4, <1>5, IInvFromGroups

\* check_if_swarm_manager() only chooses the path.
LEMMA PresentProbeIInv ==
    ASSUME IInv, PresentProbe PROVE IInv'
<1>1. TypeEngine' /\ TypeRun'
  BY DEF PresentProbe, IInv, TypeOK, TypeEngine, TypeRun, engine, history
<1>2. TypeFlags'
  BY Zenon DEF PresentProbe, IInv, TypeOK, TypeFlags, engine, history
<1>3. pc' # "done" => polls' < RepeatCheck
  BY DEF PresentProbe, IInv, history
<1>4. QED
  BY <1>1, <1>2, <1>3, IInvFromGroups

\* __update_swarm's inspect, backfill and compare.
LEMMA UpdateInspectIInv ==
    ASSUME IInv, UpdateInspect PROVE IInv'
<1>1. PICK failed, keyFailed \in BOOLEAN :
        LET snap == Inspected(failed, keyFailed)
            wanted == UpdateFromSwarmInfo(desired, snap.spec)
            found == CompareToActive(wanted, OldParameters(snap.spec), params.rotate)
        IN IF snap = None
           THEN /\ outcome' = "crashed"
                /\ pc' = "done"
                /\ UNCHANGED <<info, desired, diff, changed, extSinceInspect,
                                keyLost>>
           ELSE /\ info' = snap
                /\ desired' = wanted
                /\ diff' = found
                /\ changed' = FALSE
                /\ extSinceInspect' = FALSE
                /\ keyLost' = keyFailed
                /\ IF found = {} THEN Exit
                   ELSE /\ pc' = IF check THEN "update_reinspect" ELSE "update_submit"
                        /\ UNCHANGED outcome
  BY DEF UpdateInspect
<1> DEFINE snap == Inspected(failed, keyFailed)
           wanted == UpdateFromSwarmInfo(desired, snap.spec)
           found == CompareToActive(wanted, OldParameters(snap.spec), params.rotate)
<1>2. snap \in Infos \cup {None}
  BY InspectedType
<1>3. TypeEngine'
  BY DEF UpdateInspect, IInv, TypeOK, TypeEngine, engine
<1>4. TypeFlags'
  <2>1. changed' \in BOOLEAN /\ extSinceInspect' \in BOOLEAN /\ keyLost' \in BOOLEAN
    BY <1>1, Zenon DEF IInv, TypeOK
  <2>2. QED
    BY <2>1, Zenon DEF UpdateInspect, IInv, TypeOK, TypeFlags
<1>5. CASE snap = None
  <2>1. TypeRun'
    BY <1>1, <1>5 DEF UpdateInspect, IInv, TypeOK, TypeRun
  <2>2. pc' # "done" => polls' < RepeatCheck
    BY <1>1, <1>5
  <2>3. QED
    BY <1>3, <1>4, <2>1, <2>2, IInvFromGroups
<1>6. CASE snap # None
  <2>1. snap.spec \in Specs
    BY <1>2, <1>6 DEF Infos
  <2>2. wanted \in Specs
    BY <2>1, UpdateFromSwarmInfoType DEF IInv, TypeOK
  <2>3. OldParameters(snap.spec) \in Specs
    BY <2>1, UpdateFromSwarmInfoType DEF OldParameters, NoParams, Specs, SpecVal
  <2>4. found \subseteq DiffNames
    BY <2>2, <2>3, CompareToActiveType, ParamsType
  <2>5. /\ pc' \in PCs /\ outcome' \in Outcomes
        /\ pc' # "done" => polls' < RepeatCheck
    BY <1>1, <1>6 DEF Exit, UpdateInspect, IInv, TypeOK
  <2>6. TypeRun'
    BY <1>1, <1>2, <1>6, <2>2, <2>4, <2>5 DEF UpdateInspect, IInv, TypeOK, TypeRun
  <2>7. QED
    BY <1>3, <1>4, <2>5, <2>6, IInvFromGroups
<1>7. QED
  BY <1>5, <1>6

\* update_swarm with the version read at the inspect.
LEMMA UpdateSubmitIInv ==
    ASSUME IInv, UpdateSubmit PROVE IInv'
<1>1. PICK failed \in BOOLEAN :
         IF failed \/ local # "manager" \/ SubmitVersion # version
         THEN /\ Fail
              /\ UNCHANGED <<cluster, version, mutated>>
         ELSE /\ cluster' = MergeSpec(cluster, UpdateParameters(params.spec))
              /\ version' = Bumped
              /\ mutated' = TRUE
              /\ pc' = "update_reinspect"
              /\ UNCHANGED outcome
  BY DEF UpdateSubmit
<1>2. MergeSpec(cluster, UpdateParameters(params.spec)) \in Specs
  BY ParamsType, UpdateParametersType, MergeSpecType DEF IInv, TypeOK
<1>3. Bumped \in 0..MaxVersion
  BY DockerSwarmAssumption DEF Bumped, IInv, TypeOK
<1>4. TypeEngine'
  BY <1>1, <1>2, <1>3 DEF UpdateSubmit, IInv, TypeOK, TypeEngine
<1>5. TypeRun' /\ (pc' # "done" => polls' < RepeatCheck)
  BY <1>1 DEF UpdateSubmit, Fail, IInv, TypeOK, TypeRun
<1>6. TypeFlags'
  <2>1. mutated' \in BOOLEAN
    BY <1>1, Zenon DEF IInv, TypeOK
  <2>2. QED
    BY <2>1, Zenon DEF UpdateSubmit, IInv, TypeOK, TypeFlags
<1>7. QED
  BY <1>4, <1>5, <1>6, IInvFromGroups

\* The re-inspect after a successful update_swarm.
LEMMA UpdateReinspectIInv ==
    ASSUME IInv, UpdateReinspect PROVE IInv'
<1>1. PICK failed, keyFailed \in BOOLEAN :
         /\ info' = Inspected(failed, keyFailed)
         /\ extSinceInspect' = IF InspectOK(failed) THEN FALSE ELSE extSinceInspect
         /\ keyLost' = KeyLostAfter(failed, keyFailed)
  BY DEF UpdateReinspect
<1>2. Inspected(failed, keyFailed) \in Infos \cup {None}
  BY InspectedType
<1>3. TypeEngine'
  BY DEF UpdateReinspect, IInv, TypeOK, TypeEngine, engine
<1>4. TypeRun' /\ (pc' # "done" => polls' < RepeatCheck)
  BY <1>1, <1>2 DEF UpdateReinspect, Exit, IInv, TypeOK, TypeRun
<1>5. TypeFlags'
  <2>1. extSinceInspect' \in BOOLEAN /\ keyLost' \in BOOLEAN
    BY <1>1, Zenon DEF IInv, TypeOK, KeyLostAfter
  <2>2. QED
    BY <2>1, Zenon DEF UpdateReinspect, IInv, TypeOK, TypeFlags
<1>6. QED
  BY <1>3, <1>4, <1>5, IInvFromGroups

\* init_swarm: skipped in check mode, otherwise the node becomes a manager.
LEMMA InitSubmitIInv ==
    ASSUME IInv, InitSubmit PROVE IInv'
<1>1. MergeSpec(IF local = "inactive" THEN DefaultSpec ELSE cluster,
                UpdateParameters(params.spec)) \in Specs
  BY ParamsType, UpdateParametersType, MergeSpecType, DockerSwarmAssumption
  DEF IInv, TypeOK
<1>2. Bumped \in 0..MaxVersion
  BY DockerSwarmAssumption DEF Bumped, IInv, TypeOK
<1>3. TypeEngine'
  BY <1>1, <1>2 DEF InitSubmit, Fail, IInv, TypeOK, TypeEngine, engine
<1>4. TypeRun' /\ (pc' # "done" => polls' < RepeatCheck)
  BY DEF InitSubmit, Fail, IInv, TypeOK, TypeRun, engine
<1>5. TypeFlags'
  <2>1. mutated' \in BOOLEAN
    BY Zenon DEF InitSubmit, IInv, TypeOK, engine
  <2>2. QED
    BY <2>1, Zenon DEF InitSubmit, IInv, TypeOK, TypeFlags
<1>6. QED
  BY <1>3, <1>4, <1>5, IInvFromGroups

\* The check_if_swarm_manager() after init_swarm.
LEMMA InitVerifyIInv ==
    ASSUME IInv, InitVerify PROVE IInv'
<1>1. TypeEngine' /\ TypeRun' /\ (pc' # "done" => polls' < RepeatCheck)
  BY DEF InitVerify, Fail, IInv, TypeOK, TypeEngine, TypeRun, engine, history
<1>2. TypeFlags'
  <2>1. created' \in BOOLEAN
    BY Zenon DEF InitVerify, IInv, TypeOK
  <2>2. QED
    BY <2>1, Zenon DEF InitVerify, IInv, TypeOK, TypeFlags, history
<1>3. QED
  BY <1>1, <1>2, IInvFromGroups

\* The inspect that ends a successful init.
LEMMA InitInspectIInv ==
    ASSUME IInv, InitInspect PROVE IInv'
<1>1. PICK failed, keyFailed \in BOOLEAN :
         /\ info' = Inspected(failed, keyFailed)
         /\ extSinceInspect' = IF InspectOK(failed) THEN FALSE ELSE extSinceInspect
         /\ keyLost' = KeyLostAfter(failed, keyFailed)
  BY DEF InitInspect
<1>2. Inspected(failed, keyFailed) \in Infos \cup {None}
  BY InspectedType
<1>3. diff' \subseteq DiffNames
  BY PseudoDiffNames DEF InitInspect, IInv, TypeOK
<1>4. TypeEngine'
  BY DEF InitInspect, IInv, TypeOK, TypeEngine, engine
<1>5. TypeRun' /\ (pc' # "done" => polls' < RepeatCheck)
  BY <1>1, <1>2, <1>3 DEF InitInspect, Exit, IInv, TypeOK, TypeRun
<1>6. TypeFlags'
  <2>1. extSinceInspect' \in BOOLEAN /\ keyLost' \in BOOLEAN
    BY <1>1, Zenon DEF IInv, TypeOK, KeyLostAfter
  <2>2. QED
    BY <2>1, Zenon DEF InitInspect, IInv, TypeOK, TypeFlags
<1>7. QED
  BY <1>4, <1>5, <1>6, IInvFromGroups

\* join(): the node may take the join role of the playbook.
LEMMA JoinIInv ==
    ASSUME IInv, Join PROVE IInv'
<1>1. diff \cup {"joined"} \subseteq DiffNames
  BY PseudoDiffNames DEF IInv, TypeOK
<1>2. TypeEngine'
  BY ParamsType DEF Join, IInv, TypeOK, TypeEngine
<1>3. TypeRun' /\ (pc' # "done" => polls' < RepeatCheck)
  BY <1>1 DEF Join, Fail, Exit, IInv, TypeOK, TypeRun
<1>4. TypeFlags'
  <2>1. mutated' \in BOOLEAN /\ changed' \in BOOLEAN
    BY Zenon DEF Join, IInv, TypeOK
  <2>2. QED
    BY <2>1, Zenon DEF Join, IInv, TypeOK, TypeFlags
<1>5. QED
  BY <1>2, <1>3, <1>4, IInvFromGroups

\* leave(): the node may leave the swarm.
LEMMA LeaveIInv ==
    ASSUME IInv, Leave PROVE IInv'
<1>1. diff \cup {"joined"} \subseteq DiffNames
  BY PseudoDiffNames DEF IInv, TypeOK
<1>2. TypeEngine'
  BY DEF Leave, IInv, TypeOK, TypeEngine
<1>3. TypeRun' /\ (pc' # "done" => polls' < RepeatCheck)
  BY <1>1 DEF Leave, Fail, Exit, IInv, TypeOK, TypeRun
<1>4. TypeFlags'
  <2>1. mutated' \in BOOLEAN /\ changed' \in BOOLEAN
    BY Zenon DEF Leave, IInv, TypeOK
  <2>2. QED
    BY <2>1, Zenon DEF Leave, IInv, TypeOK, TypeFlags
<1>5. QED
  BY <1>2, <1>3, <1>4, IInvFromGroups

\* The check_if_swarm_manager() of remove().
LEMMA RemoveProbeIInv ==
    ASSUME IInv, RemoveProbe PROVE IInv'
<1>1. TypeEngine' /\ TypeRun' /\ (pc' # "done" => polls' < RepeatCheck)
  BY DEF RemoveProbe, Fail, IInv, TypeOK, TypeEngine, TypeRun, engine, history
<1>2. TypeFlags'
  BY Zenon DEF RemoveProbe, IInv, TypeOK, TypeFlags, history
<1>3. QED
  BY <1>1, <1>2, IInvFromGroups

\* One status check: the count stays below repeat_check while polling.
LEMMA RemovePollIInv ==
    ASSUME IInv, RemovePoll PROVE IInv'
<1>1. TypeEngine'
  BY DEF RemovePoll, IInv, TypeOK, TypeEngine, engine
<1>2. TypeRun' /\ (pc' # "done" => polls' < RepeatCheck)
  BY DEF RemovePoll, Fail, Exit, IInv, TypeOK, TypeRun, history
<1>3. TypeFlags'
  <2>1. sawDown' \in BOOLEAN
    BY Zenon DEF RemovePoll, IInv, TypeOK
  <2>2. QED
    BY <2>1, Zenon DEF RemovePoll, IInv, TypeOK, TypeFlags, history
<1>4. QED
  BY <1>1, <1>2, <1>3, IInvFromGroups

\* remove_node(node_id, force).
LEMMA RemoveSubmitIInv ==
    ASSUME IInv, RemoveSubmit PROVE IInv'
<1>1. diff \cup {"joined"} \subseteq DiffNames
  BY PseudoDiffNames DEF IInv, TypeOK
<1>2. TypeEngine'
  BY DEF RemoveSubmit, IInv, TypeOK, TypeEngine
<1>3. TypeRun' /\ (pc' # "done" => polls' < RepeatCheck)
  BY <1>1 DEF RemoveSubmit, Fail, Exit, IInv, TypeOK, TypeRun
<1>4. TypeFlags'
  <2>1. mutated' \in BOOLEAN /\ changed' \in BOOLEAN
    BY Zenon DEF RemoveSubmit, IInv, TypeOK
  <2>2. QED
    BY <2>1, Zenon DEF RemoveSubmit, IInv, TypeOK, TypeFlags
<1>5. QED
  BY <1>2, <1>3, <1>4, IInvFromGroups

\* Another manager sets one field of the swarm spec.
LEMMA ExternalUpdateIInv ==
    ASSUME IInv, ExternalUpdate PROVE IInv'
<1>1. PICK f \in InfoFields, v \in Val : cluster' = [cluster EXCEPT ![f] = v]
  BY DEF ExternalUpdate
<1>2. cluster' \in Specs
  BY <1>1, ParamsAssumption DEF IInv, TypeOK, Specs, SpecVal, InfoFields
<1>3. TypeEngine'
  BY <1>2, DockerSwarmAssumption DEF ExternalUpdate, IInv, TypeOK, TypeEngine
<1>4. TypeRun' /\ (pc' # "done" => polls' < RepeatCheck)
  BY DEF ExternalUpdate, IInv, TypeOK, TypeRun, run
<1>5. TypeFlags'
  BY Zenon DEF ExternalUpdate, IInv, TypeOK, TypeFlags, run
<1>6. QED
  BY <1>3, <1>4, <1>5, IInvFromGroups

\* The node named by node_id changes state.
LEMMA TargetChangeIInv ==
    ASSUME IInv, TargetChange PROVE IInv'
<1>1. TypeEngine' /\ TypeRun' /\ (pc' # "done" => polls' < RepeatCheck)
  BY DEF TargetChange, IInv, TypeOK, TypeEngine, TypeRun, run, history
<1>2. TypeFlags'
  BY Zenon DEF TargetChange, IInv, TypeOK, TypeFlags, run, history
<1>3. QED
  BY <1>1, <1>2, IInvFromGroups

\* A stuttering step.
LEMMA StutterIInv ==
    ASSUME IInv, UNCHANGED vars PROVE IInv'
<1>1. TypeEngine' /\ TypeRun' /\ (pc' # "done" => polls' < RepeatCheck)
  BY DEF vars, engine, run, history, IInv, TypeOK, TypeEngine, TypeRun
<1>2. TypeFlags'
  BY Zenon DEF vars, engine, run, history, IInv, TypeOK, TypeFlags
<1>3. QED
  BY <1>1, <1>2, IInvFromGroups

-----------------------------------------------------------------------------
\* Every step preserves IInv: one lemma per action.
LEMMA IInvStep == IInv /\ [Next]_vars => IInv'
<1> SUFFICES ASSUME IInv, [Next]_vars PROVE IInv'
  OBVIOUS
<1>1. CASE \E a \in Actions, c \in BOOLEAN : Start(a, c)
  BY <1>1, StartIInv
<1>2. CASE UNCHANGED vars
  BY <1>2, StutterIInv
<1>3. QED
  BY <1>1, <1>2, PresentProbeIInv, UpdateInspectIInv, UpdateSubmitIInv,
     UpdateReinspectIInv, InitSubmitIInv, InitVerifyIInv, InitInspectIInv,
     JoinIInv, LeaveIInv, RemoveProbeIInv, RemovePollIInv, RemoveSubmitIInv,
     ExternalUpdateIInv, TargetChangeIInv DEF Next

(***************************************************************************)
(* Type correctness of the controller and the engine model: every state    *)
(* reachable by SwarmManager invocations interleaved with other clients    *)
(* satisfies TypeOK, for every instance of the constants.                  *)
(***************************************************************************)
THEOREM TypeCorrect == Spec => []TypeOK
<1>1. Init => IInv
  BY InitIInv
<1>2. IInv /\ [Next]_vars => IInv'
  BY IInvStep
<1>3. IInv => TypeOK
  BY DEF IInv
<1>4. QED
  BY <1>1, <1>2, <1>3, PTL DEF Spec

-----------------------------------------------------------------------------
(***************************************************************************)
(* The optimistic-concurrency check of __update_swarm.  While an update    *)
(* invocation is between check_if_swarm_manager() and update_swarm,        *)
(* nothing of it has been applied yet and, once it has inspected, the     *)
(* version it read is at most the swarm's, strictly below it as soon as    *)
(* another client has changed the swarm.  update_swarm(version=...) is     *)
(* then refused whenever the update would overwrite an unseen change.      *)
(***************************************************************************)
VersionInv ==
    /\ pc \in {"start", "update_inspect", "update_submit"} => ~mutated
    /\ pc \in {"start", "update_inspect"} => info = None
    /\ pc = "update_submit" =>
          /\ info # None
          /\ info.version <= version
          /\ extSinceInspect => info.version < version

\* The steps that leave the update path alone or end an invocation.
UpdatePathPCs == {"start", "update_inspect", "update_submit"}

LEMMA VersionInvStep ==
    ASSUME IInv, VersionInv, [Next]_vars PROVE VersionInv'
<1> USE DEF UpdatePathPCs
<1>1. CASE \E a \in Actions, c \in BOOLEAN : Start(a, c)
  <2>1. pc' \in {"start", "done"} /\ ~mutated' /\ info' = None
    BY <1>1, Zenon DEF Start, Fail
  <2>2. QED
    BY <2>1 DEF VersionInv
<1>2. CASE PresentProbe
  <2>1. pc = "start" /\ pc' \in {"update_inspect", "init"}
    BY <1>2 DEF PresentProbe
  <2>2. mutated' = mutated /\ info' = info
    BY <1>2 DEF PresentProbe, history
  <2>3. QED
    BY <2>1, <2>2 DEF VersionInv
<1>3. CASE UpdateInspect
  <2>1. PICK failed, keyFailed \in BOOLEAN :
          LET snap == Inspected(failed, keyFailed)
              wanted == UpdateFromSwarmInfo(desired, snap.spec)
              found == CompareToActive(wanted, OldParameters(snap.spec), params.rotate)
          IN IF snap = None
             THEN /\ outcome' = "crashed"
                  /\ pc' = "done"
                  /\ UNCHANGED <<info, desired, diff, changed, extSinceInspect>>
             ELSE /\ info' = snap
                  /\ desired' = wanted
                  /\ diff' = found
                  /\ changed' = FALSE
                  /\ extSinceInspect' = FALSE
                  /\ IF found = {} THEN Exit
                     ELSE /\ pc' = IF check THEN "update_reinspect" ELSE "update_submit"
                          /\ UNCHANGED outcome
    BY <1>3 DEF UpdateInspect
  <2> DEFINE snap == Inspected(failed, keyFailed)
  <2>2. pc = "update_inspect" /\ info = None /\ version' = version
    BY <1>3 DEF UpdateInspect, VersionInv, engine
  <2>6. ~mutated /\ mutated' = mutated
    BY <1>3, <2>2, Zenon DEF UpdateInspect, VersionInv
  <2>3. CASE snap = None
    BY <2>1, <2>3 DEF VersionInv
  <2>4. CASE snap # None
    <3>1. snap.version = version
      BY <2>2, <2>4 DEF Inspected
    <3>2. version \in Nat
      BY DockerSwarmAssumption DEF IInv, TypeOK
    <3>3. /\ info' = snap /\ ~extSinceInspect'
          /\ pc' \in {"done", "update_reinspect", "update_submit"}
      BY <2>1, <2>4 DEF Exit
    <3>4. info' # None /\ info'.version <= version'
      BY <2>2, <2>4, <3>1, <3>2, <3>3
    <3>5. QED
      BY <2>6, <3>3, <3>4, Zenon DEF VersionInv
  <2>5. QED
    BY <2>3, <2>4
<1>4. CASE UpdateSubmit
  <2>1. pc' \in {"done", "update_reinspect"}
    BY <1>4 DEF UpdateSubmit, Fail
  <2>2. QED
    BY <2>1 DEF VersionInv
<1>5. CASE UpdateReinspect \/ InitInspect \/ Join \/ Leave \/ RemoveSubmit
  <2>1. pc' = "done"
    BY <1>5 DEF UpdateReinspect, InitInspect, Join, Leave, RemoveSubmit, Fail, Exit
  <2>2. QED
    BY <2>1 DEF VersionInv
<1>6. CASE InitSubmit \/ InitVerify \/ RemoveProbe \/ RemovePoll
  <2>1. pc' \in {"done", "init_verify", "init_inspect", "remove_poll", "remove_submit"}
    BY <1>6 DEF InitSubmit, InitVerify, RemoveProbe, RemovePoll, Fail, Exit
  <2>2. QED
    BY <2>1 DEF VersionInv
<1>7. CASE ExternalUpdate
  <2>1. /\ pc' = pc /\ mutated' = mutated /\ info' = info
        /\ version' = version + 1
    BY <1>7 DEF ExternalUpdate, run
  <2>2. version \in Nat /\ (info # None => info.version \in Nat)
    BY DockerSwarmAssumption DEF IInv, TypeOK, Infos
  <2>3. QED
    BY <2>1, <2>2 DEF VersionInv
<1>8. CASE TargetChange \/ UNCHANGED vars
  <2>1. /\ pc' = pc /\ mutated' = mutated /\ info' = info /\ version' = version
        /\ extSinceInspect' = extSinceInspect
    BY <1>8 DEF TargetChange, vars, engine, run, history
  <2>2. QED
    BY <2>1 DEF VersionInv
<1>9. QED
  BY <1>1, <1>2, <1>3, <1>4, <1>5, <1>6, <1>7, <1>8 DEF Next

\* The only step that records a successful mutation on the update path is
\* update_swarm itself, and it succeeds only at the version it read.
LEMMA ObservedVersionStep ==
    ASSUME IInv, VersionInv, [Next]_vars
    PROVE  (pc = "update_submit" /\ mutated') => ~extSinceInspect
<1> SUFFICES ASSUME pc = "update_submit", mutated' PROVE ~extSinceInspect
  OBVIOUS
<1>1. ~mutated /\ info # None /\ (extSinceInspect => info.version < version)
  BY DEF VersionInv
<1>2. CASE UpdateSubmit
  <2>1. PICK failed \in BOOLEAN :
           IF failed \/ local # "manager" \/ SubmitVersion # version
           THEN /\ Fail
                /\ UNCHANGED <<cluster, version, mutated>>
           ELSE /\ cluster' = MergeSpec(cluster, UpdateParameters(params.spec))
                /\ version' = Bumped
                /\ mutated' = TRUE
                /\ pc' = "update_reinspect"
                /\ UNCHANGED outcome
    BY <1>2 DEF UpdateSubmit
  <2>2. ~(failed \/ local # "manager" \/ SubmitVersion # version)
    BY <1>1, <2>1
  <2>3. info.version = version
    BY <2>2 DEF SubmitVersion
  <2>4. version \in Nat
    BY DockerSwarmAssumption DEF IInv, TypeOK
  <2>5. QED
    BY <1>1, <2>3, <2>4
<1>3. CASE ~UpdateSubmit
  <2>1. mutated' = mutated
    BY <1>3 DEF Next, Start, PresentProbe, UpdateInspect, UpdateReinspect,
                InitSubmit, InitVerify, InitInspect, Join, Leave, RemoveProbe,
                RemovePoll, RemoveSubmit, ExternalUpdate, TargetChange,
                vars, history
  <2>2. QED
    BY <1>1, <2>1
<1>4. QED
  BY <1>2, <1>3

(***************************************************************************)
(* Optimistic concurrency of __update_swarm, for every instance: an        *)
(* update goes through only if no other client changed the swarm since    *)
(* the inspect its differences were computed from.                         *)
(***************************************************************************)
THEOREM ObservedVersion == Spec => UpdateOnObservedVersion
<1>1. Init => IInv /\ VersionInv
  BY InitIInv DEF Init, VersionInv
<1>2. IInv /\ VersionInv /\ [Next]_vars => IInv' /\ VersionInv'
  <2> SUFFICES ASSUME IInv, VersionInv, [Next]_vars PROVE IInv' /\ VersionInv'
    OBVIOUS
  <2>1. IInv'
    BY IInvStep
  <2>2. VersionInv'
    BY VersionInvStep
  <2>3. QED
    BY <2>1, <2>2
<1>3. IInv /\ VersionInv /\ [Next]_vars
        => [(pc = "update_submit" /\ mutated') => ~extSinceInspect]_vars
  BY ObservedVersionStep
<1>4. QED
  BY <1>1, <1>2, <1>3, PTL DEF Spec, UpdateOnObservedVersion
=============================================================================
