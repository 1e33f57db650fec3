------------------------ MODULE DockerSwarmRefinement ------------------------
(***************************************************************************)
(* Proof that DockerSwarm implements SwarmTask under the mapping Task of   *)
(* DockerSwarm: an invocation changes the swarm at most once, never in     *)
(* check mode, and only as its state asks.                                 *)
(***************************************************************************)
EXTENDS DockerSwarm, TLAPS

\* The spec a task submits is the playbook's.
USE DEF FromAnsibleParams

(***************************************************************************)
(* Where each handler of SwarmManager can be: no mutating call has         *)
(* succeeded before the one the handler makes, the present path belongs   *)
(* to state=present and the poll to state=remove, and __update_swarm only  *)
(* reaches update_swarm outside check mode.  The node named by node_id is *)
(* always in one of its three states.                                      *)
(***************************************************************************)
PathInv ==
    /\ action \in States
    /\ target \in TargetStates
    /\ pc \in {"start", "update_inspect", "update_submit", "init",
               "remove_poll", "remove_submit"} => ~mutated
    /\ pc \in {"update_inspect", "update_submit", "update_reinspect",
               "init", "init_verify", "init_inspect"} => action = "present"
    /\ pc \in {"remove_poll", "remove_submit"} => action = "remove"
    /\ pc = "update_submit" => ~check

\* The task's abstract next-state relation, stuttering included.
TaskStep == [Task!Next]_Task!vars

-----------------------------------------------------------------------------
(* PathInv is an invariant.                                                *)

LEMMA PathInvInit == Init => PathInv
BY DEF Init, PathInv, States, TargetStates

LEMMA PathInvStep == PathInv /\ [Next]_vars => PathInv'
<1> SUFFICES ASSUME PathInv, [Next]_vars PROVE PathInv'
  OBVIOUS
<1>1. CASE \E a \in Actions, c \in BOOLEAN : Start(a, c)
  BY <1>1, DockerSwarmAssumption DEF Start, Fail, PathInv, States, engine
<1>2. CASE PresentProbe
  BY <1>2 DEF PresentProbe, InspectOK, PathInv, history, engine
<1>3. CASE UpdateInspect
  BY <1>3 DEF UpdateInspect, Exit, PathInv, engine
<1>4. CASE UpdateSubmit
  BY <1>4 DEF UpdateSubmit, Fail, PathInv
<1>5. CASE UpdateReinspect
  BY <1>5 DEF UpdateReinspect, Exit, PathInv, engine
<1>6. CASE InitSubmit
  BY <1>6 DEF InitSubmit, Fail, PathInv, engine, TargetStates
<1>7. CASE InitVerify
  BY <1>7 DEF InitVerify, Fail, PathInv, history, engine
<1>8. CASE InitInspect
  BY <1>8 DEF InitInspect, Exit, PathInv, engine
<1>9. CASE Join
  BY <1>9 DEF Join, Fail, Exit, PathInv
<1>10. CASE Leave
  BY <1>10 DEF Leave, Fail, Exit, PathInv
<1>11. CASE RemoveProbe
  BY <1>11 DEF RemoveProbe, Fail, PathInv, engine, history
<1>12. CASE RemovePoll
  BY <1>12 DEF RemovePoll, Fail, Exit, PathInv, engine, history
<1>13. CASE RemoveSubmit
  BY <1>13 DEF RemoveSubmit, Fail, Exit, PathInv, TargetStates
<1>14. CASE ExternalUpdate
  BY <1>14 DEF ExternalUpdate, PathInv, run
<1>15. CASE TargetChange
  BY <1>15 DEF TargetChange, PathInv, run, history, TargetStates
<1>16. CASE UNCHANGED vars
  BY <1>16 DEF vars, engine, run, history, PathInv
<1>17. QED
  BY <1>1, <1>2, <1>3, <1>4, <1>5, <1>6, <1>7, <1>8, <1>9, <1>10, <1>11,
     <1>12, <1>13, <1>14, <1>15, <1>16 DEF Next
-----------------------------------------------------------------------------
(* Every step of DockerSwarm is a step of SwarmTask or leaves its view     *)
(* unchanged.                                                              *)

\* The first state is an idle task on a fresh swarm.
LEMMA InitMaps == Init => Task!Init
BY DEF Init, Task!Init, NodeRoles

\* An invocation that ends without a change is the task's End.
LEMMA EndMaps ==
    ASSUME action \in States, pc # "done", pc' = "done",
           UNCHANGED <<engine, params, check>>
    PROVE  Task!End
BY DEF Task!End, engine, States

\* A step inside an invocation that changes nothing the task sees.
LEMMA InnerMaps ==
    ASSUME pc # "done", pc' # "done",
           UNCHANGED <<engine, params, action, check, mutated>>
    PROVE  UNCHANGED Task!vars
BY DEF Task!vars, engine

LEMMA StartMaps ==
    ASSUME NEW a \in Actions, NEW c \in BOOLEAN, Start(a, c)
    PROVE  Task!Begin
BY DEF Start, Fail, Task!Begin, engine

LEMMA PresentProbeMaps ==
    ASSUME PathInv, PresentProbe PROVE TaskStep
BY InnerMaps DEF PresentProbe, TaskStep, history

LEMMA UpdateInspectMaps ==
    ASSUME PathInv, UpdateInspect PROVE TaskStep
<1> PICK failed, keyFailed \in BOOLEAN :
        LET snap == Inspected(failed, keyFailed)
            wanted == UpdateFromSwarmInfo(desired, snap.spec)
            found == CompareToActive(wanted, OldParameters(snap.spec), params.rotate)
        IN IF snap = None
           THEN /\ outcome' = "crashed"
                /\ pc' = "done"
                /\ UNCHANGED <<info, desired, diff, changed, extSinceInspect>>
           ELSE /\ info' = snap
                /\ desired' = wanted
                /\ diff' = found
                /\ changed' = FALSE
                /\ extSinceInspect' = FALSE
                /\ IF found = {} THEN Exit
                   ELSE /\ pc' = IF check THEN "update_reinspect" ELSE "update_submit"
                        /\ UNCHANGED outcome
  BY DEF UpdateInspect
<1>1. UNCHANGED <<engine, params, action, check, mutated>> /\ pc = "update_inspect"
  BY DEF UpdateInspect
<1>2. CASE pc' = "done"
  BY <1>1, <1>2, EndMaps DEF TaskStep, Task!Next, PathInv
<1>3. CASE pc' # "done"
  BY <1>1, <1>3, InnerMaps DEF TaskStep
<1>4. QED
  BY <1>2, <1>3

\* update_swarm: a rejected call ends the task, an accepted one is its
\* change of state=present on a manager.
LEMMA UpdateSubmitMaps ==
    ASSUME PathInv, UpdateSubmit PROVE TaskStep
<1> PICK failed \in BOOLEAN :
        IF failed \/ local # "manager" \/ SubmitVersion # version
        THEN /\ Fail
             /\ UNCHANGED <<cluster, version, mutated>>
        ELSE /\ cluster' = MergeSpec(cluster, UpdateParameters(FromAnsibleParams))
             /\ version' = Bumped
             /\ mutated' = TRUE
             /\ pc' = "update_reinspect"
             /\ UNCHANGED outcome
  BY DEF UpdateSubmit
<1>1. /\ UNCHANGED <<local, target, params, action, check>>
      /\ pc = "update_submit"
  BY DEF UpdateSubmit
<1>2. CASE failed \/ local # "manager" \/ SubmitVersion # version
  BY <1>1, <1>2, EndMaps DEF TaskStep, Task!Next, PathInv, Fail, engine
<1>3. CASE ~(failed \/ local # "manager" \/ SubmitVersion # version)
  <2>1. /\ action = "present" /\ ~check /\ ~mutated
        /\ local = "manager"
        /\ cluster' = MergeSpec(cluster, UpdateParameters(FromAnsibleParams))
        /\ version' = Bumped /\ mutated' /\ pc' = "update_reinspect"
    BY <1>1, <1>3 DEF PathInv
  <2>2. Task!Change("present")
    BY <1>1, <2>1 DEF Task!Change, Task!NextVersion, Bumped, Task!MergeSpec, MergeSpec,
       Task!UpdateParameters, UpdateParameters
  <2>3. Task!Apply
    BY <1>1, <2>1, <2>2 DEF Task!Apply
  <2>4. QED
    BY <2>3 DEF TaskStep, Task!Next
<1>4. QED
  BY <1>2, <1>3

LEMMA UpdateReinspectMaps ==
    ASSUME PathInv, UpdateReinspect PROVE TaskStep
BY EndMaps DEF UpdateReinspect, Exit, TaskStep, Task!Next, PathInv, engine

\* init_swarm: skipped in check mode, else a failure ends the task and a
\* success is its change of state=present.
LEMMA InitSubmitMaps ==
    ASSUME PathInv, InitSubmit PROVE TaskStep
<1>1. /\ UNCHANGED <<params, action, check>> /\ pc = "init"
      /\ action = "present" /\ ~mutated
  BY DEF InitSubmit, PathInv
<1>2. CASE check /\ pc' = "init_verify" /\ UNCHANGED <<engine, outcome, mutated>>
  BY <1>1, <1>2, InnerMaps DEF TaskStep
<1>3. CASE ~check /\ \E failed \in BOOLEAN :
               IF failed \/ ~InitAllowed
               THEN /\ Fail
                    /\ UNCHANGED <<engine, mutated>>
               ELSE /\ local' = "manager"
                    /\ cluster' = MergeSpec(IF local = "inactive" THEN DefaultSpec
                                                                  ELSE cluster,
                                            UpdateParameters(FromAnsibleParams))
                    /\ version' = Bumped
                    /\ target' = IF local = "inactive" THEN "absent" ELSE target
                    /\ mutated' = TRUE
                    /\ pc' = "init_verify"
                    /\ UNCHANGED outcome
  <2>1. PICK failed \in BOOLEAN :
               IF failed \/ ~InitAllowed
               THEN /\ Fail
                    /\ UNCHANGED <<engine, mutated>>
               ELSE /\ local' = "manager"
                    /\ cluster' = MergeSpec(IF local = "inactive" THEN DefaultSpec
                                                                  ELSE cluster,
                                            UpdateParameters(FromAnsibleParams))
                    /\ version' = Bumped
                    /\ target' = IF local = "inactive" THEN "absent" ELSE target
                    /\ mutated' = TRUE
                    /\ pc' = "init_verify"
                    /\ UNCHANGED outcome
    BY <1>3
  <2>2. CASE failed \/ ~InitAllowed
    BY <1>1, <2>1, <2>2, EndMaps DEF TaskStep, Task!Next, PathInv, Fail
  <2>3. CASE ~(failed \/ ~InitAllowed)
    <3>1. Task!Change("present")
      BY <1>1, <2>1, <2>3 DEF Task!Change, Task!NextVersion, Bumped, Task!MergeSpec, MergeSpec,
         Task!UpdateParameters, UpdateParameters
    <3>2. Task!Apply
      BY <1>1, <1>3, <2>1, <2>3, <3>1 DEF Task!Apply
    <3>3. QED
      BY <3>2 DEF TaskStep, Task!Next
  <2>4. QED
    BY <2>2, <2>3
<1>4. QED
  BY <1>2, <1>3 DEF InitSubmit

LEMMA InitVerifyMaps ==
    ASSUME PathInv, InitVerify PROVE TaskStep
<1>1. UNCHANGED <<engine, params, action, check, mutated>> /\ pc = "init_verify"
  BY DEF InitVerify, history
<1>2. CASE pc' = "done"
  BY <1>1, <1>2, EndMaps DEF TaskStep, Task!Next, PathInv
<1>3. CASE pc' # "done"
  BY <1>1, <1>3, InnerMaps DEF TaskStep
<1>4. QED
  BY <1>2, <1>3

LEMMA InitInspectMaps ==
    ASSUME PathInv, InitInspect PROVE TaskStep
BY EndMaps DEF InitInspect, Exit, TaskStep, Task!Next, PathInv, engine

\* join(): a join_swarm that succeeds is the task's change of state=join
\* and ends it; every other path ends it without a change.
LEMMA JoinMaps ==
    ASSUME PathInv, Join PROVE TaskStep
<1>1. /\ UNCHANGED <<cluster, version, target, params, action, check>>
      /\ pc = "start" /\ pc' = "done" /\ action = "join" /\ ~mutated
  BY DEF Join, Fail, Exit, PathInv
<1>2. CASE UNCHANGED local
  BY <1>1, <1>2, EndMaps DEF TaskStep, Task!Next, PathInv, engine
<1>3. CASE local' # local
  <2>1. local = "inactive" /\ ~check /\ local' = params.joinRole
    BY <1>3 DEF Join
  <2>2. Task!Change("join")
    BY <1>1, <2>1 DEF Task!Change
  <2>3. Task!Apply
    BY <1>1, <2>1, <2>2 DEF Task!Apply
  <2>4. QED
    BY <2>3 DEF TaskStep, Task!Next
<1>4. QED
  BY <1>2, <1>3

\* leave(): a leave_swarm that succeeds is the task's change of
\* state=absent and ends it.
LEMMA LeaveMaps ==
    ASSUME PathInv, Leave PROVE TaskStep
<1>1. /\ UNCHANGED <<cluster, version, target, params, action, check>>
      /\ pc = "start" /\ pc' = "done" /\ action = "absent" /\ ~mutated
  BY DEF Leave, Fail, Exit, PathInv
<1>2. CASE UNCHANGED local
  BY <1>1, <1>2, EndMaps DEF TaskStep, Task!Next, PathInv, engine
<1>3. CASE local' # local
  <2>1. local # "inactive" /\ ~check /\ local' = "inactive"
    BY <1>3 DEF Leave
  <2>2. Task!Change("absent")
    BY <1>1, <2>1 DEF Task!Change
  <2>3. Task!Apply
    BY <1>1, <2>1, <2>2 DEF Task!Apply
  <2>4. QED
    BY <2>3 DEF TaskStep, Task!Next
<1>4. QED
  BY <1>2, <1>3

LEMMA RemoveProbeMaps ==
    ASSUME PathInv, RemoveProbe PROVE TaskStep
<1>1. UNCHANGED <<engine, params, action, check, mutated>> /\ pc = "start"
  BY DEF RemoveProbe, history
<1>2. CASE pc' = "done"
  BY <1>1, <1>2, EndMaps DEF TaskStep, Task!Next, PathInv
<1>3. CASE pc' # "done"
  BY <1>1, <1>3, InnerMaps DEF TaskStep
<1>4. QED
  BY <1>2, <1>3

LEMMA RemovePollMaps ==
    ASSUME PathInv, RemovePoll PROVE TaskStep
<1>1. UNCHANGED <<engine, params, action, check, mutated>> /\ pc = "remove_poll"
  BY DEF RemovePoll, history
<1>2. CASE pc' = "done"
  BY <1>1, <1>2, EndMaps DEF TaskStep, Task!Next, PathInv
<1>3. CASE pc' # "done"
  BY <1>1, <1>3, InnerMaps DEF TaskStep
<1>4. QED
  BY <1>2, <1>3

\* remove_node: skipped in check mode; when the engine accepts it, it is the
\* task's change of state=remove and ends it.
LEMMA RemoveSubmitMaps ==
    ASSUME PathInv, RemoveSubmit PROVE TaskStep
<1>1. /\ UNCHANGED <<local, cluster, version, params, action, check>>
      /\ pc = "remove_submit" /\ pc' = "done" /\ action = "remove" /\ ~mutated
      /\ target \in TargetStates
  BY DEF RemoveSubmit, Fail, Exit, PathInv
<1>2. CASE UNCHANGED target
  BY <1>1, <1>2, EndMaps DEF TaskStep, Task!Next, PathInv, engine
<1>3. CASE target' # target
  <2>1. /\ ~check /\ target' = "absent"
        /\ target = "down" \/ (target = "ready" /\ params.force)
    BY <1>1, <1>3 DEF RemoveSubmit, TargetStates
  <2>2. Task!Change("remove")
    BY <1>1, <2>1 DEF Task!Change
  <2>3. Task!Apply
    BY <1>1, <2>1, <2>2 DEF Task!Apply
  <2>4. QED
    BY <2>3 DEF TaskStep, Task!Next
<1>4. QED
  BY <1>2, <1>3

\* Another manager's update is the task view's OtherClient.
LEMMA ExternalUpdateMaps ==
    ASSUME ExternalUpdate PROVE TaskStep
BY DEF ExternalUpdate, TaskStep, Task!Next, Task!OtherClient, run,
   InfoFields, Task!InfoFields

\* The target node's moves are the task view's NodeMoves.
LEMMA TargetChangeMaps ==
    ASSUME TargetChange PROVE TaskStep
BY DEF TargetChange, TaskStep, Task!Next, Task!NodeMoves, run, history

LEMMA StutterMaps ==
    ASSUME UNCHANGED vars PROVE TaskStep
BY DEF vars, engine, run, history, TaskStep, Task!vars

\* Every step of the module, of the playbook and of the other clients.
LEMMA StepMaps == PathInv /\ [Next]_vars => TaskStep
<1> SUFFICES ASSUME PathInv, [Next]_vars PROVE TaskStep
  OBVIOUS
<1>1. CASE \E a \in Actions, c \in BOOLEAN : Start(a, c)
  BY <1>1, StartMaps DEF TaskStep, Task!Next
<1>2. QED
  BY <1>1, PresentProbeMaps, UpdateInspectMaps, UpdateSubmitMaps,
     UpdateReinspectMaps, InitSubmitMaps, InitVerifyMaps, InitInspectMaps,
     JoinMaps, LeaveMaps, RemoveProbeMaps, RemovePollMaps, RemoveSubmitMaps,
     ExternalUpdateMaps, TargetChangeMaps, StutterMaps DEF Next

(***************************************************************************)
(* DockerSwarm implements SwarmTask: every invocation of docker_swarm      *)
(* changes the swarm at most once, never in check mode, only in the way    *)
(* its state asks for and with the playbook's parameters (the property     *)
(* TaskRefinement, model-checked by the run task_refinement).              *)
(***************************************************************************)
THEOREM Refinement == Spec => TaskRefinement
<1>1. Init => PathInv /\ Task!Init
  BY PathInvInit, InitMaps
<1>2. PathInv /\ [Next]_vars => PathInv'
  BY PathInvStep
<1>3. PathInv /\ [Next]_vars => [Task!Next]_Task!vars
  BY StepMaps DEF TaskStep
<1>4. QED
  BY <1>1, <1>2, <1>3, PTL DEF Spec, TaskRefinement, Task!Spec
=============================================================================
