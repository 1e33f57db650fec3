-------------------------- MODULE DockerSwarmSafety --------------------------
(***************************************************************************)
(* Proofs of the safety properties the passing runs check: truthful        *)
(* results['changed'], the unlock key handed back when autolock is turned  *)
(* on, and convergence and idempotence of state=present.                   *)
(***************************************************************************)
EXTENDS DockerSwarmProofs, DockerSwarmRefinement

(***************************************************************************)
(* results['changed'] is False until the step that exits, and once an      *)
(* invocation outside check mode is past its mutating call, that call      *)
(* went through.                                                           *)
(***************************************************************************)
ChangedInv ==
    /\ pc # "done" => ~changed
    /\ (pc \in {"update_reinspect", "init_verify", "init_inspect"} /\ ~check)
          => mutated
    /\ (pc = "done" /\ outcome = "ok" /\ ~check) => (changed <=> mutated)

(***************************************************************************)
(* swarm_info is {} until the invocation's first inspect, and set from   *)
(* __update_swarm's first inspect on.                                      *)
(***************************************************************************)
KeyInv ==
    /\ pc \in {"start", "update_inspect", "init", "init_verify", "init_inspect",
               "remove_poll", "remove_submit"} => info = None
    /\ pc \in {"start", "update_inspect"} => diff = {} /\ ~created
    /\ pc \in {"update_submit", "update_reinspect"} => info # None

\* state=present outside check mode, with no other client acting, past its
\* mutating call or exited successfully.
ConvGuard ==
    /\ action = "present" /\ ~check /\ ~extCur
    /\ \/ pc \in {"update_reinspect", "init_verify", "init_inspect"}
       \/ pc = "done" /\ outcome = "ok"

\* The conclusion of Converged, log_driver aside (no playbook sets it).
ConvergedGoal ==
    /\ local = "manager"
    /\ \A f \in Supported \ {LogDriver} :
          params.spec[f] # None => cluster[f] = params.spec[f]

(***************************************************************************)
(* self.parameters is the playbook's until the inspect, and from the       *)
(* mutating call of state=present on, outside check mode and with no       *)
(* other client acting, the swarm holds the playbook's fields.             *)
(***************************************************************************)
ConvInv ==
    /\ pc \in {"start", "update_inspect"} => desired = params.spec
    /\ ConvGuard => ConvergedGoal
(***************************************************************************)
(* A present invocation after a settled one (Idempotent's hypotheses):     *)
(* the swarm still holds what the previous one left, nothing differs, so   *)
(* neither update_swarm nor init_swarm is reached, and the invocation ends *)
(* in "No modification" with results['changed'] False.                     *)
(***************************************************************************)
Settled ==
    /\ PreviousPresentSettled
    /\ \A f \in WriteOnlyFields : params.spec[f] = None

IdemGoal ==
    /\ pc \in {"start", "update_inspect", "init"} => ConvergedGoal
    /\ pc \notin {"update_submit", "update_reinspect", "init_verify", "init_inspect"}
    /\ (pc = "done" /\ outcome = "ok") => ~changed

IdemInv == (Settled /\ action = "present" /\ ~check) => IdemGoal
-----------------------------------------------------------------------------
(* results['changed'].                                                     *)

LEMMA ChangedInvStep ==
    ASSUME IInv, PathInv, ChangedInv, [Next]_vars PROVE ChangedInv'
<1> USE DEF ChangedInv
<1>1. CASE \E a \in Actions, c \in BOOLEAN : Start(a, c)
  BY <1>1 DEF Start, Fail
<1>2. CASE PresentProbe
  BY <1>2 DEF PresentProbe, history
<1>3. CASE UpdateInspect
  BY <1>3, Zenon DEF UpdateInspect, Exit, PathInv
<1>4. CASE UpdateSubmit
  BY <1>4 DEF UpdateSubmit, Fail, PathInv
<1>5. CASE UpdateReinspect
  BY <1>5 DEF UpdateReinspect, Exit
<1>6. CASE InitSubmit
  BY <1>6 DEF InitSubmit, Fail, engine
<1>7. CASE InitVerify
  BY <1>7 DEF InitVerify, Fail, history
<1>8. CASE InitInspect
  BY <1>8 DEF InitInspect, Exit
<1>9. CASE Join
  BY <1>9 DEF Join, Fail, Exit, PathInv
<1>10. CASE Leave
  BY <1>10 DEF Leave, Fail, Exit, PathInv
<1>11. CASE RemoveProbe
  BY <1>11 DEF RemoveProbe, Fail, history
<1>12. CASE RemovePoll
  BY <1>12 DEF RemovePoll, Fail, Exit, PathInv, history
<1>13. CASE RemoveSubmit
  BY <1>13 DEF RemoveSubmit, Fail, Exit, PathInv
<1>14. CASE ExternalUpdate \/ TargetChange
  BY <1>14 DEF ExternalUpdate, TargetChange, run, history
<1>15. CASE UNCHANGED vars
  BY <1>15 DEF vars, run, history
<1>16. QED
  BY <1>1, <1>2, <1>3, <1>4, <1>5, <1>6, <1>7, <1>8, <1>9, <1>10, <1>11,
     <1>12, <1>13, <1>14, <1>15 DEF Next

(***************************************************************************)
(* results['changed'] tells the truth (the property ReportedChangeIsReal   *)
(* of the runs present_converges and membership): an invocation outside  *)
(* check mode that exits successfully reports a change exactly when one   *)
(* of its mutating calls went through, although inspect_swarm resets the  *)
(* flag on every successful inspect.                                       *)
(***************************************************************************)
THEOREM ChangeReported == Spec => []ReportedChangeIsReal
<1>1. Init => IInv /\ PathInv /\ ChangedInv
  BY InitIInv, PathInvInit DEF Init, ChangedInv
<1>2. IInv /\ PathInv /\ ChangedInv /\ [Next]_vars
        => IInv' /\ PathInv' /\ ChangedInv'
  BY IInvStep, PathInvStep, ChangedInvStep
<1>3. ChangedInv => ReportedChangeIsReal
  BY DEF ChangedInv, ReportedChangeIsReal
<1>4. QED
  BY <1>1, <1>2, <1>3, PTL DEF Spec
-----------------------------------------------------------------------------
(* The unlock key.                                                         *)

LEMMA KeyInvStep ==
    ASSUME KeyInv, [Next]_vars PROVE KeyInv'
<1>1. CASE \E a \in Actions, c \in BOOLEAN : Start(a, c)
  BY <1>1 DEF Start, Fail, KeyInv
<1>2. CASE PresentProbe
  BY <1>2 DEF PresentProbe, KeyInv
<1>3. CASE UpdateInspect
  <2>1. PICK failed, keyFailed \in BOOLEAN :
          LET snap == Inspected(failed, keyFailed)
              wanted == UpdateFromSwarmInfo(desired, snap.spec)
              found == CompareToActive(wanted, OldParameters(snap.spec), params.rotate)
          IN IF snap = None
             THEN /\ outcome' = "crashed"
                  /\ pc' = "done"
             ELSE /\ info' = snap
                  /\ IF found = {} THEN Exit
                     ELSE pc' = IF check THEN "update_reinspect" ELSE "update_submit"
    BY <1>3 DEF UpdateInspect
  <2>2. CASE Inspected(failed, keyFailed) = None
    BY <2>1, <2>2 DEF KeyInv
  <2>3. CASE Inspected(failed, keyFailed) # None
    BY <2>1, <2>3 DEF KeyInv, Exit
  <2>4. QED
    BY <2>2, <2>3
<1>4. CASE UpdateSubmit
  BY <1>4 DEF UpdateSubmit, Fail, KeyInv
<1>5. CASE UpdateReinspect \/ InitInspect
  BY <1>5 DEF UpdateReinspect, InitInspect, Exit, KeyInv
<1>6. CASE InitSubmit
  BY <1>6 DEF InitSubmit, Fail, KeyInv
<1>7. CASE InitVerify
  BY <1>7 DEF InitVerify, Fail, KeyInv
<1>8. CASE Join \/ Leave
  BY <1>8 DEF Join, Leave, Fail, Exit, KeyInv
<1>9. CASE RemoveProbe \/ RemovePoll \/ RemoveSubmit
  BY <1>9 DEF RemoveProbe, RemovePoll, RemoveSubmit, Fail, Exit, KeyInv
<1>10. CASE ExternalUpdate \/ TargetChange
  BY <1>10 DEF ExternalUpdate, TargetChange, KeyInv, run
<1>11. CASE UNCHANGED vars
  BY <1>11 DEF vars, KeyInv, run
<1>12. QED
  BY <1>1, <1>2, <1>3, <1>4, <1>5, <1>6, <1>7, <1>8, <1>9, <1>10, <1>11 DEF Next

\* The node manages a locked swarm.
LockedNow == local = "manager" /\ cluster[Autolock] = LockedVal

(***************************************************************************)
(* Why the key is asked for.  Before the first mutating call of a present  *)
(* invocation the swarm is as it was at the start; a swarm locked after an *)
(* init was locked by the playbook (desired is module.params on the init   *)
(* path, created is set); on the update path the first inspect saw it     *)
(* unlocked, so a submitted autolock=True is among the differences and    *)
(* self.parameters keeps it -- exactly what has_swarm_lock_changed checks. *)
(***************************************************************************)
\* self.parameters is module.params on the init path, and created is set
\* once init_swarm is through.
KeyPathInv ==
    /\ pc \in {"start", "update_inspect", "init", "init_verify", "init_inspect"}
          => desired = params.spec
    /\ pc = "init_inspect" => created

\* A present invocation with no other client acting.
KeyLockInv ==
    /\ pc \in {"start", "update_inspect", "init"} => (lockedAtStart <=> LockedNow)
    /\ (~lockedAtStart /\ pc \in {"init_verify", "init_inspect"} /\ LockedNow)
          => desired[Autolock] = LockedVal
    /\ (~lockedAtStart /\ pc = "update_submit") =>
          /\ cluster = info.spec
          /\ cluster[Autolock] # LockedVal
          /\ UpdateParameters(params.spec)[Autolock] = LockedVal
                => desired[Autolock] = LockedVal /\ Autolock \in diff
    /\ (~lockedAtStart /\ pc = "update_reinspect") =>
          /\ info.spec[Autolock] # LockedVal
          /\ cluster[Autolock] = LockedVal
                => desired[Autolock] = LockedVal /\ Autolock \in diff

KeyRepInv ==
    /\ KeyPathInv
    /\ (action = "present" /\ ~extCur) => KeyLockInv
    /\ KeyReported

\* update_parameters submits autolock_managers=True only when the playbook
\* sets it and the SDK supports it.
LEMMA SubmittedAutolock ==
    ASSUME NEW p, UpdateParameters(p)[Autolock] = LockedVal
    PROVE  Autolock \in Supported /\ p[Autolock] = LockedVal
BY ParamsAssumption DEF UpdateParameters

\* The engine's merged spec is locked only if the submitted or the stored
\* one is.
LEMMA MergedAutolock ==
    ASSUME NEW b, NEW u, MergeSpec(b, u)[Autolock] = LockedVal
    PROVE  u[Autolock] = LockedVal \/ b[Autolock] = LockedVal
BY ParamsAssumption DEF MergeSpec

\* Against an unlocked swarm, a submitted autolock_managers=True is kept by
\* update_from_swarm_info and found by compare_to_active.
LEMMA AutolockDiffers ==
    ASSUME NEW p, NEW s, NEW r, s[Autolock] # LockedVal,
           UpdateParameters(p)[Autolock] = LockedVal
    PROVE  /\ UpdateFromSwarmInfo(p, s)[Autolock] = LockedVal
           /\ Autolock \in CompareToActive(UpdateFromSwarmInfo(p, s), OldParameters(s), r)
<1>1. Autolock \in Supported /\ p[Autolock] = LockedVal
  BY SubmittedAutolock
<1>2. /\ Autolock \in Fields /\ Autolock \in BackfillFields
      /\ Autolock # LogDriver /\ LockedVal # None
  BY ParamsAssumption
<1>3. UpdateFromSwarmInfo(p, s)[Autolock] = LockedVal
  BY <1>1, <1>2 DEF UpdateFromSwarmInfo
<1>4. OldParameters(s)[Autolock] = s[Autolock]
  BY <1>2 DEF OldParameters, UpdateFromSwarmInfo, NoParams
<1>5. QED
  BY <1>1, <1>2, <1>3, <1>4 DEF CompareToActive

LEMMA KeyRepInvStep ==
    ASSUME IInv, KeyInv, PathInv, KeyRepInv, [Next]_vars PROVE KeyRepInv'
<1>1. CASE \E a \in Actions, c \in BOOLEAN : Start(a, c)
  <2>1. PICK a \in Actions, c \in BOOLEAN : Start(a, c)
    BY <1>1
  <2>2. /\ desired' = params.spec /\ params' = params /\ ~extCur'
        /\ local' = local /\ cluster' = cluster
        /\ pc' \in {"start", "done"} /\ (pc' = "done" => outcome' = "failed")
    BY <2>1 DEF Start, Fail, FromAnsibleParams, engine
  <2>3. lockedAtStart' = LockedNow
    BY <2>1, Zenon DEF Start, LockedNow
  <2>4. KeyPathInv' /\ KeyReported'
    BY <2>2 DEF KeyPathInv, KeyReported
  <2>5. KeyLockInv'
    BY <2>2, <2>3 DEF KeyLockInv, LockedNow
  <2>6. QED
    BY <2>4, <2>5 DEF KeyRepInv
<1>2. CASE PresentProbe
  <2>1. /\ pc = "start" /\ pc' \in {"update_inspect", "init"}
        /\ UNCHANGED <<local, cluster, params, action, info, desired, diff, created,
                       extCur, lockedAtStart>>
    BY <1>2 DEF PresentProbe, engine, history
  <2>2. QED
    BY <2>1 DEF KeyRepInv, KeyPathInv, KeyLockInv, KeyReported, LockedNow
<1>3. CASE UpdateInspect
  <2>1. PICK failed, keyFailed \in BOOLEAN :
          LET snap == Inspected(failed, keyFailed)
              wanted == UpdateFromSwarmInfo(desired, snap.spec)
              found == CompareToActive(wanted, OldParameters(snap.spec), params.rotate)
          IN IF snap = None
             THEN /\ outcome' = "crashed"
                  /\ pc' = "done"
             ELSE /\ info' = snap
                  /\ desired' = wanted
                  /\ diff' = found
                  /\ IF found = {} THEN Exit
                     ELSE pc' = IF check THEN "update_reinspect" ELSE "update_submit"
    BY <1>3 DEF UpdateInspect
  <2> DEFINE snap == Inspected(failed, keyFailed)
             wanted == UpdateFromSwarmInfo(desired, snap.spec)
             found == CompareToActive(wanted, OldParameters(snap.spec), params.rotate)
  <2>2. /\ pc = "update_inspect" /\ desired = params.spec /\ info = None
        /\ UNCHANGED <<local, cluster, params, action, extCur, lockedAtStart>>
    BY <1>3 DEF UpdateInspect, KeyInv, KeyRepInv, KeyPathInv, engine
  <2>3. CASE snap = None
    <3>1. pc' = "done" /\ outcome' = "crashed"
      BY <2>1, <2>3
    <3>2. QED
      BY <3>1 DEF KeyRepInv, KeyPathInv, KeyLockInv, KeyReported
  <2>4. CASE snap # None
    <3>1. InspectOK(failed) /\ snap.spec = cluster
      BY <2>2, <2>4 DEF Inspected
    <3>2. /\ info' = snap /\ desired' = wanted /\ diff' = found
          /\ pc' \in {"done", "update_reinspect", "update_submit"}
          /\ (pc' = "done" => outcome' = "ok")
      BY <2>1, <2>4 DEF Exit
    <3>3. KeyPathInv'
      BY <3>2 DEF KeyPathInv
    <3>4. CASE ~(action = "present" /\ ~extCur /\ ~lockedAtStart)
      BY <2>2, <3>2, <3>3, <3>4 DEF KeyRepInv, KeyLockInv, KeyReported
    <3>5. CASE action = "present" /\ ~extCur /\ ~lockedAtStart
      <4>1. local = "manager"
        BY <3>1 DEF InspectOK
      <4>2. cluster[Autolock] # LockedVal
        BY <2>2, <3>5, <4>1 DEF KeyRepInv, KeyLockInv, LockedNow
      <4>3. UpdateParameters(params.spec)[Autolock] = LockedVal
              => wanted[Autolock] = LockedVal /\ Autolock \in found
        BY <2>2, <3>1, <4>2, AutolockDiffers
      <4>4. KeyLockInv'
        BY <2>2, <3>1, <3>2, <4>2, <4>3 DEF KeyLockInv
      <4>5. KeyReported'
        BY <3>1, <3>2, <4>2 DEF KeyReported
      <4>6. QED
        BY <3>3, <4>4, <4>5 DEF KeyRepInv
    <3>6. QED
      BY <3>4, <3>5
  <2>5. QED
    BY <2>3, <2>4
<1>4. CASE UpdateSubmit
  <2>1. PICK failed \in BOOLEAN :
          IF failed \/ local # "manager" \/ SubmitVersion # version
          THEN Fail
          ELSE /\ cluster' = MergeSpec(cluster, UpdateParameters(FromAnsibleParams))
               /\ pc' = "update_reinspect"
    BY <1>4 DEF UpdateSubmit
  <2>2. /\ pc = "update_submit"
        /\ UNCHANGED <<local, params, action, info, desired, diff, created, extCur,
                       lockedAtStart>>
    BY <1>4 DEF UpdateSubmit
  <2>3. CASE failed \/ local # "manager" \/ SubmitVersion # version
    <3>1. pc' = "done" /\ outcome' = "failed"
      BY <2>1, <2>3 DEF Fail
    <3>2. QED
      BY <3>1 DEF KeyRepInv, KeyPathInv, KeyLockInv, KeyReported
  <2>4. CASE ~(failed \/ local # "manager" \/ SubmitVersion # version)
    <3>1. pc' = "update_reinspect"
          /\ cluster' = MergeSpec(cluster, UpdateParameters(params.spec))
      BY <2>1, <2>4 DEF FromAnsibleParams
    <3>2. KeyPathInv' /\ KeyReported'
      BY <3>1 DEF KeyPathInv, KeyReported
    <3>3. CASE ~(action = "present" /\ ~extCur /\ ~lockedAtStart)
      BY <2>2, <3>1, <3>2, <3>3 DEF KeyRepInv, KeyLockInv
    <3>4. CASE action = "present" /\ ~extCur /\ ~lockedAtStart
      <4>1. /\ cluster = info.spec /\ cluster[Autolock] # LockedVal
            /\ UpdateParameters(params.spec)[Autolock] = LockedVal
                 => desired[Autolock] = LockedVal /\ Autolock \in diff
        BY <2>2, <3>4 DEF KeyRepInv, KeyLockInv
      <4>2. cluster'[Autolock] = LockedVal
              => UpdateParameters(params.spec)[Autolock] = LockedVal
        BY <3>1, <4>1, MergedAutolock
      <4>3. KeyLockInv'
        BY <2>2, <3>1, <4>1, <4>2 DEF KeyLockInv
      <4>4. QED
        BY <3>2, <4>3 DEF KeyRepInv
    <3>5. QED
      BY <3>3, <3>4
  <2>5. QED
    BY <2>3, <2>4
<1>5. CASE UpdateReinspect
  <2>1. PICK failed, keyFailed \in BOOLEAN :
          /\ info' = Inspected(failed, keyFailed)
          /\ keyLost' = KeyLostAfter(failed, keyFailed)
    BY <1>5 DEF UpdateReinspect
  <2>2. /\ pc = "update_reinspect" /\ pc' = "done" /\ outcome' = "ok"
        /\ UNCHANGED <<local, cluster, params, action, desired, diff, created,
                       extCur, lockedAtStart>>
    BY <1>5 DEF UpdateReinspect, Exit, engine
  <2>3. KeyPathInv' /\ KeyLockInv'
    BY <2>2 DEF KeyPathInv, KeyLockInv
  <2>4. KeyReported'
    <3>1. SUFFICES ASSUME action = "present", ~extCur, info' # None,
                          info'.spec[Autolock] = LockedVal, ~lockedAtStart, ~keyLost'
                   PROVE  info'.unlockKey = Key
      BY <2>2 DEF KeyReported
    <3>2. /\ info # None /\ info.spec[Autolock] # LockedVal
          /\ cluster[Autolock] = LockedVal
               => desired[Autolock] = LockedVal /\ Autolock \in diff
      BY <2>2, <3>1 DEF KeyInv, KeyRepInv, KeyLockInv
    <3>3. CASE InspectOK(failed)
      <4>1. /\ info'.spec = cluster
            /\ info'.unlockKey = IF HasSwarmLockChanged(desired, created, diff) /\ ~keyFailed
                                 THEN EngineUnlockKey ELSE None
            /\ keyLost' = keyFailed
        BY <2>1, <3>3 DEF Inspected, KeyLostAfter
      <4>2. cluster[Autolock] = LockedVal /\ ~keyFailed
        BY <3>1, <4>1
      <4>3. HasSwarmLockChanged(desired, created, diff)
        BY <3>2, <4>2 DEF HasSwarmLockChanged
      <4>4. QED
        BY <4>1, <4>2, <4>3 DEF EngineUnlockKey
    <3>4. CASE ~InspectOK(failed)
      BY <2>1, <3>1, <3>2, <3>4 DEF Inspected
    <3>5. QED
      BY <3>3, <3>4
  <2>5. QED
    BY <2>3, <2>4 DEF KeyRepInv
<1>6. CASE InitSubmit
  <2>1. /\ pc = "init" /\ desired = params.spec
        /\ UNCHANGED <<params, action, info, desired, diff, created, extCur,
                       lockedAtStart>>
    BY <1>6 DEF InitSubmit, KeyRepInv, KeyPathInv
  <2>2. pc' \in {"init_verify", "done"} /\ (pc' = "done" => outcome' = "failed")
    BY <1>6 DEF InitSubmit, Fail
  <2>3. KeyPathInv' /\ KeyReported'
    BY <2>1, <2>2 DEF KeyPathInv, KeyReported
  <2>4. CASE ~(action = "present" /\ ~extCur /\ ~lockedAtStart)
    BY <2>1, <2>2, <2>3, <2>4 DEF KeyRepInv, KeyLockInv
  <2>5. CASE action = "present" /\ ~extCur /\ ~lockedAtStart
    <3>1. ~LockedNow
      BY <2>1, <2>5 DEF KeyRepInv, KeyLockInv
    <3>2. SUFFICES ASSUME pc' = "init_verify", LockedNow' PROVE desired[Autolock] = LockedVal
      BY <2>1, <2>2, <2>3, <2>5 DEF KeyRepInv, KeyLockInv
    <3>3. CASE check
      BY <1>6, <3>1, <3>2, <3>3 DEF InitSubmit, LockedNow, engine
    <3>4. CASE ~check
      <4>1. PICK failed \in BOOLEAN :
              IF failed \/ ~InitAllowed
              THEN Fail
              ELSE cluster' = MergeSpec(IF local = "inactive" THEN DefaultSpec
                                                            ELSE cluster,
                                        UpdateParameters(params.spec))
        BY <1>6, <3>4 DEF InitSubmit, FromAnsibleParams
      <4>2. ~(failed \/ ~InitAllowed)
        BY <3>2, <4>1 DEF Fail
      <4>3. (IF local = "inactive" THEN DefaultSpec ELSE cluster)[Autolock] # LockedVal
        <5>1. CASE local = "inactive"
          BY <5>1, DockerSwarmAssumption
        <5>2. CASE local # "inactive"
          BY <3>1, <4>2, <5>2 DEF InitAllowed, LockedNow
        <5>3. QED
          BY <5>1, <5>2
      <4>4. UpdateParameters(params.spec)[Autolock] = LockedVal
        BY <3>2, <4>1, <4>2, <4>3, MergedAutolock DEF LockedNow
      <4>5. QED
        BY <2>1, <4>4, SubmittedAutolock
    <3>5. QED
      BY <3>3, <3>4
  <2>6. QED
    BY <2>4, <2>5
<1>7. CASE InitVerify
  <2>1. /\ pc = "init_verify" /\ pc' \in {"init_inspect", "done"}
        /\ (pc' = "done" => outcome' = "failed")
        /\ (pc' = "init_inspect" => created')
    BY <1>7 DEF InitVerify, Fail
  <2>2. UNCHANGED <<local, cluster, params, action, info, desired, diff, extCur,
                    lockedAtStart>>
    BY <1>7 DEF InitVerify, engine, history
  <2>3. QED
    BY <2>1, <2>2 DEF KeyRepInv, KeyPathInv, KeyLockInv, KeyReported, LockedNow
<1>8. CASE InitInspect
  <2>1. PICK failed, keyFailed \in BOOLEAN :
          /\ info' = Inspected(failed, keyFailed)
          /\ keyLost' = KeyLostAfter(failed, keyFailed)
    BY <1>8 DEF InitInspect
  <2>2. /\ pc = "init_inspect" /\ pc' = "done" /\ outcome' = "ok"
        /\ UNCHANGED <<local, cluster, params, action, desired, created, extCur,
                       lockedAtStart>>
    BY <1>8 DEF InitInspect, Exit, engine
  <2>3. KeyPathInv' /\ KeyLockInv'
    BY <2>2 DEF KeyPathInv, KeyLockInv
  <2>4. KeyReported'
    <3>1. SUFFICES ASSUME action = "present", ~extCur, info' # None,
                          info'.spec[Autolock] = LockedVal, ~lockedAtStart, ~keyLost'
                   PROVE  info'.unlockKey = Key
      BY <2>2 DEF KeyReported
    <3>2. /\ info = None /\ created
          /\ LockedNow => desired[Autolock] = LockedVal
      BY <2>2, <3>1 DEF KeyInv, KeyRepInv, KeyPathInv, KeyLockInv
    <3>3. CASE InspectOK(failed)
      <4>1. /\ info'.spec = cluster /\ local = "manager"
            /\ info'.unlockKey = IF HasSwarmLockChanged(desired, created, diff) /\ ~keyFailed
                                 THEN EngineUnlockKey ELSE None
            /\ keyLost' = keyFailed
        BY <2>1, <3>3 DEF Inspected, KeyLostAfter, InspectOK
      <4>2. cluster[Autolock] = LockedVal /\ ~keyFailed
        BY <3>1, <4>1
      <4>3. HasSwarmLockChanged(desired, created, diff)
        BY <3>2, <4>1, <4>2 DEF HasSwarmLockChanged, LockedNow
      <4>4. QED
        BY <4>1, <4>2, <4>3 DEF EngineUnlockKey
    <3>4. CASE ~InspectOK(failed)
      BY <2>1, <3>1, <3>2, <3>4 DEF Inspected
    <3>5. QED
      BY <3>3, <3>4
  <2>5. QED
    BY <2>3, <2>4 DEF KeyRepInv
<1>9. CASE Join \/ Leave \/ RemoveProbe \/ RemovePoll \/ RemoveSubmit
  <2>1. /\ action # "present" /\ action' = action
        /\ pc' \notin {"start", "update_inspect", "init", "init_verify", "init_inspect"}
    <3>1. CASE Join
      BY <3>1 DEF Join, Fail, Exit
    <3>2. CASE Leave
      BY <3>2 DEF Leave, Fail, Exit
    <3>3. CASE RemoveProbe
      BY <3>3 DEF RemoveProbe, Fail
    <3>4. CASE RemovePoll
      BY <3>4 DEF RemovePoll, Fail, Exit, PathInv
    <3>5. CASE RemoveSubmit
      BY <3>5 DEF RemoveSubmit, Fail, Exit, PathInv
    <3>6. QED
      BY <1>9, <3>1, <3>2, <3>3, <3>4, <3>5
  <2>2. QED
    BY <2>1 DEF KeyRepInv, KeyPathInv, KeyReported
<1>10. CASE ExternalUpdate
  <2>1. extCur' /\ UNCHANGED <<pc, params, desired, created>>
    BY <1>10 DEF ExternalUpdate, run
  <2>2. QED
    BY <2>1 DEF KeyRepInv, KeyPathInv, KeyReported
<1>11. CASE TargetChange \/ UNCHANGED vars
  <2>1. UNCHANGED <<local, cluster, params, pc, action, info, desired, diff, created,
                    outcome, extCur, lockedAtStart, keyLost>>
    BY <1>11 DEF TargetChange, vars, engine, run, history
  <2>2. QED
    BY <2>1 DEF KeyRepInv, KeyPathInv, KeyLockInv, KeyReported, LockedNow
<1>12. QED
  BY <1>1, <1>2, <1>3, <1>4, <1>5, <1>6, <1>7, <1>8, <1>9, <1>10, <1>11 DEF Next

(***************************************************************************)
(* The unlock key is handed back when autolock is turned on (the property  *)
(* KeyReported of the run present_converges), for every value of the      *)
(* constants: has_swarm_lock_changed asks for the key after init_swarm and *)
(* whenever autolock_managers is among the differences, and a swarm this   *)
(* invocation locked was seen unlocked by its first inspect, so the        *)
(* difference is always recorded.                                          *)
(***************************************************************************)
THEOREM KeyReportedHolds == Spec => []KeyReported
<1> DEFINE Inv == IInv /\ KeyInv /\ PathInv /\ KeyRepInv
<1>1. Init => Inv
  BY InitIInv, PathInvInit DEF Init, KeyInv, KeyRepInv, KeyPathInv, KeyLockInv, KeyReported
<1>2. Inv /\ [Next]_vars => Inv'
  BY IInvStep, KeyInvStep, PathInvStep, KeyRepInvStep
<1>3. Inv => KeyReported
  BY DEF KeyRepInv
<1>4. QED
  BY <1>1, <1>2, <1>3, PTL DEF Spec
-----------------------------------------------------------------------------
(* Convergence of state=present.                                           *)

\* compare_to_active finding nothing means the swarm already holds every
\* supported field (log_driver aside) the parameters set: such a field is
\* kept by update_from_swarm_info and read back into old_parameters.
LEMMA NoDiffConverged ==
    ASSUME NEW p, NEW s, NEW r,
           CompareToActive(UpdateFromSwarmInfo(p, s), OldParameters(s), r) = {}
    PROVE  \A f \in Supported \ {LogDriver} : p[f] # None => s[f] = p[f]
<1> SUFFICES ASSUME NEW f \in Supported \ {LogDriver}, p[f] # None
             PROVE  s[f] = p[f]
  OBVIOUS
<1>1. f \in Fields
  BY ParamsAssumption
<1>2. UpdateFromSwarmInfo(p, s)[f] = p[f]
  BY <1>1 DEF UpdateFromSwarmInfo
<1>3. UpdateFromSwarmInfo(p, s)[f] = OldParameters(s)[f]
  BY <1>1, <1>2 DEF CompareToActive
<1>4. OldParameters(s)[f] = IF f \in BackfillFields THEN s[f] ELSE None
  BY <1>1 DEF OldParameters, UpdateFromSwarmInfo, NoParams
<1>5. QED
  BY <1>2, <1>3, <1>4

\* No playbook sets log_driver: argument_spec has no such option.
LEMMA NoLogDriverOption ==
    ASSUME IInv PROVE params.spec[LogDriver] = None
BY DockerSwarmAssumption DEF IInv, TypeOK, ParamDomain, PlaybookSpecs

\* The spec the engine stores after init_swarm or update_swarm holds every
\* supported field the playbook set, whatever was stored before.
LEMMA MergeLands ==
    ASSUME NEW stored, NEW p
    PROVE  \A f \in Supported :
              p[f] # None => MergeSpec(stored, UpdateParameters(p))[f] = p[f]
BY ParamsAssumption DEF MergeSpec, UpdateParameters

LEMMA ConvInvStep ==
    ASSUME KeyInv, PathInv, ConvInv, [Next]_vars PROVE ConvInv'
<1>0. ConvInv' = (/\ pc' \in {"start", "update_inspect"} => desired' = params'.spec
                  /\ ConvGuard' => ConvergedGoal')
  BY DEF ConvInv
<1>1. CASE \E a \in Actions, c \in BOOLEAN : Start(a, c)
  BY <1>0, <1>1 DEF Start, Fail, FromAnsibleParams, ConvGuard
<1>2. CASE PresentProbe
  BY <1>0, <1>2 DEF PresentProbe, ConvInv, ConvGuard, engine, history
<1>3. CASE UpdateInspect
  <2>1. PICK failed, keyFailed \in BOOLEAN :
          LET snap == Inspected(failed, keyFailed)
              wanted == UpdateFromSwarmInfo(desired, snap.spec)
              found == CompareToActive(wanted, OldParameters(snap.spec), params.rotate)
          IN IF snap = None
             THEN /\ outcome' = "crashed"
                  /\ pc' = "done"
             ELSE IF found = {} THEN Exit
                  ELSE pc' = IF check THEN "update_reinspect" ELSE "update_submit"
    BY <1>3 DEF UpdateInspect
  <2>2. /\ info = None /\ desired = params.spec
        /\ UNCHANGED <<local, cluster, params, action, check, extCur>>
    BY <1>3 DEF UpdateInspect, KeyInv, ConvInv, engine
  <2>3. CASE Inspected(failed, keyFailed) = None
    BY <1>0, <2>1, <2>3 DEF ConvGuard
  <2>4. CASE /\ Inspected(failed, keyFailed) # None
             /\ CompareToActive(UpdateFromSwarmInfo(desired, cluster),
                                OldParameters(cluster), params.rotate) = {}
    <3>1. InspectOK(failed) /\ Inspected(failed, keyFailed).spec = cluster
      BY <2>2, <2>4 DEF Inspected
    <3>2. local = "manager"
      BY <3>1 DEF InspectOK
    <3>3. \A f \in Supported \ {LogDriver} :
            desired[f] # None => cluster[f] = desired[f]
      BY <2>4, NoDiffConverged
    <3>4. ConvergedGoal'
      BY <2>2, <3>2, <3>3 DEF ConvergedGoal
    <3>5. pc' = "done"
      BY <2>1, <2>4, <3>1 DEF Exit
    <3>6. QED
      BY <1>0, <3>4, <3>5
  <2>5. CASE /\ Inspected(failed, keyFailed) # None
             /\ CompareToActive(UpdateFromSwarmInfo(desired, cluster),
                                OldParameters(cluster), params.rotate) # {}
    <3>1. Inspected(failed, keyFailed).spec = cluster
      BY <2>2, <2>5 DEF Inspected
    <3>2. pc' = IF check THEN "update_reinspect" ELSE "update_submit"
      BY <2>1, <2>5, <3>1
    <3>3. QED
      BY <1>0, <2>2, <3>2 DEF ConvGuard
  <2>6. QED
    BY <2>3, <2>4, <2>5
<1>4. CASE UpdateSubmit
  <2>1. PICK failed \in BOOLEAN :
          IF failed \/ local # "manager" \/ SubmitVersion # version
          THEN /\ Fail
               /\ UNCHANGED <<cluster, version, mutated>>
          ELSE /\ cluster' = MergeSpec(cluster, UpdateParameters(FromAnsibleParams))
               /\ pc' = "update_reinspect"
    BY <1>4 DEF UpdateSubmit
  <2>2. UNCHANGED <<local, params, action, check, extCur>>
    BY <1>4 DEF UpdateSubmit
  <2>3. CASE failed \/ local # "manager" \/ SubmitVersion # version
    BY <1>0, <2>1, <2>3 DEF Fail, ConvGuard
  <2>4. CASE ~(failed \/ local # "manager" \/ SubmitVersion # version)
    <3>1. ConvergedGoal'
      BY <2>1, <2>2, <2>4, MergeLands DEF ConvergedGoal, FromAnsibleParams
    <3>2. QED
      BY <1>0, <2>1, <2>4, <3>1 DEF ConvGuard
  <2>5. QED
    BY <2>3, <2>4
<1>5. CASE UpdateReinspect
  BY <1>0, <1>5 DEF UpdateReinspect, Exit, ConvInv, ConvGuard, ConvergedGoal, engine
<1>6. CASE InitSubmit
  <2>1. UNCHANGED <<params, action, check, extCur>> /\ pc = "init"
    BY <1>6 DEF InitSubmit
  <2>2. CASE check
    BY <1>0, <1>6, <2>1, <2>2 DEF InitSubmit, ConvGuard
  <2>3. CASE ~check
    <3>1. PICK failed \in BOOLEAN :
            IF failed \/ ~InitAllowed
            THEN Fail
            ELSE /\ local' = "manager"
                 /\ cluster' = MergeSpec(IF local = "inactive" THEN DefaultSpec
                                                               ELSE cluster,
                                         UpdateParameters(FromAnsibleParams))
                 /\ pc' = "init_verify"
      BY <1>6, <2>3 DEF InitSubmit
    <3>2. CASE failed \/ ~InitAllowed
      BY <1>0, <3>1, <3>2 DEF Fail, ConvGuard
    <3>3. CASE ~(failed \/ ~InitAllowed)
      BY <1>0, <2>1, <3>1, <3>3, MergeLands
      DEF ConvergedGoal, FromAnsibleParams, ConvGuard
    <3>4. QED
      BY <3>2, <3>3
  <2>4. QED
    BY <2>2, <2>3
<1>7. CASE InitVerify
  BY <1>0, <1>7 DEF InitVerify, Fail, ConvInv, ConvGuard, ConvergedGoal, engine, history
<1>8. CASE InitInspect
  BY <1>0, <1>8 DEF InitInspect, Exit, ConvInv, ConvGuard, ConvergedGoal, engine
<1>9. CASE Join
  BY <1>0, <1>9 DEF Join, Fail, Exit, ConvGuard
<1>10. CASE Leave
  BY <1>0, <1>10 DEF Leave, Fail, Exit, ConvGuard
<1>11. CASE RemoveProbe
  BY <1>0, <1>11 DEF RemoveProbe, Fail, ConvGuard
<1>12. CASE RemovePoll
  BY <1>0, <1>12 DEF RemovePoll, Fail, Exit, PathInv, ConvGuard
<1>13. CASE RemoveSubmit
  BY <1>0, <1>13 DEF RemoveSubmit, Fail, Exit, PathInv, ConvGuard
<1>14. CASE ExternalUpdate
  <2>1. UNCHANGED <<pc, desired, params>> /\ extCur'
    BY <1>14 DEF ExternalUpdate, run
  <2>2. QED
    BY <1>0, <2>1 DEF ConvInv, ConvGuard
<1>15. CASE TargetChange
  BY <1>0, <1>15 DEF TargetChange, ConvInv, ConvergedGoal, run, history, ConvGuard
<1>16. CASE UNCHANGED vars
  BY <1>0, <1>16 DEF vars, ConvInv, ConvGuard, ConvergedGoal, engine, run, history
<1>17. QED
  BY <1>1, <1>2, <1>3, <1>4, <1>5, <1>6, <1>7, <1>8, <1>9, <1>10, <1>11,
     <1>12, <1>13, <1>14, <1>15, <1>16 DEF Next

(***************************************************************************)
(* state=present converges (the property Converged of the runs             *)
(* present_converges and check_mode): an invocation outside check mode     *)
(* that exits successfully, with no other client acting since it started, *)
(* leaves the node a manager and the swarm holding every supported field  *)
(* the playbook set, whether __update_swarm found nothing to change or    *)
(* init_swarm / update_swarm wrote it.                                     *)
(***************************************************************************)
THEOREM ConvergedHolds == Spec => []Converged
<1>1. Init => IInv /\ KeyInv /\ PathInv /\ ConvInv
  BY InitIInv, PathInvInit DEF Init, KeyInv, ConvInv, ConvGuard, FromAnsibleParams
<1>2. IInv /\ KeyInv /\ PathInv /\ ConvInv /\ [Next]_vars
        => IInv' /\ KeyInv' /\ PathInv' /\ ConvInv'
  BY IInvStep, KeyInvStep, PathInvStep, ConvInvStep
<1>3. IInv /\ ConvInv => Converged
  BY NoLogDriverOption DEF ConvInv, ConvGuard, ConvergedGoal, Converged
<1>4. QED
  BY <1>1, <1>2, <1>3, PTL DEF Spec
-----------------------------------------------------------------------------
(* Idempotence of state=present.                                           *)

\* Against a swarm that holds every supported field the parameters set,
\* with no write-only field and no rotate flag given, compare_to_active
\* finds nothing.
LEMMA NothingDiffers ==
    ASSUME NEW p, NEW s,
           \A f \in Supported \ {LogDriver} : p[f] # None => s[f] = p[f],
           p[LogDriver] = None,
           \A f \in WriteOnlyFields : p[f] = None
    PROVE  CompareToActive(UpdateFromSwarmInfo(p, s), OldParameters(s), {}) = {}
<1> DEFINE w == UpdateFromSwarmInfo(p, s)
           o == OldParameters(s)
<1>1. ASSUME NEW f \in Fields \cap Supported, w[f] # None PROVE w[f] = o[f]
  <2>1. LogDriver \notin BackfillFields
    BY ParamsAssumption
  <2>2. CASE f \in BackfillFields
    BY <1>1, <2>1, <2>2 DEF UpdateFromSwarmInfo, OldParameters, NoParams
  <2>3. CASE f = LogDriver
    BY <1>1, <2>1, <2>3 DEF UpdateFromSwarmInfo, OldParameters, NoParams
  <2>4. CASE f \notin BackfillFields /\ f # LogDriver
    <3>1. f \in WriteOnlyFields
      BY <2>4 DEF WriteOnlyFields, InfoFields
    <3>2. QED
      BY <1>1, <2>4, <3>1 DEF UpdateFromSwarmInfo
  <2>5. QED
    BY <2>2, <2>3, <2>4
<1>2. QED
  BY <1>1 DEF CompareToActive

\* Every step but the start of an invocation keeps the previous invocation's
\* record and the parameters, and a change by another client is never undone.
LEMMA SettledKept ==
    ASSUME [Next]_vars, ~\E a \in Actions, c \in BOOLEAN : Start(a, c)
    PROVE  /\ UNCHANGED <<prev, params, action, check>>
           /\ extPrev' = extPrev \/ extPrev' = TRUE
<1>1. CASE ExternalUpdate
  BY <1>1 DEF ExternalUpdate, run
<1>2. CASE ~ExternalUpdate
  BY <1>2 DEF Next, vars, run, history, PresentProbe, UpdateInspect, UpdateSubmit,
     UpdateReinspect, InitSubmit, InitVerify, InitInspect, Join, Leave,
     RemoveProbe, RemovePoll, RemoveSubmit, TargetChange
<1>3. QED
  BY <1>1, <1>2

LEMMA IdemInvStep ==
    ASSUME IInv, IdemInv, ConvInv, KeyInv, PathInv, [Next]_vars PROVE IdemInv'
<1> SUFFICES ASSUME Settled', action' = "present", ~check' PROVE IdemGoal'
  BY DEF IdemInv, IdemGoal
<1>1. CASE \E a \in Actions, c \in BOOLEAN : Start(a, c)
  <2>1. PICK a \in Actions, c \in BOOLEAN : Start(a, c)
    BY <1>1
  <2>2. /\ prev' = [action |-> action, check |-> check, outcome |-> outcome]
        /\ extPrev' = extCur /\ pc = "done"
        /\ UNCHANGED <<local, cluster, params>>
    BY <2>1 DEF Start, engine
  <2>3. action = "present" /\ ~check /\ outcome = "ok" /\ ~extCur
    BY <2>2 DEF Settled, PreviousPresentSettled
  <2>4. ConvergedGoal'
    BY <2>2, <2>3 DEF ConvInv, ConvGuard, ConvergedGoal
  <2>5. pc' = "start" \/ (pc' = "done" /\ outcome' = "failed")
    BY <2>1 DEF Start, Fail
  <2>6. QED
    BY <2>4, <2>5 DEF IdemGoal
<1>2. CASE ~\E a \in Actions, c \in BOOLEAN : Start(a, c)
  <2>1. /\ UNCHANGED <<prev, params, action, check>>
        /\ extPrev' = extPrev \/ extPrev' = TRUE
    BY <1>2, SettledKept
  <2>2. Settled /\ action = "present" /\ ~check /\ ~extPrev'
    BY <2>1 DEF Settled, PreviousPresentSettled
  <2>3. IdemGoal
    BY <2>2 DEF IdemInv, IdemGoal
  <2>4. CASE PresentProbe
    BY <2>3, <2>4 DEF PresentProbe, IdemGoal, ConvergedGoal, engine
  <2>5. CASE UpdateInspect
    <3>1. PICK failed, keyFailed \in BOOLEAN :
            LET snap == Inspected(failed, keyFailed)
                wanted == UpdateFromSwarmInfo(desired, snap.spec)
                found == CompareToActive(wanted, OldParameters(snap.spec), params.rotate)
            IN IF snap = None
               THEN /\ outcome' = "crashed"
                    /\ pc' = "done"
               ELSE /\ changed' = FALSE
                    /\ IF found = {} THEN Exit
                       ELSE pc' = IF check THEN "update_reinspect" ELSE "update_submit"
      BY <2>5 DEF UpdateInspect
    <3>2. /\ pc = "update_inspect" /\ info = None /\ desired = params.spec
          /\ ConvergedGoal
      BY <2>3, <2>5 DEF UpdateInspect, KeyInv, ConvInv, IdemGoal
    <3>3. CASE Inspected(failed, keyFailed) = None
      BY <3>1, <3>3 DEF IdemGoal
    <3>4. CASE Inspected(failed, keyFailed) # None
      <4>1. Inspected(failed, keyFailed).spec = cluster
        BY <3>2, <3>4 DEF Inspected
      <4>2. params.rotate = {} /\ \A f \in WriteOnlyFields : params.spec[f] = None
        BY <2>2 DEF Settled, PreviousPresentSettled
      <4>3. CompareToActive(UpdateFromSwarmInfo(desired, cluster),
                            OldParameters(cluster), params.rotate) = {}
        BY <3>2, <4>2, NothingDiffers, NoLogDriverOption DEF ConvergedGoal
      <4>4. pc' = "done" /\ outcome' = "ok" /\ changed' = FALSE
        BY <3>1, <3>4, <4>1, <4>3 DEF Exit
      <4>5. QED
        BY <4>4 DEF IdemGoal
    <3>5. QED
      BY <3>3, <3>4
  <2>6. CASE UpdateSubmit \/ UpdateReinspect \/ InitVerify \/ InitInspect
    BY <2>3, <2>6 DEF UpdateSubmit, UpdateReinspect, InitVerify, InitInspect, IdemGoal
  <2>7. CASE InitSubmit
    <3>1. pc = "init" /\ local = "manager" /\ ~params.force
      BY <2>2, <2>3, <2>7 DEF InitSubmit, IdemGoal, ConvergedGoal, Settled,
         PreviousPresentSettled
    <3>2. ~InitAllowed
      BY <3>1 DEF InitAllowed
    <3>3. pc' = "done" /\ outcome' = "failed"
      BY <2>2, <2>7, <3>2 DEF InitSubmit, Fail
    <3>4. QED
      BY <3>3 DEF IdemGoal
  <2>8. CASE Join \/ Leave \/ RemoveProbe \/ RemovePoll \/ RemoveSubmit
    BY <2>2, <2>8 DEF Join, Leave, RemoveProbe, RemovePoll, RemoveSubmit, PathInv
  <2>9. CASE ExternalUpdate
    BY <2>2, <2>9 DEF ExternalUpdate
  <2>10. CASE TargetChange \/ UNCHANGED vars
    BY <2>3, <2>10 DEF TargetChange, vars, engine, run, history, IdemGoal,
       ConvergedGoal
  <2>11. QED
    BY <1>2, <2>4, <2>5, <2>6, <2>7, <2>8, <2>9, <2>10 DEF Next
<1>3. QED
  BY <1>1, <1>2

(***************************************************************************)
(* state=present is idempotent (the property Idempotent of the run         *)
(* present_converges): a present invocation outside check mode that       *)
(* follows a successful one, with no other client acting since that one   *)
(* started, and with no force, rotate flag or write-only field in the      *)
(* playbook, exits with results['changed'] False.                          *)
(***************************************************************************)
THEOREM IdempotentHolds == Spec => []Idempotent
<1> DEFINE Inv == IInv /\ KeyInv /\ PathInv /\ ConvInv /\ IdemInv
<1>1. Init => Inv
  BY InitIInv, PathInvInit DEF Init, KeyInv, ConvInv, ConvGuard, IdemInv, Settled,
     PreviousPresentSettled, FromAnsibleParams
<1>2. Inv /\ [Next]_vars => Inv'
  BY IInvStep, KeyInvStep, PathInvStep, ConvInvStep, IdemInvStep
<1>3. Inv => Idempotent
  BY DEF IdemInv, IdemGoal, Settled, Idempotent
<1>4. QED
  BY <1>1, <1>2, <1>3, PTL DEF Spec
=============================================================================
