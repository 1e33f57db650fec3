----------------------------- MODULE DockerSwarm -----------------------------
(***************************************************************************)
(* The docker_swarm module (class SwarmManager) run again and again        *)
(* against one docker engine, with other clients of the swarm acting in    *)
(* between its remote calls.                                               *)
(*                                                                         *)
(* One invocation is a sequence of steps, one per remote call of the code  *)
(* (check_if_swarm_manager, inspect_swarm, update_swarm, init_swarm, ...), *)
(* so that external actions interleave exactly where the engine can        *)
(* change under the module.  Every remote call may raise APIError, and     *)
(* the step takes the path the code takes for it.                          *)
(***************************************************************************)
EXTENDS SwarmParams, Naturals

CONSTANTS
    ParamChoices,    \* the module parameters a playbook may pass
    Actions,         \* the values of 'state' the playbook's tasks use
    DefaultSpec,     \* the spec of a freshly initialised swarm
    MaxVersion,      \* bound on the swarm's Version.Index
    RemoveSupported  \* the Docker SDK supports remove_operation (>= 2.4.0)

(***************************************************************************)
(* argument_spec: the options of the module with their values abstracted: *)
(* the swarm spec options, force, the two rotate_*_token flags, and the   *)
(* role the join_token grants.  Addresses and tokens are not modelled.    *)
(* log_driver is not an option, so the spec never sets it.                 *)
(***************************************************************************)
ParamDomain ==
    [spec: PlaybookSpecs, force: BOOLEAN, rotate: SUBSET RotateKinds,
     joinRole: {"worker", "manager"}]

\* The unlock key the engine hands out while autolock is on.
Key == "SWMKEY"

ASSUME DockerSwarmAssumption ==
    /\ MaxVersion \in Nat
    /\ Actions \subseteq {"present", "join", "absent", "remove"}
    /\ DefaultSpec \in Specs
    /\ DefaultSpec[Autolock] # LockedVal   \* a new swarm starts unlocked
    /\ ParamChoices \subseteq ParamDomain
    /\ RemoveSupported \in BOOLEAN
    /\ Key # None         \* get_unlock_key's "no key" is None, a key is a string

\* check_if_swarm_node_is_down(node_id, repeat_check=5)
RepeatCheck == 5

States == {"present", "join", "absent", "remove"}
NodeRoles == {"inactive", "worker", "manager"}
TargetStates == {"ready", "down", "absent"}
PCs == {"start", "update_inspect", "update_submit", "update_reinspect",
        "init", "init_verify", "init_inspect", "remove_poll", "remove_submit",
        "done"}
Outcomes == {"running", "ok", "failed", "crashed", "none"}

\* self.swarm_info after a successful inspect_swarm: the spec, the version
\* index and the UnlockKey entry; None stands for the initial {}.
Infos == [spec: Specs, version: 0..MaxVersion, unlockKey: {Key, None}]

VARIABLES
    \* the engine
    local,      \* role of the node the module talks to
    cluster,    \* the swarm's spec
    version,    \* the swarm's Version.Index
    target,     \* state of the node named by node_id
    \* one invocation of SwarmManager
    params,     \* module.params (fixed for the whole playbook)
    action,     \* params['state'] of this invocation
    check,      \* check_mode
    pc,         \* the remote call the invocation is at
    info,       \* self.swarm_info
    desired,    \* the spec fields of self.parameters
    diff,       \* names recorded in self.differences
    created,    \* self.created
    polls,      \* status checks done by check_if_swarm_node_is_down
    sawDown,    \* status_down
    changed,    \* results['changed']
    outcome,    \* how the invocation ended: exit_json, fail_json or a traceback
    \* history, for the properties
    mutated,    \* a mutating call of this invocation succeeded
    prev,       \* action, check mode and outcome of the previous invocation
    extCur,     \* another client changed the swarm during this invocation
    extPrev,    \* ... since the previous invocation started
    extSinceInspect, \* ... since this invocation's last successful inspect
    lockedAtStart,  \* the node managed a locked swarm when this invocation started
    keyLost         \* get_unlock_key failed at this invocation's last inspect

engine == <<local, cluster, version, target>>
run == <<action, check, pc, info, desired, diff, created, polls, sawDown,
         changed, outcome>>
history == <<mutated, prev, extCur, extPrev, extSinceInspect, lockedAtStart,
            keyLost>>
vars == <<engine, params, run, history>>

TypeOK ==
    /\ local \in NodeRoles
    /\ cluster \in Specs
    /\ version \in 0..MaxVersion
    /\ target \in TargetStates
    /\ params \in ParamChoices
    /\ action \in States
    /\ check \in BOOLEAN
    /\ pc \in PCs
    /\ info \in Infos \cup {None}
    /\ desired \in Specs
    /\ diff \subseteq DiffNames
    /\ created \in BOOLEAN
    /\ polls \in 0..RepeatCheck
    /\ sawDown \in BOOLEAN
    /\ changed \in BOOLEAN
    /\ outcome \in Outcomes
    /\ mutated \in BOOLEAN
    /\ prev \in [action: States, check: BOOLEAN, outcome: Outcomes]
    /\ extCur \in BOOLEAN
    /\ extPrev \in BOOLEAN
    /\ extSinceInspect \in BOOLEAN
    /\ lockedAtStart \in BOOLEAN
    /\ keyLost \in BOOLEAN

-----------------------------------------------------------------------------
(* The engine's answers.                                                   *)

\* Version.Index after a change; the module never compares a version it
\* read with one it caused, so saturating at the bound loses no conflict.
Bumped == IF version < MaxVersion THEN version + 1 ELSE version

\* get_unlock_key() as the engine answers it.
EngineUnlockKey == IF cluster[Autolock] = LockedVal THEN Key ELSE None

\* init_swarm is refused on a node already in a swarm unless
\* force_new_cluster is set and the node is a manager.
InitAllowed == local = "inactive" \/ (params.force /\ local = "manager")

-----------------------------------------------------------------------------
(* Helpers of SwarmManager.                                                *)

\* TaskParameters.from_ansible_params: the spec options of module.params.
FromAnsibleParams == params.spec

(***************************************************************************)
(* option_minimal_versions: the client fails the module when an option the *)
(* Docker SDK or API does not support is given, and when state=remove is   *)
(* used with an SDK without remove_operation.                              *)
(***************************************************************************)
UsageRefused(a) ==
    \/ \E f \in Fields \ Supported : params.spec[f] # None
    \/ a = "remove" /\ ~RemoveSupported

(***************************************************************************)
(* inspect_swarm(): on success swarm_info is the engine's answer plus the  *)
(* UnlockKey from get_unlock_key() (None unless has_swarm_lock_changed(),  *)
(* None again when that call fails), and results['changed'] is reset to   *)
(* False; on APIError (the engine only answers managers) nothing changes.  *)
(***************************************************************************)
InspectOK(failed) == ~failed /\ local = "manager"

Inspected(failed, keyFailed) ==
    IF InspectOK(failed)
    THEN [spec |-> cluster, version |-> version,
          unlockKey |-> IF HasSwarmLockChanged(desired, created, diff) /\ ~keyFailed
                        THEN EngineUnlockKey ELSE None]
    ELSE info

\* Whether the get_unlock_key() call of the last successful inspect failed.
KeyLostAfter(failed, keyFailed) == IF InspectOK(failed) THEN keyFailed ELSE keyLost

\* Faulty variant: the version read again just before update_swarm.
SubmitVersionReread == version

\* The version __update_swarm passes to update_swarm.
SubmitVersion == info.version

\* self.client.fail(...): fail_json ends the invocation.
Fail == /\ outcome' = "failed"
        /\ pc' = "done"

\* exit_json(**results)
Exit == /\ outcome' = "ok"
        /\ pc' = "done"

-----------------------------------------------------------------------------
(* Starting an invocation.                                                 *)

(***************************************************************************)
(* SwarmManager(client, results)(): the client refuses an option the       *)
(* engine does not support; otherwise TaskParameters.from_ansible_params  *)
(* builds the parameters and choice_map picks the handler.                 *)
(***************************************************************************)
Start(a, c) ==
    /\ pc = "done"
    /\ action' = a
    /\ check' = c
    /\ info' = None
    /\ desired' = FromAnsibleParams
    /\ diff' = {}
    /\ created' = FALSE
    /\ polls' = 0
    /\ sawDown' = FALSE
    /\ changed' = FALSE
    /\ IF UsageRefused(a)
       THEN Fail
       ELSE /\ outcome' = "running"
            /\ pc' = "start"
    /\ mutated' = FALSE
    /\ prev' = [action |-> action, check |-> check, outcome |-> outcome]
    /\ extPrev' = extCur
    /\ extCur' = FALSE
    /\ extSinceInspect' = FALSE
    /\ lockedAtStart' = (local = "manager" /\ cluster[Autolock] = LockedVal)
    /\ keyLost' = FALSE
    /\ UNCHANGED <<engine, params>>

-----------------------------------------------------------------------------
(* state=present: init_swarm and __update_swarm.                           *)

\* if not self.force and self.client.check_if_swarm_manager(): update
PresentProbe ==
    /\ pc = "start" /\ action = "present"
    /\ \E failed \in BOOLEAN :
          pc' = IF ~params.force /\ InspectOK(failed) THEN "update_inspect"
                                                      ELSE "init"
    /\ UNCHANGED <<engine, params, action, check, info, desired, diff, created,
                   polls, sawDown, changed, outcome, history>>

(***************************************************************************)
(* __update_swarm, up to update_swarm: inspect, read the version (a        *)
(* KeyError if the inspect failed and swarm_info is still {}), backfill    *)
(* self.parameters, compare with the active parameters, and stop with "No  *)
(* modification" when nothing differs.                                     *)
(***************************************************************************)
UpdateInspect ==
    /\ pc = "update_inspect"
    /\ \E failed, keyFailed \in BOOLEAN :
         LET snap == Inspected(failed, keyFailed)
             wanted == UpdateFromSwarmInfo(desired, snap.spec)
             found == CompareToActive(wanted, OldParameters(snap.spec), params.rotate)
         IN IF snap = None
            THEN /\ outcome' = "crashed"
                 /\ pc' = "done"
                 /\ UNCHANGED <<info, desired, diff, changed, extSinceInspect,
                                 keyLost>>
            ELSE /\ info' = snap
                 /\ desired' = wanted
                 /\ diff' = found
                 /\ changed' = FALSE
                 /\ extSinceInspect' = FALSE
                 /\ keyLost' = keyFailed
                 /\ IF found = {} THEN Exit
                    ELSE /\ pc' = IF check THEN "update_reinspect" ELSE "update_submit"
                         /\ UNCHANGED outcome
    /\ UNCHANGED <<engine, params, action, check, created, polls, sawDown,
                   mutated, prev, extCur, extPrev, lockedAtStart>>

(***************************************************************************)
(* update_swarm(version, spec of a fresh TaskParameters, rotate flags):    *)
(* the engine rejects a stale version; APIError is fatal.                  *)
(***************************************************************************)
UpdateSubmit ==
    /\ pc = "update_submit"
    /\ \E failed \in BOOLEAN :
         IF failed \/ local # "manager" \/ SubmitVersion # version
         THEN /\ Fail
              /\ UNCHANGED <<cluster, version, mutated>>
         ELSE /\ cluster' = MergeSpec(cluster, UpdateParameters(FromAnsibleParams))
              /\ version' = Bumped
              /\ mutated' = TRUE
              /\ pc' = "update_reinspect"
              /\ UNCHANGED outcome
    /\ UNCHANGED <<local, target, params, action, check, info, desired, diff,
                   created, polls, sawDown, changed, prev, extCur, extPrev,
                   extSinceInspect, lockedAtStart, keyLost>>

\* Faulty variant: changed = True set before inspect_swarm resets it.
UpdateReinspectChangedFirst ==
    /\ pc = "update_reinspect"
    /\ \E failed, keyFailed \in BOOLEAN :
         /\ info' = Inspected(failed, keyFailed)
         /\ extSinceInspect' = IF InspectOK(failed) THEN FALSE ELSE extSinceInspect
         /\ keyLost' = KeyLostAfter(failed, keyFailed)
         /\ changed' = ~InspectOK(failed)
    /\ Exit
    /\ UNCHANGED <<engine, params, action, check, desired, diff, created, polls,
                   sawDown, mutated, prev, extCur, extPrev,
                   lockedAtStart>>

\* self.inspect_swarm(); "Swarm cluster updated"; changed = True
UpdateReinspect ==
    /\ pc = "update_reinspect"
    /\ \E failed, keyFailed \in BOOLEAN :
         /\ info' = Inspected(failed, keyFailed)
         /\ extSinceInspect' = IF InspectOK(failed) THEN FALSE ELSE extSinceInspect
         /\ keyLost' = KeyLostAfter(failed, keyFailed)
    /\ changed' = TRUE
    /\ Exit
    /\ UNCHANGED <<engine, params, action, check, desired, diff, created, polls,
                   sawDown, mutated, prev, extCur, extPrev,
                   lockedAtStart>>

\* Faulty variant: init_swarm called in check mode too.
InitSubmitInCheckMode ==
    /\ pc = "init"
    /\ \E failed \in BOOLEAN :
         IF failed \/ ~InitAllowed
         THEN /\ Fail
              /\ UNCHANGED <<engine, mutated>>
         ELSE /\ local' = "manager"
              /\ cluster' = MergeSpec(IF local = "inactive" THEN DefaultSpec ELSE cluster,
                                      UpdateParameters(FromAnsibleParams))
              /\ version' = Bumped
              /\ target' = IF local = "inactive" THEN "absent" ELSE target
              /\ mutated' = TRUE
              /\ pc' = "init_verify"
              /\ UNCHANGED outcome
    /\ UNCHANGED <<params, action, check, info, desired, diff, created, polls,
                   sawDown, changed, prev, extCur, extPrev, extSinceInspect,
                   lockedAtStart, keyLost>>

(***************************************************************************)
(* init_swarm(advertise_addr, listen_addr, force_new_cluster, swarm_spec):  *)
(* skipped in check mode; APIError is fatal.  A new swarm starts from the  *)
(* default spec, force_new_cluster keeps the stored one; the submitted     *)
(* spec is merged in.                                                      *)
(***************************************************************************)
InitSubmit ==
    /\ pc = "init"
    /\ \/ /\ check
          /\ pc' = "init_verify"
          /\ UNCHANGED <<engine, outcome, mutated>>
       \/ /\ ~check
          /\ \E failed \in BOOLEAN :
               IF failed \/ ~InitAllowed
               THEN /\ Fail
                    /\ UNCHANGED <<engine, mutated>>
               ELSE /\ local' = "manager"
                    /\ cluster' = MergeSpec(IF local = "inactive" THEN DefaultSpec
                                                                  ELSE cluster,
                                            UpdateParameters(FromAnsibleParams))
                    /\ version' = Bumped
                    /\ target' = IF local = "inactive" THEN "absent" ELSE target
                    /\ mutated' = TRUE
                    /\ pc' = "init_verify"
                    /\ UNCHANGED outcome
    /\ UNCHANGED <<params, action, check, info, desired, diff, created, polls,
                   sawDown, changed, prev, extCur, extPrev, extSinceInspect,
                   lockedAtStart, keyLost>>

\* if not check_if_swarm_manager(): fail unless check mode; created = True
InitVerify ==
    /\ pc = "init_verify"
    /\ \E failed \in BOOLEAN :
         IF ~InspectOK(failed) /\ ~check
         THEN /\ Fail
              /\ UNCHANGED created
         ELSE /\ created' = TRUE
              /\ pc' = "init_inspect"
              /\ UNCHANGED outcome
    /\ UNCHANGED <<engine, params, action, check, info, desired, diff, polls,
                   sawDown, changed, history>>

\* self.inspect_swarm(); "New Swarm cluster created"; state absent->present
InitInspect ==
    /\ pc = "init_inspect"
    /\ \E failed, keyFailed \in BOOLEAN :
         /\ info' = Inspected(failed, keyFailed)
         /\ extSinceInspect' = IF InspectOK(failed) THEN FALSE ELSE extSinceInspect
         /\ keyLost' = KeyLostAfter(failed, keyFailed)
    /\ diff' = diff \cup {"state"}
    /\ changed' = TRUE
    /\ Exit
    /\ UNCHANGED <<engine, params, action, check, desired, created, polls,
                   sawDown, mutated, prev, extCur, extPrev,
                   lockedAtStart>>

-----------------------------------------------------------------------------
(* state=join and state=absent.                                            *)

(***************************************************************************)
(* join(): nothing to do on a node already in a swarm; otherwise           *)
(* join_swarm (skipped in check mode, APIError fatal) and "joined".        *)
(* check_if_swarm_node fails the module when docker info fails.            *)
(***************************************************************************)
Join ==
    /\ pc = "start" /\ action = "join"
    /\ \/ /\ Fail
          /\ UNCHANGED <<local, changed, diff, mutated>>
       \/ /\ local # "inactive"
          /\ Exit
          /\ UNCHANGED <<local, changed, diff, mutated>>
       \/ /\ local = "inactive"
          /\ \/ /\ check
                /\ UNCHANGED <<local, mutated>>
             \/ /\ ~check
                /\ local' = params.joinRole
                /\ mutated' = TRUE
          /\ diff' = diff \cup {"joined"}
          /\ changed' = TRUE
          /\ Exit
       \/ /\ local = "inactive" /\ ~check
          /\ Fail                                  \* join_swarm raised APIError
          /\ UNCHANGED <<local, changed, diff, mutated>>
    /\ UNCHANGED <<cluster, version, target, params, action, check, info,
                   desired, created, polls, sawDown, prev, extCur, extPrev,
                   extSinceInspect, lockedAtStart, keyLost>>

\* Faulty variant: an APIError of leave_swarm swallowed.
LeaveSwallowError ==
    /\ pc = "start" /\ action = "absent"
    /\ \/ /\ Fail
          /\ UNCHANGED <<local, changed, diff, mutated>>
       \/ /\ local = "inactive"
          /\ Exit
          /\ UNCHANGED <<local, changed, diff, mutated>>
       \/ /\ local # "inactive"
          /\ \/ /\ check
                /\ UNCHANGED <<local, mutated>>
             \/ /\ ~check
                /\ local = "worker" \/ params.force
                /\ local' = "inactive"
                /\ mutated' = TRUE
             \/ /\ ~check
                /\ UNCHANGED <<local, mutated>>
          /\ diff' = diff \cup {"joined"}
          /\ changed' = TRUE
          /\ Exit
    /\ UNCHANGED <<cluster, version, target, params, action, check, info,
                   desired, created, polls, sawDown, prev, extCur, extPrev,
                   extSinceInspect, lockedAtStart, keyLost>>

(***************************************************************************)
(* leave(): nothing to do on a node outside a swarm; otherwise leave_swarm *)
(* (force) (skipped in check mode, APIError fatal).  The engine refuses a  *)
(* manager that leaves without force.                                      *)
(***************************************************************************)
Leave ==
    /\ pc = "start" /\ action = "absent"
    /\ \/ /\ Fail
          /\ UNCHANGED <<local, changed, diff, mutated>>
       \/ /\ local = "inactive"
          /\ Exit
          /\ UNCHANGED <<local, changed, diff, mutated>>
       \/ /\ local # "inactive"
          /\ \/ /\ check
                /\ UNCHANGED <<local, mutated>>
             \/ /\ ~check
                /\ local = "worker" \/ params.force
                /\ local' = "inactive"
                /\ mutated' = TRUE
          /\ diff' = diff \cup {"joined"}
          /\ changed' = TRUE
          /\ Exit
       \/ /\ local # "inactive" /\ ~check
          /\ Fail                                  \* leave_swarm raised APIError
          /\ UNCHANGED <<local, changed, diff, mutated>>
    /\ UNCHANGED <<cluster, version, target, params, action, check, info,
                   desired, created, polls, sawDown, prev, extCur, extPrev,
                   extSinceInspect, lockedAtStart, keyLost>>

-----------------------------------------------------------------------------
(* state=remove.                                                           *)

\* if not self.client.check_if_swarm_manager(): fail("This node is not a manager.")
RemoveProbe ==
    /\ pc = "start" /\ action = "remove"
    /\ \E failed \in BOOLEAN :
         IF InspectOK(failed) THEN /\ pc' = "remove_poll"
                                   /\ UNCHANGED outcome
                              ELSE Fail
    /\ UNCHANGED <<engine, params, action, check, info, desired, diff, created,
                   polls, sawDown, changed, history>>

\* Faulty variant: one status check more than repeat_check.
RemovePollOffByOne ==
    /\ pc = "remove_poll"
    /\ \E failed \in BOOLEAN :
         IF failed \/ local # "manager" \/ target = "absent"
         THEN /\ Exit
              /\ UNCHANGED <<polls, sawDown>>
         ELSE IF target = "down"
         THEN /\ sawDown' = TRUE
              /\ pc' = "remove_submit"
              /\ UNCHANGED <<polls, outcome>>
         ELSE IF polls = RepeatCheck
         THEN /\ polls' = polls + 1
              /\ Fail
              /\ UNCHANGED sawDown
         ELSE /\ polls' = polls + 1
              /\ UNCHANGED <<pc, outcome, sawDown>>
    /\ UNCHANGED <<engine, params, action, check, info, desired, diff, created,
                   changed, history>>

\* Faulty variant: the poll never gives up; the count of checks wraps
\* around instead of ending the loop.
RemovePollUnbounded ==
    /\ pc = "remove_poll"
    /\ \E failed \in BOOLEAN :
         IF failed \/ local # "manager" \/ target = "absent"
         THEN /\ Exit
              /\ UNCHANGED <<polls, sawDown>>
         ELSE IF target = "down"
         THEN /\ sawDown' = TRUE
              /\ pc' = "remove_submit"
              /\ UNCHANGED <<polls, outcome>>
         ELSE /\ polls' = (polls + 1) % RepeatCheck
              /\ UNCHANGED <<pc, outcome, sawDown>>
    /\ UNCHANGED <<engine, params, action, check, info, desired, diff, created,
                   changed, history>>

(***************************************************************************)
(* One status check of check_if_swarm_node_is_down(node_id,                *)
(* repeat_check=5).  An APIError makes remove() return quietly; a node     *)
(* seen down ends the loop; five checks without it end in fail("Can not    *)
(* remove the node. The status node is ready and not down.").             *)
(***************************************************************************)
RemovePoll ==
    /\ pc = "remove_poll"
    /\ \E failed \in BOOLEAN :
         IF failed \/ local # "manager" \/ target = "absent"
         THEN /\ Exit
              /\ UNCHANGED <<polls, sawDown>>
         ELSE IF target = "down"
         THEN /\ sawDown' = TRUE
              /\ pc' = "remove_submit"
              /\ UNCHANGED <<polls, outcome>>
         ELSE IF polls + 1 = RepeatCheck
         THEN /\ polls' = polls + 1
              /\ Fail
              /\ UNCHANGED sawDown
         ELSE /\ polls' = polls + 1
              /\ UNCHANGED <<pc, outcome, sawDown>>
    /\ UNCHANGED <<engine, params, action, check, info, desired, diff, created,
                   changed, history>>

(***************************************************************************)
(* remove_node(node_id, force) (skipped in check mode, APIError fatal).    *)
(* The engine refuses a node that is not down unless force is set.  An SDK *)
(* older than 2.4.0 has no remove_node: the AttributeError is not caught.  *)
(***************************************************************************)
RemoveSubmit ==
    /\ pc = "remove_submit"
    /\ \/ /\ check
          /\ UNCHANGED <<target, mutated>>
          /\ diff' = diff \cup {"joined"}
          /\ changed' = TRUE
          /\ Exit
       \/ /\ ~check
          /\ \E failed \in BOOLEAN :
               IF ~RemoveSupported
               THEN /\ outcome' = "crashed"
                    /\ pc' = "done"
                    /\ UNCHANGED <<target, mutated, diff, changed>>
               ELSE IF failed \/ target = "absent" \/ (target = "ready" /\ ~params.force)
               THEN /\ Fail
                    /\ UNCHANGED <<target, mutated, diff, changed>>
               ELSE /\ target' = "absent"
                    /\ mutated' = TRUE
                    /\ diff' = diff \cup {"joined"}
                    /\ changed' = TRUE
                    /\ Exit
    /\ UNCHANGED <<local, cluster, version, params, action, check, info, desired,
                   created, polls, sawDown, prev, extCur, extPrev, extSinceInspect,
                   lockedAtStart, keyLost>>

-----------------------------------------------------------------------------
(* Other clients of the swarm.                                             *)

\* Another manager sets one field of the swarm spec that inspect reports.
ExternalUpdate ==
    /\ version < MaxVersion
    /\ \E f \in InfoFields, v \in Val :
         cluster' = [cluster EXCEPT ![f] = v]
    /\ version' = version + 1
    /\ extCur' = TRUE
    /\ extPrev' = TRUE
    /\ extSinceInspect' = TRUE
    /\ UNCHANGED <<local, target, params, run, mutated, prev, lockedAtStart,
                   keyLost>>

\* The node named by node_id goes down, comes back, or (re)joins the swarm.
TargetChange ==
    /\ \/ target = "ready" /\ target' = "down"
       \/ target = "down" /\ target' = "ready"
       \/ target = "absent" /\ target' = "ready"
    /\ UNCHANGED <<local, cluster, version, params, run, history>>

-----------------------------------------------------------------------------
Init ==
    /\ local \in NodeRoles
    /\ cluster = DefaultSpec
    /\ version = 0
    /\ target = "ready"
    /\ params \in ParamChoices
    /\ action = "present"
    /\ check = FALSE
    /\ pc = "done"
    /\ info = None
    /\ desired = FromAnsibleParams
    /\ diff = {}
    /\ created = FALSE
    /\ polls = 0
    /\ sawDown = FALSE
    /\ changed = FALSE
    /\ outcome = "none"
    /\ mutated = FALSE
    /\ prev = [action |-> "present", check |-> FALSE, outcome |-> "none"]
    /\ extCur = FALSE
    /\ extPrev = FALSE
    /\ extSinceInspect = FALSE
    /\ lockedAtStart = FALSE
    /\ keyLost = FALSE

Next ==
    \/ \E a \in Actions, c \in BOOLEAN : Start(a, c)
    \/ PresentProbe \/ UpdateInspect \/ UpdateSubmit \/ UpdateReinspect
    \/ InitSubmit \/ InitVerify \/ InitInspect
    \/ Join \/ Leave
    \/ RemoveProbe \/ RemovePoll \/ RemoveSubmit
    \/ ExternalUpdate \/ TargetChange

Spec == Init /\ [][Next]_vars

\* The module's own steps: everything but a new task and the other clients.
ModuleStep ==
    \/ PresentProbe \/ UpdateInspect \/ UpdateSubmit \/ UpdateReinspect
    \/ InitSubmit \/ InitVerify \/ InitInspect
    \/ Join \/ Leave
    \/ RemoveProbe \/ RemovePoll \/ RemoveSubmit

(***************************************************************************)
(* The module is a sequential program whose remote calls return (with an   *)
(* answer or an APIError: the client has a timeout), so once it runs it    *)
(* keeps taking steps: weak fairness of its own steps.  Nothing obliges    *)
(* the playbook to start another task or the other clients to act.        *)
(***************************************************************************)
LiveSpec == Spec /\ WF_vars(ModuleStep)

\* The task-level view of an invocation: SwarmTask's variables as functions
\* of this module's.
Task == INSTANCE SwarmTask
            WITH request <- params,
                 task <- IF pc = "done" THEN "idle" ELSE action,
                 dry <- check,
                 applied <- pc # "done" /\ mutated
-----------------------------------------------------------------------------
(* Properties.                                                             *)

(***************************************************************************)
(* Convergence of state=present (init_swarm / __update_swarm): once an     *)
(* invocation outside check mode has exited successfully, and no other     *)
(* client has changed the swarm since it started, the node is a manager    *)
(* and the swarm holds every supported field the playbook set.            *)
(***************************************************************************)
Converged ==
    (pc = "done" /\ action = "present" /\ outcome = "ok" /\ ~check /\ ~extCur)
        => /\ local = "manager"
           /\ \A f \in Supported :
                 params.spec[f] # None => cluster[f] = params.spec[f]

(***************************************************************************)
(* Idempotence of state=present: a present invocation that follows a       *)
(* successful present invocation outside check mode, with no other client  *)
(* changing the swarm in between, reports changed=False -- for playbooks   *)
(* without force, rotate flags or write-only fields (signing_ca_cert/key), which  *)
(* the code re-applies on every run by design or by construction.         *)
(***************************************************************************)
PreviousPresentSettled ==
    /\ prev.action = "present" /\ prev.outcome = "ok" /\ ~prev.check
    /\ ~extPrev
    /\ ~params.force
    /\ params.rotate = {}

Idempotent ==
    (/\ pc = "done" /\ action = "present" /\ outcome = "ok" /\ ~check
     /\ PreviousPresentSettled
     /\ \A f \in WriteOnlyFields : params.spec[f] = None)
        => ~changed

\* Idempotence as spec section 8 states it, write-only fields included.
IdempotentWriteOnly ==
    (pc = "done" /\ action = "present" /\ outcome = "ok" /\ ~check
     /\ PreviousPresentSettled)
        => ~changed

(***************************************************************************)
(* Idempotence of a check-mode rerun: after a successful present           *)
(* invocation, a check-mode present invocation with the same playbook      *)
(* predicts no change.                                                     *)
(***************************************************************************)
IdempotentCheckMode ==
    (/\ pc = "done" /\ action = "present" /\ outcome = "ok" /\ check
     /\ PreviousPresentSettled
     /\ \A f \in WriteOnlyFields : params.spec[f] = None)
        => ~changed

(***************************************************************************)
(* results['changed'] tells the truth: an invocation outside check mode    *)
(* that exits successfully reports a change exactly when one of its        *)
(* mutating calls (init, update, join, leave, remove_node) went through.   *)
(* inspect_swarm resets changed, so the order of the two matters.          *)
(***************************************************************************)
ReportedChangeIsReal ==
    (pc = "done" /\ outcome = "ok" /\ ~check) => (changed <=> mutated)

(***************************************************************************)
(* Optimistic concurrency of __update_swarm: an update goes through only   *)
(* if no other client changed the swarm since the inspect the differences  *)
(* were computed from.                                                     *)
(***************************************************************************)
UpdateOnObservedVersion ==
    [][(pc = "update_submit" /\ mutated') => ~extSinceInspect]_vars

(***************************************************************************)
(* The unlock key is handed back when autolock is turned on: a successful  *)
(* present invocation that leaves a swarm locked which was not locked when *)
(* it started (no other client acting meanwhile) reports that swarm's      *)
(* UnlockKey -- the only moment the user can learn it -- unless the        *)
(* get_unlock_key call itself failed.  has_swarm_lock_changed decides      *)
(* whether inspect_swarm asks for the key at all.                          *)
(***************************************************************************)
KeyReported ==
    (/\ pc = "done" /\ action = "present" /\ outcome = "ok" /\ ~extCur
     /\ info # None /\ info.spec[Autolock] = LockedVal
     /\ ~lockedAtStart /\ ~keyLost)
        => info.unlockKey = Key

(***************************************************************************)
(* Refinement: every step of the module and of the other clients is a step *)
(* of SwarmTask (or leaves its variables alone).  Each invocation changes  *)
(* the swarm at most once, never in check mode, only as its state asks and *)
(* with the playbook's supported fields -- whatever the remote calls in    *)
(* between return.                                                         *)
(***************************************************************************)
TaskRefinement == Task!Spec

(***************************************************************************)
(* Every invocation ends: whatever the other clients and the node do, the  *)
(* status poll of remove() runs out after repeat_check checks and no other *)
(* handler loops, so each started task reaches exit_json or fail_json.     *)
(***************************************************************************)
Termination == (pc # "done") ~> (pc = "done")

(***************************************************************************)
(* Every failure is a message-bearing fail_json, never an unhandled        *)
(* exception (spec section 6): neither the KeyError of __update_swarm nor  *)
(* the AttributeError of a remove_node the SDK does not have.              *)
(***************************************************************************)
NoUnhandledException == outcome # "crashed"
=============================================================================
