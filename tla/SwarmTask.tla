------------------------------ MODULE SwarmTask ------------------------------
(***************************************************************************)
(* What one Ansible task running docker_swarm promises to do to the swarm, *)
(* with the remote calls, the failures and the reporting abstracted away.  *)
(*                                                                         *)
(* A task begins with a state (present, join, absent, remove) and a check  *)
(* mode, changes the swarm at most once -- never in check mode -- and      *)
(* only in the way its state asks for, with the playbook's own values, and *)
(* ends.  Other clients change the spec and the node at any time.          *)
(***************************************************************************)
EXTENDS SwarmParams, Naturals

CONSTANTS ParamChoices, Actions, DefaultSpec, MaxVersion

VARIABLES
    local, cluster, version, target,  \* the engine, as in DockerSwarm
    request,    \* the playbook's parameters
    task,       \* the state of the running task, or "idle"
    dry,        \* the task runs in check mode
    applied     \* the running task has changed the swarm

vars == <<local, cluster, version, target, request, task, dry, applied>>

\* The swarm's version after a change, saturating at the bound.
NextVersion == IF version < MaxVersion THEN version + 1 ELSE version

Init ==
    /\ local \in {"inactive", "worker", "manager"}
    /\ cluster = DefaultSpec
    /\ version = 0
    /\ target = "ready"
    /\ request \in ParamChoices
    /\ task = "idle"
    /\ dry = FALSE
    /\ applied = FALSE

\* A task starts (or is refused before any remote call and stays idle).
Begin ==
    /\ task = "idle"
    /\ task' \in Actions \cup {"idle"}
    /\ dry' \in BOOLEAN
    /\ applied' = FALSE
    /\ UNCHANGED <<local, cluster, version, target, request>>

(***************************************************************************)
(* The one change a task makes, outside check mode: present makes the node *)
(* a manager of a swarm holding the playbook's supported fields (a new     *)
(* swarm starts from the default spec and does not know node_id yet); join *)
(* joins with the playbook's role; absent leaves; remove removes a node    *)
(* that is down, or any node with force.  The task may end in the same     *)
(* step.                                                                   *)
(***************************************************************************)
Change(t) ==
    CASE t = "present" ->
            /\ local' = "manager"
            /\ cluster' = MergeSpec(IF local = "inactive" THEN DefaultSpec ELSE cluster,
                                    UpdateParameters(request.spec))
            /\ version' = NextVersion
            /\ target' = IF local = "inactive" THEN "absent" ELSE target
      [] t = "join" ->
            /\ local = "inactive" /\ local' = request.joinRole
            /\ UNCHANGED <<cluster, version, target>>
      [] t = "absent" ->
            /\ local # "inactive" /\ local' = "inactive"
            /\ UNCHANGED <<cluster, version, target>>
      [] t = "remove" ->
            /\ target = "down" \/ (target = "ready" /\ request.force)
            /\ target' = "absent"
            /\ UNCHANGED <<local, cluster, version>>

Apply ==
    /\ task # "idle" /\ ~dry /\ ~applied
    /\ Change(task)
    /\ \/ task' = task /\ applied' = TRUE
       \/ task' = "idle" /\ applied' = FALSE
    /\ UNCHANGED <<request, dry>>

\* The task ends, successfully or not.
End ==
    /\ task # "idle"
    /\ task' = "idle"
    /\ applied' = FALSE
    /\ UNCHANGED <<local, cluster, version, target, request, dry>>

\* Another manager sets a field of the spec that inspect reports.
OtherClient ==
    /\ version < MaxVersion
    /\ \E f \in InfoFields, v \in Val : cluster' = [cluster EXCEPT ![f] = v]
    /\ version' = version + 1
    /\ UNCHANGED <<local, target, request, task, dry, applied>>

\* The node named by node_id goes down, comes back, or (re)joins.
NodeMoves ==
    /\ \/ target = "ready" /\ target' = "down"
       \/ target = "down" /\ target' = "ready"
       \/ target = "absent" /\ target' = "ready"
    /\ UNCHANGED <<local, cluster, version, request, task, dry, applied>>

Next == Begin \/ Apply \/ End \/ OtherClient \/ NodeMoves

Spec == Init /\ [][Next]_vars
=============================================================================
