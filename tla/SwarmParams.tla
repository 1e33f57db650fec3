----------------------------- MODULE SwarmParams -----------------------------
(***************************************************************************)
(* The data side of the docker_swarm module: class TaskParameters.         *)
(*                                                                         *)
(* A swarm specification is a function from the spec fields of             *)
(* TaskParameters (snapshot_interval, election_tick, name, labels,         *)
(* autolock_managers, log_driver, signing_ca_key, ...) to a value or None. *)
(* Values are abstract: the properties only ever compare them for          *)
(* equality, which is all compare_to_active does with them.               *)
(***************************************************************************)
CONSTANTS
    Fields,          \* the spec fields of TaskParameters (the keys of the
                     \* 'assign' map of update_parameters)
    Val,             \* abstract values a field can be set to
    None,            \* Python None: the field was not given / is missing
    BackfillFields,  \* fields update_from_swarm_info fills only when None
    LogDriver,       \* log_driver: the field update_from_swarm_info overwrites
    Autolock,        \* autolock_managers
    LockedVal,       \* the value of autolock_managers that is truthy (True)
    Supported        \* fields whose option_minimal_versions entry is supported

ASSUME ParamsAssumption ==
    /\ None \notin Val
    /\ LockedVal \in Val
    /\ BackfillFields \subseteq Fields
    /\ LogDriver \in Fields \ BackfillFields
    /\ Autolock \in BackfillFields
    /\ Supported \subseteq Fields

SpecVal == Val \cup {None}

\* A specification: a value or None for every field.
Specs == [Fields -> SpecVal]

\* The fields update_from_swarm_info reads back from the swarm info.  The
\* others (signing_ca_cert, signing_ca_key) are write-only: inspect never
\* returns them and TaskParameters never reads them back.
InfoFields == BackfillFields \cup {LogDriver}
WriteOnlyFields == Fields \ InfoFields

\* TaskParameters() with every field None.
NoParams == [f \in Fields |-> None]

\* The specs a playbook can ask for: argument_spec has no log_driver option,
\* and from_ansible_params copies only the keys of module.params, so
\* self.log_driver is None until update_from_swarm_info.
PlaybookSpecs == {s \in Specs : s[LogDriver] = None}

\* Faulty variant: every read-back field overwritten like log_driver.
UpdateFromSwarmInfoOverwrite(p, observed) ==
    [f \in Fields |-> IF f \in InfoFields /\ observed[f] # None THEN observed[f]
                                                              ELSE p[f]]

(***************************************************************************)
(* update_from_swarm_info(swarm_info): a field of BackfillFields that is   *)
(* still None takes the observed value (missing sections read as None);    *)
(* log_driver takes the observed value whenever TaskDefaults has one,      *)
(* whatever the parameter was; the write-only fields are left alone.       *)
(***************************************************************************)
UpdateFromSwarmInfo(p, observed) ==
    [f \in Fields |->
        IF f \in BackfillFields /\ p[f] = None THEN observed[f]
        ELSE IF f = LogDriver /\ observed[f] # None THEN observed[f]
        ELSE p[f]]

\* Faulty variant: old_parameters left as a fresh TaskParameters().
OldParametersNotBackfilled(observed) == NoParams

\* old_parameters = TaskParameters(); old_parameters.update_from_swarm_info(..)
OldParameters(observed) == UpdateFromSwarmInfo(NoParams, observed)

\* The pseudo-fields the DifferenceTracker records besides spec fields.
RotateKinds == {"worker", "manager"}
RotateDiff == [k \in RotateKinds |-> IF k = "worker" THEN "rotate_worker_token"
                                                     ELSE "rotate_manager_token"]
DiffNames == Fields \cup {RotateDiff[k] : k \in RotateKinds} \cup {"state", "joined"}

(***************************************************************************)
(* compare_to_active(other, client, differences): the names of the         *)
(* supported fields whose (backfilled) parameter is not None and differs   *)
(* from the active value, plus one entry per rotate flag that is set.      *)
(* The connection-only attributes it skips are not spec fields here.       *)
(***************************************************************************)
CompareToActive(p, other, rotate) ==
    {f \in Fields \cap Supported : p[f] # None /\ p[f] # other[f]}
        \cup {RotateDiff[k] : k \in rotate}

(***************************************************************************)
(* update_parameters(client): the spec handed to create_swarm_spec holds   *)
(* the supported fields whose value is not None; an absent keyword is     *)
(* None here.                                                              *)
(***************************************************************************)
UpdateParameters(p) == [f \in Fields |-> IF f \in Supported THEN p[f] ELSE None]

(***************************************************************************)
(* The engine's handling of a submitted spec (init and update): a field    *)
(* given in the submitted spec replaces the stored one, a field left out   *)
(* keeps its stored value.                                                 *)
(***************************************************************************)
MergeSpec(stored, submitted) ==
    [f \in Fields |-> IF submitted[f] # None THEN submitted[f] ELSE stored[f]]

\* Faulty variant: the key asked for only when the swarm was just created.
HasSwarmLockChangedCreatedOnly(p, created, differences) ==
    /\ p[Autolock] = LockedVal
    /\ created

\* has_swarm_lock_changed(): autolock wanted and the cluster just created
\* or the autolock field among the differences.
HasSwarmLockChanged(p, created, differences) ==
    /\ p[Autolock] = LockedVal
    /\ created \/ Autolock \in differences
=============================================================================
