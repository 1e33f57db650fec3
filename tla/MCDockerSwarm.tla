---------------------------- MODULE MCDockerSwarm ----------------------------
(***************************************************************************)
(* Small instances of DockerSwarm: four spec fields, one of each kind the  *)
(* code treats differently -- name (backfilled), autolock_managers         *)
(* (backfilled, drives the unlock key), log_driver (no option sets it,    *)
(* other clients may) and signing_ca_key (never read back) -- and two      *)
(* values.                                                                 *)
(***************************************************************************)
EXTENDS DockerSwarm

MCFields == {"name", "autolock_managers", "log_driver", "signing_ca_key"}
MCVal == {"a", "b"}
MCBackfill == {"name", "autolock_managers"}

\* A new swarm: named "a", autolock off, no log driver, no signing CA.
MCDefaultSpec ==
    [f \in MCFields |-> IF f = "name" THEN "a"
                        ELSE IF f = "autolock_managers" THEN "b" ELSE None]

\* Spec fields a playbook may set: name and autolock_managers to anything,
\* signing_ca_key to one value; log_driver is not an option.
MCSpecChoices ==
    {s \in [MCFields -> MCVal \cup {None}] :
        s["log_driver"] = None /\ s["signing_ca_key"] \in {None, "a"}}

\* Playbooks of state=present tasks: every spec, force and rotate flag.
MCPresentParams ==
    [spec: MCSpecChoices, force: BOOLEAN, rotate: {{}, {"worker"}},
     joinRole: {"manager"}]

\* Playbooks mixing all four states: a few specs, both join roles.
MCMembershipSpecs ==
    { [f \in MCFields |-> None],
      [f \in MCFields |-> IF f = "name" THEN "b" ELSE None],
      [f \in MCFields |-> IF f = "autolock_managers" THEN "a" ELSE None] }

MCMembershipParams ==
    [spec: MCMembershipSpecs, force: BOOLEAN, rotate: {{}},
     joinRole: {"worker", "manager"}]

\* A playbook that sets only signing_ca_key.
MCSigningKeyParams ==
    {[spec |-> [f \in MCFields |-> IF f = "signing_ca_key" THEN "a" ELSE None],
      force |-> FALSE, rotate |-> {}, joinRole |-> "manager"]}

\* A playbook that sets only the name.
MCNameParams ==
    {[spec |-> [f \in MCFields |-> IF f = "name" THEN "b" ELSE None],
      force |-> FALSE, rotate |-> {}, joinRole |-> "manager"]}
=============================================================================
