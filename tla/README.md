# A TLA+ model of the `docker_swarm` Ansible module

The code is
`src/openshift/release/ansible/ansible_collections/community/docker/plugins/modules/docker_swarm.py`
(called `docker_swarm.py` below). The module converges one Docker engine to the
swarm state a playbook asks for: `present` (init or update), `join`, `absent`
(leave) or `remove` (remove another node). This directory holds:

- TLA+ modules for the module's parameter handling and its controller;
- an abstract specification of what one task promises, and the refinement
  from the controller to it;
- the engine it talks to, and the other clients that change the swarm in between;
- TLC configurations that model-check them;
- TLAPS proofs of the most important properties.

## 1. The system and its parts

| Part | Code | What it does | Module |
|---|---|---|---|
| TaskParameters | `docker_swarm.py:334-464` | Builds the desired spec from `module.params`. `update_from_swarm_info` backfills unset fields from the engine's answer. `update_parameters` builds the spec to submit. `compare_to_active` records the fields that differ. | `SwarmParams` |
| SwarmManager | `docker_swarm.py:467-649` | Dispatches on `state`. Makes the remote calls of `init_swarm`/`__update_swarm`, `join`, `leave` and `remove`. `inspect_swarm` and `get_unlock_key` are its helpers. | `DockerSwarm` |
| Argument spec | `docker_swarm.py:655-690` | The options and their types; `required_if`. It has no `log_driver` option. | `ParamDomain` (types only), `PlaybookSpecs` |
| Capability gate | `docker_swarm.py:692-708` plus the client library | An option the engine or SDK does not support is skipped, or refused when the user set it; `state=remove` is refused on an SDK without `remove_node`. | the constants `Supported` and `RemoveSupported`, `UsageRefused`, and `Start` |
| DifferenceTracker | the calls to `differences.add` | Records the names of differences. `has_difference_for` drives the unlock-key fetch. | the variable `diff` |
| Result reporter / `main` | `docker_swarm.py:497-500, 718-732` | `results['changed']`, then `exit_json`, `fail_json` or an uncaught exception. | the variables `changed` and `outcome` |
| Docker engine | not in this repository | Node role, swarm spec, `Version.Index`, the state of `node_id`. Other managers change the spec. | `DockerSwarm` (environment) |

**How the parts interact.** One invocation builds `TaskParameters` and calls
the handler for `state`. The handler makes a strictly sequential series of
remote calls. Every remote call can raise `APIError`, and the code handles it
in one of three ways depending on the call:

- treated as "no" (`check_if_swarm_manager`);
- swallowed (`inspect_swarm`, `get_unlock_key`, the status poll);
- fatal (the mutating calls).

Between any two remote calls, another client can change the swarm's spec, which
bumps its version. It can also take `node_id` down, or bring it back up. The
only guard against lost updates is that `update_swarm(version=...)` carries the
version read at the inspect.

## 2. The modules

### `SwarmParams` — the data side of TaskParameters

- A spec is a function `Fields -> Val \cup {None}`. The values are abstract,
  because the code only ever compares them for equality.
- `BackfillFields` are the fields `update_from_swarm_info` fills only when they
  are `None`.
- `LogDriver` is the field it overwrites whenever `TaskDefaults` has a value
  (`docker_swarm.py:415-416`). `argument_spec` has no `log_driver` option, and
  `from_ansible_params` copies only the options, so a playbook never sets it
  (`PlaybookSpecs`). Only other clients do.
- `WriteOnlyFields` are the fields inspect never returns: `signing_ca_cert`
  and `signing_ca_key`.
- Operators:
  - `UpdateFromSwarmInfo` models `update_from_swarm_info`;
  - `OldParameters` models the fresh `TaskParameters()` backfilled at lines 574-575;
  - `CompareToActive` models `compare_to_active`, including the rotate pseudo-fields;
  - `UpdateParameters` models `update_parameters`;
  - `HasSwarmLockChanged` models `has_swarm_lock_changed`.
- `MergeSpec` is the engine's handling of a submitted spec: a field given
  replaces the stored one, and a field left out keeps it. It is taken from
  the engine's API, not from this repository.

### `DockerSwarm` — SwarmManager, the engine and the other clients

**State.**

| Group | Variables |
|---|---|
| Engine | `local` (role of the node), `cluster` (spec), `version` (`Version.Index`), `target` (state of `node_id`) |
| One invocation | `params`, `action`, `check`, `pc`, `info` (`self.swarm_info`), `desired` (`self.parameters`), `diff`, `created`, `polls`, `sawDown` (`status_down`), `changed`, `outcome` |
| History, used by the properties | `mutated`, `prev`, `extCur`, `extPrev`, `extSinceInspect`, `lockedAtStart` (the node managed a locked swarm when the invocation started), `keyLost` (the `get_unlock_key` call of the last successful inspect failed) |

`pc` names the remote call the invocation has reached.

**Actions.** Each action is one remote call, and covers the whole code path up
to the next remote call:

| Action | Code |
|---|---|
| `Start` | `__init__` / `__call__`; `from_ansible_params` (`FromAnsibleParams`); a failure when `UsageRefused` |
| `PresentProbe` | `init_swarm`, 531 |
| `UpdateInspect` | inspect, version read, backfill, compare, "No modification"; 569-580 |
| `UpdateSubmit` | `update_swarm`; 581-590 |
| `UpdateReinspect` | 592-594 |
| `InitSubmit` | 535-553 |
| `InitVerify` | 555-559 |
| `InitInspect` | 560-567 |
| `Join` | 596-615 |
| `Leave` | 617-628 |
| `RemoveProbe` | 630-632 |
| `RemovePoll` | one status check; 634-640 |
| `RemoveSubmit` | 642-649; an uncaught `AttributeError` when the SDK has no `remove_node` |

The environment has two more actions:

- `ExternalUpdate`: another manager sets one spec field that inspect reports, and the version goes up.
- `TargetChange`: `node_id` goes down, comes back up, or rejoins.

An `APIError` is a `\E failed \in BOOLEAN` in the step that makes the call.
`inspect_swarm` succeeds only on a manager.

**Bounds.**

- The version counter is capped at `MaxVersion`. `Bumped` saturates, and
  `ExternalUpdate` is disabled at the cap. The module only ever compares a
  version it read with the engine's current one, and `ExternalUpdate` always
  makes them differ, so saturation hides no conflict.
- The status poll is bounded by `RepeatCheck = 5`, as in the code.

### `SwarmTask` — what one task promises

An abstract specification written from spec sections 4-6, with the remote
calls, failures and reporting left out. It shares the engine variables
(`local`, `cluster`, `version`, `target`) and adds the playbook's parameters
`request`, the running task `task` (a state, or `"idle"`), `dry` (check mode)
and `applied` (the task has changed the swarm). Its actions:

- `Begin`: a task starts, or is refused and stays idle;
- `Apply`: outside check mode, a task that has not changed anything makes
  its one `Change`, and may end in the same step. `present` makes the node a
  manager of a swarm holding the playbook's supported fields; `join` joins
  with the token's role; `absent` leaves; `remove` removes a node that is
  down, or any node with `force`;
- `End`: the task ends, successfully or not;
- `OtherClient` and `NodeMoves`: the same environment as `DockerSwarm`.

`DockerSwarm` defines `Task == INSTANCE SwarmTask WITH request <- params,
task <- IF pc = "done" THEN "idle" ELSE action, dry <- check,
applied <- pc # "done" /\ mutated`. The property `TaskRefinement == Task!Spec`
says that every step of the controller and of the other clients is a step of
`SwarmTask`, or leaves its variables alone. That means each invocation:

- changes the swarm at most once;
- never changes it in check mode;
- changes it only in the way its `state` asks, with the playbook's own
  (non-backfilled) values.

### `MCDockerSwarm` and the `.cfg` files

The instance for TLC uses four fields:

| Field | Role | Why it is included |
|---|---|---|
| `name` | backfilled | an ordinary field |
| `autolock_managers` | backfilled | drives the unlock key |
| `log_driver` | overwritten on read-back, never set by a playbook | set by other clients only |
| `signing_ca_key` | write-only | the idempotence bug |

Other instance values:

- The value set is `{"a","b"}`.
- `MaxVersion = 2`, which allows two updates: one by the module and one external, or two external.
- The default spec of a new swarm has `name = "a"` and `autolock = "b"`.

`ParamChoices` differ by run. `MCPresent` takes every spec over `name`,
`autolock_managers` and `signing_ca_key` (with `log_driver` unset), with and
without `force` and a `rotate` flag. `MCMembership` takes three specs with both
join roles. The three violation runs each take one playbook.

All runs start from every node role, so they cover a fresh node, a worker and
an existing manager. The runs reach depth 18 to 26: several complete
invocations with external changes between their calls. The interesting cases
all happen within these bounds:

- an update racing an external change;
- a failing re-inspect;
- a node that goes down and then comes back up between the poll and the removal;
- the poll running out.

`Start` is always enabled at `pc = "done"`, so there is no deadlock.

**Fairness.** `Spec` has none, and every safety run uses it. The liveness
run uses `LiveSpec == Spec /\ WF_vars(ModuleStep)`, where `ModuleStep` is
the disjunction of the module's own steps (all actions but `Start`,
`ExternalUpdate` and `TargetChange`). The code justifies this fairness:

- an invocation is a sequential program;
- each remote call returns, with an answer or an `APIError` (the Docker
  client has a timeout);
- so once an invocation runs, it keeps taking steps.

Nothing obliges the playbook to start another task, or the other clients or
the node to act, so those actions get no fairness.

## 3. Runs

### Passing runs

**`present_converges`** (`MCPresent.cfg`) runs present invocations only.
About 1.36M distinct states.

| Property | What it states |
|---|---|
| `Converged` | After an ok present invocation outside check mode, with no external change during it, the node is a manager and every supported field the playbook set is in the swarm. |
| `Idempotent` | A present invocation following a settled one reports `changed=False`. "Settled" means: the previous invocation was an ok present outside check mode, nothing external happened since, and the playbook uses no `force`, no rotate flags and no write-only fields. |
| `ReportedChangeIsReal` | An ok invocation outside check mode reports `changed` exactly when a mutating call of it succeeded. |
| `UpdateOnObservedVersion` | An action property: `update_swarm` succeeds only when no external change happened since the invocation's last successful inspect. |
| `KeyReported` | An ok present invocation that leaves locked a swarm that was not locked when it started, with no external change during it, reports the swarm's unlock key, unless the `get_unlock_key` call itself failed. This is the module's documented return value (`docker_swarm.py:297-299`) and the only time the user can learn the key. It depends on `has_swarm_lock_changed` seeing `created` after an init, and `autolock_managers` among the differences after an update. |

**`membership`** (`MCMembership.cfg`) interleaves all four states, with the
target node going down, coming back and rejoining. About 2.82M distinct
states. It checks `TypeOK` (the status poll stays within `repeat_check`) and
`ReportedChangeIsReal` on the join, leave and remove paths.

**`task_refinement`** (`MCRefinement.cfg`) uses the constants of
`membership`, so all four states, check mode and every failure are
interleaved with the other clients and the node. It checks `TaskRefinement`.
About 2.82M distinct states.

**`termination`** (`MCLiveness.cfg`) runs under `LiveSpec`, with all four
states and `MaxVersion = 1`, and checks
`Termination == (pc # "done") ~> (pc = "done")`. Every started invocation
ends, whatever the other clients and the node do; in particular, the status
poll of `remove()` gives up after `repeat_check` checks of a node that stays
up. About 0.96M distinct states.

Each property of a passing run has a mutant, a plausible bug in the mapped
code that TLC catches under the run's own configuration:

| Property | Mutant |
|---|---|
| `Converged` in `present_converges` | `UpdateFromSwarmInfoOverwrite`: every field is overwritten like log_driver |
| `Idempotent` | `OldParametersNotBackfilled`: `old_parameters` is compared without `update_from_swarm_info` (line 575 dropped) |
| `ReportedChangeIsReal` in `present_converges` | `UpdateReinspectChangedFirst`: `changed=True` set before the reset in `inspect_swarm` |
| `UpdateOnObservedVersion` | `SubmitVersionReread`: the version is read again just before `update_swarm` |
| `TypeOK` | `RemovePollOffByOne` |
| `ReportedChangeIsReal` in `membership` | `LeaveSwallowError` |
| `KeyReported` | `HasSwarmLockChangedCreatedOnly`: the key is asked for only after an init, not when `autolock_managers` is among the differences |
| `TaskRefinement` | `InitSubmitInCheckMode`: `init_swarm` is called in check mode too |
| `Termination` | `RemovePollUnbounded`: the poll never gives up, and its counter wraps |

### Violation runs (what the code does against what is promised)

- **`signing_key_idempotent`** (`IdempotentWriteOnly`). `signing_ca_key` is
  never read back, so it always differs from `old_parameters`
  (`docker_swarm.py:458`). A second identical run reports `changed=True`,
  against spec section 8.
- **`check_mode_idempotent`** (`IdempotentCheckMode`). In check mode, a
  transient failure of `check_if_swarm_manager` (`docker_swarm.py:531`) sends
  a settled manager down the init path. The run then reports "New Swarm
  cluster created" with `changed=True`. This is the ambiguity of spec
  section 9 made concrete.
- **`inspect_failure_crashes`** (`NoUnhandledException`). `inspect_swarm`
  swallows an `APIError` and leaves `swarm_info = {}`. Then
  `swarm_info['Version']['Index']` (`docker_swarm.py:572`) raises a `KeyError`
  that `main` does not catch, against spec section 6.

## 4. What is proved (`DockerSwarmProofs`, `DockerSwarmRefinement`, `DockerSwarmSafety`)

TLAPS proves seven theorems for every value of the constants satisfying
`ParamsAssumption` and `DockerSwarmAssumption`. Two conjuncts of
`DockerSwarmAssumption` matter only to the proofs:

- `Key # None` says that `get_unlock_key()` reports a key as a string, and
  "no key" as Python `None`. Without it, a reported key could not be told
  apart from no key.
- `DefaultSpec[Autolock] # LockedVal` says that `docker swarm init` leaves
  autolock off unless the submitted spec turns it on. `KeyReportedHolds`
  needs it: a swarm locked by default would be locked without the playbook
  asking, and nobody would ask for its key.

### `TypeCorrect`: `Spec => []TypeOK`

`TypeOK` alone is not inductive. A status check at `polls = RepeatCheck`
would push the count past its range. The inductive invariant is therefore

`IInv == TypeOK /\ (pc # "done" => polls < RepeatCheck)`

The count reaches the bound only in the step that ends the invocation with
`fail`.

The proof has three parts:

- `InitIInv` shows that `Init` establishes `IInv`.
- One lemma per action shows that the action preserves `IInv`. Each proves
  three groups of `TypeOK'` (engine, run data, Boolean flags) and the poll
  bound. `IInvFromGroups` then joins them.
- Lemmas on the operators state that their results have the right types:
  `UpdateFromSwarmInfoType`, `UpdateParametersType`, `MergeSpecType`,
  `CompareToActiveType`, `InspectedType` and `PseudoDiffNames`.

### `ObservedVersion`: `Spec => UpdateOnObservedVersion`

The optimistic-concurrency guarantee. The invariant `VersionInv` (checked with
TLC on both passing configurations before it was proved) states three things:

- On the update path (`start`, `update_inspect`, `update_submit`), no mutation
  has happened yet.
- Before the inspect, `swarm_info` is still empty.
- At `update_submit`, the version read is at most the swarm's. It is strictly
  below the swarm's once another client has changed the swarm.

`update_swarm` succeeds only when the version read equals the current one, so
it cannot succeed after an unseen change. `VersionInvStep` proves that every
step preserves `VersionInv`, and `ObservedVersionStep` derives the action
property from it.

### `Refinement`: `Spec => TaskRefinement` (`DockerSwarmRefinement`)

The refinement is not inductive on its own. A step that mutates is an
`Apply` only if it is the first mutation of its invocation, outside check
mode, and of the invocation's own kind. `PathInv` supplies these facts:

- before the handler's mutating call (`start`, `update_inspect`,
  `update_submit`, `init`, `remove_poll`, `remove_submit`), no mutation has
  happened;
- the update and init steps belong to `present`, and the poll to `remove`;
- `update_submit` is reached only outside check mode (`UpdateInspect` checks
  `check_mode` before it);
- `action` is a state and `target` one of the node's three states.

`PathInv` was checked with TLC on the `task_refinement` instance before it
was proved inductive (`PathInvInit`, `PathInvStep`). One lemma per action
(`StartMaps`, `UpdateSubmitMaps`, ...) maps it to a step of `SwarmTask`:

- `Start` is `Begin`;
- a step that ends the invocation without a change is `End` (`EndMaps`);
- a step inside an invocation that changes nothing is a stutter
  (`InnerMaps`);
- a successful `update_swarm`, `init_swarm`, `join_swarm`, `leave_swarm` or
  `remove_node` is `Apply` of the matching `Change`;
- the environment's steps are `OtherClient` and `NodeMoves`.

`StepMaps` combines the lemmas, and the theorem follows by `PTL`.

### Safety of the controller (`DockerSwarmSafety`)

This module proves every safety invariant of the passing runs that is not
already covered above. Each proof follows one pattern:

- a strengthening is shown inductive;
- TLC first checked the strengthening as an invariant of `present_converges`
  and `membership`;
- the property follows from it by `PTL`.

The proofs use `IInv` and `PathInv` from the theorems above.

- **`ChangeReported`: `Spec => []ReportedChangeIsReal`.** `inspect_swarm`
  resets `results['changed']`, so the flag cannot be reasoned about
  state by state. `ChangedInv` says three things:
  - `changed` stays False until the exiting step;
  - outside check mode, the steps after a mutating call (`update_reinspect`,
    `init_verify`, `init_inspect`) are reached only after that call
    succeeded;
  - so at a successful exit, `changed` holds exactly when a mutation did.
- **`KeyReportedHolds`: `Spec => []KeyReported`.** `KeyInv` says that
  `swarm_info` is empty before the first inspect, and set from the first
  inspect of `__update_swarm` on. `KeyRepInv` adds why the key is asked for.
  It needs no other client acting, and a swarm not locked at the start:
  - on the init path, `self.parameters` is still `module.params` and
    `created` is set before the last inspect. A swarm that is locked after
    `init_swarm` was locked by the submitted spec, because a new swarm starts
    unlocked and a forced re-init keeps the stored, unlocked spec
    (`MergedAutolock`, `SubmittedAutolock`);
  - on the update path, the first inspect saw the swarm unlocked. A submitted
    `autolock_managers=True` is therefore kept by `update_from_swarm_info`
    and found by `compare_to_active` (`AutolockDiffers`);
  - the re-inspect reads a swarm that `update_swarm` locked only if the
    submitted spec asked for it. At that point `has_swarm_lock_changed()`
    holds, and the key is the engine's.

  `lockedAtStart` and `keyLost` are history variables. They record what the
  property compares against and change no behaviour.
- **`ConvergedHolds`: `Spec => []Converged`.** `ConvInv` says two things:
  - `self.parameters` is the playbook's until the inspect;
  - outside check mode with no other client acting, every step after
    `state=present`'s mutating call, and its successful exit, sees the node
    a manager and the swarm holding the playbook's supported fields.

  `ConvergedGoal` leaves `log_driver` out. `NoLogDriverOption` (from
  `IInv`, since a playbook never sets it) then gives `Converged` for every
  supported field. Two cases need lemmas on the parameter operators:
  - the exit with "No modification" uses `NoDiffConverged`. An empty
    `compare_to_active` means the swarm already holds the values. A field
    `update_from_swarm_info` does not fill reads back as `None` in
    `old_parameters` and would differ;
  - `update_swarm` and `init_swarm` use `MergeLands`: the merged spec holds
    every supported field submitted.
- **`IdempotentHolds`: `Spec => []Idempotent`.** `IdemInv` says that under
  `Idempotent`'s hypotheses, the invocation never reaches `update_swarm`,
  `init_swarm` or their re-inspects. Those hypotheses are:
  - a previous successful present invocation outside check mode;
  - no other client since that invocation started;
  - no force, no rotate flag and no write-only field.

  The argument has four steps:
  - the previous invocation left `ConvergedGoal`, by `ConvInv` at its exit;
  - only `Start` changes the record of the previous invocation
    (`SettledKept`);
  - so at the inspect, `compare_to_active` finds nothing (`NothingDiffers`),
    and the invocation exits with `changed` False;
  - a failed probe leads to `init_swarm`, which the engine refuses on a
    manager without force.

### What stays with TLC

The following are checked by TLC only, on the instances above:

- `Termination`. This is liveness under the weak fairness of `ModuleStep`,
  and its proof would need `ENABLED` and fairness reasoning that TLAPS
  cannot do here;
- `IdempotentWriteOnly`, `IdempotentCheckMode` and `NoUnhandledException`
  on `inspect_failure_crashes`. These are the
  violation runs. The code breaks these properties, so there is nothing to
  prove;

## 5. What is not modelled

- Connection-only parameters: addresses, join token, `default_addr_pool`,
  `subnet_size` and data-path settings. They reach the engine unchanged, and no
  property distinguishes them.
- The text of action messages, the contents of `swarm_facts`, diff
  output, and the `no_log` redaction of secrets. These are formatting done by
  Ansible.
- The `debug` attribute that `DockerBaseClass` adds to the parameters. That
  code is outside `src/`.
- Argument validation by `AnsibleModule`: `required_if` and the type
  coercions. They run before any state changes; the model starts from
  parameters that passed them. `ParamDomain` keeps only the types.
- The Docker SDK and API version negotiation itself. It lives in the client
  library outside `src/`, and its outcome is the pair of constants
  `Supported` and `RemoveSupported`.
- Several managers running the module at the same time. The other clients are
  the `ExternalUpdate` environment.

## 6. Observations and plan for later work

- `__update_swarm` rebuilds a fresh, non-backfilled spec for `update_swarm`
  (line 580). In this model, submitting the backfilled `self.parameters`
  instead breaks neither `TaskRefinement` nor `Converged`. The version check
  makes the backfilled values equal the swarm's at the time of the update. The
  rebuild matters for engine fields the model does not distinguish (defaults
  the engine fills in), not for the fields modelled here.
- `MergeSpec` is the engine's merge rule, taken from the engine's API. If
  an update instead reset the fields it omits, `update_swarm` would still
  receive the playbook's fields. `Converged` and `KeyReported` speak only of
  those fields, so neither verdict changes.
- Not stated as properties:
  - after a status check saw the node down, the node can come back before
    `remove_node` (line 644). The engine then refuses the removal unless
    `force` is set, and a property of it would only restate that guard;
  - on an SDK without `remove_node`, only the `remove_operation` usage check
    (lines 699-703) keeps `state=remove` away from it. A property would
    restate that one check as well.
- Later work:
  1. A property for stale `swarm_facts` after a failed re-inspect.
  2. Several managers running the module at the same time: two instances
     of the invocation variables sharing the engine.
