# A TLA+ model of the Terraform Cloud operator for Kubernetes

The operator reconciles `Workspace` objects with workspaces of Terraform Cloud: it creates the
workspace, uploads a Terraform template, sets variables, settings, notifications and run triggers,
starts runs, publishes their outputs, and destroys everything when the object is deleted. This
directory models that loop, the helpers it calls, the work queue it is called from and the two
systems it talks to; checks them with TLC; and proves the safety of the loop and of the queue, and that
the loop implements an abstract life of a Workspace, with TLAPS.

## The system

| Part | Source | State it keeps | Operations |
|---|---|---|---|
| Reconcile loop | `workspacehelper/workspace_helper.go` | nothing between reconciles but the object's status (workspace ID, run ID, run status, configuration version ID, outputs) and finalizer | `Reconcile` and the functions it calls |
| Runs and finalization | `tfc_run.go` | none | configuration versions, `CheckRun`, `DeleteRuns`, `DeleteResources` |
| Workspace lookup and settings | `tfc_org.go` | `Organization` of the client, overwritten by each reconcile | `CheckWorkspace`, `CreateWorkspace`, `DeleteWorkspace`; SSH key, version, agent pool |
| Notifications | `tfc_org.go` 319-428 | none | `CheckNotifications` |
| Variables | `tfc_variable.go`, `k8s_secret.go` | none | `CheckVariables` |
| Run triggers | `tfc_run_trigger.go` | none | `CheckRunTriggers` |
| Outputs | `tfc_output.go` | none | `CheckOutputs`, conversion of values |
| ConfigMap and Secret | `k8s_configmap.go` | the ConfigMap (template last compared), the Secret (outputs) | `UpsertTerraformConfig`, `UpsertSecretOutputs` |
| Template | `terraform.go` | none | `CreateTerraformTemplate` |
| Controller | `controllers/`, `main.go`, the vendored controller-runtime and client-go | the work queue, its delays, the informer's copies | two watches, one worker, requeues |
| Terraform Cloud | external | workspaces, configuration versions, runs, state | |
| Kubernetes | external | objects, informer caches | |

The loop is called with the name of an object. It reads the object from an informer cache, writes
to the API server with optimistic concurrency, calls Terraform Cloud synchronously, and either
returns an error, requeues, or requeues after a minute; it keeps nothing in memory but the
client.

What makes it hard is in the order of its calls:

* a run is started because a comparison (template, variables, triggers) found a difference and
  removed it in the same step: the reason is an edge, and gone if the reconcile ends early;
* reads come from caches that may lag behind the operator's own writes;
* runs finish, users edit, delete and queue runs between any two calls;
* a failed call, a lost answer or a crash ends a reconcile between any two calls;
* the helpers bring a list in Terraform Cloud to that of the spec one call at a time, from a listing
  made before, and an error of one keeps the ones after it from their turn;
* the finalizer stops runs, waits for a destroy run in a loop, and ignores some errors;
* one worker and one client serve all objects, and the wait for a destroy run holds both.

What correctness means for each part: a run is started for every change and not for ever
(loop); nothing Terraform created survives the object, and deletion ends (finalization); outputs are
those of the recorded workspace and of the last state (outputs); what users change in Terraform
Cloud is undone (variables, settings, notifications, triggers); no run is started beside one that the
Workspace records as unfinished (loop and caches) or before the workspace is what the spec says (helpers); no object is forgotten,
starved or mistaken for another (controller). The hazards are listed one by one, with their lines, in
`PROJECT.json`.

## The modules

Four models look at the same code from different sides; each takes in one step, or leaves out, what another one
takes apart.

| Model | Looks at | Takes in one step or leaves out |
|---|---|---|
| `WorkspaceOperator` with `TerraformCloud` and `KubernetesApi` | one object: runs, status, finalizer, caches, conflicts | variables are one variable, triggers at most one, settings and notifications are left out |
| `Variables` | `updateVariables`: references and `CheckVariables` on lists | the rest of the loop |
| `Synchronize` with `Reconciling`, `WorkspaceSettings`, `Notifications`, `Outputs`, `RunTriggers` | what a reconcile synchronizes besides, call by call and in its order | the bookkeeping of runs, template, variables, conflicts |
| `Controller` | several objects, the work queue, the shared client | the steps between finalizer and requeue |

`WorkspaceLifecycle` is the abstract specification of `WorkspaceOperator`.

### One Workspace: TerraformCloud, KubernetesApi, WorkspaceOperator

`TerraformCloud` (external). Workspaces with the template of their latest configuration version,
their variable, trigger, current run and the configuration that is `deployed` (the state); runs with
the configuration they were created with; configuration versions that are processed after the
upload. A run that plans, waits or applies is `applying`; it ends applied, without changes,
errored, canceled or discarded as `Outcomes` allows, and a run that is stopped half-way may or may not
have deployed its configuration. A run that ends lets one that waits become the current run. Users may queue
a run, delete the workspace or change the variable (`OutOfBand`, `MaxOutOfBand`).

`KubernetesApi` (external) extends it with one `Workspace` object at the API server, the informer's
copy, the ConfigMap with its cached copy, and the Secret. Resource versions are two booleans:
`cacheFresh` says that the cached copy is current, `fresh` (in `WorkspaceOperator`) that the
reconcile's copy is. A write that changes nothing does not change the version. Users edit the
object (`MaxEdits`; an edit that keeps the spec is a metadata edit) and delete it once.

`WorkspaceOperator` extends both with the reconcile: `pc` names the call that is due, `instance` is
the reconcile's copy of the object, `local` its other variables. One action makes one call together
with the code up to the next one. `Abort` at a step stands for an error of its call, a lost answer of the
call before, a crash or a restart; `AbortAt` and `MaxAborts` bound it.

| Actions | Code |
|---|---|
| `InitializeReconciliation`, `InstanceGone` | `initializeReconciliation`, test of the deletion timestamp |
| `CondDeleteWorkspace`, `FinalizeWorkspace`, `DeleteWorkspace`, `RemoveFinalizer` | `condDeleteWorkspace`, `finalizeWorkspace` |
| `DeleteRuns`, `ForceCancel` | `DeleteRuns`, its loop |
| `DeleteResources`, `CreateDestroyRun`, `AwaitDestroy` | `DeleteResources`, its poll loop |
| `CheckWorkspace`, `RecordWorkspaceID`, `RecordRunID`, `AddFinalizer` | `reconcileWorkspace` |
| `RunInProgress`, `RecordRunStatus` | `runInProgress` |
| `ProcessFinishedRun`, `RecordOutputs`, `UpsertSecretOutputs` | `processFinishedRun` |
| `UpdateTerraformTemplate`, `UpdateVariables`, `UpdateRunTriggers`, `StartCondition` | the comparisons and the condition of `Reconcile` |
| `StartRun` (`prepareVCSRun`, `prepareModuleRun`), `CreateConfigurationVersion`, `UploadConfigurationFile`, `RecordConfigVersion`, `ReadConfigVersion`, `ResetConfigVersion`, `CreateApplyRun`, `RecordRun` | `startRun` and what it calls |

Points a reader of the code may stumble over:

* `client.Status().Update` writes only the status, `client.Update` everything else (`WithStatus`,
  `WithFinalizer`); both fail when the copy is not current.
* `RecordOutputs` writes an empty list in every reconcile: `reflect.DeepEqual` tells the empty slice from
  the nil slice that was decoded. The write happens to detect outdated copies, and `StartFenced`
  depends on it for VCS-backed workspaces.
* The run is created without a configuration version (`prepareModuleRun` sets it in its own copy
  of the options), so it uses the workspace's latest one.
* Creating a variable is not an update (`CheckVariables` returns before it reports it).
* main.tf contains the organization, so module-backed specs with different organizations have different
  templates (`OrganizationInTemplate`).

Abstractions: one `Workspace`; one non-sensitive variable; at most one run trigger; outputs are named by
the state they are read from; the Secret is not read through a cache; the object is not created again
after it is gone; errors of the calls that the model leaves out (organization, notifications, settings, mount
path) are failures at the neighbouring step. IDs of runs, workspaces and configuration versions
return to a pool when nothing refers to them (`FreeRuns` and so on), so behaviours have any number of them; which
free ID is taken makes no difference.

### What it implements: WorkspaceLifecycle

`WorkspaceLifecycle` says what the loop promises about infrastructure, in six actions without a call, a cache or a
copy: a workspace is recorded (`Record`), then the finalizer is taken (`Hold`), and only then runs start (`Start`);
runs end, with or without infrastructure left (`End`); the object is deleted (`Delete`) and goes when no run and no
infrastructure is left (`Release`). The refinement mapping is the instance `Lifecycle` in `WorkspaceOperator`:

| Abstract | In `WorkspaceOperator` |
|---|---|
| `phase`, `held`, `workspace` | phase, finalizer and workspace ID of the object at the API server |
| `attended` | the unfinished runs that the operator created |
| `resources` | some workspace has infrastructure deployed |

So every step of the reconcile that only reads, compares or writes elsewhere is a stutter; `AddFinalizer` is `Hold`, the
creation of a run is `Start`, and the removal of the finalizer is `Release`, whose guard speaks of runs and
infrastructure that the code at that point knows only from the calls before it.

### Lists of variables: Variables

`updateVariables` on lists of variables, which `WorkspaceOperator` takes in one step for
one variable. A variable of the spec may refer to a ConfigMap or a Secret: `ResolveVariable` reads one after the other (`GetConfigMapForVariable`,
`GetSecretForVariable`) and ends the reconcile at one that is missing. `references` holds their content as the
operator's cache has it, so that a read is one step; `mount` holds the files of secrets; `variables` is the set of those of the
workspace. `CheckVariables` lists them in any order, without the values of sensitive ones (`Hidden`), and derives the calls from
this one list: `local.deletes` are places in `local.listed`, `creates`, `updates` and `secrets` places in `local.spec`, whose variables
get the category and the secret they are written with in place, as in the code (`Prepared`). The calls follow one by one, in the order of the places: `deleteVariablesFromTFC`, `createVariablesOnTFC`, `generateUpdateVariableList`, `UpdateTerraformVariables`.
`ReportUpdate` and `ReturnUnchanged` are its two results, `StartRun` the run the loop starts after the first (or
when there has been none), `Abort` a failed call or a lost answer. Users edit the spec, change ConfigMaps and Secrets, rotate secrets and write to the workspace
between any two calls.

### Everything else a reconcile synchronizes: Synchronize

`Reconciling` is what the helpers share: the spec and the reconcile's copy of it, the call that is due (`pc`), the memory of
the helper at work, what exists in the organization, and `AbortReconcile`, `UserEdits`, `Provide`, `Intervention`. Each
helper is a module whose `...Steps(next)` is the disjunction of its actions and goes on to `next` when it is through:

| Module | Code | Actions |
|---|---|---|
| `WorkspaceSettings` | `CheckWorkspace`, `CreateWorkspace`, `AssignWorkspaceSSHKey`, `SetTerraformVersion`, `updateAgentPoolID` | read or create, then one call for each setting that differs |
| `Notifications` | `CheckNotifications`, `compareNotifications` | list and find what is too much, delete; list again and find what is missing, create |
| `Outputs` | `CheckOutputs`, `GetOutputsFromState`, `convertValueToString`, `processFinishedRun`, `outputsToMap`, `UpsertSecretOutputs` | read the state, write the status, write the Secret |
| `RunTriggers` | `CheckRunTriggers` | list, delete, create; a creation may fail unnoticed |

`Synchronize` composes them in the order of `Reconcile` and adds the condition and the start of a run. `convertValueToString` is
a function over values (strings, numbers, booleans, lists, maps, objects, null, strings that are JSON text) that computes the text
character by character, with the quoting of Go's `%q` (`Quoted`) and the names of a map's elements converted as the code converts them;
`JSON` beside it is the text as JSON has it, with JSON's own quoting. `RenderedAsJSON` compares the two for values two levels deep,
with characters that need an escape (`"`, `\`, and `ESC` and `DEL` for those where `%q` and JSON differ) in strings and in names. They agree
for a value if and only if it is `Representable`; what is not:

* a string in an object, which is not quoted (`tfc_output.go` 115 asks for the type of the object);
* a null string in a list or a map, which is the string `"null"`;
* a string in a list or a map, or a name, with a character that `%q` escapes as `\x1b`, `\x7f`, `\a` or `\U0010ffff`;
* a string that is the JSON text of an array or an object but not in the form in which the code would write it: it is decoded and
  rendered anew wherever it is, by itself, in a list or a map, or as a name in a map (`tfc_output_test.go` 89 expects it: `[1, 2, 3]` becomes `[1,2,3]`).

`CreateRunTrigger` has the three ends the code has: a source workspace that does not exist is an error and ends the
reconcile; the trigger is created; or its creation fails, for this time or because Terraform Cloud refuses it (`Refused`), and the error is
dropped (`tfc_run_trigger.go` 114): the trigger counts as created, and a run starts without it. `memory.lost` is a history variable: the
triggers this has happened to in the reconcile at work, for `StartSynchronized` to name them.

A workspace that was just created is compared by `OnlyID`, the record without settings that the code has at that point.

Abstractions: a name, a token and a URL of a notification are one content, and `Unlisted` contents are those that
Terraform Cloud does not list as they were given; an update with an empty Terraform version leaves the
version alone; the update to no agent pool is accepted; identical notifications are one, and one that is to be deleted is
known by its ID, so that a user's change of it does not save it (`UserChangesNotifications`); Secrets are compared by their
content, except that an empty one is written each time (it is read as nil); conflicting writes and run IDs are left to `WorkspaceOperator`; template and variables, between
outputs and triggers in the code, are left to `WorkspaceOperator` and `Variables`.

### Several Workspaces: Controller

The informer's events, the queue of client-go (`queue`, `dirty`, `processing`: `Add`, `Get`, and `Done` in `Finish`), the delayed
additions (`waiting`, `DelayExpires`), one worker, and as much of `Reconcile` as the objects share: the client's
`Organization`, lookup and creation of the workspace by `<<Organization, name>>`, recording of its ID, finalizer, the destroy run that the worker
waits for, deletion. `Synchronize` is the rest of the reconcile, which ends in a requeue. A workspace is
identified by its organization and name: Terraform Cloud's ID does the same as long as users leave workspaces alone,
which this module assumes. Two objects do not name the same workspace (`ControllerAssumption`; nothing in the code
sees to it). `AddAfter` and `AddRateLimited` differ only in the delay, which is not modelled.
`ConfigMapEvent` is the watch on owned ConfigMaps, whose events come from the reconcile's own write. An
organization may be missing for good; that the check of it fails for the moment is a failure of the next step. Objects are created,
edited, deleted and created again. `unread` is a history variable: what the informer has and no reconcile has read.

`MCWorkspaceOperator`, `MCVariables`, `MCSynchronize` and `MCController` give the values the runs use; the `...Proofs` modules hold the proofs.

## The properties and the runs

Each property is stated in words where it is defined. Runs that pass:

| Run | What it allows | What it shows |
|---|---|---|
| `Reconcile` | a module-backed or VCS-backed Workspace; an edit and a deletion at any step, stale caches, errored runs, one failure or crash anywhere | `RunOnlyUnderFinalizer`, `NoLeakedResources`, `DestroyBeforeDelete`, `FinalizerHasWorkspace`, `StartFenced` (no run on an outdated copy), and the refinement `ImplementsLifecycle` |
| `Deletion` | deletion at any step, two failures (noticed or not), canceled runs, a user who deletes the recorded workspace | types, outputs never of another workspace, the finalizer ends |
| `Converge` | one edit of template, variable or trigger at any step at which no configuration version is pending, stale object, errored runs | the spec gets its run, it is the last one, and runs stop; no reason for a run is used up without it (`NothingOverlooked`) |
| `OutOfBand` | two interventions in Terraform Cloud, module-backed or VCS-backed | the variable is restored, outputs follow |
| `Variables` | two edits (a format, a value or a reference instead of it, the source of a secret, one variable removed or added), changes of a ConfigMap or Secret, or rotations; one intervention, one failed call, at any step; secrets from the mount or from a Secret and values from a ConfigMap, each missing at first | no run starts before the variables are those of the spec; what is as the spec asks is not written again (`DifferencesOnly`); no secret is without its value (`SecretsHaveValues`, where no variable becomes one); the workspace comes to the spec and what it refers to; every value of the spec comes to a run, unless a call fails or somebody else writes; runs stop |
| `Synchronize` | one edit, one failed call or crash, one change by a user in Terraform Cloud or to the Secret, at any step; an SSH key, agent pool or source workspace missing at first (`Late`); a trigger that Terraform Cloud refuses; states in which outputs come, change, become sensitive or empty and go | no run starts before settings, notifications and triggers are those of the spec, but for triggers whose creation has just failed unnoticed; settings, notifications and triggers come to those of the spec, whichever call fails, but for refused triggers; runs go on for ever if the spec has a refused trigger, and only then (`OperatorSettles`); once they stop, status and Secret come to rest at the right values; values are rendered as JSON with the exceptions above |
| `Queue` | two objects whose workspaces have one name in two organizations, of which one may be missing; two edits, deletions or creations; a failure, a failed destroy run or a restart; at any step | each object works on its own workspace; none is forgotten or starved; what the informer has seen is queued without delay; deletions complete where the organization exists |

Bounds of `WorkspaceOperator`: three runs suffice for one that is current, one that waits and one that the status still names;
two configuration versions for one pending and one new; two workspaces (three in `Deletion`, where a user deletes one) for the recorded
one and its successor. One edit and one failure at every possible step reach every
pair of them. The constants `Timely`, `EditAt`, `AbortAt`, `Ignored`, `Outcomes` are the environment each run assumes. `Deletion`
has no edits, so one spec is enough.
Bounds of the others: two variables are one of each list of updates; two notifications, triggers and three outputs are one that stays, one
that changes and one that comes or goes; two instances are one that is served and one that waits, and two writes
and one fault delete an object, create it again and restart the operator in between.

`Queue` does not check for deadlock: when all objects are gone and no bound is left, nothing happens any more.

Runs that find a violation, each a `findings` entry of `PROJECT.json`:

| Run | Property | What the code does |
|---|---|---|
| `LostOnConflict` | `SpecChangeExecutesRun` | a conflicting write after the ConfigMap was updated loses the run; edits come only where no configuration version is pending, so that nothing else can lose it |
| `OrganizationChange` | same | run ID and status of the old workspace block the new one |
| `CanceledDestroy` | `DestroyBeforeDelete` | a canceled destroy run counts as success |
| `EmptySecret` | `NoEmptySecret` | a variable that becomes sensitive is overwritten with an empty value |
| `AgentPoolName` | `AgentPoolApplied` | an agent pool given by name is not applied to an existing workspace without one |

The passing runs exclude, through the constants, behaviours that the same cfgs refute when a constant is
changed; each is a hazard in `PROJECT.json`:

* `SpecChangeExecutesRun` fails with an edit while a configuration version is pending (`EditAt`: it is never
  uploaded), without `"configMap"` in `Timely` (`prepareModuleRun` reads from the cache the template
  that was just written), with `AbortAt = {"createRun"}` (the configuration version is reset before the run exists), with
  `"errored"` in `UploadOutcomes` (such a version is polled for ever) and with `"canceled"` in `Outcomes` (after a
  canceled first run there is no state, and reading the outputs fails in every reconcile);
* `OperatorSettles` and `NothingOverlooked` of `Converge` fail with `Ignored = {"CreateRunTrigger"}` (the creation of a trigger fails, its error is
  dropped: every comparison misses the trigger and starts a run, which lacks it). `Synchronize` has that failure;
* `OutputsFollowState` fails with `"errored"` in `Outcomes` (a run adopted after an errored one keeps that status);
* `NoLeakedResources` fails with `Ignored = {"finalizeWorkspace"}` (any failed lookup skips the finalization), and with a
  run that a user queues behind the destroy run;
* a Workspace deleted between the creation of its workspace and the finalizer leaves the workspace behind, empty;
* `StartFenced` fails when an edit turns a module into a VCS repository while a configuration version is recorded:
  nothing removes it any more, and every reconcile starts a run. Each run keeps the kind of its Workspace;
* a variable that is only added is not reported as an update; a Workspace whose template does not name it (VCS, or an
  environment variable) gets no run for it;
* `OwnWorkspaces` fails when two objects name one workspace (a name that contains the other's namespace);
* `DeletionsComplete` fails for an organization that does not exist: it is looked for before the deletion timestamp.

Two more differences between documents and code, without a run: `README.md` line 240 says that outputs
are in a ConfigMap (the code writes a Secret), and lines 263-266 say that ConfigMap references do not trigger updates
while line 261 and the code say that they do.

### Fairness

* The worker takes every step it can (`WF_vars(Reconcile)`; in `Variables` `Operator`, in `Controller` `Worker`): every
  path of `Reconcile` ends in an error (requeued with back-off), `Requeue` or `RequeueAfter` one minute, and it is a
  goroutine that nothing else holds. Where there is one object this stands for the queue; `Controller` shows that the queue serves
  each object again and again (`ServedAgain`) from the fairness of the worker, of each delay and of each event alone.
* `DelayExpires` and `WorkspaceEvent`: the timer of the delaying queue fires, the informer's watch delivers.
* The caches catch up; each run, each uploaded archive, the first VCS commit and the destroy run (`RunApplies`, `DestroyRunEnds`) make
  progress in Terraform Cloud, which is what the poll loop and the requeues wait for.
* `SecretMounted`, `ReferenceProvided`, `Provide`: what the spec refers to and is missing comes to exist. Without it the operator retries for ever, as it should.

Nothing is assumed of users or of failures, which the bounds make finite.

## The proofs

All theorems hold for any sets of IDs, specs, instances and failures and any bounds that satisfy the assumptions named in
the modules.

### Types, finalizer, outputs: WorkspaceOperatorProofs

`Spec` implies `[]TypeOK` (`TypeCorrect`), `[]FinalizerHasWorkspace`
(`FinalizerNamesWorkspace`) and `[]OutputsBelong` (`OutputsOfRecordedWorkspace`), the last one also when the organization
changes, which no passing run covers.

None of the three is inductive. What they need beside themselves (`IInv`):

* `CloudInv`: a run that is under way has a workspace, so that ending it writes to one;
* `ObjectsInv`: both properties hold of the cached copy, too, which a reconcile will read, and
  a fresh cache equals the object;
* `CopyInv`: they hold of the reconcile's copy, and a copy that may be written is the current object
  (optimistic concurrency). This is why a copy taken long ago cannot undo what others wrote;
* `StepFacts`: after `recordWorkspaceID` the copy has a workspace ID, and outputs in memory are of that
  workspace. Outputs are read after the ID was recorded in the same reconcile, never before.

The argument is one lemma per group of actions, each split into the actions and those into their branches;
the branches use four lemmas on how a step ends (`ReturnStep`, `GotoStep`, `UpdateStep`, `FinalWrite`).
Terraform Cloud's invariant does not mention the operator and the operator's does not mention Terraform Cloud, so each side has its
own lemmas and an unchanged side costs one citation.

### Infrastructure and refinement: WorkspaceLifecycleProofs

These need assumptions on the environment, because the code does break them otherwise (see the list above):
`Attentive` (specs keep to one organization, no failed call goes unnoticed) and `Undisturbed` (runs apply or fail; users do not queue runs
or delete workspaces in Terraform Cloud). Failures, crashes, stale caches, edits and deletions are unrestricted.

* `RunsUnderFinalizer`: `Attentive` gives `[]RunOnlyUnderFinalizer`, by `HeldInv`. A copy may be old,
  but if the workspace it names still exists, that is the one on record, and the object has not lost a finalizer that the copy shows
  (`Outdated`): the finalizer is removed only from an object whose workspace is gone (`PathFacts`). So a run that is
  created from an old copy is created in the workspace on record, or not at all (`RunsInv`).
* `NothingLeaks` and `DestroyedFirst`: both assumptions give `[]NoLeakedResources` and `DestroyBeforeDelete`, by `ResourcesInv`: what is deployed
  is in the workspace on record, and the finalizer's steps leave less and less (`FinalizerFacts`): no active run but the ones it has
  yet to cancel, none, only the destroy run, no infrastructure. No run can start meanwhile, since the one worker is in the finalizer.
* `Implementation`: both assumptions give `ImplementsLifecycle`. `StepEffects` sorts the steps of operator, Terraform Cloud and Kubernetes
  into ten effects on the object, its runs and its infrastructure (`Effects`); `LifecycleStep` maps each effect to an abstract step or a
  stutter, with the two invariants for the guards of `Start` and `Release`.
* `AbstractSafety`: in `WorkspaceLifecycle`, whatever runs or exists is held by the finalizer, and what is held has a workspace on record.

### The queue: ControllerProofs

`Spec` implies `[]TypeOK` (`QueueCorrect`), `[]OwnWorkspaces` (`OwnWorkspacesOnly`), `[]NeverForgotten` (`NothingForgotten`) and `[]ChangesQueued`
(`ChangesReachQueue`), for any number of instances, organizations, writes and faults.

* `QueueInv` is the part of `TypeOK` that the queue preserves alone; it rests on three lemmas on sequences without duplicates (`AppendNew`, `TailWithoutHead`,
  `Enumeration`).
* `ObjectsInv` and `ReconcileInv` say what a cached copy and the reconcile's copy know (`CopyOf`): they are not newer than the object, are the object
  if as new, name no workspace but the instance's own, and show a deletion only if the object is deleted or another one of its name
  has no workspace yet. The latter is why `DeleteWorkspace`, which trusts a copy, cannot remove the workspace of an object that was created
  again; and a reconcile records a workspace only with a current copy taken from a cache that is current, too.
* `NeverForgotten` and `ChangesQueued` are inductive together with these: `NewVersion` says that what changes an object leaves the informer behind,
  `CatchUp` that the informer catches up only by adding the instance, `KnownStep` that the queue drops an instance only when its object is absent.

### No run beside another: StartFencedProofs

`RunsFenced`: `Attentive` and two more assumptions on users (`Steady`) give `StartFenced`: a run is not started while the Workspace
records an unfinished one. Both are needed: when an edit turns a module into a VCS repository or back, or somebody changes
the variable in Terraform Cloud, a reconcile with an old copy finds something to do and starts a second run.

Nothing in the code looks for a run in the object right before it creates one; what keeps an old copy from it is spread over
the steps before, and the invariant (`FencedInv`) says what each of them contributes, while the object records an unfinished run:

* a copy that shows a run comes past `runInProgress` only when the run has ended, and that is written to the object, which fails
  unless the copy is current; after such a write the copy knows what the object records (`Aware`);
* so does a copy of a module, whose last step before the run is a write of the status;
* a copy of a VCS repository without a run has written an empty list of outputs (`StartFacts`); this is what the superfluous write is good for;
* any other copy is older than the run and has seen the end of the run before; the reconcile that started the new one has left variable and trigger as
  the copy's spec has them (`NotMisled`, `SettledFacts`), so that comparing them finds nothing to start a run for.

### Every reason gets its run: NothingOverlookedProofs

`NoReasonOverlooked`: `Punctual` gives `NothingOverlooked`. `Reconcile` compares the template with the ConfigMap and the variable with the
workspace, writes what differs and remembers that it did in a local variable; whoever compares again finds nothing. So a
reconcile that does not come to its run has used up the reason for it (the finding `LostOnConflict`). The theorem says when that does not happen,
for any number of edits, of runs and of failures elsewhere: a reconcile that finds nothing to do leaves a current run that was started
with the spec. It is the safety half of `SpecChangeExecutesRun`.

What `Punctual` assumes, and what TLC finds when it is dropped:

| Assumption | Without it |
|---|---|
| nothing fails from the comparison of the variable to the record of the run | violated: the finding |
| the cached object, the cached ConfigMap and unpacked archives are current when they are read (`Timely`) | violated by each of the three, the first one with two edits |
| users edit the object between reconciles only | violated by one edit while a configuration version is pending, or by two at other steps |
| users leave Terraform Cloud alone | violated when they delete the workspace or change the variable; runs they queue are excluded for the proof |
| archives are never rejected; a module stays a module | not violated on small instances, excluded for the proof |
| one organization, no failed call goes unnoticed (`Attentive`) | needed by the invariants it builds on |
| there are more IDs than the caches remember (`Plentiful`) | the instance would stop |

The `Converge` run checks the property with edits during a reconcile and a stale object as well, but with a single edit and no failure.

The invariant (`ExecutedInv`, beside `IInv`, `HeldInv` and `FencedInv`, and only while the object is not deleted) follows what was written on
its way to the run:

* `RunFacts`: an unfinished run is the current run of its workspace and the one on record, so that nothing waits behind it;
* `VersionFacts`: a configuration version that is recorded or about to be is of the recorded workspace and has the template of the spec;
* `TemplateFacts`: from the comparison on, the ConfigMap, the template in memory and, in the end, the workspace have the template of the spec;
* `StartedFacts`: from the first run on, either the current run was created with the variable of the workspace and the template of the
  ConfigMap (`Executed`), or the reconcile knows of a reason for another one (`ReasonAtHand`). This is the heart of it: a write that makes
  the first false makes the second true, and only the creation of the run takes it back.

`SettledFacts` of the section above closes the circle: the workspace's variable is the one of the spec when the comparisons are over.

### Settings, notifications, triggers: SynchronizeProofs

`Spec` implies `[]TypeOK` (`SynchronizeTypeOK`) and, when no spec gives two notifications one name (`DistinctNames`), `[]StartSynchronized`
(`SynchronizedStarts`). The condition is needed: a notification is created only if no other has its name, so that of two with one name
the second is not created when the first is there.

* `MemoryFacts` says what the helper at work has in memory; `TypeOK` needs it, since memory is written to the workspace and to the Secret.
* `SettingsFacts`: the record that was read is the workspace, or it is the one without settings of a workspace just created with
  the agent pool of the copy; in both cases each of the three comparisons leaves its setting as in the copy, or the reconcile ends.
* `NotificationFacts` and `RunTriggerFacts`: the workspace without what is left to delete is within the spec, and with what is left to
  create it is the spec, for triggers together with those whose creation has failed in this reconcile (`memory.lost`; `CreateRunTriggerCases`
  and `CreatedTrigger` say what a creation does to what is left). `StartSynchronized` allows these to be missing, and no other. A notification that is not listed as it is counts as one to delete, never as one of the spec
  (`ComparedIsEqual`).

Each fact survives the steps after the helper's own, because these leave its part of the workspace alone, or end the reconcile.

### Variables: VariablesProofs

`Spec` implies `[]TypeOK` (`VariablesTypeOK`) and, when no spec gives two variables one key (`DistinctKeys`), `StartsWithVariables`
(`RunsWithVariables`). The condition is needed: variables are found by key alone, so that of a Terraform and an environment variable
of one key both are compared with the one that is listed first. The same condition gives `DifferencesOnly` (`WritesOnlyDifferences`): a
comparison that starts from the spec's variables makes no call but the listing and reports no update, so that a Workspace
at rest gets no runs. When no variable becomes sensitive or ceases to be (`SteadySecrets`), `[]SecretsHaveValues` (`SecretsRetrieved`)
holds, too; without it the finding `EmptySecret` is the counterexample.

* `LocalFacts`: what is resolved so far are the first variables of the spec, and the places in memory are places of their lists.
* `ComparisonFacts`: as long as the operator alone writes, the workspace has no key twice, and what is left to do is what separates it
  from the spec. While variables are deleted and created (`CheckingFacts`), what the spec does not name is still to be deleted, what is
  not there is still to be created, and the rest is as listed, so that the list of updates, made after these calls from the list read
  before them, is still right. Then (`UpdatingFacts`) what does not match is still to be updated. A failed call ends the comparison, and
  the facts hold of the next one, which lists anew.
* `SecretFacts`: whatever is in the workspace, in the lists and in the resolved spec is as sensitive as the specs have it, so that
  no secret passes for an ordinary variable that differs; and what is to be updated has been retrieved before.

Three lemmas carry it over lists of any length: `FindFacts` (what `find` returns; a least place exists because the natural numbers are well
founded), `ListedFacts` (a list of finitely many variables is a sequence that has each of them) and `PreparedFacts`.

### Only model-checked

Liveness under fairness (all `<>` and `[]<>` properties), which TLAPS does not reach, and `RenderingIsJSON`, whose conversion is recursive.

## Not modelled, and why

* `createTerraformConfig` and `GetClient`: read a file and the environment once.
* `CreateTerraformTemplate`: a text template; the models say which specs have equal templates.
* In `Variables`: specs that every reconcile rejects (a variable that is not sensitive with neither value nor ConfigMap), empty values and secrets.
* The first-page limits of listings: the models list everything. A page holds twenty entries or more, beyond what the instances reach.
* Flags, leader election, metrics, logging, Kubernetes events for users, generated code: no state of their own, or none that the properties speak of.
* Two operators at a time: leader election is a library's.

What could follow: a composition of `Controller` with `WorkspaceOperator` (the
first has several objects, the second all of a reconcile, and their product is out of TLC's reach, so it would be a proof).
