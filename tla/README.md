# Verification of the Bedrock AgentCore Control controller

The controller keeps resources of the Bedrock AgentCore Control service in step
with Kubernetes objects. Fifteen kinds of objects, one resource manager per kind,
all generated by ACK from one template and mended by hand-written hooks. What is
hard about it is not any one call but the order of calls: a reconcile reads,
compares, creates or updates, and patches, and between any two of those calls the
user may edit or delete the object, the service may finish or fail what it
accepted, an answer may get lost and the controller may stop.

This directory holds the TLA+ model of that, what TLC checks of it on small
instances and what TLAPS proves of it for all of them. Line numbers are those of
the commit the project was written against.

## The system

| part | where | state it keeps | operations |
|---|---|---|---|
| reconciler (ACK runtime, a library) | not in this repository | work queue; the object it works on | take an object, call its manager in a fixed order, patch spec and status, requeue |
| resource manager, one per kind and account/region/role | `pkg/resource/<kind>/manager.go`, `sdk.go` | none between calls | `ReadOne`, `Create`, `Update`, `Delete`, `IsSynced`, `LateInitialize`, `EnsureTags`, `FilterSystemTags` |
| descriptor | `descriptor.go` | the finalizer on the object | `IsManaged`, `MarkManaged`, `MarkUnmanaged`, `Delta` |
| hooks | `hooks.go`, `templates/hooks` | none | `customUpdate`, `customPostCompare`, `gatewaySettled`, strategy and schema comparison |
| references | `references.go` | none | resolve `*Ref` fields from other objects, clear them before a patch |
| tags | `pkg/tags/sync.go`, `tags.go` | none | `SyncTags`: `TagResource`, `UntagResource` |
| manager factories | `manager_factory.go` | cache of managers under a read-write lock | `ManagerFor` |
| registry, start-up | `pkg/resource/registry.go`, `cmd/controller/main.go` | the list of factories | register, start |
| API types | `apis/v1alpha1` | the object: spec, status, conditions | validation rules on required and immutable fields |
| API server, AgentCore service | external | the objects; the resources with their status and tags | create, edit, delete, patch; create, get, update, delete |

A reconcile of an object goes: resolve references, ensure the controller's tags,
`ReadOne`. Found and managed: compute the delta and, if there is one, `Update`.
Not found: put the finalizer on, `Create`, `ReadOne`. Then late-initialise, patch
the spec, ask `IsSynced`, patch the status. For an object that is being deleted:
`ReadOne`, `Delete`, take the finalizer off. An error ends the pass with a status
patch; a terminal one is not retried.

### What is hard, and what correct means

* **Two resources for one object.** The identifier the service assigned reaches the
  object only with the status patch. One object stands for one resource unless an
  answer was lost, the controller crashed, or the user re-keyed it
  (`AtMostOneLive`, `NamedOnce`, `NeverForgotten`).
* **Stale guards.** `sdkUpdate` and `sdkDelete` look at a status read earlier, while the
  service and other callers go on (`NoCallInTransition`).
* **A read that does not show what is there**: the fields a Get does not ask for, or a
  version of the resource that is not the latest (`ReadOneObserves`).
* **A resource left behind** when the object goes (`NothingLeftBehind`).
* **A lie in the status**: Synced for an edit that was not applied, or for a
  resource in transition (`SyncedMeansApplied`, `SyncedMeansSettled`).
* **Never getting there**: an edit that is not retried, an update that repeats for
  ever, an object that never goes away (`EventuallyApplied`, `UpdatesEnd`,
  `DeletionCompletes`).
* **Shared managers**: two reconciles that ask for the same one at once
  (`MapIsGuarded`, `RightManager`, `FewManagers`, `Returns`).
* **Half-done tags**: `SyncTags` is two calls, on top of which come the controller's own
  tags and the ones AWS injects, which travel through the views (`AwsTagsLeftAlone`,
  `SpecHoldsUserTags`, `SpecHoldsNoAwsTags`, `SyncedTagsAreThere`, `TagsSettle`,
  `TagCallsEnd`).
* **References to objects that live their own lives**: what the user wrote has to survive
  the copy made of it, a deletion must not hang on or forget its resource, a new
  identifier has to be followed (`StaysValid`, `ReferencesKept`, `LeftOnlyUnresolved`,
  `FollowsTarget`, `TargetsGo`).
* **Lists without identifiers**: a memory's strategies are compared one way and updated
  another (`DifferenceMeansPlan`, `WantedStrategiesKept`, `StrategiesSettle`,
  `UpdatesEnd`).

## Modules

| module | what it is |
|---|---|
| `ManagerTypes` | a resource manager as data: a record of what each of its functions carries, admits and refuses |
| `RuntimeKinds`, `GatewayKinds`, `HarnessKinds`, `PolicyKinds` | that record for each of the fifteen kinds, one definition per function of its `sdk.go`, `manager.go`, `delta.go` |
| `ResourceKinds` | the registry: kind -> manager |
| `ResourceReconciler` | one object, its reconciler, the service; every call a step |
| `ResourceLifecycle` | what that promises seen from outside, without calls and views; `ResourceReconciler` implements it (`LifecycleSpec`) |
| `ReferenceFields` | the references of each kind, one definition per function of its `references.go` |
| `References` | an object that refers to others, and the objects it refers to |
| `Tags` | the tags of one resource: the user's, the controller's, AWS's and other people's |
| `MemoryStrategies` | the strategies of a memory: the list in the spec and the set in the service |
| `ManagerFactory` | the cache of managers of one kind and the workers that share it |
| `ManagerCache` | the cache its callers may take it for; `ManagerFactory` implements it (`CacheSpec`) |
| `..._proofs` | theorems about the module of that name; `ResourceReconciler_proofs`, `ResourceLifecycle_proofs` and `ResourceSynced_proofs` are about `ResourceReconciler`, each on top of the one before, and `ReferencesLeft_proofs` goes on from `References_proofs` |
| `MC...` | subjects and bounds of its runs |

`ResourceReconciler` is the composition the rest hangs on: manager, reconciler, API
server and service. `References`, `Tags` and `MemoryStrategies` each open up one thing
it takes as a single value or step (a field that is resolved from another object, the
tags, a list), and in exchange take its calls as wholes; they share the Kinds tables, not
its state. `ManagerFactory` says which manager a reconcile works with.

The template is modelled once and the kinds are data, because that is how the code
came about: the fifteen `manager.go` are the same file, and what tells the kinds
apart is which fields a payload carries, which statuses a guard lists and which
codes are terminal. Those are the definitions of the Kinds modules, each translated
from one function: `PolicyReads` says which spec fields `sdkFind` of a policy
overwrites, `PolicySends` what `newCreateRequestPayload` puts in, `PolicyUpdate`
the mode, the guard and what the response overwrites, `PolicyPatches` what
`newUpdateRequestPayload` carries, `PolicyDeletable` the guard of `sdkDelete`,
`PolicySynced` the statuses of `IsSynced`, `PolicyTerminal` the codes of
`terminalAWSError`, `PolicyCompares` the fields of `newResourceDelta`.

### ResourceReconciler

State: `kind` and `tracked`, the manager and the spec fields the behaviour follows,
fixed by `Init`; `cr`, the object (present, deleting, finalizer, the tracked fields,
identifier, status, the Synced and Terminal conditions); `queued`; the worker's
`pc`, `desired` (its snapshot), `latest` (its view) and `err`; the service's `aws`
(identifier -> status, fields, and `other`) and `made`; `spent`, how often each bounded
thing happened. `other` says that the operation under way was asked for by somebody else;
no action reads it. It is there for the properties, which promise something only of the
controller's own operations.

| action | code |
|---|---|
| `Reconcile`, `Forget` | the runtime takes an object; conditions are reset |
| `ReadOne` | `ReadOne`, `sdkFind`: not found without identifiers, not found, found, failed; `IsManaged` |
| `Compare` | `Delta`; tags first if they differ and the kind syncs them |
| `MarkManaged`, `Create`, `MarkUnmanaged`, `Confirm` | finalizer, `sdkCreate`, the finalizer taken off again after a failed Create, `ReadOne` after a Create |
| `SyncTags` | `syncTags` as one call on one value; `Tags` takes it apart |
| `Update` | `sdkUpdate` and the `customUpdate`s: nothing but tags (`NothingElse`), no Update API (`CustomUpdate`), the guard (`NotUpdatable`), the call (`UpdateCall`), its refusals (`UpdateRefused`) |
| `LateInitialize` | `LateInitialize`, `lateInitializeFromReadOneOutput`: one more read, the fields the view leaves unset are copied and patched into the spec |
| `PatchSpec`, `PatchStatus` | the merge patches; `IsSynced`; the requeue |
| `ReadToDelete`, `Delete`, `Release` | the deletion of an object |
| `EditSpec`, `DeleteCR` | the user, within the rules of the CRD |
| `Settle`, `FailSettle` | the service ends or fails what it accepted |
| `Proceed` | it shows an operation as another status: a target waits for an authorisation (CREATE_PENDING_AUTH and the like), a deleted browser profile is DELETED before it is gone |
| `Drift` | somebody else's call is accepted: an update of a field, an operation that changes none the model follows (another update, the synchronisation of a target, the saving of a browser profile), a deletion. As the controller's own calls do, it leaves the resource in transition |
| `Crash`, `Resync` | restart; the resync period |

Each call to the service can be refused with any of `Codes` before it has an effect;
`Create`, `SyncTags`, `Update` and `Delete` can also take effect and lose their answer.

What is abstracted: a field's value is one of 0 (unset), 1, 2; the statuses are the
ones of the kind; a message is gone but for whether its code is terminal. The
reconciler's own behaviour is the ACK runtime's, which is a library: the order of
the calls above, conditions reset at the start of a reconcile, no requeue after a
terminal error, the finalizer set before and removed after a Create that failed
before the resource existed, merge patches, one worker per object.

Assumed of the service: it answers a Get with what it has; whoever asks, it accepts no
call but TagResource while an operation is under way, and nothing but another Delete once
a deletion has failed (`MayUpdate`), and refuses with ConflictException; it does not check
that names are unique (the code must not rely on it); a failed update keeps the new
values; an authorisation somebody has to give is given, or given up, in the end; a quota
(`MaxMade`) answers a retryable error.

An agent runtime is read by version (`M.key.versioned`). Every update of one makes a
version, and versions do not change, so the model takes the values a version holds for its
name: `ver` in the object and in the views is the version the last answer named, and
`Shown` is what a Get with it returns. The status in that answer is taken to be the
runtime's current one. Tags are not part of a version, and this kind does not read them.

A field the service sets by itself (`M.defaults`: those `generator.yaml:231-262` and the
late initialisation name) gets `Default` when a Create leaves it out (`Filled`), and an
Update that leaves it out does not change it (`Sent`). The delta does not compare such a
field when the spec leaves it unset (`M.waived`, `customPostCompare`). This is modelled of
whole fields: an agent runtime's lifecycle configuration with one leaf given and one
left to the service is not told apart from a full one. The enforcement mode of a policy
comes back through the answer to the Create, which `sdkCreate` copies into the view and
the merge patch into the spec.

What is left out of this module: references, system tags and the inside of lists (the
modules below), adoption but for its tags, the refusal to delete a gateway that has
targets (in `References`), and everything inside a field. A user does not clear a mutable
field once it is set, because what an Update request without the field means is the
service's to say.

### ResourceLifecycle

The object is there, deleting or gone; it is held by the finalizer or not; a resource
was made or not and is kept or not. `Make` needs the finalizer and that nothing lives that
the controller could know of; `GiveBack` (the finalizer goes) needs the same; `Unmake`
needs an object that is being deleted and held, or somebody else who did it. `excused`
counts lost answers, crashes and edits of a resource's names, each of which may hide one
resource. The mapping is in
`ResourceReconciler` (`Outside`): a resource counts as live until its deletion was
accepted, since that is when the code lets go of the object (see `finalizer_until_gone`).
That a resource is made only under the finalizer and taken down only for a deleted
object is a statement about every order of the calls, which no invariant of one state
says.

### References

State: `cr`, the object, with for each reference whether it has the `*Ref` and what is in
the concrete field; `desired`, the snapshot that is resolved in place; `latest`, the
view; `objs`, the objects referred to (there, condition, identifier, being deleted);
`kids`, the resources of the service.

| action | code |
|---|---|
| `Reconcile` | the snapshot; `validateReferenceFields` (`Refuses`) |
| `ResolveReference` | one step of `ResolveReferences`: `getReferencedResourceState_*` reads the object's conditions (`Resolvable`); an error ends the sync, and on a deletion the rest of the list |
| `Read` | `sdkFind` rebuilds the fields of the answer without `*Ref`s (`Rebuilt`); `newResourceDelta` (`DiffersAt`) |
| `Create`, `Update` | `sdkCreate`, `sdkUpdate`, the `customUpdate`s |
| `PatchSpec` | the merge patch of what `ClearResolvedReferences` (`Cleared`) and `EnsureReferences` (`Ensured`) leave |
| `ReadToDelete`, `Delete`, `Release` | deletion with what was resolved so far; not found is taken for deleted |
| `TargetAppears`, `TargetReady`, `TargetTouched`, `DeleteTarget`, `TargetGoes` | the object referred to: made (again), synced with an identifier, out of sync or terminal, deleted, gone; a gateway with targets stays (`gateway/sdk.go:1279`) |

A reference is at the top of the spec, inside a struct or inside a list, and that is what
decides: `EnsureReferences` restores those in a struct, a merge patch replaces a list as
a whole, and the delta compares lists with their `*Ref`s.

What writing it down showed, beyond the divergence below:

* The delta sees a `*Ref` in a list that the read view lacks. A memory whose strategies
  refer to a topic calls UpdateMemory on every reconcile; a harness whose tools refer to
  a browser, an interpreter or a gateway loses the `*Ref`s after its Create, and keeps
  the values. `ReferencesKept` speaks of the references that are not in a list.
* On a deletion the references after the first that cannot be resolved stay unresolved;
  if one of them names the resource, `sdkFind` finds nothing and the resource stays
  (`LeftOnlyUnresolved` says that this is the only way).
* The patch of a spec is made from a snapshot. An UpdateMemory answer is copied into the view
  with the key it shows (`memory/sdk.go:930`, and the same in `policy_engine`), though no
  update carries the key. A user who edits the key's value, and then replaces it by a `*Ref`
  between the snapshot and the patch, finds the old key beside the `*Ref`, and the object is
  refused from then on (the CRD's rule compares two values, and the field was empty).
  `StaysValid` therefore speaks of references that the user did not turn into a `*Ref`, or
  back, after the snapshot. It takes two edits, more than the run has; the proof is what
  showed it.
* `ResolveReferences` is said to return a copy and resolves its argument; the model
  resolves in place.
* An object that is being deleted is still resolved, from the conditions it last had.
  A target does not keep its gateway from being resolved, and the gateway waits for it,
  so both go (`TargetsGo`).

### Tags

State: `spec` (key -> value, 0 for no tag), `tags` of the service, `version` (the value the
`--resource-tags` flag gives), `known` (the status has the identifier), the worker's
`desired` and `latest`. An object starts with no resource, or with one that it is to adopt.

| action | code |
|---|---|
| `Reconcile` | `EnsureTags`: the controller's tags are added unless there |
| `ReadOne` | `getTags` in `sdkFind`; `mirrorAWSTags` (`syncAWSTags`). When `getTags` fails `sdkFind` returns nothing, and nothing is mirrored |
| `Create` | `sdkCreate`: the request has the tags of the snapshot, and what is returned is a copy of it; AWS may add tags of its own |
| `Confirm` | the `ReadOne` after it, whose argument is the created view: the tags of AWS are mirrored there, and not into the snapshot |
| `Compare` | `newResourceDelta` at `Spec.Tags` |
| `addTags`, `removeTags` | the two calls of `SyncTags`, each accepted, lost or refused; the view that is returned is a copy of the snapshot |
| `Patch`, `Store` | the merge patch of what the view has otherwise than the snapshot; the patch of the status, and with it the identifier |
| `Adopt` | `FilterSystemTags` on the read of an adopted resource |
| `Upgrade` | restart with another value of the flag |
| `EditTags`, `Drift` | the user, who may also take out a tag of AWS that got into the spec; anybody else, AWS included |

A Create whose answer is lost made a resource that is not this object's: that is a matter
of `ResourceReconciler`, and here nothing was made. The service refuses a request that
names a tag of AWS with a terminal error (`Reserved`).

That the patch can write to the spec is what makes `SpecHoldsUserTags` worth stating: the
controller's tags are in both views and in none of the differences, and what the user
writes while a reconcile is under way is in neither view. The tags of AWS are not so kept
out (`tags_created`, below). Once one of them is in the spec and AWS takes it away, the
spec asks for a tag that cannot be given, every call is refused, and the object is stuck
with a terminal condition until the user takes the tag out; `TagsSettle` says that this is
the only way not to settle.

`FilterSystemTags` is commented "Must be called after each Read"; the runtime calls it on
adoption only, and the slip `getTagsFiltered` shows that following the comment in
`sdkFind` would make every reconcile add the controller's tags again (`TagCallsEnd`).

### MemoryStrategies

State: `spec`, a list in any order; `held`, identifier -> strategy; the memory's `status`;
the worker's snapshot and what it read. A strategy has a name, a type and a value for
each field of its type: unset, one of two values people give, the default, or an empty
step.

| definition | code |
|---|---|
| `compareMemoryStrategies`, `Place`, `stripAWSDefaults` | the comparison: both lists sorted by name (two strategies are compared that come to the same place), what the service fills in stripped |
| `buildModifyMemoryStrategies`, `buildModifyStrategyInput`, `buildModifyStrategyConfiguration` | the adds, modifies and deletes by name |
| `Read`, `Create`, `Update` | `sdkFind` with the delta, `sdkCreate`, `sdkUpdate` with its guard |
| `Stored`, `Modified`, `Apply` | external: what the service stores, taken from what the hooks strip |

Assumed of the service: it fills a pair of namespaces from its partner or with a
default, gives an override its missing steps, changes only the fields a modification
has, refuses an unknown identifier (retried) and a name that is in use (terminal). The
names in a list are distinct (`ListsAssumption`); `semantic`, `summary` and
`userPreference` strategies are one type, since their code is the same line for line.
Some wishes cannot be granted by any call (`Unclearable`): another type under a name that
is in use, or the removal of a description, a prompt or a self-managed configuration; a
memory with such a wish updates for ever, and its other strategies are right all the same. Namespaces that
are removed from the spec are taken for the service's default and stay.

### ManagerFactory

The reconcilers' workers call `ManagerFor` from several goroutines; it is the one
place where two reconciles share state of the controller. State: `rmCache`; the lock
(`readers`, `pending`, `writer`); each worker's `pc`, what it asked for (`owner`) and
what it holds (`rm`); `built` counts the managers made. The actions are the lines of
`ManagerFor` in order: `RLock`, `Lookup`, `RUnlock` (which returns on a hit), `Lock`,
`NewResourceManager`, `Store`, the deferred `Unlock`. `Enter` is the grant of the write
lock; as with `sync.RWMutex` a reader does not overtake a writer that waits.
`newResourceManager` never fails, so its error path is not there. It composes with
`ResourceReconciler` through one assumption of the latter, that a reconcile works with
the manager of its own kind and account (`M`); `RightManager` is why it may.

`ManagerFor` does not look at the map again under the write lock: two workers that both
missed it both make a manager, and the second replaces the first. `ManagerCache` allows
that (`Make`), because a caller cannot tell: the first goes on with a manager for the
same account, region and role. `FewManagers` bounds how many there can be.

## Runs

| run | question | bounds |
|---|---|---|
| `reconcile_faults` | the safety properties, `LifecycleSpec`, `DeletionCompletes` and `EventuallyApplied` under every fault there is | the fifteen kinds, each with a field that brings out how it differs (by identifier, version or name, guarded or not, with and without tags, Update API, renamable); two of: 2 edits, 1 refusal, 1 lost answer, 1 crash, 1 call of somebody else, 1 failure |
| `reconcile_edits` | `EventuallyApplied`, `UpdatesEnd` | every kind, one field of each role; two of: 2 edits, 1 call of somebody else, 1 failure |
| `references` | the properties of `References` | a reference of each role in the fifteen kinds, and a gateway target with two at once, which begins with both as references; one edit, touch or error, and one return of a target; four resources |
| `tags` | the properties of `Tags` but `SpecHoldsNoAwsTags` | two user keys, one of the controller, one of AWS; three of: 2 edits, 1 refusal, 1 lost answer, 1 drift, 1 upgrade |
| `strategies` | the properties of `MemoryStrategies` | lists of up to two strategies, the second of any type but the built-in one, in name order and against it; a third name for others; two of: 1 edit, 1 drift, 1 refusal; six identifiers |
| `manager_factory` | the map is never raced, each worker gets its role's manager, few are made, every call returns, the whole is a cache | three workers, two roles, four calls |
| `finalizer_until_gone` | expected violation, see below | no faults |
| `stale_status` | expected violation | two edits, one crash |
| `runtime_reads` | expected violation | one call of somebody else |
| `tags_created` | expected violation | no faults |
| `runtime_rename` | expected violation | one edit |
| `references_certificate` | expected violation | nothing edited |

Why the bounds are enough. A wrong interleaving needs a fault and one thing that happens
before or after its retry, which is two occasions; the steps of the service, the user's
deletion and the resync are not counted. That safety holds for any number of them is
proved. Two resources too many need three identifiers (`MaxMade = 3`). The edit run has
no refusals, losses or crashes, which the fault run has, and takes one field at a time
because no function relates two fields except "anything but the tags differs",
which `policy_engine` with `Description` and `Tags` covers. References are independent
of one another but for the order in which they are resolved, which takes two: one that
names the resource and one that does not, in `gateway_target`; values and pairs of a
reference and a value are what each of the two begins with alone. A target that comes again
under another identifier, with an edit or a touch before or after, is the longest story one
reference has. Tags of one owner are treated alike, so two user keys (one changed, one not) and one of each
other owner are enough. Strategies are paired by name or by place, and two of them in either
order already tell the two apart; a list of two edited to another list of two gives every
combination of add, modify and delete, and with a stranger's a third. For the
manager factory, three workers give a reader, a writer and one that waits; a fourth call
sees the map after all three.

Deadlock is not checked: with its budgets spent and nothing due each system rests, as the
controller does.

Fairness. The worker is weakly fair (the queue hands out what is due and the worker
goes on), `Resync` is (the resync period, `helm/values.yaml:139`), and `Settle`
is (the service finishes what it accepts; of an operation that waits for an
authorisation, that somebody gives it or the service gives up, which is an assumption
about people and not about code). In `References`, the worker and `Resync`
are weakly fair as one, since never both are enabled, and so are `TargetReady` and
`TargetGoes` of all objects: they are the reconciles of the objects referred to, by the
same controllers. That says less than fairness for each object, and is enough: how often
one of them can become ready or go again has a bound. Users, faults and drift are not. The refusals that count
against a budget are finite, which stands for a service that does not refuse for ever. A
worker inside `ManagerFor` is weakly fair, which is the Go scheduler and the mutex's
promise that a waiting writer is served.

Each passing property has a mutant: a definition marked "slip:" in the module, which
is the one after it with a mistake that a change of the code could make, and which
TLC shows to break the property.

### Where the code and what is said of it part

* `finalizer_until_gone`: `sdkDelete` returns no error as soon as the service accepts
  the request, so the finalizer goes while the resource is still DELETING. The
  comment on `MarkManaged` says the object "may not be deleted until ACK is finished
  cleaning up". If that deletion fails later nothing retries it.
* `stale_status`: a tag-only `sdkUpdate` returns `desired`, with the status the object
  had before this reconcile. After a crash between an accepted Update and its status
  patch, a tag edit makes the object say Synced while the resource is UPDATING.
  The kinds this can happen to are excluded from `SyncedMeansSettled`.
* `runtime_reads`: the Get of an agent runtime names the version in the object's status
  (`agent_runtime/sdk.go:371-373`), so what is read is that version. An update made by
  somebody else makes a version that is never read, and the object goes on saying it is
  synced; so does one whose answer was lost, if the user takes the edit back before the
  update is sent again. The tags of a runtime are not read either: an
  edit of them is never seen and never sent. The generator's configuration keeps the same
  version out of the Delete request, where it did harm.
* `tags_created`: the `ReadOne` after a Create mirrors the tags of AWS into the view that
  `sdkCreate` returned, the snapshot has none of them, and the patch of the spec is the
  difference of the two. The comment on `mirrorAWSTags` says that they "aren't patched to
  the resource in the cluster". That the runtime filters system tags only on adoption is
  what this rests on: nothing in the repository calls `FilterSystemTags`.
* `runtime_rename`: `AgentRuntimeName` can be edited and is compared, and no request
  carries it: every reconcile updates, for ever. The same happens to the
  `EncryptionKeyARN` of a memory or policy engine that is removed and then set to
  another value, which the CRD's rule (it compares two values only when both are
  there) lets through. Such fields (`Unresolvable`) are left out of `reconcile_edits`.
* `references_certificate`: a code interpreter whose certificate names its secret by a
  `*Ref` is refused with a terminal error on its second reconcile: the list that was read has
  no `*Ref` in it, the lists differ, and `customUpdate` takes any difference but the tags'
  for an edit.

Limits the properties state rather than hide:

* An operation of somebody else may be under way when the controller calls
  (`NoCallInTransition`) and while an object says it is synced (`SyncedMeansSettled`):
  nothing tells the controller before its next read. Both properties speak of the
  operations the controller asked for itself.
* A failed update in a kind whose guard does not list UPDATE_FAILED is never mended
  (`EventuallyApplied` excludes it; the gateway's guard is the exception). A failed
  deletion of an agent runtime is never retried (`DeletionCompletes` excludes it).
* A terminal error stops an object until it is edited. Among those of a memory is
  ConflictException, which is also how the service answers a call that meets somebody
  else's operation.
* `NothingLeftBehind` and `LifecycleSpec` count a resource as gone when its deletion was
  accepted; that it may fail afterwards is only in `finalizer_until_gone`.
* Fields no request carries are outside `Reconcilable` (a browser's `customUpdate` drops
  such edits and says synced), and a field the user leaves unset is the service's to
  choose (`AsAsked`).
* Of an agent runtime, `AsAsked` speaks of the version the object names. That it is the
  latest is asked (`Applied`) unless a version was made without the controller's
  knowledge; tags are not `Reconcilable`, since they are not read.

## Proofs

Every invariant and every action property of the passing runs is a theorem, and so are the two
refinements: TLC shows each on a small instance, the theorem for every value of the
constants that satisfies the named assumptions of its module. The runs evaluate them: those of
`ResourceReconciler` for all fifteen kinds, those of `References` for every reference of
every kind. What they say of the constants:

| assumption | why the code justifies it |
|---|---|
| `ManagersAssumption`, `SubjectsAssumption`, `BoundsAssumption`, `OwnersAssumption` | types |
| `LifeAssumption` | the statuses of each kind's enum in `apis/v1alpha1/enums.go`: nothing is at the same time being made and failed, or being deleted and kept |
| `NamesAssumption` | what `newDescribeRequestPayload` names a resource by, `newCreateRequestPayload` sends, and the service does not choose; a version is asked for by identifier |
| `FieldsAssumption` | a field that is read, compared and patched is also in the Create request; what `customPostCompare` waives, the service defaults; a kind without `SyncTags` does not compare tags, and the one that is read by version does not read them |
| `SyncedAssumption` | no `IsSynced` lists a status of an operation that is under way |
| `EnsuresAssumption` | `EnsureReferences` names every reference inside a struct |
| `RefusesAssumption` | a pair that `validateReferenceFields` refuses is one `ClearResolvedReferences` clears; a reference that is required is not in a list, and its value comes back from a Create or Update as it was sent |
| `KeysAssumption` of `References` | the reference a resource is named by is a field of its own, is sent with the Create, and no other one is resolved before it |
| `ListsAssumption` | the names in a list of strategies are distinct |
| `KeysAssumption` of `Tags` | the tags of the user, the controller and AWS have different keys |
| `CallersAssumption`, `NobodyAssumption` | there are finitely many workers, and "nobody" is neither a worker nor a manager |

### One resource and its object

`ResourceReconciler_proofs`, about every table of managers, every set of tracked fields and
all bounds:

* `TypeCorrect`: `Spec => []TypeOK`. Inductive with `InOrder` (live identifiers were
  given out, so a Create never lands on one) and `TagStep` (the tags are synchronised
  only of a resource that was read). One lemma per group of actions, each reduced to
  what the action changes by `TypeOfWorker`, `TypeOfService` or `TypeOfCall`.
* `NamesAreUnique`: `Spec => []NamedOnce`. `NamedOnce` alone is not inductive: a Create
  needs to know that nothing has the names. `NothingFound` says so of the steps between
  the lookup and the Create; it survives because every other step keeps the names
  (`NamesKept`): no update carries a key field and no deleted resource comes back.
* `CallsAreGuarded`: `Spec => []NoCallInTransition`. The guard looks at an old status, and
  anybody may have called since. `StatusIsRead` says that an operation of the controller's
  own that is under way at the call (`Busy`) already was when the status was read, so the
  guard has seen it: such an operation begins only with a call of this worker, and every
  other step leaves it or ends it (`StatusesRest`), an operation of somebody else being
  accepted only once it has ended. It uses `NamesAreUnique`'s invariant, because a kind
  found by name must find the same resource twice.
* `ResourceKept`: `Spec => NeverForgotten`. The status patch is the one step that changes
  the identifier, and it takes it from a view built some calls earlier. `Remembered` says
  what views carry as long as no name was edited: they go by the names of the object, the
  identifier in them belongs to a resource of those names, and if it is not the
  object's, that one is gone (`Carries`, `Lost`). It holds through a lookup because a
  live resource of the object is what the lookup finds: by identifier trivially, by name
  through `NamesAreUnique`'s invariant. It holds through a Create because one is tried
  only after a lookup found nothing.

`ResourceLifecycle_proofs` counts, which nothing in the code does:

* `ResourcesAreFew`: `Spec => []AtMostOneLive`. A view of the resource leads to at most one
  (`AllButOneStray`), and the others, its `Strays`, must be paid for by `Excuses`
  (`StraysPaid`). Which view that is changes: between reconciles the object's, during one
  the worker's `latest`. An edit of the names during a reconcile makes the two differ, and
  is `Owed` until the reconcile is over: the edit is counted at once, and what it hides shows
  only later. When a lookup has found nothing all that lives is a stray, so a Create adds
  the one that is free (`AlivePaid`).
* `NothingIsLeft`: `Spec => []NothingLeftBehind`. Where the finalizer is off, or about to
  be taken off, what is kept is paid for (`KeptPaid`): it comes off after a lookup that
  found nothing, or after a deletion that was accepted. `Finalized` says that the finalizer
  is there for every call that needs it. No update brings back what anybody asked to
  delete, because the service accepts none of it (`MayUpdate`).
* `LifecycleKept`: `Spec => LifecycleSpec`, from both: every step is a step of
  `ResourceLifecycle` or changes nothing of it.

`ResourceSynced_proofs` is about what the object says:

* `SyncedIsApplied`: `Spec => []SyncedMeansApplied`. The user may edit the object at any
  step of a reconcile, so no stage of it says anything of the object. The invariant is about
  the snapshot: in the stages that compare, the view has what the service has
  (`ViewIsTrue`), and once the worker is `Closing` without an error the resource has what
  the snapshot wants (`Brought`). The object is the snapshot as long as nothing is queued
  (`SnapshotIsCurrent`). All of it is said of what a Get with the view's version shows
  (`WantedAt`, `SeenAt`), since a view may name an older version than the snapshot's
  (`AlikeAt`). As long as nobody else calls, only an object that is being deleted has a
  resource that is on its way out (`Spared`).
* `SyncedIsSettled`: `Spec => []SyncedMeansSettled`. If an operation of the controller's own
  is under way, the status the object is going to show says that one is (`ShownIsRead`),
  and no such status counts as synced (`SyncedAssumption`). This takes `StatusIsRead`
  through the views that `Confirm` and `Update` build, and a kind in which `sdkUpdate` is
  only reached for a difference an update is for (`UpdateHasReason`); the kinds of
  `stale_status` are the others. Others may call at any moment; what they set going the
  object does not show before its next read, and the property does not promise it.

### References

`References_proofs`:

* `ReferencesStay`: `Spec => ReferencesKept`. The patch is the difference of two views, so
  what counts is that neither lost a `*Ref` that is not in a list: those at the top
  survive every view (`TopKept`, `RebuiltKeepsTop`), those in a struct are put back by
  `Ensured` before the patch (`PatchKeeps`).
* `ReferencesStayValid`: `Spec => StaysValid`. At the patch the view has no `*Ref` the
  snapshot has not, and where one of a pair is required the snapshot's value
  (`NothingNew`); what is beside a `*Ref` is cleared. With the user's edits left out that
  the snapshot cannot know of, the patch is right for each reference by itself, with any
  number of edits of others.

`ReferencesLeft_proofs`:

* `NothingElseIsLeft`: `Spec => LeftOnlyUnresolved`. Without an edit the snapshot has the
  object's `*Ref`s (`Snapped`). A key that is resolved so far names every resource there is
  (`SoFar`), whatever happens to its target afterwards: a target that comes again has
  another identifier (`LivesCounted`), and the resources named by the first go with the
  first. A resource with an identifier of its own is the one the status shows or is about
  to show (`Shown`). So a deletion that got through the keys finds what there is (`ToGo`).
  The keys are resolved before anything else (`KeysAssumption`), so what is unresolved
  when nothing is found is one of them.

### Tags

`Tags_proofs`, for all sets of keys, faults and upgrades:

* `AwsTagsSafe`: `Spec => []AwsTagsLeftAlone`, from `Mirrored`: between the read and the
  calls the snapshot and what was read agree on the tags of AWS, whatever the service
  has meanwhile.
* `SpecIsTheUsers`: `Spec => SpecHoldsUserTags`. The patch is the difference of the view
  from the snapshot, so what counts is that the two agree, at the patch, in every tag that
  is not of AWS, through the copies that Create and Update return and the mirroring that
  follows a Create. No tag of the controller is in the spec to begin with, adoption filters
  them out, and none is in the difference.
* `SyncedTagsAreReal`: `Spec => []SyncedTagsAreThere`. As long as nobody changes the tags
  past the controller, what was read is what there is until the first call (`Known`), the
  snapshot is that of the spec unless another reconcile is due (`Current`), so after both
  calls the tags are as wanted (`Rested`).

### Strategies

`MemoryStrategies_proofs`, for all lists, types and values:

* `StrategiesKept`: `Spec => WantedStrategiesKept`. The plan deletes an identifier only under a
  name that is not in the spec, and what was read maps a name to the identifier it has:
  identifiers are never given out twice and keep their names (`IdsTrue`), so this still
  holds when the call arrives, whatever others added or deleted.
* `UpdatesHaveSomething`: `Spec => []DifferenceMeansPlan`. If the plan had nothing in it, the
  two lists would have the same names, each once (`NamesApart`: the service refuses a name
  in use, and what is added in one call has the names of one list). Then the strategies the
  comparison pairs by their places are pairs of one name (`PlaceIsName`, counting the names
  before it), and a pair that differs is a modification.

### Managers

`ManagerFactory_proofs`, for every finite set of workers, every set of owners and any number
of calls:

* `FactoryTypeCorrect`: `Spec => []TypeOK`.
* `MapGuarded`: `Spec => []MapIsGuarded`, from the lock's invariant: a worker is a reader
  exactly between `RLock` and `RUnlock` (`Readers`), is the writer exactly between
  `Enter` and `Unlock` (`Writer`), and there are never both (`Apart`).
* `ManagersAreRight`: `Spec => []RightManager`. What is found under an identifier was
  made for it (`Filed`), and an identifier has one owner (`IdIsOwner`).
* `ManagersAreFew`: `Spec => []FewManagers`. Until one is kept at most one is made, under the
  write lock (`NoneKept`). From then on only a worker that has `Missed` makes another: its
  lookup found nothing and it waits for the lock, or has it. No worker comes to be one of those
  any more, and each stops being one when it makes its manager, so what was made and those
  who are still to make one are together no more than the workers (`OneKept`).
* `FactoryIsCache`: `Spec => CacheSpec`, the refinement: a worker's lookup that hits is
  `Take`, its store is `Make`, its last unlock is `Return`, and every other line is a
  stutter.

### What the proofs changed in the model

* `Compare` was a CASE with overlapping arms, whose meaning TLA+ leaves open; it is now an
  IF in the order of the code.
* `StaysValid` was false with two edits (above).
* `ResolveReference` took the next `*Ref` of a filtered sequence; it takes the least place
  that waits. `compareMemoryStrategies` sorted; it counts the names before a strategy's,
  since the prover has no definition of `SortSeq`.

Only model-checked is what the prover cannot express: liveness, which needs fairness and
ENABLED (`EventuallyApplied`, `UpdatesEnd`, `DeletionCompletes`, `FollowsTarget`,
`TargetsGo`, `TagsSettle`, `TagCallsEnd`, `StrategiesSettle`, `Returns`). No module uses
RECURSIVE operators.

## Plan

The modules planned are written, and the invariants, action properties and refinements they
state are proved. What is left, in this order:

1. The safety half of the liveness properties, as far as it says something by itself: that
   each attempt at an update leaves less to do (`EventuallyApplied`), that a plan of
   strategies leaves no difference a plan can mend (`StrategiesSettle`).
2. The inside of the fields that are defaulted leaf by leaf (agent runtime) and the
   comparison of a gateway target's tool schemas, as functions.

## Not modelled

* Generated deep copies (`zz_generated.deepcopy.go`): copying with no decision in it. The
  type declarations and enums of `apis/v1alpha1` count as modelled only where a spec's
  fields, rules and statuses come from them.
* The structure inside a field: payload builders copy it leaf by leaf, and the model
  follows which fields they copy. Exceptions are references, tags and strategies.
* The schema comparison of gateway target tools and the wrappers of a harness's Update
  request: they change the shape of a request or decide equality of one nested value.
* The target version of a harness endpoint after a failed move
  (`harness_endpoint/hooks.go:65`): what the service answers then is not in the
  repository.
* What a browser promises for edits no API carries (`browser/hooks.go:44`).
* A read after a Create that does not see the resource yet: the model's service answers a
  Get with what it has. A version of an agent runtime that was deleted by itself.
* Adoption but for its tags; field export; deployment manifests, the code generator's
  inputs, process start-up and leader election, metrics and logging, end-to-end tests.

`PROJECT.json` lists every component with its reason.
