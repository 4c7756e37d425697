------------------------- MODULE ResourceReconciler -------------------------
(***************************************************************************)
(* One custom resource, the controller that reconciles it, and the service *)
(* that keeps what it describes.                                           *)
(*                                                                         *)
(* The kind of the resource and the spec fields the model follows are      *)
(* chosen by Init; the manager of that kind (ManagerTypes) says what each  *)
(* call carries, admits and refuses.  Each call to the service or to the   *)
(* API server is a step of its own: a user's edit, a step of the service   *)
(* or a crash may come between any two of them.                            *)
(*                                                                         *)
(* pkg/resource/<kind>/manager.go and sdk.go are in the repository.  The   *)
(* loop that calls them (the ACK runtime, a library), the API server and   *)
(* the service are not: they are modelled by what the code relies on.      *)
(*                                                                         *)
(* A definition marked "slip:" stands just before the one it departs from, *)
(* and nothing uses it.  It is that definition with a mistake a change of  *)
(* the code could make; a property that lets it pass would say little.     *)
(***************************************************************************)
EXTENDS Naturals, FiniteSets, ManagerTypes

CONSTANTS
  Managers,    \* kind -> its manager
  Subjects,    \* what Init chooses from: [kind, tracked (spec fields)]
  Codes,       \* error codes with which the service may refuse any call
  MaxMade,     \* resources the account's quota admits
  Budget,      \* how often each thing below may happen
  MaxTogether  \* and how many of them in one behaviour

Kinds  == DOMAIN Managers
Values == 0..2              \* 0: the field is not set
Default == 2                \* what the service sets a field of M.defaults to
Ids    == 1..MaxMade

(* What a run bounds: edits of the spec; errors answered by the service;    *)
(* losses, calls that took effect and whose answer never came; crashes of   *)
(* the controller; drifts, calls of somebody else that the service accepted; *)
(* failures of an operation the service had accepted.  rekeys counts the    *)
(* edits of a field that is part of the Get request.                        *)
Occasions ==
  {"edits", "rekeys", "errors", "losses", "crashes", "drifts", "failures"}

ASSUME ManagersAssumption == Managers \in [Kinds -> Manager]
ASSUME SubjectsAssumption ==
  \A s \in Subjects :
    s.kind \in Kinds /\ s.tracked \subseteq Managers[s.kind].spec.fields
ASSUME BoundsAssumption ==
  MaxMade \in Nat /\ MaxTogether \in Nat /\ Budget \in [Occasions -> Nat]
(* Absent and Gone are no statuses the service reports; only a deletion that *)
(* is immediate ends in Gone.  A failed operation is over.  The statuses of  *)
(* a deletion, and that of one that failed, say nothing else.                *)
ASSUME LifeAssumption ==
  \A k \in Kinds :
    LET life     == Managers[k].life
        starts   == {life.creating, life.updating, life.busy}
        later    == {s.as : s \in life.shows}
        failures == {life.createFailed, life.updateFailed, life.busyFailed}
    IN
    /\ (starts \cup later \cup failures \cup {life.active, life.deleteFailed})
         \cap {Absent, Gone} = {}
    /\ life.deleting # Absent
    /\ (failures \cup {life.deleteFailed})
         \cap ((starts \cup later \cup {life.deleting}) \ {life.active}) = {}
    /\ life.deleting \notin starts \cup later \cup {life.active}
    /\ later \cap (starts \cup {life.active}) = {}
    /\ \A s \in life.shows : s.op \in (starts \cup {life.deleting}) \ {life.active, Gone}
    /\ \A s, t \in life.shows : s.as = t.as => s.op = t.op
    /\ life.deleteFailed # Nil => life.deleteFailed \notin failures \cup {life.active}
(* What names a resource is part of the request that creates it, and is     *)
(* never the service's to choose; a version is asked for by identifier.     *)
ASSUME NamesAssumption ==
  \A k \in Kinds : /\ Managers[k].key.fields \subseteq Managers[k].sends
                   /\ Managers[k].key.fields \cap Managers[k].defaults = {}
                   /\ "Tags" \notin Managers[k].key.fields
                   /\ Managers[k].key.versioned => Managers[k].key.fields = {}
(* What is read back, compared and updated is part of the request that      *)
(* creates the resource; a difference that is waived is one the service     *)
(* makes up for.  A kind that does not synchronise tags does not compare    *)
(* them, and one that asks for a version does not read them.                *)
ASSUME FieldsAssumption ==
  \A k \in Kinds :
    LET m        == Managers[k]
        followed == m.reads \cap m.compares \cap (m.patches \cup {"Tags"})
    IN  /\ followed \subseteq m.sends /\ followed \cap m.waived \subseteq m.defaults
        /\ m.update.tagged \/ "Tags" \notin m.compares
        /\ m.key.versioned => "Tags" \notin m.reads
(* IsSynced takes no status for synced that the service will move on from.  *)
ASSUME SyncedAssumption ==
  \A k \in Kinds : LET life == Managers[k].life IN
    Managers[k].synced
      \cap (({life.creating, life.updating, life.deleting, life.busy}
               \cup {s.as : s \in life.shows}) \ {life.active, Gone}) = {}

VARIABLES
  kind, tracked,  \* the subject; never change
  cr,             \* the object the API server holds
  queued,         \* a reconcile of it is due
  pc,             \* what the worker does next
  desired,        \* the worker's snapshot of the object
  latest,         \* the worker's view of the resource, built call by call
  err,            \* how the reconcile has gone: "ok", "retry" or "terminal"
  aws,            \* id -> the resource the service keeps under it
  made,           \* how many resources were ever created; ids are 1..made
  spent           \* how often each of the Occasions happened

subject    == <<kind, tracked>>
controller == <<pc, desired, latest, err>>
service    == <<aws, made>>
vars == <<subject, cr, queued, controller, service, spent>>

M    == Managers[kind]
Life == M.life

-----------------------------------------------------------------------------
(* The service.                                                             *)

Vals  == [tracked -> Values]
Unset == [f \in tracked |-> 0]
Blank == [val |-> Unset, id |-> 0, ver |-> Unset, status |-> Nil]

(* The part of a spec that names a resource to the service. *)
Key(val) == [f \in tracked \cap M.key.fields |-> val[f]]

Live(i) == aws[i].st \notin {Absent, Gone}

(* The statuses an operation is shown as; somebody has to authorise one in  *)
(* a PENDING_AUTH status, and it ends when they do or when the service      *)
(* gives up.                                                                *)
Stages(op) == {op} \cup {s.as : s \in {t \in Life.shows : t.op = op}}

InFlight(st) ==
  st \in ({Life.creating, Life.updating, Life.deleting, Life.busy}
           \cup {s.as : s \in Life.shows}) \ {Life.active, Gone}

(* Asked to be deleted, whether or not it came to that. *)
Leaving(st) == st \in (Stages(Life.deleting) \cup {Life.deleteFailed}) \ {Life.active}

(* The resources a Get with the identifiers of this view returns. *)
Found(view) ==
  {i \in Ids : /\ Live(i)
               /\ Key(aws[i].val) = Key(view.val)
               /\ M.key.needsID => i = view.id}

(* What a Get with the version of this view returns of it.  The versions of *)
(* a resource never change, so that a version is the values it holds; with  *)
(* none named, it is the latest.                                            *)
Shown(view, i) ==
  IF M.key.versioned /\ view.ver # Unset THEN view.ver ELSE aws[i].val

(* The version an answer with these values names. *)
Version(val) == IF M.key.versioned THEN val ELSE Unset

(* A resource's values after a request that carries these fields. *)
Overlay(fields, from, onto) ==
  [f \in tracked |-> IF f \in fields THEN from[f] ELSE onto[f]]

Together ==
  spent.edits + spent.errors + spent.losses + spent.crashes + spent.drifts
              + spent.failures

Spend(occasion) ==
  /\ spent[occasion] < Budget[occasion] /\ Together < MaxTogether
  /\ spent' = [spent EXCEPT ![occasion] = @ + 1]

(* A resource in this status, with these values; other: what is under way   *)
(* was asked for by somebody else.  The code has no such knowledge, only    *)
(* properties use it.                                                       *)
Put(st, val, other) == [st |-> st, val |-> val, other |-> other /\ InFlight(st)]

(* An accepted operation ends. *)
Settle(i) ==
  /\ InFlight(aws[i].st)
  /\ aws' = [aws EXCEPT ![i] =
       Put(IF @.st \in Stages(Life.deleting) THEN Gone ELSE Life.active, @.val, FALSE)]
  /\ UNCHANGED <<cr, queued, controller, made, spent>>

(* It is shown as another of its statuses. *)
Proceed(i) ==
  /\ \E s \in Life.shows : /\ s.op = aws[i].st
                           /\ aws' = [aws EXCEPT ![i] = Put(s.as, @.val, @.other)]
  /\ UNCHANGED <<cr, queued, controller, made, spent>>

(* An accepted operation fails; kinds without a failed status never do, nor *)
(* does a deletion that is past the first of its statuses.                  *)
FailedFrom(st) ==
  CASE st \in Stages(Life.creating) -> Life.createFailed
    [] st \in Stages(Life.updating) -> Life.updateFailed
    [] st \in Stages(Life.busy)     -> Life.busyFailed
    [] st = Life.deleting           -> Life.deleteFailed
    [] OTHER                        -> Nil

FailSettle(i) ==
  /\ InFlight(aws[i].st)
  /\ FailedFrom(aws[i].st) # Nil
  /\ Spend("failures")
  /\ aws' = [aws EXCEPT ![i] = Put(FailedFrom(@.st), @.val, FALSE)]
  /\ UNCHANGED <<cr, queued, controller, made>>

(* The service accepts no call but TagResource while an operation is under  *)
(* way, and nothing but another Delete once a deletion has failed.          *)
MayUpdate(i) == ~InFlight(aws[i].st) /\ ~Leaving(aws[i].st)

(* Somebody else's call is accepted: an Update that changes a field, an     *)
(* operation that changes none the model follows, or a Delete.              *)
Drift(i) ==
  /\ Live(i) /\ ~InFlight(aws[i].st)
  /\ Spend("drifts")
  /\ \/ /\ MayUpdate(i)
        /\ \E f \in (tracked \cap M.patches) \ M.key.fields, v \in Values \ {0} :
             aws' = [aws EXCEPT ![i] = Put(Life.updating, [@.val EXCEPT ![f] = v], TRUE)]
     \/ /\ MayUpdate(i)
        /\ \E op \in {Life.updating, Life.busy} :
             op # Life.active /\ aws' = [aws EXCEPT ![i] = Put(op, @.val, TRUE)]
     \/ aws' = [aws EXCEPT ![i] = Put(Life.deleting, @.val, TRUE)]
  /\ UNCHANGED <<cr, queued, controller, made>>

-----------------------------------------------------------------------------
(* The user.  The API server refuses to leave a required field unset, and   *)
(* to change an immutable one from one value to another; it lets one be set *)
(* late or removed, since its rule compares two values only when both are   *)
(* there.  A mutable field, once set, is not cleared: what the absence of a *)
(* field in an Update request means is for the service to say.              *)

MaySet(f, old, new) ==
  /\ new = 0 => f \in M.spec.immutable /\ f \notin M.spec.required
                                       /\ f \notin M.key.fields
  /\ f \in M.spec.immutable => old = 0 \/ new = 0

EditSpec(f) ==
  /\ cr.present /\ ~cr.deleting
  /\ \E v \in Values \ {cr.val[f]} :
       /\ MaySet(f, cr.val[f], v)
       /\ cr' = [cr EXCEPT !.val[f] = v]
  /\ spent.edits < Budget["edits"] /\ Together < MaxTogether
  /\ f \in M.key.fields => spent.rekeys < Budget["rekeys"]
  /\ spent' = [spent EXCEPT !.edits = @ + 1,
                 !.rekeys = @ + IF f \in M.key.fields THEN 1 ELSE 0]
  /\ queued' = TRUE
  /\ UNCHANGED <<controller, service>>

(* The object stays until its finalizer, if it has one, is removed. *)
DeleteCR ==
  /\ cr.present /\ ~cr.deleting
  /\ cr' = [cr EXCEPT !.deleting = TRUE, !.present = cr.finalizer]
  /\ queued' = TRUE
  /\ UNCHANGED <<controller, service, spent>>

-----------------------------------------------------------------------------
(* The controller.                                                          *)

(* How terminalAWSError and updateConditions class an error. *)
Class(code) == IF code \in M.terminal THEN "terminal" ELSE "retry"

(* What sdkFind makes of a Get response: a copy of the view it was given,   *)
(* with the fields it reads.                                                *)
(* slip: the fields that are not read are not copied either                 *)
ObservedFromNothing(view, i) ==
  [val    |-> [f \in tracked \cap M.reads |-> Shown(view, i)[f]],
   id     |-> i,
   ver    |-> Version(Shown(view, i)),
   status |-> aws[i].st]
(* slip: the status is the one the view had *)
ObservedKeepsStatus(view, i) ==
  [val    |-> Overlay(M.reads, Shown(view, i), view.val),
   id     |-> i,
   ver    |-> Version(Shown(view, i)),
   status |-> view.status]
Observed(view, i) ==
  [val    |-> Overlay(M.reads, Shown(view, i), view.val),
   id     |-> i,
   ver    |-> Version(Shown(view, i)),
   status |-> aws[i].st]

(* newResourceDelta and customPostCompare.                                  *)
(* slip: only a field that has to be there is compared *)
DiffersIfRequired(f) ==
  f \in tracked \cap M.compares \cap M.spec.required /\ desired.val[f] # latest.val[f]
DiffersAt(f) ==
  /\ f \in tracked \cap M.compares /\ desired.val[f] # latest.val[f]
  /\ f \in M.waived => desired.val[f] # 0
DiffersElsewhere == \E f \in tracked \ {"Tags"} : DiffersAt(f)
Differs          == \E f \in tracked : DiffersAt(f)

At(step)   == pc = step
Goto(step) == pc' = step

(* The reconcile stops here with an error; the status is still patched. *)
StopWith(class) == err' = class /\ Goto("patchStatus")

(* The service refuses a call, which has no effect. *)
Refused == Spend("errors") /\ \E c \in Codes : StopWith(Class(c))

(* The worker takes the object from the queue.  What its conditions said is *)
(* forgotten here and computed anew.                                        *)
Reconcile ==
  /\ At("idle") /\ queued /\ cr.present
  /\ Goto(IF cr.deleting THEN "readToDelete" ELSE "read")
  /\ desired' = [val |-> cr.val, id |-> cr.id, ver |-> cr.ver, status |-> cr.status]
  /\ latest' = desired'
  /\ err' = "ok"
  /\ queued' = FALSE
  /\ UNCHANGED <<cr, service, spent>>

(* The worker finds that the object went away while it was queued. *)
Forget ==
  /\ At("idle") /\ queued /\ ~cr.present
  /\ queued' = FALSE
  /\ UNCHANGED <<cr, controller, service, spent>>

(* Without the identifiers of the Get request sdkFind asks nobody: the       *)
(* resource is not found.                                                   *)
requiredFieldsMissing(view) == M.key.needsID /\ view.id = 0

(* sdkFind fails; the object keeps the status it has. *)
(* slip: only the answer to "not found" may lead to a Create *)
AnyErrorIsNotFound ==
  /\ ~requiredFieldsMissing(desired)
  /\ Spend("errors") /\ Goto(IF cr.finalizer THEN "create" ELSE "manage")
  /\ UNCHANGED <<latest, err>>
(* slip: an empty view is handed on with the error *)
FailureForgets ==
  ~requiredFieldsMissing(desired) /\ Refused /\ latest' = Blank
ReadFails ==
  ~requiredFieldsMissing(desired) /\ Refused /\ UNCHANGED latest

(* ReadOne before a sync: sdkFind, and the comparison that follows it. *)
ReadOne ==
  /\ At("read")
  /\ \/ \E i \in Found(desired) :
          /\ latest' = Observed(desired, i)
          /\ UNCHANGED spent
          /\ IF ~cr.finalizer THEN StopWith("terminal")
             ELSE UNCHANGED err /\ Goto("compare")
     \/ /\ Found(desired) = {}
        /\ Goto(IF cr.finalizer THEN "create" ELSE "manage")
        /\ UNCHANGED <<latest, err, spent>>
     \/ ReadFails
  /\ UNCHANGED <<cr, queued, desired, service>>

(* What follows when the resource is as the snapshot has it.                *)
Last == IF M.late = {} THEN "patchStatus" ELSE "lateInit"

(* The delta decides what is to be done with what was read. *)
Compare ==
  /\ At("compare")
  /\ Goto(IF M.update.tagged /\ "Tags" \in tracked /\ DiffersAt("Tags") THEN "tags"
          ELSE IF Differs THEN "update" ELSE Last)
  /\ UNCHANGED <<cr, queued, desired, latest, err, service, spent>>

(* The finalizer goes onto the object before anything is created.  An       *)
(* object that was deleted meanwhile, having none, is gone.                 *)
MarkManaged ==
  /\ At("manage")
  /\ IF cr.present
     THEN cr' = [cr EXCEPT !.finalizer = TRUE] /\ Goto("create")
     ELSE UNCHANGED cr /\ Goto("patchStatus")
  /\ UNCHANGED <<queued, desired, latest, err, service, spent>>

(* The service accepts a Create request, and fills in what it leaves out.   *)
Filled(val) == [f \in tracked |-> IF f \in M.defaults /\ val[f] = 0 THEN Default ELSE val[f]]
Creates ==
  /\ made < MaxMade
  /\ made' = made + 1
  /\ aws' = [aws EXCEPT ![made'] =
       Put(Life.creating, Filled(Overlay(M.sends, desired.val, Unset)), FALSE)]

(* The view sdkCreate returns is the snapshot, with the identifier, the     *)
(* version, the status and the fields of the response.                      *)
(* slip: the identifier of the response is dropped *)
CreatedUnnamed ==
  [val    |-> Overlay(M.echoes, aws'[made'].val, desired.val),
   id     |-> desired.id,
   ver    |-> Version(aws'[made'].val),
   status |-> aws'[made'].st]
Created ==
  [val    |-> Overlay(M.echoes, aws'[made'].val, desired.val),
   id     |-> made',
   ver    |-> Version(aws'[made'].val),
   status |-> aws'[made'].st]

(* sdkCreate: answered, lost, or refused. *)
Create ==
  /\ At("create")
  /\ \/ /\ Creates
        /\ latest' = Created
        /\ Goto("confirm")
        /\ UNCHANGED <<err, spent>>
     \/ /\ Creates /\ Spend("losses")
        /\ err' = "retry" /\ Goto("unmanage")
        /\ UNCHANGED latest
     \/ /\ \/ Spend("errors") /\ \E c \in Codes : err' = Class(c)
           \/ made = MaxMade /\ err' = "retry" /\ UNCHANGED spent
        /\ Goto("unmanage")
        /\ UNCHANGED <<latest, service>>
  /\ UNCHANGED <<cr, queued, desired>>

(* A Create that failed before the resource existed gives the object back: *)
(* only an error wrapped by WrapPostCreateError keeps the finalizer.        *)
MarkUnmanaged ==
  /\ At("unmanage")
  /\ cr' = [cr EXCEPT !.finalizer = FALSE, !.present = ~cr.deleting]
  /\ Goto("patchStatus")
  /\ UNCHANGED <<queued, desired, latest, err, service, spent>>

(* The view Create returned, with the status that was read. *)
Confirmed(i) == [latest EXCEPT !.id = i, !.status = aws[i].st,
                              !.ver = Version(Shown(latest, i))]

(* slip: a resource that cannot be read yet counts as not created *)
ConfirmOrUnmanage ==
  /\ At("confirm")
  /\ \/ \E i \in Found(latest) :
          /\ latest' = Confirmed(i)
          /\ Goto("patchSpec")
          /\ UNCHANGED <<err, spent>>
     \/ /\ Found(latest) = {} /\ err' = "retry" /\ Goto("unmanage")
        /\ UNCHANGED <<latest, spent>>
     \/ Spend("errors") /\ err' = "retry" /\ Goto("unmanage") /\ UNCHANGED latest
  /\ UNCHANGED <<cr, queued, desired, service>>
(* ReadOne after a Create, of the view Create returned: its status is what  *)
(* the object will show.                                                    *)
Confirm ==
  /\ At("confirm")
  /\ \/ \E i \in Found(latest) :
          /\ latest' = Confirmed(i)
          /\ Goto("patchSpec")
          /\ UNCHANGED <<err, spent>>
     \/ /\ Found(latest) = {} /\ StopWith("retry")
        /\ UNCHANGED <<latest, spent>>
     \/ Refused /\ UNCHANGED latest
  /\ UNCHANGED <<cr, queued, desired, service>>

(* syncTags, the first thing sdkUpdate and the customUpdates do. *)
SyncTags ==
  /\ At("tags")
  /\ \/ /\ Live(latest.id)
        /\ aws' = [aws EXCEPT ![latest.id].val["Tags"] = desired.val["Tags"]]
        /\ \/ Goto("update") /\ UNCHANGED <<err, spent>>
           \/ Spend("losses") /\ StopWith("retry")
     \/ ~Live(latest.id) /\ StopWith("retry") /\ UNCHANGED <<aws, spent>>
     \/ Refused /\ UNCHANGED aws
  /\ UNCHANGED <<cr, queued, desired, latest, made>>

(* sdkUpdate with nothing but tags to change returns the snapshot itself; a *)
(* customUpdate returns the snapshot with the status that was read.         *)
NothingElse ==
  /\ ~DiffersElsewhere
  /\ latest' = IF M.update.mode = "api" THEN desired
               ELSE [latest EXCEPT !.val = desired.val]
  /\ Goto("patchSpec")
  /\ UNCHANGED <<err, aws, spent>>

(* The customUpdates of the kinds without an Update API. *)
CustomUpdate ==
  /\ DiffersElsewhere
  /\ \/ /\ M.update.mode = "tagsOnly"
        /\ latest' = [latest EXCEPT !.val = desired.val]
        /\ Goto("patchSpec")
        /\ UNCHANGED err
     \/ M.update.mode = "refuse" /\ StopWith("terminal") /\ UNCHANGED latest
  /\ UNCHANGED <<aws, spent>>

(* The guard of sdkUpdate: come back when the status admits an update. *)
NotUpdatable ==
  /\ DiffersElsewhere /\ M.update.mode = "api"
  /\ latest.status \notin M.update.updatable
  /\ StopWith("retry")
  /\ UNCHANGED <<latest, aws, spent>>

(* The fields newUpdateRequestPayload puts into the request: those it names *)
(* the resource by change nothing, and tags travel in calls of their own.   *)
Carried == M.patches \ (M.key.fields \cup {"Tags"})

(* A field the service sets by itself keeps its value if the request leaves *)
(* it out.                                                                  *)
Sent == {f \in tracked \cap Carried : f \in M.defaults => desired.val[f] # 0}

(* The request is addressed by the snapshot's names and identifiers. *)
UpdateCall(i) ==
  /\ DiffersElsewhere /\ M.update.mode = "api"
  /\ latest.status \in M.update.updatable
  /\ i \in Found(desired) /\ MayUpdate(i)
  /\ aws' = [aws EXCEPT ![i] =
               Put(Life.updating, Overlay(Sent, desired.val, @.val), FALSE)]
  /\ \/ /\ latest' = [val    |-> Overlay(M.update.returns, aws'[i].val, desired.val),
                      id     |-> i,
                      ver    |-> Version(aws'[i].val),
                      status |-> aws'[i].st]
        /\ Goto("patchSpec")
        /\ UNCHANGED <<err, spent>>
     \/ Spend("losses") /\ StopWith("retry") /\ UNCHANGED latest

(* The service turns an Update down: for a reason of its own, because the   *)
(* resource is in transition, or because it is no longer there.             *)
UpdateRefused ==
  /\ DiffersElsewhere /\ M.update.mode = "api"
  /\ latest.status \in M.update.updatable
  /\ \/ Refused
     \/ /\ \E i \in Found(latest) : ~MayUpdate(i)
        /\ StopWith(Class("ConflictException")) /\ UNCHANGED spent
     \/ /\ Found(latest) = {}
        /\ StopWith(Class("ResourceNotFoundException")) /\ UNCHANGED spent
  /\ UNCHANGED <<latest, aws>>

Update ==
  /\ At("update")
  /\ NothingElse \/ CustomUpdate \/ NotUpdatable \/ UpdateRefused
                 \/ \E i \in Ids : UpdateCall(i)
  /\ UNCHANGED <<cr, queued, desired, made>>

(* A merge patch of what one view has different from another: it overwrites *)
(* an edit made meanwhile to the same field, the API server holds it to the *)
(* rule on immutable fields, and the change it makes is an event like a     *)
(* user's.                                                                  *)
MergePatch(from, to, step) ==
  LET new == [f \in tracked |-> IF to[f] # from[f] THEN to[f] ELSE cr.val[f]]
  IN IF \E f \in tracked \cap M.spec.immutable :
          0 \notin {cr.val[f], new[f]} /\ cr.val[f] # new[f]
     THEN UNCHANGED <<cr, queued>> /\ StopWith("retry")
     ELSE /\ cr' = [cr EXCEPT !.val = new]
          /\ queued' = (queued \/ new # cr.val)
          /\ Goto(step)
          /\ UNCHANGED err

PatchSpec ==
  /\ At("patchSpec")
  /\ MergePatch(desired.val, latest.val, Last)
  /\ UNCHANGED <<desired, latest, service, spent>>

(* LateInitialize reads the resource once more and copies the fields that   *)
(* the view leaves unset; they are patched into the spec.                   *)
(* slip: the kind has no such fields *)
NotInitialized(i) == latest.val
LateInitialized(i) ==
  [f \in tracked |-> IF f \in M.late \cap M.reads /\ latest.val[f] = 0
                     THEN Shown(latest, i)[f] ELSE latest.val[f]]

LateInitialize ==
  /\ At("lateInit")
  /\ \/ \E i \in Found(latest) :
          /\ latest' = [latest EXCEPT !.val = LateInitialized(i)]
          /\ MergePatch(latest.val, LateInitialized(i), "patchStatus")
          /\ UNCHANGED spent
     \/ Found(latest) = {} /\ StopWith("retry") /\ UNCHANGED <<cr, queued, latest, spent>>
     \/ Refused /\ UNCHANGED <<cr, queued, latest>>
  /\ UNCHANGED <<desired, service>>

(* IsSynced, of a view that was reached without an error. *)
(* slip: a failed reconcile may call the object synced *)
IsSyncedByStatus(view) == view.status \in M.synced
(* slip: no status is configured for the kind *)
IsSyncedUnlessErr(view) == err = "ok"
IsSynced(view) == err = "ok" /\ view.status \in M.synced

(* An error that is not terminal, and a resource that is not synced, are    *)
(* looked at again.                                                         *)
Again == err # "terminal" /\ ~IsSynced(latest)

(* The status and conditions are patched. *)
PatchStatus ==
  /\ At("patchStatus")
  /\ cr' = IF cr.present
           THEN [cr EXCEPT !.id = latest.id, !.ver = latest.ver,
                           !.status = latest.status, !.synced = IsSynced(latest),
                           !.terminal = (err = "terminal")]
           ELSE cr
  /\ queued' = (queued \/ Again)
  /\ Goto("idle")
  /\ desired' = Blank /\ latest' = Blank /\ err' = "ok"
  /\ UNCHANGED <<service, spent>>

-----------------------------------------------------------------------------
(* Deletion.                                                                *)

ReadToDelete ==
  /\ At("readToDelete")
  /\ \/ \E i \in Found(desired) :
          latest' = Observed(desired, i) /\ Goto("delete") /\ UNCHANGED <<err, spent>>
     \/ /\ Found(desired) = {} /\ Goto("release")
        /\ UNCHANGED <<latest, err, spent>>
     \/ ReadFails
  /\ UNCHANGED <<cr, queued, desired, service>>

(* sdkDelete: the guard, then the call. *)
(* slip: what may not be deleted yet passes for deleted *)
NotDeletableIsDeleted ==
  /\ latest.status \notin M.deletable
  /\ Goto("release")
  /\ UNCHANGED <<err, aws, spent>>
NotDeletable ==
  /\ latest.status \notin M.deletable
  /\ StopWith("retry")
  /\ UNCHANGED <<aws, spent>>

(* Accepted, the call returns at once with no error, though the service may *)
(* still be at it.                                                          *)
DeleteCall(i) ==
  /\ latest.status \in M.deletable
  /\ i \in Found(latest) /\ ~InFlight(aws[i].st)
  /\ aws' = [aws EXCEPT ![i] = Put(Life.deleting, @.val, FALSE)]
  /\ \/ Goto("release") /\ UNCHANGED <<err, spent>>
     \/ Spend("losses") /\ StopWith("retry")

DeleteRefused ==
  /\ latest.status \in M.deletable
  /\ \/ Refused
     \/ /\ \E i \in Found(latest) : InFlight(aws[i].st)
        /\ StopWith(Class("ConflictException")) /\ UNCHANGED spent
     \/ /\ Found(latest) = {}
        /\ StopWith(Class("ResourceNotFoundException")) /\ UNCHANGED spent
  /\ UNCHANGED aws

Delete ==
  /\ At("delete")
  /\ NotDeletable \/ DeleteRefused \/ \E i \in Ids : DeleteCall(i)
  /\ UNCHANGED <<cr, queued, desired, latest, made>>

(* The finalizer is removed, and with it the object. *)
Release ==
  /\ At("release")
  /\ cr' = [cr EXCEPT !.finalizer = FALSE, !.present = FALSE]
  /\ Goto("idle")
  /\ desired' = Blank /\ latest' = Blank /\ err' = "ok"
  /\ UNCHANGED <<queued, service, spent>>

-----------------------------------------------------------------------------
(* The controller stops between two calls and starts again; what it had in  *)
(* hand is lost, and a start reconciles every object there is.              *)
Crash ==
  /\ Spend("crashes")
  /\ Goto("idle")
  /\ desired' = Blank /\ latest' = Blank /\ err' = "ok"
  /\ queued' = TRUE
  /\ UNCHANGED <<cr, service>>

(* A synced object is looked at again after the resync period. *)
Resync ==
  /\ At("idle") /\ ~queued /\ cr.present /\ cr.synced
  /\ queued' = TRUE
  /\ UNCHANGED <<cr, controller, service, spent>>

-----------------------------------------------------------------------------
(* A new object, accepted by the API server and due for its first reconcile *)
Init ==
  /\ \E s \in Subjects : kind = s.kind /\ tracked = s.tracked
  /\ \E v \in Vals :
       /\ \A f \in tracked : v[f] = 0 => \/ f \in M.defaults
                                         \/ /\ f \in M.spec.immutable
                                            /\ f \notin M.spec.required
                                            /\ f \notin M.key.fields
       /\ cr = [present |-> TRUE, deleting |-> FALSE, finalizer |-> FALSE,
                val |-> v, id |-> 0, ver |-> Unset, status |-> Nil,
                synced |-> FALSE, terminal |-> FALSE]
  /\ queued = TRUE
  /\ pc = "idle" /\ desired = Blank /\ latest = Blank /\ err = "ok"
  /\ aws = [i \in Ids |-> Put(Absent, Unset, FALSE)]
  /\ made = 0
  /\ spent = [o \in Occasions |-> 0]

Sync == ReadOne \/ Compare \/ MarkManaged \/ Create \/ MarkUnmanaged
        \/ Confirm \/ SyncTags \/ Update \/ PatchSpec \/ LateInitialize \/ PatchStatus
Remove     == ReadToDelete \/ Delete \/ Release
Worker     == Reconcile \/ Forget \/ Sync \/ Remove
User       == DeleteCR \/ \E f \in tracked : EditSpec(f)
Service    == \E i \in Ids : Settle(i) \/ Proceed(i) \/ FailSettle(i) \/ Drift(i)

Next ==
  /\ Worker \/ User \/ Service \/ Crash \/ Resync
  /\ UNCHANGED subject

Spec == Init /\ [][Next]_vars

(* The work queue and the worker run on, the resync period ends, and the    *)
(* service finishes what it accepted.  Users, faults and drift are free.    *)
Fairness ==
  /\ WF_vars(Worker /\ UNCHANGED subject)
  /\ WF_vars(Resync /\ UNCHANGED subject)
  /\ \A i \in Ids : WF_vars(Settle(i) /\ UNCHANGED subject)

FairSpec == Spec /\ Fairness

-----------------------------------------------------------------------------
(* Properties.                                                              *)

Steps ==
  {"idle", "read", "compare", "manage", "create", "unmanage", "confirm",
   "tags", "update", "patchSpec", "lateInit", "patchStatus", "readToDelete",
   "delete", "release"}

Resource == [st: Statuses, val: Vals, other: BOOLEAN]
View   == [val: Vals, id: 0..made, ver: Vals, status: Statuses]
Object == [present: BOOLEAN, deleting: BOOLEAN, finalizer: BOOLEAN,
           val: Vals, id: 0..made, ver: Vals, status: Statuses,
           synced: BOOLEAN, terminal: BOOLEAN]

(* Every variable keeps its type: the views the worker builds have the      *)
(* tracked fields and an identifier of a resource that was created, or 0.   *)
TypeOK ==
  /\ kind \in Kinds /\ tracked \subseteq M.spec.fields
  /\ cr \in Object
  /\ queued \in BOOLEAN
  /\ pc \in Steps
  /\ desired \in View /\ latest \in View
  /\ err \in {"ok", "retry", "terminal"}
  /\ made \in 0..MaxMade
  /\ aws \in [Ids -> Resource]
  /\ spent \in [Occasions -> Nat]

(* What may leave a resource behind that the object no longer leads to: an  *)
(* answer that never came, a crash, an edit of what the resource is named   *)
(* by.                                                                      *)
Excuses == spent.losses + spent.crashes + spent.rekeys

(* One object stands for at most one resource of the service: each one      *)
(* beyond the first was paid for by a lost answer, a crash or a re-keying   *)
(* edit.  It is what the ReadOne before each Create is for, and the         *)
(* identifier that Create returns with its view (the comment on post-create *)
(* failures in sdkCreate: "instead of creating a second one").              *)
AtMostOneLive == Cardinality({i \in Ids : Live(i)}) <= 1 + Excuses

(* A kind that is looked up by names the user chose, and not by an          *)
(* identifier the service assigned, never has two resources under the same  *)
(* names, whatever is lost, refused, drifts or crashes.                     *)
NamedOnce ==
  ~M.key.needsID =>
    \A i, j \in Ids :
      Live(i) /\ Live(j) /\ Key(aws[i].val) = Key(aws[j].val) => i = j

(* The controller does not run into an operation it asked for itself, in    *)
(* this reconcile or an earlier one, lost answers and crashes included: a   *)
(* guarded kind asks for an update, or for a deletion, of a resource in     *)
(* transition only if somebody else set that going, which the service       *)
(* answers with a ConflictException ("the reconciler requeues instead of    *)
(* calling the API mid-transition").                                        *)
NoCallInTransition ==
  LET asking == \/ /\ pc = "update" /\ M.update.mode = "api" /\ DiffersElsewhere
                   /\ latest.status \in M.update.updatable
                   /\ \A st \in M.update.updatable : ~InFlight(st)
                \/ /\ pc = "delete" /\ latest.status \in M.deletable
                   /\ \A st \in M.deletable : ~InFlight(st)
  IN  asking => \A i \in Found(latest) : InFlight(aws[i].st) => aws[i].other

(* The object does not forget a resource: the identifier in its status      *)
(* gives way to another only when the resource it named is gone, unless the *)
(* user has renamed the resource.                                           *)
NeverForgotten ==
  [][cr.id # 0 /\ cr'.id # cr.id /\ spent.rekeys = 0 => ~Live(cr.id)]_vars

(* The resources that are there and that nobody asked to delete. *)
Kept == {i \in Ids : Live(i) /\ ~Leaving(aws[i].st)}

(* When an object that ACK managed is gone, so is its resource, or it is on *)
(* its way: the finalizer holds the object until then (MarkManaged).        *)
NothingLeftBehind == ~cr.present => Cardinality(Kept) <= Excuses

Outside == INSTANCE ResourceLifecycle WITH
  object  <- IF ~cr.present THEN "gone" ELSE IF cr.deleting THEN "deleting" ELSE "there",
  held    <- cr.present /\ cr.finalizer,
  ever    <- 1..made,
  live    <- Kept,
  excused <- Excuses,
  outside <- spent.drifts

(* Seen from outside the controller keeps at most one resource for the      *)
(* object: it makes one only under the finalizer and when there is none,    *)
(* takes it down only for an object that is being deleted, and lets go of   *)
(* the object only when it is gone or going (ResourceLifecycle).            *)
LifecycleSpec == Outside!Spec

(* The spec fields the controller can bring to the service and see there.   *)
Reconcilable ==
  LET carried == IF M.update.mode = "api" THEN M.patches \ M.key.fields ELSE {}
      tags    == IF M.update.tagged THEN {"Tags"} ELSE {}
  IN  tracked \cap M.reads \cap M.compares \cap (carried \cup tags)

(* Unset leaves a field of M.defaults to the service.  Of a versioned kind  *)
(* the version the object names is what is as the user asked.               *)
AsAsked(i) == \A f \in Reconcilable :
                \/ Shown(cr, i)[f] = cr.val[f]
                \/ f \in M.defaults /\ cr.val[f] = 0

Quiet == pc = "idle" /\ ~queued /\ cr.present

(* An object that says it is synced, and that nothing is due for, describes *)
(* the resource: what the user asked for is what the service has, whatever  *)
(* edits came between the calls of earlier reconciles.                      *)
SyncedMeansApplied ==
  Quiet /\ cr.synced /\ spent.drifts = 0 =>
    /\ Found(cr) # {}
    /\ \A i \in Found(cr) : AsAsked(i)

(* Nor is the resource of such an object in transition, but for one that    *)
(* somebody else set going and that the object does not show before the     *)
(* resync: no operation of the controller's own is reported as over before  *)
(* it is.  A tagged kind with an Update API is not covered: its sdkUpdate   *)
(* may return a snapshot whose status is older than what it read.           *)
SyncedMeansSettled ==
  Quiet /\ cr.synced /\ ~(M.update.mode = "api" /\ M.update.tagged) =>
    \A i \in Found(cr) : InFlight(aws[i].st) => aws[i].other

(* A status that shows an operation failed. *)
HasFailed(st) ==
  st \in {Life.createFailed, Life.updateFailed, Life.deleteFailed} \ {Life.active}

(* What the user asked for, as far as the controller can bring it about, is *)
(* what the service has; nothing is under way.  The version a versioned     *)
(* kind's object names is the latest, unless one was made by a call the     *)
(* controller knows nothing of: such a version is never read again.         *)
Applied ==
  /\ Found(cr) # {}
  /\ \A i \in Found(cr) :
       /\ AsAsked(i) /\ ~InFlight(aws[i].st)
       /\ Shown(cr, i) = aws[i].val \/ spent.drifts + spent.losses + spent.crashes > 0

(* Whatever is edited, refused, lost or changed past the controller, an     *)
(* object that stays ends up applied, or with a terminal condition; unless  *)
(* an operation failed and the guard of sdkUpdate does not admit the status *)
(* that left, as gatewaySettled does "so the user can attempt to fix        *)
(* issues".                                                                 *)
EventuallyApplied ==
  <>[](\/ ~cr.present \/ cr.deleting \/ cr.terminal \/ Applied
       \/ \E i \in Ids : HasFailed(aws[i].st) /\ aws[i].st \notin M.update.updatable)

(* An Update request is followed by another only as long as there is a      *)
(* reason: no field is compared that no Update can bring to the value the   *)
(* user gave ("a diff that no Update call could ever resolve").             *)
UpdatesEnd == <>[][\A i \in Ids : ~(Update /\ UpdateCall(i))]_vars

(* A deleted object goes away, whatever is lost, refused or crashes on the  *)
(* way, unless a terminal error stops it or a deletion failed in a kind     *)
(* whose guard does not admit the status that leaves.                       *)
DeletionCompletes ==
  <>[](\/ ~cr.deleting \/ ~cr.present \/ cr.terminal
       \/ \E i \in Ids : aws[i].st = Life.deleteFailed /\ aws[i].st \notin M.deletable)

-----------------------------------------------------------------------------
(* What the repository says of the program and the program does not do.     *)

(* "the underlying CR may not be deleted until ACK is finished cleaning up  *)
(* any backend AWS service resources associated with the CR" (MarkManaged   *)
(* in every descriptor.go).  sdkDelete answers as soon as the request is    *)
(* accepted, and the finalizer goes while the resource is still deleting.   *)
FinalizerUntilGone ==
  [][cr.finalizer /\ ~cr'.present => \A i \in Ids : ~Live(i)]_vars

(* sdkUpdate "returns a new resource with updated fields".  When only the   *)
(* tags differ it returns the snapshot, status included, and an object says *)
(* it is synced by a status that was read reconciles ago.                   *)
UpdatedIsWhatWasRead ==
  Quiet /\ cr.synced /\ spent.drifts = 0 => \A i \in Found(cr) : ~InFlight(aws[i].st)

(* "ReadOne returns the currently-observed state of the supplied            *)
(* AWSResource in the backend AWS service API" (every manager.go).  The Get *)
(* of an agent runtime carries the version in the object's status, and      *)
(* returns that version: a later one, made by somebody else, is never read. *)
ReadOneObserves ==
  [][At("read") /\ pc' = "compare" =>
       \A f \in tracked \cap M.compares : latest'.val[f] = aws[latest'.id].val[f]]_vars

=============================================================================
