-------------------------------- MODULE Tags --------------------------------
(***************************************************************************)
(* The tags of one resource, seen from four sides: what the user wrote in  *)
(* the spec, what the controller adds of its own (the --resource-tags      *)
(* flag), what AWS injects ("aws:..."), and what anybody else does to the  *)
(* resource.  SyncTags is two calls, and each may fail by itself.          *)
(*                                                                         *)
(* pkg/tags and the functions of manager.go and tags.go that are about     *)
(* tags, as they are in each kind that has them and reads them back; the   *)
(* kind whose lines are named is policy_engine.  ResourceReconciler takes  *)
(* all this as one step on one value.                                      *)
(***************************************************************************)
EXTENDS Naturals

CONSTANTS
  UserKeys, ControllerKeys, AwsKeys,  \* the keys each of them uses
  Budget,      \* how often each thing below may happen
  MaxTogether  \* and how many of them in one behaviour

Keys   == UserKeys \cup ControllerKeys \cup AwsKeys
Values == Nat               \* 0: there is no such tag
Set    == 1..2              \* values a tag is given

(* edits of the spec; errors, a call refused; losses, a call that took      *)
(* effect and whose answer never came; drifts, changes of the resource by   *)
(* others, AWS among them; upgrades, restarts with other controller tags.   *)
Occasions == {"edits", "errors", "losses", "drifts", "upgrades"}

ASSUME KeysAssumption ==
  /\ UserKeys \cap AwsKeys = {}
  /\ ControllerKeys \cap (UserKeys \cup AwsKeys) = {}
ASSUME BoundsAssumption == MaxTogether \in Nat /\ Budget \in [Occasions -> Nat]

VARIABLES
  spec,     \* the tags in the spec the API server holds
  tags,     \* the tags the service keeps
  version,  \* the value the controller gives its own tags
  known,    \* the status has the identifier of the resource
  queued, pc,
  desired,  \* the worker's snapshot of the spec, tags added in place
  latest,   \* what it read of the service, or a call answered
  cond,     \* how the last reconcile went
  spent

worker == <<pc, desired, latest>>
vars   == <<spec, tags, version, known, queued, worker, cond, spent>>

Together == spent.edits + spent.errors + spent.losses + spent.drifts + spent.upgrades
Spend(occasion) ==
  /\ spent[occasion] < Budget[occasion] /\ Together < MaxTogether
  /\ spent' = [spent EXCEPT ![occasion] = @ + 1]

None == [k \in Keys |-> 0]

-----------------------------------------------------------------------------
(* EnsureTags: the controller's tags are added; one that is there stays.    *)
EnsureTags(t) ==
  [k \in Keys |-> IF t[k] = 0 /\ k \in ControllerKeys THEN version ELSE t[k]]

(* syncAWSTags, called by mirrorAWSTags.                                    *)
(* slip: a tag that is mirrored already keeps its value, and a new one is   *)
(* left to the next read *)
syncAWSTagsKnown(a, b) ==
  [k \in Keys |-> IF k \in AwsKeys /\ b[k] # 0 /\ a[k] # 0 THEN b[k] ELSE a[k]]
syncAWSTags(a, b) ==
  [k \in Keys |-> IF k \in AwsKeys /\ b[k] # 0 THEN b[k] ELSE a[k]]

(* ignoreSystemTags, called by FilterSystemTags.                            *)
(* slip: the keys of the flag are forgotten *)
ignoreAWSTags(t) == [k \in Keys |-> IF k \in AwsKeys THEN 0 ELSE t[k]]
ignoreSystemTags(t) ==
  [k \in Keys |-> IF k \in AwsKeys \cup ControllerKeys THEN 0 ELSE t[k]]

(* The tags getTags reports to sdkFind.                                     *)
(* slip: they are filtered there ("Must be called after each Read", says    *)
(* the comment of FilterSystemTags) *)
getTagsFiltered == ignoreSystemTags(tags)
getTags == tags

(* SyncTags: what there is to add, and to delete.                           *)
(* slip: a tag that is there is not looked at *)
toAddMissing == {k \in Keys : desired[k] # 0 /\ latest[k] = 0}
toAdd    == {k \in Keys : desired[k] # 0 /\ latest[k] # desired[k]}
toDelete == {k \in Keys : latest[k] # 0 /\ desired[k] = 0}

-----------------------------------------------------------------------------
At(step)   == pc = step
Goto(step) == pc' = step

(* The reconcile ends with this condition; unless it is terminal or the     *)
(* object is synced, there is another one.                                  *)
Finish(how) ==
  /\ cond' = how
  /\ queued' = (queued \/ how = "retry")
  /\ Goto("idle") /\ desired' = None /\ latest' = None

(* A call the service turns down.                                           *)
Refused == Spend("errors") /\ Finish("retry")

Reconcile ==
  /\ At("idle") /\ queued
  /\ queued' = FALSE
  /\ desired' = EnsureTags(spec)
  /\ Goto("read")
  /\ UNCHANGED <<spec, tags, version, known, latest, cond, spent>>

(* ReadOne, and what comes next.  An sdkFind that fails, or that has no     *)
(* identifier to ask for, returns nothing, and nothing is mirrored.         *)
ReadOne ==
  /\ At("read")
  /\ \/ /\ known
        /\ latest' = getTags
        /\ desired' = syncAWSTags(desired, getTags)
        /\ Goto("compare")
        /\ UNCHANGED <<queued, cond, spent>>
     \/ ~known /\ Goto("create") /\ UNCHANGED <<queued, desired, latest, cond, spent>>
     \/ known /\ Refused
  /\ UNCHANGED <<spec, tags, version, known>>

Compare ==
  /\ At("compare")
  /\ \/ desired = latest /\ Finish("ok")
     \/ desired # latest /\ Goto("add") /\ UNCHANGED <<queued, desired, latest, cond>>
  /\ UNCHANGED <<spec, tags, version, known, spent>>

(* The service accepts no request that names one of its own tags; that is   *)
(* a ValidationException.                                                   *)
Reserved(keys) == keys \cap AwsKeys # {}

(* The new resource has the tags of the request, and those AWS adds.  What  *)
(* Create returns is a copy of what it was given.  A resource whose answer  *)
(* was lost is not this object's.                                           *)
Create ==
  /\ At("create")
  /\ LET asked == {k \in Keys : desired[k] # 0}
     IN  \/ /\ ~Reserved(asked)
            /\ \E aws \in [AwsKeys -> {0, 1}] :
                 tags' = [k \in Keys |-> IF k \in AwsKeys THEN aws[k] ELSE desired[k]]
            /\ latest' = desired
            /\ Goto("confirm")
            /\ UNCHANGED <<queued, desired, cond, spent>>
         \/ Reserved(asked) /\ Finish("terminal") /\ UNCHANGED <<tags, spent>>
         \/ Refused /\ UNCHANGED tags
         \/ Spend("losses") /\ Finish("retry") /\ UNCHANGED tags
  /\ UNCHANGED <<spec, version, known>>

(* The created view is handed to ReadOne, which mirrors into it.  If the    *)
(* read fails, the view is stored as it is.                                 *)
Confirm ==
  /\ At("confirm")
  /\ \/ /\ latest' = syncAWSTags(latest, getTags)
        /\ Goto("patch")
        /\ UNCHANGED <<known, queued, desired, cond, spent>>
     \/ Refused /\ known' = TRUE
  /\ UNCHANGED <<spec, tags, version>>

addTags ==
  /\ At("add")
  /\ \/ /\ ~Reserved(toAdd)
        /\ tags' = [k \in Keys |-> IF k \in toAdd THEN desired[k] ELSE tags[k]]
        /\ \/ Goto("remove") /\ UNCHANGED <<queued, desired, latest, cond, spent>>
           \/ toAdd # {} /\ Spend("losses") /\ Finish("retry")
     \/ Reserved(toAdd) /\ Finish("terminal") /\ UNCHANGED <<tags, spent>>
     \/ toAdd # {} /\ Refused /\ UNCHANGED tags
  /\ UNCHANGED <<spec, version, known>>

(* slip: a reconcile that added tags leaves the others to the next one *)
removeTagsOrNone ==
  /\ At("remove")
  /\ tags' = [k \in Keys |-> IF k \in toDelete /\ toAdd = {} THEN 0 ELSE tags[k]]
  /\ latest' = desired /\ Goto("patch")
  /\ UNCHANGED <<spec, version, known, queued, desired, cond, spent>>

(* What sdkUpdate returns is a copy of the snapshot it was given.           *)
removeTags ==
  /\ At("remove")
  /\ \/ /\ ~Reserved(toDelete)
        /\ tags' = [k \in Keys |-> IF k \in toDelete THEN 0 ELSE tags[k]]
        /\ \/ /\ latest' = desired /\ Goto("patch")
              /\ UNCHANGED <<queued, desired, cond, spent>>
           \/ toDelete # {} /\ Spend("losses") /\ Finish("retry")
     \/ Reserved(toDelete) /\ Finish("terminal") /\ UNCHANGED <<tags, spent>>
     \/ toDelete # {} /\ Refused /\ UNCHANGED tags
  /\ UNCHANGED <<spec, version, known>>

(* The merge patch of the spec: what the returned view has otherwise than   *)
(* the snapshot.  A spec that changes is reconciled again.                  *)
(* slip: the view is written instead *)
PatchWhole ==
  /\ At("patch")
  /\ spec' = latest
  /\ queued' = (queued \/ spec' # spec)
  /\ Goto("store")
  /\ UNCHANGED <<tags, version, known, desired, latest, cond, spent>>
Patch ==
  /\ At("patch")
  /\ spec' = [k \in Keys |-> IF latest[k] # desired[k] THEN latest[k] ELSE spec[k]]
  /\ queued' = (queued \/ spec' # spec)
  /\ Goto("store")
  /\ UNCHANGED <<tags, version, known, desired, latest, cond, spent>>

(* The patch of the status, and with it the identifier.                     *)
Store ==
  /\ At("store")
  /\ known' = TRUE
  /\ Finish("ok")
  /\ UNCHANGED <<spec, tags, version, spent>>

(* An object that adopts a resource gets, as its spec, what a read of the   *)
(* resource shows, the system tags filtered out.                            *)
Adopt ==
  /\ At("adopt")
  /\ \/ /\ spec' = ignoreSystemTags(getTags)
        /\ known' = TRUE /\ queued' = TRUE
        /\ Goto("idle")
        /\ UNCHANGED spent
     \/ Spend("errors") /\ UNCHANGED <<spec, known, queued, pc>>
  /\ UNCHANGED <<tags, version, desired, latest, cond>>

Resync ==
  /\ At("idle") /\ ~queued /\ cond = "ok"
  /\ queued' = TRUE
  /\ UNCHANGED <<spec, tags, version, known, worker, cond, spent>>

-----------------------------------------------------------------------------
(* The user edits tags, and may take out one of AWS that got into the spec; *)
(* others change the tags of the resource; the controller is restarted with *)
(* tags of another value (the default flag has its version in it).          *)
EditTags ==
  /\ pc # "adopt"
  /\ \E k \in UserKeys \cup AwsKeys, v \in {0} \cup Set :
       /\ k \in AwsKeys => v = 0
       /\ spec' = [spec EXCEPT ![k] = v]
  /\ Spend("edits")
  /\ queued' = TRUE
  /\ UNCHANGED <<tags, version, known, worker, cond>>

Drift ==
  /\ known \/ pc \in {"adopt", "confirm", "patch", "store"}
  /\ \E k \in Keys, v \in {0} \cup Set : tags' = [tags EXCEPT ![k] = v]
  /\ Spend("drifts")
  /\ UNCHANGED <<spec, version, known, queued, worker, cond>>

Upgrade ==
  /\ pc # "adopt"
  /\ Spend("upgrades")
  /\ version' = version + 1
  /\ queued' = TRUE
  /\ Goto("idle") /\ desired' = None /\ latest' = None
  /\ UNCHANGED <<spec, tags, known, cond>>

-----------------------------------------------------------------------------
(* An object that is to adopt a resource, or a new one with none.           *)
Init ==
  /\ version = 1 /\ known = FALSE /\ queued = TRUE /\ cond = "retry"
  /\ desired = None /\ latest = None
  /\ spent = [o \in Occasions |-> 0]
  /\ \E aws \in [AwsKeys -> {0, 1}], user \in [UserKeys -> {0, 1}] :
       LET both == [k \in Keys |-> IF k \in AwsKeys THEN aws[k]
                                   ELSE IF k \in UserKeys THEN user[k] ELSE 1]
       IN  \/ pc = "adopt" /\ spec = None /\ tags = both
           \/ pc = "idle" /\ spec = ignoreSystemTags(both) /\ tags = None

Worker ==
  \/ Reconcile \/ ReadOne \/ Compare \/ Create \/ Confirm \/ addTags \/ removeTags
  \/ Patch \/ Store \/ Adopt

Next == Worker \/ Resync \/ EditTags \/ Drift \/ Upgrade

Spec     == Init /\ [][Next]_vars
FairSpec == Spec /\ WF_vars(Worker) /\ WF_vars(Resync)

-----------------------------------------------------------------------------
(* Properties.                                                              *)

(* No tag of AWS that was read is given another value or removed, whatever  *)
(* the spec has and whoever changes tags meanwhile: "we don't try to remove *)
(* these tags" (mirrorAWSTags).                                             *)
AwsTagsLeftAlone ==
  /\ pc = "add"    => \A k \in toAdd \cap AwsKeys : latest[k] = 0
  /\ pc = "remove" => ~Reserved(toDelete)

(* The patch that follows a Create or an Update leaves the spec to the      *)
(* user: no tag the controller added to its snapshot gets into it, where it *)
(* would outlive the flag that asked for it, and what the user wrote stays, *)
(* also what was written after the snapshot.                                *)
SpecHoldsUserTags ==
  [][/\ \A k \in ControllerKeys : spec'[k] = 0
     /\ \A k \in UserKeys :
          spec'[k] # spec[k] => pc = "adopt" \/ spent'.edits # spent.edits]_vars

(* No tag of AWS gets into the spec: they "aren't patched to the resource   *)
(* in the cluster" (mirrorAWSTags).  The read after a Create mirrors them   *)
(* into the created view, and the snapshot has none of them.                *)
SpecHoldsNoAwsTags == \A k \in AwsKeys : spec[k] = 0

(* What the user and the controller want the tags to be.                    *)
AsWanted == known /\ \A k \in Keys \ AwsKeys : tags[k] = EnsureTags(spec)[k]

(* After a reconcile that went well, and with nothing due, the tags are     *)
(* what was asked for: both calls were made.                                *)
SyncedTagsAreThere ==
  pc = "idle" /\ ~queued /\ cond = "ok" /\ spent.drifts = 0 => AsWanted

(* Whichever of the calls was refused or lost, and whoever changed the tags *)
(* past the controller, they end up as wanted, unless the spec has got a    *)
(* tag of AWS that AWS no longer has: then the service refuses every call.  *)
TagsSettle == <>[](AsWanted \/ (cond = "terminal" /\ ~SpecHoldsNoAwsTags))

(* And then no more calls are made.                                         *)
TagCallsEnd == <>[](pc # "add")
=============================================================================
