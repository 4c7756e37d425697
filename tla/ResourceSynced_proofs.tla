------------------------ MODULE ResourceSynced_proofs ------------------------
(***************************************************************************)
(* What it means for an object to say it is synced, for every table of     *)
(* managers, every subject and every bound: that the service has what the  *)
(* user asked for, and that it has finished with it.                       *)
(*                                                                         *)
(* The user may edit the object at every step of a reconcile, so no stage  *)
(* of it says anything of the object: the invariant is about the worker's  *)
(* snapshot, and the object is the snapshot as long as nothing is queued.  *)
(***************************************************************************)
EXTENDS ResourceLifecycle_proofs

(* An edit, or a deletion, that the worker has not seen is queued.          *)
SnapshotIsCurrent == pc # "idle" /\ ~queued => cr.val = desired.val

DeletionIsSeen ==
  cr.deleting /\ cr.present /\ ~queued =>
    /\ pc = "idle" => ~cr.synced
    /\ pc # "idle" => pc \in Removing \/ (pc = "patchStatus" /\ err # "ok")

CreateHasFailed == pc = "unmanage" => err # "ok"

QueueInv == SnapshotIsCurrent /\ DeletionIsSeen /\ CreateHasFailed

(* A resource has a field as the worker's snapshot has it, or as its view.  *)
WantedAt(i, f) ==
  \/ Shown(latest, i)[f] = desired.val[f]
  \/ f \in M.defaults /\ desired.val[f] = 0
SeenAt(i, f)   == Shown(latest, i)[f] = latest.val[f]

(* The snapshot and the view are shown the same of it. *)
AlikeAt(i, f)  == Shown(desired, i)[f] = Shown(latest, i)[f]

(* The worker compares what it read and brings it up to date.               *)
Syncing == {"compare", "tags", "update"}

ViewIsTrue ==
  pc \in Syncing =>
    /\ latest.id \in Found(latest)
    /\ \A i \in Found(latest), f \in tracked \cap M.reads :
         f # "Tags" \/ pc = "compare" => SeenAt(i, f)
    /\ \A i \in Found(latest), f \in Reconcilable : AlikeAt(i, f)
    /\ pc = "update" => \A i \in Found(latest), f \in Reconcilable \cap {"Tags"} : WantedAt(i, f)

(* The worker has done what there was to do, and nothing went wrong.        *)
Closing ==
  \/ pc \in {"confirm", "patchSpec", "lateInit"}
  \/ pc = "patchStatus" /\ err = "ok" /\ cr.present /\ ~cr.deleting

Brought(view) ==
  Found(view) # {} /\ \A i \in Found(view), f \in Reconcilable : WantedAt(i, f)

(* The resources whose deletion was asked for.  As long as nobody but the   *)
(* controller asks, there are such only in the course of the object's       *)
(* deletion.                                                                *)
Doomed == Alive \ Kept

Spared ==
  spent.drifts = 0 /\ Doomed # {} =>
    cr.deleting /\ pc \in Removing \cup {"idle", "patchStatus"}

ProgressInv == spent.drifts = 0 => ViewIsTrue /\ (Closing => Brought(latest))

-----------------------------------------------------------------------------
(* The queue. *)

LEMMA ClassIsError == ASSUME NEW c PROVE Class(c) # "ok"
BY DEF Class

LEMMA QueueNext ==
  ASSUME TypeInv, QueueInv, [Next]_vars
  PROVE  QueueInv'
<1>1. cr \in Object /\ queued \in BOOLEAN
  BY DEF TypeInv, TypeOK
<1>2. ASSUME UNCHANGED <<cr, queued, desired, pc, err>>
      PROVE  QueueInv'
  BY <1>2 DEF QueueInv, SnapshotIsCurrent, DeletionIsSeen, CreateHasFailed
<1>3. ASSUME queued', pc' # "unmanage" \/ (pc' = pc /\ err' = err)
      PROVE  QueueInv'
  BY <1>3 DEF QueueInv, SnapshotIsCurrent, DeletionIsSeen, CreateHasFailed
(* A step of the worker that is not its last. *)
<1>4. ASSUME UNCHANGED desired, pc # "idle", pc' # "idle",
             cr'.deleting = cr.deleting, cr'.present => cr.present,
             ~queued' => ~queued /\ cr'.val = cr.val,
             pc' = "unmanage" => err' # "ok",
             cr.deleting /\ cr.present /\ ~queued
               => ~cr'.present \/ pc' \in Removing \/ (pc' = "patchStatus" /\ err' # "ok")
      PROVE  QueueInv'
  BY <1>4 DEF QueueInv, SnapshotIsCurrent, DeletionIsSeen, CreateHasFailed
<1>5. CASE UNCHANGED vars
  BY <1>2, <1>5 DEF vars, controller
<1>6. CASE Service
  BY <1>2, <1>6 DEF Service, Settle, Proceed, FailSettle, Drift, controller
<1>7. CASE User \/ Crash \/ Resync
  BY <1>3, <1>7 DEF User, DeleteCR, EditSpec, Crash, Resync, Goto, controller
<1>8. CASE Forget
  BY <1>8 DEF Forget, At, controller, QueueInv, SnapshotIsCurrent, DeletionIsSeen,
     CreateHasFailed
<1>9. CASE Reconcile
  BY <1>9 DEF Reconcile, Goto, Removing, QueueInv, SnapshotIsCurrent, DeletionIsSeen,
     CreateHasFailed
<1>10. CASE ReadOne \/ Compare \/ Create \/ Confirm \/ SyncTags \/ Update
  <2>1. /\ UNCHANGED <<cr, queued, desired>> /\ pc' # "idle"
        /\ pc \notin Removing \cup {"idle", "patchStatus"}
    BY <1>10 DEF ReadOne, ReadFails, Compare, Last, Create, Confirm, SyncTags, Update,
       NothingElse, CustomUpdate, NotUpdatable, UpdateRefused, UpdateCall, Refused, StopWith,
       At, Goto, Removing
  <2>2. pc' = "unmanage" => err' # "ok"
    BY <1>10, ClassIsError DEF ReadOne, ReadFails, Compare, Last, Create, Confirm, SyncTags,
       Update, NothingElse, CustomUpdate, NotUpdatable, UpdateRefused, UpdateCall, Refused,
       StopWith, Goto
  <2> QED
    BY <1>4, <2>1, <2>2 DEF QueueInv, DeletionIsSeen
<1>11. CASE MarkManaged
  <2>1. /\ cr'.deleting = cr.deleting /\ cr'.present = cr.present /\ cr'.val = cr.val
        /\ UNCHANGED <<queued, desired>>
        /\ pc = "manage" /\ pc' \in {"create", "patchStatus"}
    BY <1>1, <1>11 DEF MarkManaged, At, Goto, Object
  <2> QED
    BY <1>4, <2>1 DEF QueueInv, DeletionIsSeen, Removing
<1>12. CASE MarkUnmanaged
  <2>1. /\ cr'.deleting = cr.deleting /\ cr'.present = ~cr.deleting /\ cr'.val = cr.val
        /\ UNCHANGED <<queued, desired, err>>
        /\ pc = "unmanage" /\ pc' = "patchStatus"
    BY <1>1, <1>12 DEF MarkUnmanaged, At, Goto, Object
  <2> QED
    BY <2>1 DEF QueueInv, SnapshotIsCurrent, DeletionIsSeen, CreateHasFailed
<1>13. CASE PatchSpec \/ LateInitialize
  <2>1. /\ UNCHANGED desired /\ pc' \notin {"idle", "unmanage"}
        /\ pc \notin Removing \cup {"idle", "patchStatus"}
    BY <1>13 DEF PatchSpec, LateInitialize, MergePatch, Last, Refused, StopWith, At, Goto,
       Removing
  <2>2. /\ cr'.deleting = cr.deleting /\ cr'.present = cr.present
        /\ ~queued' => ~queued /\ cr'.val = cr.val
    BY <1>1, <1>13 DEF PatchSpec, LateInitialize, MergePatch, StopWith, Object
  <2> QED
    BY <1>4, <2>1, <2>2 DEF QueueInv, DeletionIsSeen
<1>14. CASE PatchStatus
  <2>1. pc' = "idle" /\ pc = "patchStatus" /\ (~queued' => ~queued)
    BY <1>14 DEF PatchStatus, At, Goto
  <2>2. /\ cr'.deleting = cr.deleting /\ cr'.present = cr.present
        /\ cr.present => cr'.synced = IsSynced(latest)
    BY <1>1, <1>14 DEF PatchStatus, Object
  <2> QED
    BY <2>1, <2>2 DEF QueueInv, SnapshotIsCurrent, DeletionIsSeen, CreateHasFailed, IsSynced,
       Removing
<1>15. CASE ReadToDelete \/ Delete
  <2>1. UNCHANGED <<cr, queued, desired>> /\ pc \in Removing
    BY <1>15 DEF ReadToDelete, Delete, At, Removing
  <2>2. pc' \in Removing \/ (pc' = "patchStatus" /\ err' # "ok")
    BY <1>15, ClassIsError DEF ReadToDelete, ReadFails, Delete, NotDeletable, DeleteRefused,
       DeleteCall, Refused, StopWith, Goto, Removing
  <2> QED
    BY <1>4, <2>1, <2>2 DEF Removing
<1>16. CASE Release
  <2>1. pc' = "idle" /\ ~cr'.present
    BY <1>1, <1>16 DEF Release, Goto, Object
  <2> QED
    BY <2>1 DEF QueueInv, SnapshotIsCurrent, DeletionIsSeen, CreateHasFailed
<1> QED
  BY <1>5, <1>6, <1>7, <1>8, <1>9, <1>10, <1>11, <1>12, <1>13, <1>14, <1>15, <1>16
  DEF Next, Worker, Sync, Remove

-----------------------------------------------------------------------------
(* What a view finds. *)

LEMMA OnlyOneFound ==
  ASSUME NamedOnce, NEW view, NEW i \in Found(view), NEW j \in Found(view)
  PROVE  i = j
BY DEF NamedOnce, Found

(* The resources are those there were, under the names they had.            *)
Unmoved ==
  /\ Alive' = Alive
  /\ \A j \in Alive : Key(aws'[j].val) = Key(aws[j].val)

(* And with the values they had.                                            *)
Untouched == Alive' = Alive /\ \A j \in Alive : aws'[j].val = aws[j].val

LEMMA FoundStays ==
  ASSUME UNCHANGED subject, Unmoved, NEW old, NEW new,
         Key(new.val) = Key(old.val), M.key.needsID => new.id = old.id
  PROVE  {i \in Ids : Live(i)' /\ Key(aws'[i].val) = Key(new.val)
                               /\ (M.key.needsID => i = new.id)} = Found(old)
<1>1. \A i \in Ids : Live(i)' <=> Live(i)
  BY DEF Unmoved, Alive
<1>2. \A i \in Ids : Live(i) => Key(aws'[i].val) = Key(aws[i].val)
  BY DEF Unmoved, Alive
<1> QED
  BY <1>1, <1>2 DEF Found

LEMMA ViewFinds ==
  ASSUME UNCHANGED subject, Unmoved,
         Key(latest'.val) = Key(latest.val), M.key.needsID => latest'.id = latest.id
  PROVE  Found(latest)' = Found(latest)
<1>1. Found(latest)' = {i \in Ids : Live(i)' /\ Key(aws'[i].val) = Key(latest'.val)
                                             /\ (M.key.needsID => i = latest'.id)}
  BY DEF Found, Key, M, subject
<1> QED
  BY <1>1, FoundStays

LEMMA ObjectFinds ==
  ASSUME UNCHANGED subject, Unmoved,
         NEW view, Key(cr'.val) = Key(view.val), M.key.needsID => cr'.id = view.id
  PROVE  Found(cr)' = Found(view)
<1>1. Found(cr)' = {i \in Ids : Live(i)' /\ Key(aws'[i].val) = Key(cr'.val)
                                         /\ (M.key.needsID => i = cr'.id)}
  BY DEF Found, Key, M, subject
<1> QED
  BY <1>1, FoundStays

LEMMA UntouchedIsUnmoved == ASSUME Untouched PROVE Unmoved
BY DEF Untouched, Unmoved

LEMMA NothingTouched ==
  ASSUME UNCHANGED service
  PROVE  Untouched
BY DEF Untouched, Alive, Live, service

(* The service touches a resource only when it drifts, or takes down one    *)
(* that was to be deleted.                                                  *)
LEMMA ServiceTouchesNothing ==
  ASSUME TypeInv, UNCHANGED subject, Service, Doomed = {}, spent'.drifts = spent.drifts
  PROVE  Untouched
<1>1. spent.drifts \in Nat
  BY DEF TypeInv, TypeOK, Occasions
<1>2. spent'.drifts # spent.drifts + 1
  BY <1>1
<1>3. Kept' = Kept /\ Alive' \subseteq Alive
  BY <1>2, ServiceKeeps, ServiceKeepsNames, AliveShrinks
<1>4. Alive' = Alive
  <2>1. Kept \subseteq Alive /\ Kept' \subseteq Alive'
    BY DEF Kept, Alive
  <2> QED
    BY <1>3, <2>1 DEF Doomed
<1>5. PICK i \in Ids : Settle(i) \/ Proceed(i) \/ FailSettle(i) \/ Drift(i)
  BY DEF Service
<1>6. ~Drift(i)
  BY <1>2 DEF Drift, Spend, Occasions, TypeInv, TypeOK
<1>7. \A j \in Ids : aws'[j].val = aws[j].val
  <2>1. PICK st, other : aws' = [aws EXCEPT ![i] = Put(st, aws[i].val, other)]
    BY <1>5, <1>6 DEF Settle, Proceed, FailSettle, TypeInv, TypeOK
  <2> QED
    BY <2>1 DEF Put, TypeInv, TypeOK
<1> QED
  BY <1>4, <1>7 DEF Untouched, Alive

(* While the worker is at it nothing is doomed. *)
LEMMA NothingIsDoomed ==
  ASSUME Spared, spent.drifts = 0, pc \in Syncing \/ Closing
  PROVE  Doomed = {}
BY DEF Spared, Syncing, Closing, Removing

(* A Delete apart, the controller dooms nothing.                            *)
LEMMA NothingMoreIsDoomed ==
  ASSUME TypeInv, TagStep, [Next]_vars, ~Delete, spent'.drifts = spent.drifts
  PROVE  Doomed' \subseteq Doomed
<1>1. UNCHANGED subject
  BY StepsReach
<1>2. spent'.drifts # spent.drifts + 1
  BY DEF TypeInv, TypeOK, Occasions
<1>3. CASE Create /\ Creates
  <2>1. Alive' = Alive \cup {made'} /\ Kept' = Kept \cup {made'}
    BY <1>1, <1>3, CreateKeeps
  <2> QED
    BY <2>1 DEF Doomed
<1>4. CASE ~(Create /\ Creates)
  <2>1. Alive' \subseteq Alive
    BY <1>4, StepsReach, AliveShrinks
  <2>2. Kept' = Kept
    <3>1. CASE UNCHANGED service
      BY <1>1, <3>1, StatusesKeep DEF service
    <3>2. CASE Service
      BY <1>1, <1>2, <3>2, ServiceKeeps
    <3>3. CASE SyncTags \/ Update
      BY <1>1, <3>3, CallsKeep
    <3> QED
      BY <1>4, <3>1, <3>2, <3>3, StepsReach DEF Reaching
  <2> QED
    BY <2>1, <2>2 DEF Doomed
<1> QED
  BY <1>3, <1>4

LEMMA NoDriftBefore ==
  ASSUME TypeInv, [Next]_vars, spent'.drifts = 0
  PROVE  spent.drifts = 0
<1> DEFINE n == spent'.drifts
<1>1. spent.drifts \in Nat /\ n = 0 /\ n \in {spent.drifts, spent.drifts + 1}
  BY ExcusesGrow DEF TypeInv, TypeOK, Occasions
<1> HIDE DEF n
<1> QED
  BY <1>1

LEMMA SparedNext ==
  ASSUME TypeInv, TagStep, Finalized, Spared, [Next]_vars
  PROVE  Spared'
<1> SUFFICES ASSUME spent'.drifts = 0
             PROVE  Doomed' # {} => cr'.deleting /\ pc' \in Removing \cup {"idle", "patchStatus"}
  BY DEF Spared
<1>1. spent.drifts = 0 /\ spent'.drifts = spent.drifts
  BY NoDriftBefore
<1>2. CASE Delete
  BY <1>2 DEF Delete, NotDeletable, DeleteRefused, DeleteCall, Refused, StopWith, Goto, At,
     Removing, Finalized
<1>3. CASE ~Delete
  <2>1. Doomed # {} => cr.deleting /\ pc \in Removing \cup {"idle", "patchStatus"}
    BY <1>1 DEF Spared
  <2>2. Doomed' \subseteq Doomed
    BY <1>1, <1>3, NothingMoreIsDoomed
  <2>3. ASSUME cr.deleting, pc \in Removing \cup {"idle", "patchStatus"}
        PROVE  cr'.deleting /\ pc' \in Removing \cup {"idle", "patchStatus"}
    <3>1. cr'.deleting
      BY <2>3 DEF vars, Next, Worker, Sync, Remove, User, Service, Reconcile, Forget, ReadOne,
         Compare, MarkManaged, Create, MarkUnmanaged, Confirm, SyncTags, Update, PatchSpec,
         LateInitialize, MergePatch, PatchStatus, ReadToDelete, Delete, Release, DeleteCR,
         EditSpec, Settle, Proceed, FailSettle, Drift, Crash, Resync, TypeInv, TypeOK, Object
    <3>2. CASE UNCHANGED vars \/ Forget \/ Resync \/ User \/ Service
      BY <2>3, <3>1, <3>2 DEF vars, Forget, Resync, User, DeleteCR, EditSpec, Service, Settle,
         Proceed, FailSettle, Drift, controller
    <3>3. CASE Reconcile \/ PatchStatus \/ Release \/ Crash
      BY <2>3, <3>1, <3>3 DEF Reconcile, PatchStatus, Release, Crash, Goto, Removing
    <3>4. CASE ReadToDelete
      BY <3>1, <3>4 DEF ReadToDelete, ReadFails, Refused, StopWith, Goto, Removing
    <3>5. CASE ReadOne \/ Compare \/ MarkManaged \/ Create \/ MarkUnmanaged \/ Confirm
               \/ SyncTags \/ Update \/ PatchSpec \/ LateInitialize
      BY <2>3, <3>5 DEF ReadOne, Compare, MarkManaged, Create, MarkUnmanaged, Confirm,
         SyncTags, Update, PatchSpec, LateInitialize, At, Removing
    <3> QED
      BY <1>3, <3>1, <3>2, <3>3, <3>4, <3>5 DEF Next, Worker, Sync, Remove
  <2> QED
    BY <2>1, <2>2, <2>3
<1> QED
  BY <1>2, <1>3

-----------------------------------------------------------------------------
(* The fields the controller follows. *)

LEMMA FieldsFollowed ==
  ASSUME TypeOK, NEW f \in Reconcilable
  PROVE  /\ f \in tracked /\ f \in M.reads /\ f \in M.compares /\ f \in M.sends
         /\ f \in M.waived => f \in M.defaults
         /\ f = "Tags" => M.update.tagged /\ ~M.key.versioned
         /\ f # "Tags" => M.update.mode = "api" /\ f \in Carried
<1>1. /\ f \in tracked \cap M.reads \cap M.compares
      /\ \/ M.update.mode = "api" /\ f \in M.patches \ M.key.fields
         \/ M.update.tagged /\ f = "Tags"
  BY DEF Reconcilable
<1>2. LET followed == M.reads \cap M.compares \cap (M.patches \cup {"Tags"})
      IN  /\ followed \subseteq M.sends /\ followed \cap M.waived \subseteq M.defaults
          /\ M.update.tagged \/ "Tags" \notin M.compares
          /\ M.key.versioned => "Tags" \notin M.reads
  BY FieldsAssumption DEF TypeOK, M
<1> QED
  BY <1>1, <1>2 DEF Carried

(* A field in which snapshot and view do not differ is as it was asked for. *)
LEMMA NoDifferenceIsWanted ==
  ASSUME TypeOK, NEW i, NEW f \in Reconcilable, SeenAt(i, f), ~DiffersAt(f)
  PROVE  WantedAt(i, f)
BY FieldsFollowed DEF SeenAt, DiffersAt, WantedAt

LEMMA SameFields ==
  ASSUME UNCHANGED subject
  PROVE  Reconcilable' = Reconcilable
BY DEF Reconcilable, M, subject

(* What a view is shown rests with the resource, and the answer that names  *)
(* a version is shown again.                                                *)
LEMMA ShownStays ==
  ASSUME UNCHANGED subject, NEW i, aws'[i].val = aws[i].val
  PROVE  /\ latest'.ver = latest.ver => Shown(latest, i)' = Shown(latest, i)
         /\ desired'.ver = desired.ver => Shown(desired, i)' = Shown(desired, i)
         /\ cr'.ver = cr.ver => Shown(cr, i)' = Shown(cr, i)
BY DEF Shown, Unset, M, subject

LEMMA ShownAgain ==
  ASSUME UNCHANGED <<subject, aws>>, NEW i, NEW view, latest'.ver = Version(Shown(view, i))
  PROVE  Shown(latest, i)' = Shown(view, i)
BY DEF Shown, Version, Unset, M, subject

LEMMA ShownAsAnswered ==
  ASSUME UNCHANGED subject, NEW i, latest'.ver = Version(aws'[i].val)
  PROVE  Shown(latest, i)' = aws'[i].val
BY DEF Shown, Version, Unset, M, subject

(* What the last steps of a reconcile leave of what was brought about.      *)
LEMMA StaysBrought ==
  ASSUME UNCHANGED subject, UNCHANGED desired, Untouched, Brought(latest),
         Key(latest'.val) = Key(latest.val), M.key.needsID => latest'.id = latest.id,
         \A i \in Found(latest), f \in Reconcilable :
           Shown(latest, i)'[f] = Shown(latest, i)[f]
  PROVE  Brought(latest)'
<1>1. Found(latest)' = Found(latest)
  BY UntouchedIsUnmoved, ViewFinds
<1>2. \A i \in Found(latest), f \in Reconcilable : WantedAt(i, f)'
  BY DEF Brought, WantedAt, M, subject
<1> QED
  BY <1>1, <1>2, SameFields DEF Brought

-----------------------------------------------------------------------------
(* Each step of a reconcile, as long as nothing drifts. *)

LEMMA NothingClaimed ==
  ASSUME pc' \notin Syncing, ~Closing'
  PROVE  ViewIsTrue' /\ (Closing => Brought(latest))'
BY DEF ViewIsTrue

(* Nothing moves but the service, the user and the queue.                   *)
LEMMA StandsStill ==
  ASSUME UNCHANGED subject, UNCHANGED controller, Untouched, Closing' => Closing,
         ViewIsTrue, Closing => Brought(latest)
  PROVE  ViewIsTrue' /\ (Closing => Brought(latest))'
<1>1. UNCHANGED <<desired, latest, pc>>
  BY DEF controller
<1>2. Found(latest)' = Found(latest)
  BY <1>1, UntouchedIsUnmoved, ViewFinds
<1>3. ASSUME NEW i \in Found(latest)
      PROVE  Shown(latest, i)' = Shown(latest, i) /\ Shown(desired, i)' = Shown(desired, i)
  <2>1. aws'[i].val = aws[i].val
    BY DEF Untouched, Found, Alive
  <2> QED
    BY <1>1, <2>1, ShownStays
<1>4. ASSUME NEW i \in Found(latest), NEW f
      PROVE  /\ SeenAt(i, f) => SeenAt(i, f)'
             /\ WantedAt(i, f) => WantedAt(i, f)'
             /\ AlikeAt(i, f) => AlikeAt(i, f)'
  BY <1>1, <1>3 DEF SeenAt, WantedAt, AlikeAt, M, subject
<1>5. ViewIsTrue'
  <2> SUFFICES ASSUME pc \in Syncing
               PROVE  /\ latest.id \in Found(latest)
                      /\ \A i \in Found(latest), f \in tracked \cap M.reads :
                           f # "Tags" \/ pc = "compare" => SeenAt(i, f)'
                      /\ \A i \in Found(latest), f \in Reconcilable : AlikeAt(i, f)'
                      /\ pc = "update" => \A i \in Found(latest), f \in Reconcilable \cap {"Tags"} :
                                            WantedAt(i, f)'
    BY <1>1, <1>2, SameFields DEF ViewIsTrue, M, subject
  <2> QED
    BY <1>4 DEF ViewIsTrue
<1>6. Closing => Brought(latest)'
  BY <1>1, <1>3, StaysBrought
<1> QED
  BY <1>5, <1>6

LEMMA ReadIsTrue ==
  ASSUME TypeInv, NamedOnce, UNCHANGED subject, UNCHANGED <<desired, service>>, pc' = "compare",
         NEW i \in Found(desired), latest' = Observed(desired, i)
  PROVE  ViewIsTrue'
<1>1. /\ Key(latest'.val) = Key(desired.val) /\ latest'.id = i
      /\ M.key.needsID => i = desired.id
  BY ObservedKeepsKey DEF TypeInv
<1>2. Unmoved
  BY NothingTouched, UntouchedIsUnmoved
<1>3. Found(latest)' = Found(desired)
  <2>1. Found(latest)' = {j \in Ids : Live(j)' /\ Key(aws'[j].val) = Key(latest'.val)
                                               /\ (M.key.needsID => j = latest'.id)}
    BY DEF Found, Key, M, subject
  <2> QED
    BY <1>1, <1>2, <2>1, FoundStays
<1>4. \A j \in Found(desired) : j = i
  BY OnlyOneFound
<1>5. Shown(latest, i)' = Shown(desired, i) /\ Shown(desired, i)' = Shown(desired, i)
  <2>1. latest'.ver = Version(Shown(desired, i))
    BY DEF Observed
  <2>2. UNCHANGED <<aws, desired>>
    BY DEF service
  <2> QED
    BY <2>1, <2>2, ShownAgain, ShownStays
<1>6. \A f \in tracked \cap M.reads : SeenAt(i, f)'
  BY <1>5 DEF SeenAt, Observed, Overlay
<1>7. \A f : AlikeAt(i, f)'
  BY <1>5 DEF AlikeAt
<1> QED
  BY <1>1, <1>3, <1>4, <1>6, <1>7 DEF ViewIsTrue, M, subject

LEMMA CompareProgress ==
  ASSUME TypeOK, UNCHANGED subject, Compare, ViewIsTrue
  PROVE  ViewIsTrue' /\ (Closing => Brought(latest))'
<1>1. /\ pc = "compare" /\ UNCHANGED <<desired, latest, service>>
      /\ pc' = IF M.update.tagged /\ "Tags" \in tracked /\ DiffersAt("Tags") THEN "tags"
               ELSE IF Differs THEN "update" ELSE Last
  BY DEF Compare, At, Goto
<1>2. Untouched /\ Found(latest)' = Found(latest)
  BY <1>1, NothingTouched, UntouchedIsUnmoved, ViewFinds
<1>3. /\ latest.id \in Found(latest)
      /\ \A i \in Found(latest), f \in tracked \cap M.reads : SeenAt(i, f)
      /\ \A i \in Found(latest), f \in Reconcilable : AlikeAt(i, f)
  BY <1>1 DEF ViewIsTrue, Syncing
<1>4. ASSUME NEW i, NEW f
      PROVE  /\ SeenAt(i, f)' <=> SeenAt(i, f)
             /\ WantedAt(i, f)' <=> WantedAt(i, f)
             /\ AlikeAt(i, f)' <=> AlikeAt(i, f)
  <2>1. Shown(latest, i)' = Shown(latest, i) /\ Shown(desired, i)' = Shown(desired, i)
    BY <1>1, ShownStays DEF service
  <2> QED
    BY <1>1, <2>1 DEF SeenAt, WantedAt, AlikeAt, M, subject
<1>5. \A i \in Found(latest), f \in Reconcilable : ~DiffersAt(f) => WantedAt(i, f)
  BY <1>3, FieldsFollowed, NoDifferenceIsWanted
<1>6. pc' = "update" => \A f \in Reconcilable \cap {"Tags"} : ~DiffersAt(f)
  <2>1. "Tags" \in Reconcilable => M.update.tagged /\ "Tags" \in tracked
    BY FieldsFollowed
  <2>2. pc' = "update" => ~(M.update.tagged /\ "Tags" \in tracked /\ DiffersAt("Tags"))
    BY <1>1
  <2> QED
    BY <2>1, <2>2
<1>7. pc' \in {"lateInit", "patchStatus"} => \A f \in Reconcilable : ~DiffersAt(f)
  BY <1>1, FieldsFollowed DEF Differs
<1>8. ViewIsTrue'
  <2>1. pc' # "compare"
    BY <1>1 DEF Last
  <2>2. latest'.id \in Found(latest)'
    BY <1>1, <1>2, <1>3
  <2>3. \A i \in Found(latest)', f \in tracked \cap M.reads : SeenAt(i, f)'
    BY <1>2, <1>3, <1>4
  <2>4. pc' = "update" => \A i \in Found(latest)', f \in Reconcilable \cap {"Tags"} : WantedAt(i, f)'
    BY <1>2, <1>4, <1>5, <1>6
  <2>5. \A i \in Found(latest)', f \in Reconcilable : AlikeAt(i, f)'
    BY <1>2, <1>3, <1>4
  <2> QED
    BY <2>1, <2>2, <2>3, <2>4, <2>5, SameFields DEF ViewIsTrue, M, subject
<1>9. Closing' => pc' \in {"lateInit", "patchStatus"}
  BY <1>1 DEF Closing, Last
<1>10. Closing' => Brought(latest)'
  BY <1>2, <1>3, <1>4, <1>5, <1>7, <1>9, SameFields DEF Brought
<1> QED
  BY <1>8, <1>10

LEMMA TagsProgress ==
  ASSUME TypeInv, TagStep, NamedOnce, UNCHANGED subject, SyncTags, ViewIsTrue
  PROVE  ViewIsTrue' /\ (Closing => Brought(latest))'
<1>1. pc = "tags" /\ UNCHANGED <<desired, latest>>
  BY DEF SyncTags, At
<1>2. CASE pc' = "update"
  <2>1. aws' = [aws EXCEPT ![latest.id].val["Tags"] = desired.val["Tags"]]
    BY <1>2 DEF SyncTags, Refused, StopWith, Goto
  <2>2. latest.id \in Ids /\ "Tags" \in tracked /\ aws \in [Ids -> Resource]
    BY <1>1 DEF TagStep, TypeInv, TypeOK
  <2>3. "Tags" \notin M.key.fields
    BY NamesAssumption DEF TypeInv, TypeOK, M
  <2>4. \A j \in Ids : /\ aws'[j].st = aws[j].st
                       /\ \A f \in tracked \ {"Tags"} : aws'[j].val[f] = aws[j].val[f]
    BY <2>1, <2>2 DEF Resource, Vals
  <2>5. aws'[latest.id].val["Tags"] = desired.val["Tags"]
    BY <2>1, <2>2 DEF Resource, Vals
  <2>6. Unmoved
    BY <2>3, <2>4 DEF Unmoved, Alive, Live, Key
  <2>7. Found(latest)' = Found(latest)
    BY <1>1, <2>6, ViewFinds
  <2>8. latest.id \in Found(latest) /\ \A i \in Found(latest) : i = latest.id
    BY <1>1, OnlyOneFound DEF ViewIsTrue, Syncing
  <2>9. \A f \in tracked \ {"Tags"} :
          /\ Shown(latest, latest.id)'[f] = Shown(latest, latest.id)[f]
          /\ Shown(desired, latest.id)'[f] = Shown(desired, latest.id)[f]
    BY <1>1, <2>2, <2>4 DEF Shown, Unset, M, subject
  <2>10. \A f \in tracked \cap M.reads : f # "Tags" => SeenAt(latest.id, f)'
    BY <1>1, <2>8, <2>9 DEF ViewIsTrue, Syncing, SeenAt
  <2>11. "Tags" \in Reconcilable => WantedAt(latest.id, "Tags")' /\ AlikeAt(latest.id, "Tags")'
    <3>1. "Tags" \in Reconcilable => ~M.key.versioned
      BY FieldsFollowed DEF TypeInv
    <3>2. ~M.key.versioned => \A view : Shown(view, latest.id)' = aws'[latest.id].val
      BY <1>1 DEF Shown, M, subject
    <3> QED
      BY <1>1, <2>5, <3>1, <3>2 DEF WantedAt, AlikeAt, Shown, M, subject
  <2>12. \A f \in Reconcilable : AlikeAt(latest.id, f)'
    <3>1. \A f \in Reconcilable : f \in tracked /\ AlikeAt(latest.id, f)
      BY <1>1, <2>8, FieldsFollowed DEF ViewIsTrue, Syncing, TypeInv
    <3> QED
      BY <1>1, <2>9, <2>11, <3>1 DEF AlikeAt
  <2>13. ViewIsTrue'
    BY <1>1, <1>2, <2>7, <2>8, <2>10, <2>11, <2>12, SameFields DEF ViewIsTrue, M, subject
  <2>14. ~Closing'
    BY <1>2 DEF Closing
  <2> QED
    BY <2>13, <2>14
<1>3. CASE pc' # "update"
  <2>1. pc' = "patchStatus" /\ err' # "ok"
    BY <1>3, ClassIsError DEF SyncTags, Refused, StopWith, Goto
  <2> QED
    BY <2>1, NothingClaimed DEF Closing, Syncing
<1> QED
  BY <1>2, <1>3

LEMMA CreateProgress ==
  ASSUME TypeInv, NamesInv, UNCHANGED subject, Create
  PROVE  ViewIsTrue' /\ (Closing => Brought(latest))'
<1>1. CASE Creates /\ latest' = Created /\ pc' = "confirm"
  <2> DEFINE new == Filled(Overlay(M.sends, desired.val, Unset))
  <2>1. pc = "create" /\ UNCHANGED desired
    BY <1>1 DEF Create, At
  <2>2. PICK k \in Ids : k = made'
    BY <1>1, TypeCreates
  <2>3. Key(aws'[k].val) = Key(desired.val)
    BY <1>1, <2>2, CreatedIsNamed
  <2>4. aws'[k].st = Life.creating /\ aws'[k].val = new
    <3>1. aws' = [aws EXCEPT ![k] = Put(Life.creating, new, FALSE)]
      BY <1>1, <2>2 DEF Creates
    <3> HIDE DEF new
    <3> QED
      BY <3>1 DEF Put, TypeInv, TypeOK
  <2>5. Live(k)'
    BY <2>4, LifeIsSound DEF Live, TypeInv
  <2>6. latest'.id = k /\ Key(latest'.val) = Key(desired.val)
    BY <1>1, <2>2, <2>3, OverlayKeepsKey DEF Created
  <2>7. Found(latest)' = {j \in Ids : /\ aws'[j].st \notin {Absent, Gone}
                                      /\ Key(aws'[j].val) = Key(latest'.val)
                                      /\ M.key.needsID => j = latest'.id}
    BY DEF Found, Live, Key, M, subject
  <2>8. k \in Found(latest)'
    BY <2>3, <2>5, <2>6, <2>7 DEF Live
  <2>9. ASSUME NEW j \in Found(latest)' PROVE j = k
    <3>1. CASE M.key.needsID
      BY <2>6, <2>7, <2>9, <3>1
    <3>2. CASE ~M.key.needsID
      <4>1. Key(aws'[j].val) = Key(aws'[k].val) /\ Live(j)' /\ j \in Ids
        BY <2>3, <2>6, <2>7, <2>9 DEF Live
      <4>2. NamedOnce'
        BY <1>1, <2>1, CreatesNamesOnce
      <4> QED
        BY <2>5, <3>2, <4>1, <4>2 DEF NamedOnce, Key, M, subject
    <3> QED
      BY <3>1, <3>2
  <2>10. ASSUME NEW f \in Reconcilable
         PROVE  aws'[k].val[f] = desired.val[f] \/ (f \in M.defaults /\ desired.val[f] = 0)
    <3>1. f \in tracked /\ f \in M.sends
      BY FieldsFollowed DEF TypeInv
    <3> QED
      BY <2>4, <3>1 DEF Filled, Overlay
  <2>11. \A f \in Reconcilable : WantedAt(k, f)'
    <3>1. Shown(latest, k)' = aws'[k].val
      <4>1. latest'.ver = Version(aws'[k].val)
        BY <1>1, <2>2 DEF Created
      <4> QED
        BY <4>1, ShownAsAnswered
    <3> QED
      BY <2>1, <2>10, <3>1 DEF WantedAt, M, subject
  <2> QED
    BY <1>1, <2>8, <2>9, <2>11, SameFields DEF Brought, ViewIsTrue, Syncing
<1>2. CASE pc' = "unmanage"
  BY <1>2, NothingClaimed DEF Closing, Syncing
<1> QED
  BY <1>1, <1>2 DEF Create, Goto

(* With nothing left to compare but the tags, which are synchronised.       *)
LEMMA NothingElseProgress ==
  ASSUME TypeInv, NamedOnce, Steady, UNCHANGED subject, Update, ViewIsTrue,
         NothingElse \/ CustomUpdate
  PROVE  ViewIsTrue' /\ (Closing => Brought(latest))'
<1>1. pc = "update" /\ UNCHANGED <<desired, made, aws>>
  BY DEF Update, NothingElse, CustomUpdate, At
<1>2. latest \in View /\ desired \in View
  BY DEF TypeInv, TypeOK
<1>3. CASE pc' = "patchSpec"
  <2>1. latest' = desired \/ latest' = [latest EXCEPT !.val = desired.val]
    BY <1>3 DEF NothingElse, CustomUpdate, StopWith, Goto
  <2>2. Key(latest'.val) = Key(latest.val) /\ (M.key.needsID => latest'.id = latest.id)
    BY <1>1, <1>2, <2>1 DEF Steady, View
  <2>3. \A f \in Reconcilable : f # "Tags" => ~DiffersAt(f)
    BY <1>3, FieldsFollowed
    DEF NothingElse, CustomUpdate, DiffersElsewhere, StopWith, Goto, TypeInv
  <2>4. \A i \in Found(latest), f \in Reconcilable : WantedAt(i, f)
    <3> SUFFICES ASSUME NEW i \in Found(latest), NEW f \in Reconcilable PROVE WantedAt(i, f)
      OBVIOUS
    <3>1. CASE f = "Tags"
      BY <1>1, <3>1 DEF ViewIsTrue, Syncing
    <3>2. CASE f # "Tags"
      <4>1. SeenAt(i, f)
        BY <1>1, <3>2, FieldsFollowed DEF ViewIsTrue, Syncing, TypeInv
      <4> QED
        BY <2>3, <3>2, <4>1, NoDifferenceIsWanted DEF TypeInv
    <3> QED
      BY <3>1, <3>2
  <2>5. Brought(latest)
    BY <1>1, <2>4 DEF Brought, ViewIsTrue, Syncing
  <2>6. \A i \in Found(latest), f \in Reconcilable :
          Shown(latest, i)'[f] = Shown(latest, i)[f]
    <3>1. CASE latest' = desired
      <4>1. \A i : Shown(latest, i)' = Shown(desired, i)
        BY <1>1, <3>1 DEF Shown, Unset, M, subject
      <4> QED
        BY <1>1, <4>1 DEF ViewIsTrue, Syncing, AlikeAt
    <3>2. CASE latest' = [latest EXCEPT !.val = desired.val]
      <4>1. latest'.ver = latest.ver
        BY <1>2, <3>2 DEF View
      <4> QED
        BY <1>1, <4>1 DEF Shown, Unset, M, subject
    <3> QED
      BY <2>1, <3>1, <3>2
  <2>7. Brought(latest)'
    BY <1>1, <2>2, <2>5, <2>6, NothingTouched, StaysBrought DEF service
  <2> QED
    BY <1>3, <2>7 DEF ViewIsTrue, Syncing
<1>4. CASE pc' # "patchSpec"
  <2>1. pc' = "patchStatus" /\ err' # "ok"
    BY <1>4 DEF NothingElse, CustomUpdate, StopWith, Goto
  <2> QED
    BY <2>1, NothingClaimed DEF Closing, Syncing
<1> QED
  BY <1>3, <1>4

LEMMA UpdateCallProgress ==
  ASSUME TypeInv, NamedOnce, Steady, UNCHANGED subject, Update, ViewIsTrue,
         NEW i \in Ids, UpdateCall(i)
  PROVE  ViewIsTrue' /\ (Closing => Brought(latest))'
<1> DEFINE sent == Overlay(Sent, desired.val, aws[i].val)
<1>1. pc = "update" /\ UNCHANGED desired /\ i \in Found(desired)
  BY DEF Update, UpdateCall, At
<1>2. CASE pc' = "patchSpec"
  <2>1. latest' = [val    |-> Overlay(M.update.returns, aws'[i].val, desired.val),
                   id     |-> i,
                   ver    |-> Version(aws'[i].val),
                   status |-> aws'[i].st]
    BY <1>2 DEF UpdateCall, StopWith, Goto
  <2>2. latest'.id = i /\ Key(latest'.val) = Key(desired.val)
    BY <2>1, UpdatedKeepsKey
  <2>3. Key(latest.val) = Key(desired.val) /\ (M.key.needsID => latest.id = desired.id)
    BY <1>1 DEF Steady
  <2>4. Found(latest) = Found(desired)
    BY <2>3 DEF Found
  <2>5. Unmoved
    <3>1. NamesKept /\ Alive' \subseteq Alive
      BY UpdateKeepsName, AliveShrinks
    <3>2. aws'[i].st = Life.updating /\ \A j \in Ids \ {i} : aws'[j].st = aws[j].st
      BY DEF UpdateCall, Put, TypeInv, TypeOK
    <3>3. Alive \subseteq Alive'
      BY <3>2, LifeIsSound DEF Alive, Live, TypeInv
    <3> QED
      BY <3>1, <3>3 DEF Unmoved, NamesKept, Alive
  <2>6. M.key.needsID => i = desired.id
    BY <1>1 DEF Found
  <2>7. Found(latest)' = Found(latest)
    BY <2>2, <2>3, <2>5, <2>6, ViewFinds
  <2>8. \A j \in Found(latest) : j = i
    BY <1>1, <2>4, OnlyOneFound
  <2>9. aws' = [aws EXCEPT ![i] = Put(Life.updating, sent, FALSE)]
    BY DEF UpdateCall, TypeInv, TypeOK
  <2>10. aws'[i].val = sent
    <3> HIDE DEF sent
    <3> QED
      BY <2>9 DEF Put, TypeInv, TypeOK
  <2>11. ASSUME NEW f \in Reconcilable
         PROVE  aws'[i].val[f] = desired.val[f] \/ (f \in M.defaults /\ desired.val[f] = 0)
    <3>1. f \in tracked
      BY FieldsFollowed DEF TypeInv
    <3>2. CASE f = "Tags"
      <4>1. f \notin Sent
        BY <3>2 DEF Sent, Carried
      <4>2. aws'[i].val[f] = aws[i].val[f]
        BY <2>10, <3>1, <4>1 DEF Overlay
      <4>3. WantedAt(i, f)
        BY <1>1, <2>4, <3>2 DEF ViewIsTrue, Syncing
      <4>4. ~M.key.versioned
        BY <3>2, FieldsFollowed DEF TypeInv
      <4> QED
        BY <4>2, <4>3, <4>4 DEF WantedAt, Shown
    <3>3. CASE f # "Tags"
      <4>1. f \in Carried
        BY <3>3, FieldsFollowed DEF TypeInv
      <4> QED
        BY <2>10, <3>1, <4>1 DEF Overlay, Sent
    <3> QED
      BY <3>2, <3>3
  <2>12. \A f \in Reconcilable : WantedAt(i, f)'
    <3>1. Shown(latest, i)' = aws'[i].val
      BY <2>1, ShownAsAnswered
    <3> QED
      BY <1>1, <2>11, <3>1 DEF WantedAt, M, subject
  <2>13. Brought(latest)'
    BY <1>1, <2>4, <2>7, <2>8, <2>12, SameFields DEF Brought
  <2> QED
    BY <1>2, <2>13 DEF ViewIsTrue, Syncing
<1>3. CASE pc' # "patchSpec"
  <2>1. pc' = "patchStatus" /\ err' # "ok"
    BY <1>3 DEF UpdateCall, StopWith, Goto
  <2> QED
    BY <2>1, NothingClaimed DEF Closing, Syncing
<1> QED
  BY <1>2, <1>3

LEMMA UpdateProgress ==
  ASSUME TypeInv, NamedOnce, Steady, UNCHANGED subject, Update, ViewIsTrue
  PROVE  ViewIsTrue' /\ (Closing => Brought(latest))'
<1>1. CASE NotUpdatable \/ UpdateRefused
  <2>1. pc' = "patchStatus" /\ err' # "ok"
    BY <1>1, ClassIsError DEF NotUpdatable, UpdateRefused, Refused, StopWith, Goto
  <2> QED
    BY <2>1, NothingClaimed DEF Closing, Syncing
<1> QED
  BY <1>1, NothingElseProgress, UpdateCallProgress DEF Update

(* What an Update, or a Create, brought about is still there when the       *)
(* object is patched.                                                       *)
LEMMA CloseProgress ==
  ASSUME TypeInv, NamedOnce, UNCHANGED subject, Confirm \/ PatchSpec \/ LateInitialize,
         Closing => Brought(latest)
  PROVE  ViewIsTrue' /\ (Closing => Brought(latest))'
<1>1. Closing /\ UNCHANGED <<desired, service>> /\ latest \in View
  BY DEF Closing, Confirm, PatchSpec, LateInitialize, At, TypeInv, TypeOK
<1>2. pc' \notin Syncing
  BY DEF Confirm, PatchSpec, LateInitialize, MergePatch, Last, Refused, StopWith, Goto, Syncing
<1>3. ASSUME latest'.ver = latest.ver
      PROVE  \A j : Shown(latest, j)' = Shown(latest, j)
  BY <1>1, <1>3, ShownStays DEF service
<1>4. CASE UNCHANGED latest
  BY <1>1, <1>2, <1>3, <1>4, NothingTouched, StaysBrought DEF ViewIsTrue
<1>5. ASSUME NEW i \in Found(latest), latest' = Confirmed(i)
      PROVE  Brought(latest)'
  <2>1. /\ latest'.val = latest.val /\ latest'.id = i
        /\ latest'.ver = Version(Shown(latest, i))
    BY <1>1, <1>5 DEF Confirmed, View
  <2>2. M.key.needsID => i = latest.id
    BY DEF Found
  <2>3. Shown(latest, i)' = Shown(latest, i)
    BY <1>1, <2>1, ShownAgain DEF service
  <2>4. \A j \in Found(latest) : j = i
    BY OnlyOneFound
  <2> QED
    BY <1>1, <2>1, <2>2, <2>3, <2>4, NothingTouched, StaysBrought
<1>6. ASSUME NEW i \in Found(latest), latest' = [latest EXCEPT !.val = LateInitialized(i)]
      PROVE  Brought(latest)'
  <2>1. latest'.val = LateInitialized(i) /\ latest'.id = latest.id /\ latest'.ver = latest.ver
    BY <1>1, <1>6 DEF View
  <2>2. Key(latest'.val) = Key(latest.val)
    BY <2>1, LateKeepsKey DEF TypeInv
  <2> QED
    BY <1>1, <1>3, <2>1, <2>2, NothingTouched, StaysBrought
<1> QED
  BY <1>2, <1>4, <1>5, <1>6 DEF Confirm, PatchSpec, LateInitialize, ViewIsTrue

LEMMA ProgressNext ==
  ASSUME TypeInv, TagStep, NamesInv, Steady, Spared, CreateHasFailed, ProgressInv, [Next]_vars
  PROVE  ProgressInv'
<1> SUFFICES ASSUME spent'.drifts = 0
             PROVE  ViewIsTrue' /\ (Closing => Brought(latest))'
  BY DEF ProgressInv
<1>1. spent.drifts = 0 /\ spent'.drifts = spent.drifts
  BY NoDriftBefore
<1>2. ViewIsTrue /\ (Closing => Brought(latest))
  BY <1>1 DEF ProgressInv
<1>3. UNCHANGED subject /\ TypeOK /\ NamedOnce /\ cr \in Object
  BY DEF Next, vars, NamesInv, TypeInv, TypeOK
<1>4. CASE UNCHANGED vars \/ User \/ Forget \/ Resync
  <2>1. UNCHANGED <<controller, service>>
    BY <1>4 DEF vars, User, DeleteCR, EditSpec, Forget, Resync
  <2>2. cr'.present => cr.present
    BY <1>3, <1>4 DEF vars, User, DeleteCR, EditSpec, Forget, Resync, Object
  <2>3. ~cr'.deleting => ~cr.deleting
    BY <1>3, <1>4 DEF vars, User, DeleteCR, EditSpec, Forget, Resync, Object
  <2>4. Closing' => Closing
    BY <2>1, <2>2, <2>3 DEF Closing, controller
  <2> QED
    BY <1>2, <1>3, <2>1, <2>4, NothingTouched, StandsStill
<1>5. CASE Service
  <2>1. UNCHANGED <<controller, cr>>
    BY <1>5 DEF Service, Settle, Proceed, FailSettle, Drift
  <2>2. Closing' = Closing
    BY <2>1 DEF Closing, controller
  <2>3. CASE pc \in Syncing \/ Closing
    <3>1. Untouched
      BY <1>1, <1>3, <1>5, <2>3, NothingIsDoomed, ServiceTouchesNothing
    <3> QED
      BY <1>2, <1>3, <2>1, <2>2, <3>1, StandsStill
  <2>4. CASE pc \notin Syncing /\ ~Closing
    BY <2>1, <2>2, <2>4, NothingClaimed DEF controller
  <2> QED
    BY <2>3, <2>4
<1>6. CASE ReadOne
  <2>1. CASE pc' = "compare"
    <3>1. PICK i \in Found(desired) : latest' = Observed(desired, i)
      BY <1>6, <2>1 DEF ReadOne, ReadFails, Refused, StopWith, Goto
    <3> QED
      BY <1>3, <1>6, <2>1, <3>1, ReadIsTrue DEF ReadOne, Closing
  <2>2. CASE pc' # "compare"
    <3>1. pc' \in {"create", "manage"} \/ (pc' = "patchStatus" /\ err' # "ok")
      BY <1>6, <2>2, ClassIsError DEF ReadOne, ReadFails, Refused, StopWith, Goto
    <3> QED
      BY <3>1, NothingClaimed DEF Closing, Syncing
  <2> QED
    BY <2>1, <2>2
<1>7. CASE Compare \/ SyncTags \/ Update \/ Create
  BY <1>2, <1>3, <1>7, CompareProgress, TagsProgress, UpdateProgress, CreateProgress
<1>8. CASE Confirm \/ PatchSpec \/ LateInitialize
  BY <1>2, <1>3, <1>8, CloseProgress
<1>9. CASE Reconcile \/ PatchStatus \/ Release \/ Crash
  <2>1. pc' \in {"idle", "read", "readToDelete"}
    BY <1>9 DEF Reconcile, PatchStatus, Release, Crash, Goto
  <2> QED
    BY <2>1, NothingClaimed DEF Closing, Syncing
<1>10. CASE MarkManaged
  <2>1. pc' = "create" \/ (pc' = "patchStatus" /\ ~cr'.present)
    BY <1>10 DEF MarkManaged, Goto
  <2> QED
    BY <2>1, NothingClaimed DEF Closing, Syncing
<1>11. CASE MarkUnmanaged \/ ReadToDelete \/ Delete
  <2>1. pc' \in {"delete", "release"} \/ (pc' = "patchStatus" /\ err' # "ok")
    BY <1>11, ClassIsError DEF MarkUnmanaged, ReadToDelete, ReadFails, Delete, NotDeletable,
       DeleteRefused, DeleteCall, Refused, StopWith, At, Goto, CreateHasFailed
  <2> QED
    BY <2>1, NothingClaimed DEF Closing, Syncing
<1> QED
  BY <1>4, <1>5, <1>6, <1>7, <1>8, <1>9, <1>10, <1>11 DEF Next, Worker, Sync, Remove

-----------------------------------------------------------------------------
(* Between two reconciles. *)

(* An object that says it is synced and rests stays as it is, but for what  *)
(* the service does.                                                        *)
LEMMA RestsOrIsPatched ==
  ASSUME TypeInv, [Next]_vars, Quiet', cr'.synced
  PROVE  \/ PatchStatus
         \/ /\ Quiet /\ UNCHANGED <<cr, controller, subject>>
            /\ UNCHANGED service \/ Service
<1>1. cr \in Object
  BY DEF TypeInv, TypeOK
<1>2. pc' = "idle" /\ ~queued' /\ cr'.present
  BY DEF Quiet
<1>3. CASE UNCHANGED vars
  BY <1>3 DEF vars, Quiet, controller
<1>4. CASE Service
  <2>1. UNCHANGED <<cr, queued, controller>>
    BY <1>4 DEF Service, Settle, Proceed, FailSettle, Drift
  <2>2. UNCHANGED subject
    BY DEF Next, vars
  <2> QED
    BY <1>4, <2>1, <2>2 DEF Quiet, controller
<1>5. ~(User \/ Crash \/ Resync \/ Forget \/ Reconcile \/ Release)
  BY <1>1, <1>2 DEF User, DeleteCR, EditSpec, Crash, Resync, Forget, At, Reconcile, Release,
     Goto, Object
<1>6. ~(ReadOne \/ Compare \/ MarkManaged \/ Create \/ MarkUnmanaged \/ Confirm \/ SyncTags)
  BY <1>2 DEF ReadOne, ReadFails, Compare, Last, MarkManaged, Create, MarkUnmanaged, Confirm,
     SyncTags, Refused, StopWith, Goto
<1>7. ~(Update \/ PatchSpec \/ LateInitialize \/ ReadToDelete \/ Delete)
  BY <1>2 DEF Update, NothingElse, CustomUpdate, NotUpdatable, UpdateRefused, UpdateCall,
     PatchSpec, LateInitialize, MergePatch, Last, ReadToDelete, ReadFails, Delete,
     NotDeletable, DeleteRefused, DeleteCall, Refused, StopWith, Goto
<1> QED
  BY <1>3, <1>4, <1>5, <1>6, <1>7 DEF Next, Worker, Sync, Remove

(* The object that PatchStatus declares synced is the worker's snapshot,    *)
(* and leads to what its view leads to.                                     *)
LEMMA PatchedIsSynced ==
  ASSUME TypeInv, Steady, QueueInv, [Next]_vars, PatchStatus, Quiet', cr'.synced
  PROVE  /\ Closing /\ IsSynced(latest) /\ UNCHANGED <<aws, subject>>
         /\ cr'.val = desired.val /\ cr'.ver = latest.ver
         /\ Found(cr)' = Found(latest)
<1>1. cr \in Object /\ UNCHANGED subject /\ UNCHANGED service /\ pc = "patchStatus"
  BY DEF TypeInv, TypeOK, Next, vars, PatchStatus, At
<1>2. cr.present /\ ~queued
  BY <1>1 DEF PatchStatus, Quiet, Object
<1>3. /\ cr'.val = cr.val /\ cr'.id = latest.id /\ cr'.synced = IsSynced(latest)
      /\ cr'.deleting = cr.deleting /\ cr'.ver = latest.ver
  BY <1>1, <1>2 DEF PatchStatus, Object
<1>4. err = "ok" /\ ~cr.deleting /\ cr.val = desired.val
  BY <1>1, <1>2, <1>3 DEF IsSynced, QueueInv, SnapshotIsCurrent, DeletionIsSeen, Removing
<1>5. Key(cr'.val) = Key(latest.val)
  BY <1>1, <1>3, <1>4 DEF Steady
<1>6. Found(cr)' = Found(latest)
  BY <1>1, <1>3, <1>5, NothingTouched, UntouchedIsUnmoved, ObjectFinds
<1> QED
  BY <1>1, <1>2, <1>3, <1>4, <1>6 DEF Closing, service

LEMMA AppliedNext ==
  ASSUME TypeInv, Steady, Spared, QueueInv, ProgressInv, SyncedMeansApplied, [Next]_vars
  PROVE  SyncedMeansApplied'
<1> SUFFICES ASSUME Quiet', cr'.synced, spent'.drifts = 0
             PROVE  Found(cr)' # {} /\ \A i \in Found(cr)' : AsAsked(i)'
  BY DEF SyncedMeansApplied
<1>1. spent.drifts = 0 /\ UNCHANGED subject
  BY NoDriftBefore DEF Next, vars
<1>2. CASE PatchStatus
  <2>1. /\ Closing /\ UNCHANGED aws /\ cr'.val = desired.val /\ cr'.ver = latest.ver
        /\ Found(cr)' = Found(latest)
    BY <1>2, PatchedIsSynced
  <2>2. Brought(latest)
    BY <1>1, <2>1 DEF ProgressInv
  <2>3. \A i \in Found(latest) : AsAsked(i)'
    <3>1. \A i : Shown(cr, i)' = Shown(latest, i)
      BY <1>1, <2>1 DEF Shown, Unset, M, subject
    <3> QED
      BY <1>1, <2>1, <2>2, <3>1, SameFields DEF Brought, WantedAt, AsAsked, M, subject
  <2> QED
    BY <2>1, <2>2, <2>3 DEF Brought
<1>3. CASE Quiet /\ UNCHANGED cr /\ (UNCHANGED service \/ Service)
  <2>1. Found(cr) # {} /\ \A i \in Found(cr) : AsAsked(i)
    BY <1>1, <1>3 DEF SyncedMeansApplied
  <2>2. Untouched
    <3>1. CASE UNCHANGED service
      BY <3>1, NothingTouched
    <3>2. CASE Service
      <4>1. Doomed = {}
        BY <1>1, <1>3 DEF Quiet, QueueInv, DeletionIsSeen, Spared
      <4> QED
        BY <1>1, <3>2, <4>1, ServiceTouchesNothing
    <3> QED
      BY <1>3, <3>1, <3>2
  <2>3. Found(cr)' = Found(cr)
    BY <1>1, <1>3, <2>2, UntouchedIsUnmoved, ObjectFinds
  <2>4. \A i \in Found(cr) : Shown(cr, i)' = Shown(cr, i)
    BY <1>1, <1>3, <2>2, ShownStays DEF Untouched, Found, Alive
  <2>5. \A i \in Found(cr) : AsAsked(i)'
    BY <1>1, <1>3, <2>1, <2>4, SameFields DEF AsAsked, M, subject
  <2> QED
    BY <2>1, <2>3, <2>5
<1> QED
  BY <1>2, <1>3, RestsOrIsPatched

AppliedInv ==
  /\ TypeInv /\ TagStep /\ NamesInv /\ Finalized /\ Steady /\ Spared
  /\ QueueInv /\ ProgressInv /\ SyncedMeansApplied

LEMMA AppliedInit == Init => AppliedInv
<1> SUFFICES ASSUME Init PROVE AppliedInv
  OBVIOUS
<1>1. TypeInv /\ pc = "idle"
  BY TypeInit DEF Init
<1>2. cr.synced = FALSE /\ cr.deleting = FALSE /\ cr.finalizer = FALSE
  BY DEF Init
<1>3. \A i \in Ids : ~Live(i)
  BY DEF Init, Live, Put
<1>4. TagStep /\ NamesInv /\ Finalized /\ Steady /\ Spared
  BY <1>1, <1>2, <1>3 DEF TagStep, NamesInv, NamedOnce, NothingFound, Finalized, Managing,
     Removing, Steady, Spared, Doomed, Alive
<1>5. QueueInv
  BY <1>1, <1>2 DEF QueueInv, SnapshotIsCurrent, DeletionIsSeen, CreateHasFailed
<1>6. ProgressInv
  BY <1>1 DEF ProgressInv, ViewIsTrue, Syncing, Closing
<1>7. SyncedMeansApplied
  BY <1>2 DEF SyncedMeansApplied
<1> QED
  BY <1>1, <1>4, <1>5, <1>6, <1>7 DEF AppliedInv

(* An object that says it is synced, and that nothing is due for, has a     *)
(* resource, and the service has every field the controller follows as the  *)
(* user asked for it, wherever edits fell between the calls of the          *)
(* reconciles before.                                                       *)
THEOREM SyncedIsApplied == Spec => []SyncedMeansApplied
<1>1. AppliedInv /\ [Next]_vars => AppliedInv'
  <2> SUFFICES ASSUME AppliedInv, [Next]_vars PROVE AppliedInv'
    OBVIOUS
  <2>1. TypeInv' /\ TagStep' /\ NamesInv'
    BY TypeNext, TagStepNext, NamesNext DEF AppliedInv
  <2>2. Finalized' /\ Steady' /\ Spared'
    BY FinalizedNext, SteadyNext, SparedNext DEF AppliedInv
  <2>3. QueueInv' /\ ProgressInv' /\ SyncedMeansApplied'
    BY QueueNext, ProgressNext, AppliedNext DEF AppliedInv, QueueInv
  <2> QED
    BY <2>1, <2>2, <2>3 DEF AppliedInv
<1>2. AppliedInv => SyncedMeansApplied
  BY DEF AppliedInv
<1> QED
  BY <1>1, <1>2, AppliedInit, PTL DEF Spec

-----------------------------------------------------------------------------
(* The status an object shows. *)

(* The kinds whose sdkUpdate never returns the snapshot in place of what it *)
(* read.                                                                    *)
Covered == ~(M.update.mode = "api" /\ M.update.tagged)

(* Only a difference that an Update is for leads such a kind to sdkUpdate.  *)
UpdateHasReason ==
  Covered /\ M.update.mode = "api" => pc # "tags" /\ (pc = "update" => DiffersElsewhere)

(* What the object is going to show is the status the resource has, unless  *)
(* the resource has come to rest meanwhile.                                 *)
ShownIsRead == Covered /\ Closing => AsRead(latest)

SettledInv ==
  TypeInv /\ TagStep /\ NamesInv /\ Steady /\ StatusIsRead /\ QueueInv
          /\ UpdateHasReason /\ ShownIsRead /\ SyncedMeansSettled

LEMMA ReasonNext ==
  ASSUME TypeInv, UpdateHasReason, [Next]_vars
  PROVE  UpdateHasReason'
<1> SUFFICES ASSUME Covered, M.update.mode = "api"
             PROVE  pc' # "tags" /\ (pc' = "update" => DiffersElsewhere')
  BY DEF UpdateHasReason, Covered, Next, vars, M, subject
<1>1. UNCHANGED subject /\ ~M.update.tagged /\ "Tags" \notin M.compares
  BY FieldsAssumption DEF Next, vars, Covered, TypeInv, TypeOK, M
<1>2. UNCHANGED <<desired, latest>> => DiffersElsewhere' = DiffersElsewhere
  BY <1>1 DEF DiffersElsewhere, DiffersAt, M, subject
<1>3. CASE Compare
  <2>1. UNCHANGED <<desired, latest>> /\ (pc' = "update" => Differs) /\ pc' # "tags"
    BY <1>1, <1>3 DEF Compare, Last, Goto
  <2>2. Differs => DiffersElsewhere
    BY <1>1 DEF Differs, DiffersElsewhere, DiffersAt
  <2> QED
    BY <1>2, <2>1, <2>2
<1>4. CASE UNCHANGED controller
  BY <1>2, <1>4 DEF UpdateHasReason, controller
<1>5. CASE pc' \notin {"tags", "update"}
  BY <1>5
<1>6. CASE SyncTags
  BY <1>6 DEF SyncTags, At, UpdateHasReason
<1>7. CASE UNCHANGED vars \/ Forget \/ Resync \/ Service \/ User
  BY <1>4, <1>7 DEF vars, Forget, Resync, Service, Settle, Proceed, FailSettle, Drift, User, DeleteCR,
     EditSpec
<1>8. CASE Reconcile \/ ReadOne \/ MarkManaged \/ Create \/ MarkUnmanaged \/ Confirm
  BY <1>5, <1>8 DEF Reconcile, ReadOne, ReadFails, MarkManaged, Create, MarkUnmanaged, Confirm,
     Refused, StopWith, Goto
<1>9. CASE Update \/ PatchSpec \/ LateInitialize \/ PatchStatus
  BY <1>5, <1>9 DEF Update, NothingElse, CustomUpdate, NotUpdatable, UpdateRefused, UpdateCall,
     PatchSpec, LateInitialize, MergePatch, Last, PatchStatus, Refused, StopWith, Goto
<1>10. CASE ReadToDelete \/ Delete \/ Release \/ Crash
  BY <1>5, <1>10 DEF ReadToDelete, ReadFails, Delete, NotDeletable, DeleteRefused, DeleteCall,
     Release, Crash, Refused, StopWith, Goto
<1> QED
  BY <1>3, <1>6, <1>7, <1>8, <1>9, <1>10 DEF Next, Worker, Sync, Remove

(* A view that names the same resource and shows the same status is as true *)
(* as the one it follows.                                                   *)
LEMMA ShowsWhatWasRead ==
  ASSUME UNCHANGED subject, UNCHANGED aws, AsRead(latest),
         Key(latest'.val) = Key(latest.val), M.key.needsID => latest'.id = latest.id,
         latest'.status = latest.status
  PROVE  AsRead(latest)'
<1>1. Found(latest)' = Found(latest)
  <2>1. Unmoved
    BY DEF Unmoved, Alive, Live
  <2> QED
    BY <2>1, ViewFinds
<1> QED
  BY <1>1 DEF AsRead, Busy, InFlight, Life, M, subject

(* So is one that shows the status the one resource it finds has now.       *)
LEMMA ShowsWhatIsThere ==
  ASSUME UNCHANGED subject, \A j \in Found(latest)' : aws'[j].st = latest'.status
  PROVE  AsRead(latest)'
BY DEF AsRead, Busy, InFlight

LEMMA ShownRests ==
  ASSUME TypeInv, UNCHANGED subject, UNCHANGED <<latest, pc, err, cr>>, ShownIsRead,
         Service
  PROVE  ShownIsRead'
<1>1. NamesKept /\ StatusesRest
  BY ServiceKeepsNames, ServiceRests
<1>2. Covered' = Covered /\ Closing' = Closing
  BY DEF Covered, Closing, M, subject
<1> QED
  BY <1>1, <1>2, StaysAsRead DEF ShownIsRead

LEMMA ShownByCreate ==
  ASSUME TypeInv, NamesInv, UNCHANGED subject, Create
  PROVE  Closing' => AsRead(latest)'
<1>1. CASE Creates /\ latest' = Created
  <2>1. PICK k \in Ids : k = made'
    BY <1>1, TypeCreates
  <2>2. pc = "create" /\ NamedOnce'
    BY <1>1, CreatesNamesOnce DEF Create, At
  <2>3. latest'.id = k /\ latest'.status = aws'[k].st /\ Key(latest'.val) = Key(aws'[k].val)
    <3>1. Key(aws'[k].val) = Key(desired.val)
      BY <1>1, <2>1, CreatedIsNamed
    <3> QED
      BY <1>1, <2>1, <3>1, OverlayKeepsKey DEF Created
  <2>4. aws'[k].st = Life.creating
    BY <1>1, <2>1 DEF Creates, Put, TypeInv, TypeOK
  <2>5. Live(k)'
    BY <2>4, LifeIsSound DEF Live, TypeInv
  <2>6. ASSUME NEW j \in Found(latest)' PROVE j = k
    <3>1. /\ j \in Ids /\ Live(j)' /\ Key(aws'[j].val) = Key(aws'[k].val)
          /\ M.key.needsID => j = k
      BY <2>3, <2>6 DEF Found, Live, Key, M, subject
    <3> QED
      BY <2>2, <2>5, <3>1 DEF NamedOnce, Key, M, subject
  <2> QED
    BY <2>3, <2>6, ShowsWhatIsThere
<1>2. CASE pc' = "unmanage"
  BY <1>2 DEF Closing
<1> QED
  BY <1>1, <1>2 DEF Create, Goto

LEMMA ShownByUpdate ==
  ASSUME TypeInv, NamedOnce, Steady, UNCHANGED subject, Update,
         AsRead(latest), M.update.mode = "api" => DiffersElsewhere
  PROVE  Closing' => AsRead(latest)'
<1>1. latest \in View /\ desired \in View /\ pc = "update" /\ UNCHANGED desired
  BY DEF TypeInv, TypeOK, Update, At
<1>2. CASE NothingElse \/ CustomUpdate
  <2>1. CASE latest' = [latest EXCEPT !.val = desired.val]
    <3>1. /\ latest'.val = desired.val /\ latest'.id = latest.id
          /\ latest'.status = latest.status
      BY <1>1, <2>1 DEF View
    <3>2. UNCHANGED aws /\ Key(latest'.val) = Key(latest.val)
      BY <1>1, <1>2, <3>1 DEF NothingElse, CustomUpdate, Steady
    <3> QED
      BY <3>1, <3>2, ShowsWhatWasRead
  <2>2. CASE pc' = "patchStatus" /\ err' # "ok"
    BY <2>2 DEF Closing
  <2> QED
    BY <1>2, <2>1, <2>2 DEF NothingElse, CustomUpdate, StopWith, Goto
<1>3. CASE NotUpdatable \/ UpdateRefused
  BY <1>3, ClassIsError
  DEF NotUpdatable, UpdateRefused, Refused, StopWith, Goto, Closing
<1>4. ASSUME NEW i \in Ids, UpdateCall(i)
      PROVE  Closing' => AsRead(latest)'
  <2>1. CASE latest' = [val    |-> Overlay(M.update.returns, aws'[i].val, desired.val),
                        id     |-> i,
                        ver    |-> Version(aws'[i].val),
                        status |-> aws'[i].st]
    <3>1. /\ latest'.id = i /\ latest'.status = aws'[i].st
          /\ Key(latest'.val) = Key(desired.val)
      BY <1>4, <2>1, UpdatedKeepsKey
    <3>2. i \in Found(desired) /\ NamesKept
      BY <1>4, UpdateKeepsName DEF UpdateCall
    <3>3. ASSUME NEW j \in Found(latest)' PROVE j = i
      <4>1. /\ j \in Ids /\ Live(j)' /\ Key(aws'[j].val) = Key(desired.val)
            /\ M.key.needsID => j = i
        BY <3>1, <3>3 DEF Found, Live, Key, M, subject
      <4>2. CASE ~M.key.needsID
        <5>1. j \in Found(desired)
          BY <3>2, <4>1, <4>2, FoundWasFound
        <5> QED
          BY <3>2, <5>1, OnlyOneFound
      <4> QED
        BY <4>1, <4>2
    <3> QED
      BY <3>1, <3>3, ShowsWhatIsThere
  <2>2. CASE pc' = "patchStatus" /\ err' # "ok"
    BY <2>2 DEF Closing
  <2> QED
    BY <1>4, <2>1, <2>2 DEF UpdateCall, StopWith, Goto
<1> QED
  BY <1>2, <1>3, <1>4 DEF Update

LEMMA ShownNext ==
  ASSUME SettledInv, [Next]_vars
  PROVE  ShownIsRead'
<1>1. TypeInv /\ NamesInv /\ NamedOnce /\ Steady /\ CreateHasFailed /\ ShownIsRead
  BY DEF SettledInv, NamesInv, QueueInv
<1>2. UNCHANGED subject /\ Covered' = Covered /\ cr \in Object /\ latest \in View
  BY <1>1 DEF Next, vars, Covered, M, subject, TypeInv, TypeOK
<1>3. ASSUME ~Closing' PROVE ShownIsRead'
  BY <1>3 DEF ShownIsRead
<1>4. CASE UNCHANGED vars \/ User \/ Forget \/ Resync
  <2>1. UNCHANGED <<controller, service>>
    BY <1>4 DEF vars, User, DeleteCR, EditSpec, Forget, Resync
  <2>2. (cr'.present => cr.present) /\ (~cr'.deleting => ~cr.deleting)
    BY <1>2, <1>4 DEF vars, User, DeleteCR, EditSpec, Forget, Resync, Object
  <2>3. Closing' => Closing
    BY <2>1, <2>2 DEF Closing, controller
  <2>4. AsRead(latest) => AsRead(latest)'
    BY <1>2, <2>1, ShowsWhatWasRead DEF controller, service
  <2> QED
    BY <1>1, <1>2, <2>3, <2>4 DEF ShownIsRead
<1>5. CASE Service
  BY <1>1, <1>2, <1>5, ShownRests DEF Service, Settle, Proceed, FailSettle, Drift, controller
<1>6. CASE Compare
  <2>1. UNCHANGED <<latest, service>> /\ AsRead(latest)
    BY <1>6 DEF Compare, At, SettledInv, StatusIsRead, Guarding
  <2> QED
    BY <1>2, <2>1, ShowsWhatWasRead DEF ShownIsRead, service
<1>7. CASE Update
  <2>1. /\ AsRead(latest)
        /\ Covered /\ M.update.mode = "api" => DiffersElsewhere
    BY <1>7 DEF Update, At, SettledInv, StatusIsRead, Guarding, UpdateHasReason
  <2> QED
    BY <1>1, <1>2, <1>7, <2>1, ShownByUpdate DEF ShownIsRead
<1>8. CASE Create
  BY <1>1, <1>2, <1>8, ShownByCreate DEF ShownIsRead
<1>9. CASE Confirm
  <2>1. UNCHANGED service
    BY <1>9 DEF Confirm
  <2>2. ASSUME NEW i \in Found(latest), latest' = Confirmed(i)
        PROVE  AsRead(latest)'
    <3>1. latest'.val = latest.val /\ latest'.id = i /\ latest'.status = aws[i].st
      BY <1>2, <2>2 DEF Confirmed, View
    <3>2. M.key.needsID => i = latest.id
      BY DEF Found
    <3>3. Found(latest)' = Found(latest)
      BY <1>2, <2>1, <3>1, <3>2, NothingTouched, UntouchedIsUnmoved, ViewFinds
    <3>4. \A j \in Found(latest) : j = i
      BY <1>1, OnlyOneFound
    <3> QED
      BY <1>2, <2>1, <3>1, <3>3, <3>4, ShowsWhatIsThere DEF service
  <2>3. CASE pc' = "patchStatus" /\ err' # "ok"
    BY <1>3, <2>3 DEF Closing
  <2> QED
    BY <1>9, <2>2, <2>3, ClassIsError DEF Confirm, Refused, StopWith, Goto, ShownIsRead
<1>10. CASE PatchSpec \/ LateInitialize
  <2>1. Closing /\ UNCHANGED service
    BY <1>10 DEF PatchSpec, LateInitialize, At, Closing
  <2>2. /\ Key(latest'.val) = Key(latest.val) /\ latest'.id = latest.id
        /\ latest'.status = latest.status
    <3>1. CASE UNCHANGED latest
      BY <3>1
    <3>2. ASSUME NEW i \in Found(latest), latest' = [latest EXCEPT !.val = LateInitialized(i)]
          PROVE  /\ Key(latest'.val) = Key(latest.val) /\ latest'.id = latest.id
                 /\ latest'.status = latest.status
      <4>1. /\ latest'.val = LateInitialized(i) /\ latest'.id = latest.id
            /\ latest'.status = latest.status
        BY <1>2, <3>2 DEF View
      <4> QED
        BY <1>1, <4>1, LateKeepsKey DEF TypeInv
    <3> QED
      BY <1>10, <3>1, <3>2 DEF PatchSpec, LateInitialize
  <2> QED
    BY <1>1, <1>2, <2>1, <2>2, ShowsWhatWasRead DEF ShownIsRead, service
<1>11. CASE Reconcile \/ PatchStatus \/ Release \/ Crash \/ SyncTags
  <2>1. pc' \in {"idle", "read", "readToDelete", "update"} \/ (pc' = "patchStatus" /\ err' # "ok")
    BY <1>11, ClassIsError DEF Reconcile, PatchStatus, Release, Crash, SyncTags, Refused,
       StopWith, Goto
  <2> QED
    BY <1>3, <2>1 DEF Closing
<1>12. CASE ReadOne \/ MarkManaged
  <2>1. \/ pc' \in {"compare", "create", "manage"}
        \/ pc' = "patchStatus" /\ (err' # "ok" \/ ~cr'.present)
    BY <1>12, ClassIsError DEF ReadOne, ReadFails, MarkManaged, Refused, StopWith, Goto
  <2> QED
    BY <1>3, <2>1 DEF Closing
<1>13. CASE MarkUnmanaged \/ ReadToDelete \/ Delete
  <2>1. pc' \in {"delete", "release"} \/ (pc' = "patchStatus" /\ err' # "ok")
    BY <1>1, <1>13, ClassIsError DEF MarkUnmanaged, ReadToDelete, ReadFails, Delete,
       NotDeletable, DeleteRefused, DeleteCall, Refused, StopWith, At, Goto, CreateHasFailed
  <2> QED
    BY <1>3, <2>1 DEF Closing
<1> QED
  BY <1>4, <1>5, <1>6, <1>7, <1>8, <1>9, <1>10, <1>11, <1>12, <1>13
  DEF Next, Worker, Sync, Remove

LEMMA SettledNext ==
  ASSUME SettledInv, [Next]_vars
  PROVE  SyncedMeansSettled'
<1> SUFFICES ASSUME Quiet', cr'.synced, Covered,
                    NEW i \in Found(cr)'
             PROVE  ~Busy(i)'
  BY DEF SyncedMeansSettled, Covered, Busy, InFlight, Life, M, Next, vars, subject
<1>1. TypeInv /\ Steady /\ QueueInv /\ ShownIsRead /\ SyncedMeansSettled
  BY DEF SettledInv
<1>2. UNCHANGED subject
  BY DEF Next, vars
<1>3. CASE PatchStatus
  <2>1. /\ Closing /\ IsSynced(latest) /\ UNCHANGED aws
        /\ Found(cr)' = Found(latest)
    BY <1>1, <1>3, PatchedIsSynced
  <2>2. Busy(i) => InFlight(latest.status)
    BY <1>1, <2>1 DEF ShownIsRead, AsRead
  <2>3. ~InFlight(latest.status)
    BY <1>1, <2>1, SyncedAssumption DEF IsSynced, InFlight, Life, M, TypeInv, TypeOK
  <2>4. i \in Found(latest) /\ ~Busy(i)
    BY <2>1, <2>2, <2>3
  <2> QED
    BY <1>2, <2>1, <2>4 DEF Busy, InFlight, Life, M, subject
<1>4. CASE Quiet /\ UNCHANGED cr /\ (UNCHANGED service \/ Service)
  <2>1. \A j \in Found(cr) : ~Busy(j)
    BY <1>4 DEF SettledInv, SyncedMeansSettled, Covered, Busy
  <2>2. NamesKept /\ StatusesRest
    BY <1>1, <1>2, <1>4, QuietKeepsNames, ServiceKeepsNames, ServiceRests
    DEF StatusesRest, Busy, InFlight, Life, M, subject, service
  <2>3. /\ i \in Ids /\ Live(i)' /\ Key(aws'[i].val) = Key(cr.val)
        /\ M.key.needsID => i = cr.id
    BY <1>2, <1>4 DEF Found, Live, Key, M, subject
  <2>4. i \in Found(cr)
    BY <1>2, <2>2, <2>3, FoundWasFound
  <2> QED
    BY <2>1, <2>2, <2>3, <2>4 DEF StatusesRest
<1> QED
  BY <1>1, <1>3, <1>4, RestsOrIsPatched

(* Nor is the resource of such an object in transition, in the kinds whose  *)
(* sdkUpdate never returns a snapshot: the status an object shows is one    *)
(* the resource had, and a status that is synced is one the service has     *)
(* finished with.                                                           *)
THEOREM SyncedIsSettled == Spec => []SyncedMeansSettled
<1>1. Init => SettledInv
  <2> SUFFICES ASSUME Init PROVE SettledInv
    OBVIOUS
  <2>1. TypeInv /\ TagStep /\ NamesInv /\ Steady /\ QueueInv
    BY AppliedInit DEF AppliedInv
  <2>2. pc = "idle"
    BY DEF Init
  <2>3. cr.synced = FALSE
    BY DEF Init
  <2>4. StatusIsRead /\ UpdateHasReason /\ ShownIsRead
    BY <2>2 DEF StatusIsRead, Guarding, UpdateHasReason, ShownIsRead, Closing
  <2>5. SyncedMeansSettled
    BY <2>3 DEF SyncedMeansSettled
  <2> QED
    BY <2>1, <2>4, <2>5 DEF SettledInv
<1>2. SettledInv /\ [Next]_vars => SettledInv'
  <2> SUFFICES ASSUME SettledInv, [Next]_vars PROVE SettledInv'
    OBVIOUS
  <2>1. TypeInv' /\ TagStep' /\ NamesInv' /\ Steady' /\ StatusIsRead'
    BY TypeNext, TagStepNext, NamesNext, SteadyNext, StatusNext DEF SettledInv
  <2>2. QueueInv' /\ UpdateHasReason'
    BY QueueNext, ReasonNext DEF SettledInv
  <2> QED
    BY <2>1, <2>2, ShownNext, SettledNext DEF SettledInv
<1>3. SettledInv => SyncedMeansSettled
  BY DEF SettledInv
<1> QED
  BY <1>1, <1>2, <1>3, PTL DEF Spec

=============================================================================
