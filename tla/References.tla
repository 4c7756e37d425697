------------------------------ MODULE References ----------------------------
(***************************************************************************)
(* An object that refers to others, and the objects it refers to.          *)
(*                                                                         *)
(* The user gives, for each reference, a concrete value or a *Ref that     *)
(* names another object.  A reconcile copies what the other object's       *)
(* status shows into the concrete field of its view, works with that, and  *)
(* takes care that the stored spec keeps the *Ref and not the copy.  The   *)
(* object referred to lives a life of its own: it comes, becomes synced,   *)
(* falls out of sync, is deleted, and may come again with another          *)
(* identifier.  The fields of one kind's references are in ReferenceFields *)
(* and what its calls carry in its manager.                                *)
(*                                                                         *)
(* ResourceReconciler takes the calls of a reconcile apart, with lost      *)
(* answers, crashes and statuses; here a call is one step that takes       *)
(* effect or not, and a resource is there or not.                          *)
(***************************************************************************)
EXTENDS Naturals, ManagerTypes

CONSTANTS
  Managers,    \* kind -> its manager
  Referrers,   \* kind -> its references
  Subjects,    \* what Init chooses from: [kind, refs]
  MaxMade,     \* resources the account's quota admits
  Budget,      \* how often each thing below may happen
  MaxTogether  \* and how many of them in one behaviour

(* A value is an identifier, 0 where there is none.  Given is one the user  *)
(* typed, of a thing no object of this cluster stands for.                  *)
Given == Budget["returns"] + 2

(* edits of the spec; touches, an object referred to falling out of sync;   *)
(* returns, one made anew under the name of one that is gone; errors, the   *)
(* API server failing to answer.                                            *)
Occasions == {"edits", "touches", "returns", "errors"}

(* The references of a kind, in the order they are resolved in.             *)
RefsOf(k) == {Referrers[k].resolves[n] : n \in DOMAIN Referrers[k].resolves}

ASSUME SubjectsAssumption ==
  /\ \A s \in Subjects : s.kind \in DOMAIN Referrers /\ s.refs \subseteq RefsOf(s.kind)
  /\ \A k \in DOMAIN Referrers :
       k \in DOMAIN Managers /\ DOMAIN Referrers[k].resolves \subseteq Nat \ {0}
(* What the generator makes of a kind's references: the ones in a struct    *)
(* are restored.                                                            *)
ASSUME EnsuresAssumption ==
  \A k \in DOMAIN Referrers : \A r \in RefsOf(k) :
    /\ r.place \in {"top", "struct", "list"}
    /\ r.place = "struct" => r \in Referrers[k].ensures
(* What is refused as a pair is cleared as one.  One of the two is wanted   *)
(* only outside of lists, of a field whose value an answer shows as it was  *)
(* sent.                                                                    *)
ASSUME RefusesAssumption ==
  \A k \in DOMAIN Referrers : \A r \in RefsOf(k) :
    LET m == Managers[k]
        t == Referrers[k]
    IN  /\ r \in t.refuses.both => r \in t.clears
        /\ r \in t.refuses.neither =>
             /\ r.place # "list"
             /\ r.field \in m.echoes => r.field \in m.sends
             /\ r.field \in m.update.returns => r.field \in m.patches \cup m.key.fields
(* A reference that names the resource is at the top and sent with a        *)
(* Create, and no other one is resolved before it.                          *)
ASSUME KeysAssumption ==
  \A k \in DOMAIN Referrers : \A r \in RefsOf(k) :
    LET m == Managers[k]
        t == Referrers[k]
    IN  r.field \in m.key.fields =>
          /\ r.place = "top" /\ r \in t.clears /\ r.field \in m.sends
          /\ \A i, n \in DOMAIN t.resolves :
               i < n /\ t.resolves[n] = r => t.resolves[i].field \in m.key.fields
ASSUME BoundsAssumption ==
  MaxMade \in Nat /\ MaxTogether \in Nat /\ Budget \in [Occasions -> Nat]

VARIABLES
  kind, refs,  \* the subject; never change
  cr,          \* the object that refers
  queued,      \* a reconcile of it is due
  pc,          \* what the worker does next
  next,        \* the reference it resolves next
  unresolved,  \* the reference it could not resolve
  desired,     \* its snapshot of the object, resolved in place
  latest,      \* its view of the resource
  err,         \* how the reconcile has gone
  objs,        \* reference -> the object it refers to
  kids,        \* id -> the resource the service keeps for the object
  made,        \* ids given out
  spent        \* how often each of the Occasions happened

subject    == <<kind, refs>>
controller == <<pc, next, unresolved, desired, latest, err>>
service    == <<kids, made>>
vars == <<subject, cr, queued, controller, objs, service, spent>>

M == Managers[kind]
R == Referrers[kind]

Together == spent.edits + spent.touches + spent.errors
Spend(occasion) ==
  /\ spent[occasion] < Budget[occasion] /\ Together < MaxTogether
  /\ spent' = [spent EXCEPT ![occasion] = @ + 1]

-----------------------------------------------------------------------------
(* The objects referred to.                                                 *)

KeyRefs == {r \in refs : r.field \in M.key.fields}

(* There is a thing with this identifier: it goes when its object goes.     *)
Alive(r, v) == v = Given \/ (objs[r].there /\ v # 0 /\ v = objs[r].id)

(* A resource that is part of another goes with it.                         *)
Live(i) == kids[i].live /\ \A r \in KeyRefs : Alive(r, kids[i].val[r])

TargetAppears(r) ==
  /\ ~objs[r].there
  /\ objs' = [objs EXCEPT ![r] =
                [there |-> TRUE, cond |-> "unsynced", id |-> 0, deleting |-> FALSE,
                 lives |-> @.lives + 1]]
  /\ IF objs[r].lives = 0 THEN UNCHANGED spent
     ELSE /\ spent.returns < Budget["returns"]
          /\ spent' = [spent EXCEPT !.returns = @ + 1]

(* Its own reconciles come to an end; only the object of a resource that is *)
(* not being deleted has its conditions computed anew.                      *)
TargetReady(r) ==
  /\ objs[r].there /\ ~objs[r].deleting /\ objs[r].cond # "synced"
  /\ objs' = [objs EXCEPT ![r].cond = "synced", ![r].id = objs[r].lives]
  /\ UNCHANGED spent

TargetTouched(r) ==
  /\ objs[r].there /\ ~objs[r].deleting
  /\ Spend("touches")
  /\ \E c \in {"unsynced", "terminal"} \ {objs[r].cond} :
       objs' = [objs EXCEPT ![r].cond = c]

DeleteTarget(r) ==
  /\ objs[r].there /\ ~objs[r].deleting
  /\ objs' = [objs EXCEPT ![r].deleting = TRUE]
  /\ UNCHANGED spent

(* The service does not delete a gateway that has targets.                  *)
HasTargets(r) ==
  /\ r.to = "Gateway" /\ kind = "gateway_target" /\ r \in KeyRefs
  /\ \E i \in DOMAIN kids : Live(i) /\ kids[i].val[r] = objs[r].id

(* sdkDelete of the object referred to: a gateway that has targets still is *)
(* looked at again later.                                                   *)
(* slip: the answer is a ValidationException like any other *)
TargetGoesOrHalts(r) ==
  /\ objs[r].deleting /\ objs[r].cond # "halted"
  /\ objs' = IF HasTargets(r) THEN [objs EXCEPT ![r].cond = "halted"]
             ELSE [objs EXCEPT ![r].there = FALSE, ![r].deleting = FALSE]
  /\ UNCHANGED spent
TargetGoes(r) ==
  /\ objs[r].deleting /\ ~HasTargets(r)
  /\ objs' = [objs EXCEPT ![r].there = FALSE, ![r].deleting = FALSE]
  /\ UNCHANGED spent

-----------------------------------------------------------------------------
(* The user: a *Ref, a value, or both.  The API server holds the edit to    *)
(* the rule on immutable fields; inside a struct or a list, the *Ref is     *)
(* part of the field the rule is about.                                     *)

Changed(r, old, new) == old.ref[r] # new.ref[r] \/ old.val[r] # new.val[r]
MayChange(old, new) ==
  \A r \in refs : r.field \in M.spec.immutable =>
    IF r.place = "top" THEN 0 \in {old.val[r], new.val[r]} \/ old.val[r] = new.val[r]
    ELSE ~Changed(r, old, new)

EditReference(r) ==
  /\ cr.present /\ ~cr.deleting
  /\ \E ref \in BOOLEAN, val \in {0, Given} :
       /\ ref \/ val # 0
       /\ cr' = [cr EXCEPT !.ref[r] = ref, !.val[r] = val]
       /\ cr' # cr /\ MayChange(cr, cr')
  /\ Spend("edits")
  /\ queued' = TRUE

DeleteCR ==
  /\ cr.present /\ ~cr.deleting
  /\ cr' = [cr EXCEPT !.deleting = TRUE, !.present = cr.finalizer]
  /\ queued' = TRUE
  /\ UNCHANGED spent

-----------------------------------------------------------------------------
(* The functions of references.go.                                          *)

(* ResolveReferences goes through the *Refs there are, one after the other: *)
(* the places of those it has still to come to.                             *)
Waiting ==
  {n \in DOMAIN R.resolves :
     n >= next /\ R.resolves[n] \in refs /\ desired.ref[R.resolves[n]]}

(* validateReferenceFields: both of a pair, or neither.                     *)
RefusedFor(r, object) ==
  \/ r \in R.refuses.both    /\ object.ref[r]  /\ object.val[r] # 0
  \/ r \in R.refuses.neither /\ ~object.ref[r] /\ object.val[r] = 0
Refuses(object) == \E r \in refs : RefusedFor(r, object)

(* getReferencedResourceState: the object is there, is not terminal, is     *)
(* synced, and shows the identifier.  Whether it is being deleted is not    *)
(* asked.                                                                   *)
Resolvable(r) == objs[r].there /\ objs[r].cond = "synced" /\ objs[r].id # 0

(* ClearResolvedReferences.                                                 *)
Cleared(view) ==
  [view EXCEPT !.val = [r \in refs |-> IF r \in R.clears /\ view.ref[r]
                                       THEN 0 ELSE view.val[r]]]

(* EnsureReferences: the references the view lost, as the snapshot has them *)
(* slip: nothing is restored *)
EnsuredNothing(view) == view
Ensured(view) ==
  [view EXCEPT !.ref = [r \in refs |-> view.ref[r] \/ (r \in R.ensures /\ desired.ref[r])]]

-----------------------------------------------------------------------------
(* The worker.                                                              *)

Blank == [ref |-> [r \in refs |-> FALSE], val |-> [r \in refs |-> 0], id |-> 0]

At(step)   == pc = step
Goto(step) == pc' = step
StopWith(class) == err' = class /\ Goto("patchStatus")
Class(code) == IF code \in M.terminal THEN "terminal" ELSE "retry"

Rest == next' = 1 /\ unresolved' = {} /\ desired' = Blank /\ latest' = Blank /\ err' = "ok"

(* What validateReferenceFields says is remembered while the references are *)
(* resolved.                                                                *)
Reconcile ==
  /\ At("idle") /\ queued
  /\ queued' = FALSE
  /\ IF cr.present
     THEN /\ Goto(IF cr.deleting THEN "resolveToDelete" ELSE "resolve")
          /\ desired' = [ref |-> cr.ref, val |-> cr.val, id |-> cr.id]
          /\ err' = IF Refuses(cr) THEN "retry" ELSE "ok"
          /\ UNCHANGED <<next, unresolved, latest>>
     ELSE UNCHANGED controller
  /\ UNCHANGED <<cr, service, spent>>

Resolving   == At("resolve") \/ At("resolveToDelete")
AllResolved == Waiting = {}

(* A reference that cannot be resolved ends the sync; a deletion goes on    *)
(* with what was resolved so far.                                           *)
Unresolved(r) ==
  /\ unresolved' = {r}
  /\ IF At("resolve") THEN StopWith("retry") ELSE UNCHANGED <<pc, err>>
  /\ UNCHANGED <<next, desired>>

ResolveReference ==
  /\ Resolving /\ unresolved = {}
  /\ \E n \in Waiting : LET r == R.resolves[n] IN
     /\ \A m \in Waiting : n <= m
     /\ \/ /\ Resolvable(r)
           /\ desired' = [desired EXCEPT !.val[r] = objs[r].id]
           /\ next' = n + 1
           /\ UNCHANGED <<pc, unresolved, err, spent>>
        \/ ~Resolvable(r) /\ Unresolved(r) /\ UNCHANGED spent
        \/ Spend("errors") /\ Unresolved(r)
  /\ UNCHANGED <<cr, queued, latest, service>>

(* The resource a Get with what this view names it by returns; without a    *)
(* part of the name nobody is asked.                                        *)
requiredFieldsMissing(view) ==
  (M.key.needsID /\ view.id = 0) \/ \E r \in KeyRefs : view.val[r] = 0
Found(view) ==
  {i \in DOMAIN kids : /\ ~requiredFieldsMissing(view)
                       /\ Live(i)
                       /\ M.key.needsID => i = view.id
                       /\ \A r \in KeyRefs : kids[i].val[r] = view.val[r]}

(* A field rebuilt from a response holds the value and, below the top of    *)
(* the spec, no *Ref.                                                       *)
Rebuilt(fields, i, view) ==
  [ref |-> [r \in refs |-> view.ref[r] /\ (r.place = "top" \/ r.field \notin fields)],
   val |-> [r \in refs |-> IF r.field \in fields THEN kids'[i].val[r] ELSE view.val[r]],
   id  |-> i]

(* newResourceDelta: a list is compared with the *Refs in it, and so is a   *)
(* *Ref at the top.                                                         *)
(* slip: where there is a *Ref the value it was resolved into is not        *)
(* compared *)
DiffersUnlessReferred(r) ==
  /\ r.field \in M.compares
  /\ IF desired.ref[r] THEN ~latest'.ref[r] /\ r.place # "struct"
     ELSE desired.val[r] # latest'.val[r]
DiffersAt(r) ==
  /\ r.field \in M.compares
  /\ \/ desired.val[r] # latest'.val[r]
     \/ r.place # "struct" /\ desired.ref[r] # latest'.ref[r]

(* The Get, and the comparison with what it showed.                         *)
Read ==
  /\ At("resolve") /\ AllResolved /\ err = "ok"
  /\ UNCHANGED service
  /\ \/ \E i \in Found(desired) :
          /\ latest' = Rebuilt(M.reads, i, desired)
          /\ Goto(IF \E r \in refs : DiffersAt(r) THEN "update" ELSE "patchStatus")
     \/ Found(desired) = {} /\ Goto("create") /\ UNCHANGED latest
  /\ UNCHANGED <<cr, queued, next, unresolved, desired, err, spent>>

(* The finalizer, and sdkCreate; what it is to be part of has to be there.  *)
(* A Create that fails takes the finalizer off again.                       *)
Creatable == made < MaxMade /\ \A r \in KeyRefs : Alive(r, desired.val[r])
Create ==
  /\ At("create")
  /\ \/ /\ cr.present /\ Creatable
        /\ made' = made + 1
        /\ kids' = [kids EXCEPT ![made'] =
             [live |-> TRUE,
              val  |-> [r \in refs |-> IF r.field \in M.sends THEN desired.val[r] ELSE 0]]]
        /\ latest' = Rebuilt(M.echoes, made', desired)
        /\ cr' = [cr EXCEPT !.finalizer = TRUE]
        /\ Goto("patchSpec") /\ UNCHANGED err
     \/ /\ cr.present /\ ~Creatable
        /\ StopWith(Class("ResourceNotFoundException"))
        /\ cr' = [cr EXCEPT !.finalizer = FALSE, !.present = ~cr.deleting]
        /\ UNCHANGED <<latest, service>>
     \/ ~cr.present /\ Goto("patchStatus") /\ UNCHANGED <<cr, latest, err, service>>
  /\ UNCHANGED <<queued, next, unresolved, desired, spent>>

(* sdkUpdate and the customUpdates.                                         *)
Update ==
  /\ At("update")
  /\ UNCHANGED made
  /\ \/ /\ M.update.mode = "api"
        /\ \E i \in Found(desired) :
             /\ kids' = [kids EXCEPT ![i].val =
                  [r \in refs |-> IF r.field \in M.patches \ M.key.fields
                                  THEN desired.val[r] ELSE @[r]]]
             /\ latest' = Rebuilt(M.update.returns, i, desired)
        /\ Goto("patchSpec") /\ UNCHANGED err
     \/ /\ M.update.mode = "api" /\ Found(desired) = {}
        /\ StopWith(Class("ResourceNotFoundException"))
        /\ UNCHANGED <<kids, latest>>
     \/ /\ M.update.mode = "tagsOnly"
        /\ latest' = [desired EXCEPT !.id = latest.id]
        /\ Goto("patchSpec") /\ UNCHANGED <<kids, err>>
     \/ M.update.mode = "refuse" /\ StopWith("terminal") /\ UNCHANGED <<kids, latest>>
  /\ UNCHANGED <<cr, queued, next, unresolved, desired, spent>>

(* What the spec is to become: the view as the user would have written it.  *)
(* slip: the copies stay in it *)
ToStoreResolved == Ensured(latest)
ToStore == Cleared(Ensured(latest))

(* The merge patch of the spec: what the cleared view has different from    *)
(* the cleared snapshot.  A list is patched as a whole.                     *)
PatchSpec ==
  /\ At("patchSpec")
  /\ LET from == Cleared(desired)
         to   == ToStore
         patched(r) == r.place = "list"
                       /\ \E q \in refs : q.field = r.field /\ Changed(q, from, to)
         new  == [cr EXCEPT
                    !.ref = [r \in refs |-> IF patched(r) \/ from.ref[r] # to.ref[r]
                                            THEN to.ref[r] ELSE cr.ref[r]],
                    !.val = [r \in refs |-> IF patched(r) \/ from.val[r] # to.val[r]
                                            THEN to.val[r] ELSE cr.val[r]]]
     IN  IF MayChange(cr, new)
         THEN /\ cr' = new /\ queued' = (queued \/ new # cr)
              /\ Goto("patchStatus") /\ UNCHANGED err
         ELSE StopWith("retry") /\ UNCHANGED <<cr, queued>>
  /\ UNCHANGED <<next, unresolved, desired, latest, service, spent>>

(* What the status is to show.                                              *)
(* slip: what the snapshot showed *)
ToShowOfSnapshot == desired.id
ToShow == IF latest.id = 0 THEN desired.id ELSE latest.id

PatchStatus ==
  /\ \/ At("patchStatus")
     \/ At("resolve") /\ AllResolved /\ err # "ok"
  /\ cr' = IF cr.present THEN [cr EXCEPT !.id = ToShow, !.cond = err] ELSE cr
  /\ queued' = (queued \/ err = "retry")
  /\ Goto("idle") /\ Rest
  /\ UNCHANGED <<service, spent>>

(* Deletion.  A resource that cannot be named is not found, and what is not *)
(* found is taken for deleted.                                              *)
ReadToDelete ==
  /\ At("resolveToDelete") /\ (AllResolved \/ unresolved # {})
  /\ UNCHANGED service
  /\ \/ \E i \in Found(desired) : latest' = Rebuilt(M.reads, i, desired) /\ Goto("delete")
     \/ Found(desired) = {} /\ Goto("release") /\ UNCHANGED latest
  /\ UNCHANGED <<cr, queued, next, unresolved, desired, err, spent>>

Delete ==
  /\ At("delete")
  /\ kids' = [i \in DOMAIN kids |-> [kids[i] EXCEPT !.live = @ /\ i \notin Found(latest)]]
  /\ Goto("release")
  /\ UNCHANGED <<cr, queued, next, unresolved, desired, latest, err, made, spent>>

Release ==
  /\ At("release")
  /\ cr' = [cr EXCEPT !.finalizer = FALSE, !.present = FALSE]
  /\ Goto("idle") /\ Rest
  /\ UNCHANGED <<queued, service, spent>>

(* The resync period ends: nothing else tells the worker that an object     *)
(* referred to has changed.                                                 *)
Resync ==
  /\ At("idle") /\ ~queued /\ cr.present /\ cr.cond = "ok"
  /\ queued' = TRUE
  /\ UNCHANGED <<cr, controller, service, spent>>

-----------------------------------------------------------------------------
(* A new object.  A reference it may leave out is one it has.               *)
Init ==
  /\ \E s \in Subjects : kind = s.kind /\ refs = s.refs
  /\ \E ref \in [refs -> BOOLEAN], val \in [refs -> {0, Given}] :
       /\ \A r \in refs \ R.refuses.neither : ref[r] \/ val[r] # 0
       /\ cr = [present |-> TRUE, deleting |-> FALSE, finalizer |-> FALSE,
                ref |-> ref, val |-> val, id |-> 0, cond |-> "retry"]
  /\ queued = TRUE
  /\ pc = "idle" /\ next = 1 /\ unresolved = {}
  /\ desired = Blank /\ latest = Blank /\ err = "ok"
  /\ \E there \in [refs -> BOOLEAN] :
       objs = [r \in refs |-> [there |-> there[r], cond |-> "unsynced", id |-> 0,
                               deleting |-> FALSE,
                               lives |-> IF there[r] THEN 1 ELSE 0]]
  /\ kids = [i \in 1..MaxMade |-> [live |-> FALSE, val |-> [r \in refs |-> 0]]]
  /\ made = 0
  /\ spent = [o \in Occasions |-> 0]

Worker == Reconcile \/ ResolveReference \/ Read \/ Create \/ Update \/ PatchSpec \/ PatchStatus
          \/ ReadToDelete \/ Delete \/ Release
User   == DeleteCR \/ \E r \in refs : EditReference(r)
Target(r) == TargetAppears(r) \/ TargetReady(r) \/ TargetTouched(r)
             \/ DeleteTarget(r) \/ TargetGoes(r)

Next ==
  /\ \/ (Worker \/ Resync) /\ UNCHANGED objs
     \/ User /\ UNCHANGED <<objs, controller, service>>
     \/ (\E r \in refs : Target(r)) /\ UNCHANGED <<cr, queued, controller, service>>
  /\ UNCHANGED subject

Spec == Init /\ [][Next]_vars

(* The worker runs on and the resync period ends, of which never more than  *)
(* one can happen; and the objects referred to are reconciled and deleted   *)
(* in the end.  That some of those that can be are is enough, for how often *)
(* one of them can be again has a bound.                                    *)
Fairness ==
  /\ WF_vars((Worker \/ Resync) /\ UNCHANGED <<objs, subject>>)
  /\ WF_vars((\E r \in refs : TargetReady(r) \/ TargetGoes(r))
             /\ UNCHANGED <<cr, queued, controller, service, subject>>)

FairSpec == Spec /\ Fairness

-----------------------------------------------------------------------------
(* Properties.                                                              *)

WorkerSteps == pc' # pc

(* The controller does not make of a reference it accepts one it refuses:   *)
(* the spec it stores has, for each, what the user gave and not the copy    *)
(* beside it ("the original *Ref values, but none of their respective       *)
(* concrete values", ClearResolvedReferences).  The patch of a spec is made *)
(* from a snapshot, and is right about a reference that was a *Ref, or was  *)
(* none, there too.                                                         *)
StaysValid ==
  [][WorkerSteps /\ cr.present =>
       \A r \in refs : /\ ~RefusedFor(r, cr)
                       /\ At("patchSpec") => desired.ref[r] = cr.ref[r]
                       => ~RefusedFor(r, cr')]_vars

(* Nor does it take away a *Ref, unless that is in a list: "the spec patch  *)
(* would otherwise delete the declared *Ref and store the resolved value in *)
(* its place" (EnsureReferences).                                           *)
ReferencesKept ==
  [][WorkerSteps /\ cr'.present =>
       \A r \in refs : cr.ref[r] /\ r.place # "list" => cr'.ref[r]]_vars

(* An object does not go and leave its resource, unless the reference that  *)
(* could not be resolved is one the resource is named by, or the user had   *)
(* renamed it.  What else an object refers to may be gone, or out of sync:  *)
(* the resource is deleted all the same.                                    *)
LeftOnlyUnresolved ==
  [][cr.present /\ ~cr'.present /\ (\E i \in DOMAIN kids : Live(i)) =>
       unresolved \cap KeyRefs # {} \/ spent.edits > 0]_vars

(* What the controller can bring to the service: a value an Update carries  *)
(* and a Get shows, or one that names another resource.                     *)
Carried ==
  {r \in refs : \/ r \in KeyRefs
                \/ /\ M.update.mode = "api"
                   /\ r.field \in M.patches \cap M.reads \cap M.compares}

(* When an object referred to comes again under another identifier, the     *)
(* resource ends up with that, though the spec does not change and nothing  *)
(* watches the object referred to.                                          *)
FollowsTarget ==
  <>[](\/ ~cr.present \/ cr.deleting \/ cr.cond = "terminal" \/ Refuses(cr)
       \/ \E r \in refs : cr.ref[r] /\ ~Resolvable(r)
       \/ \E i \in DOMAIN kids :
            Live(i) /\ \A r \in Carried : cr.ref[r] => kids[i].val[r] = objs[r].id)

(* An object that is deleted while another one refers to it goes in the     *)
(* end, once that one has gone; unless it left its resource behind.         *)
TargetsGo ==
  <>[](\A r \in refs :
         objs[r].deleting => \/ cr.present /\ ~cr.deleting
                             \/ ~cr.present /\ HasTargets(r))

-----------------------------------------------------------------------------
(* What the repository says of the program and the program does not do.     *)

(* A code interpreter has no Update API: "only tag changes are supported",  *)
(* and an edit of another field is refused with a terminal error.  One that *)
(* nobody edited, and whose references resolve to what they always did, is  *)
(* refused too: the list of certificates that was read has no *Ref in it,   *)
(* and differs from the one in the spec.                                    *)
RefusedOnlyIfEdited ==
  cr.cond = "terminal" => spent.edits > 0 \/ \E r \in refs : objs[r].lives > 1
=============================================================================
