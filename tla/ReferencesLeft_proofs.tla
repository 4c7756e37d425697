----------------------- MODULE ReferencesLeft_proofs ------------------------
(***************************************************************************)
(* An object that goes leaves no resource behind, for every kind, every    *)
(* set of references and every budget, unless its user edited it or the    *)
(* reference that could not be resolved is one that names the resource.    *)
(*                                                                         *)
(* What a resource is named by is the identifiers its references were      *)
(* resolved into when it was made.  An object referred to that comes again *)
(* has another identifier, and the resource named by the first is gone     *)
(* with it; so a reference that is resolved now names every resource there *)
(* is (SoFar), whatever happens to the objects from then on.  A resource   *)
(* with an identifier of its own is the one the status shows, or is about  *)
(* to show (Shown).                                                        *)
(***************************************************************************)
EXTENDS References_proofs

Ids == 1..MaxMade

LiveKids == {i \in Ids : Live(i)}

-----------------------------------------------------------------------------
(* What holds whatever the user does.                                       *)

(* An object referred to shows the identifier of its last life, or none.    *)
LivesCounted ==
  \A r \in refs : /\ objs[r].id \in {0, objs[r].lives}
                  /\ objs[r].lives <= spent["returns"] + 1
                  /\ objs[r].there => objs[r].lives > 0

SpentCounted ==
  spent \in [Occasions -> Nat] /\ spent["returns"] <= Budget["returns"]

(* Between reconciles nothing of the last one is left.                      *)
Rested ==
  /\ next \in Nat
  /\ pc = "idle" => next = 1 /\ unresolved = {}
  /\ pc \in {"idle", "resolve", "resolveToDelete", "create"} => latest.id = 0

Base == IInv /\ LivesCounted /\ SpentCounted /\ Rested

LEMMA SpentType ==
  ASSUME SpentCounted, NEW o \in Occasions \ {"returns"}, Spend(o)
  PROVE  SpentCounted' /\ spent'["returns"] = spent["returns"]
BY DEF SpentCounted, Spend

LEMMA CountedStep ==
  ASSUME Base, [Next]_vars
  PROVE  LivesCounted' /\ SpentCounted'
<1>1. /\ LivesCounted /\ SpentCounted /\ objs \in [refs -> Targets]
      /\ Budget["returns"] \in Nat
  BY BoundsAssumption DEF Base, IInv, TypeOK, Occasions
<1>2. refs' = refs
  BY DEF Next, subject, vars
<1>3. CASE UNCHANGED <<objs, spent>>
  BY <1>1, <1>2, <1>3 DEF LivesCounted, SpentCounted
<1>4. CASE UNCHANGED objs /\ \E o \in {"edits", "errors"} : Spend(o)
  <2>1. SpentCounted' /\ spent'["returns"] = spent["returns"]
    BY <1>1, <1>4, SpentType DEF Occasions
  <2> QED
    BY <1>1, <1>2, <1>4, <2>1 DEF LivesCounted
<1>5. ASSUME NEW r \in refs, Target(r)
      PROVE  LivesCounted' /\ SpentCounted'
  <2>1. objs[r] \in Targets
    BY <1>1
  <2>2. CASE TargetAppears(r)
    <3> DEFINE one == [there |-> TRUE, cond |-> "unsynced", id |-> 0, deleting |-> FALSE,
                       lives |-> objs[r].lives + 1]
    <3>1. objs' = [objs EXCEPT ![r] = one]
      BY <2>2 DEF TargetAppears
    <3>2. \/ objs[r].lives = 0 /\ spent' = spent
          \/ /\ spent["returns"] < Budget["returns"]
             /\ spent' = [spent EXCEPT !["returns"] = @ + 1]
      BY <2>2 DEF TargetAppears
    <3>3. SpentCounted'
      BY <1>1, <3>2 DEF SpentCounted, Occasions
    <3>4. /\ spent'["returns"] \in Nat /\ spent["returns"] \in Nat
          /\ spent'["returns"] >= spent["returns"]
          /\ objs[r].lives + 1 <= spent'["returns"] + 1
      BY <1>1, <2>1, <3>2 DEF SpentCounted, LivesCounted, Occasions, Targets
    <3> DEFINE n == spent'["returns"]
    <3> HIDE DEF n
    <3>5. ASSUME NEW q \in refs
          PROVE  /\ objs'[q].id \in {0, objs'[q].lives}
                 /\ objs'[q].lives <= n + 1
                 /\ objs'[q].there => objs'[q].lives > 0
      BY <1>1, <2>1, <3>1, <3>4 DEF LivesCounted, Targets, n
    <3> QED
      BY <1>2, <3>3, <3>5 DEF LivesCounted, n
  <2>3. CASE TargetReady(r)
    <3>1. objs' = [objs EXCEPT ![r] = [objs[r] EXCEPT !.cond = "synced", !.id = objs[r].lives]]
      BY <1>1, <2>3 DEF TargetReady
    <3> QED
      BY <1>1, <1>2, <2>1, <2>3, <3>1 DEF TargetReady, LivesCounted, SpentCounted, Targets
  <2>4. CASE TargetTouched(r)
    <3>1. SpentCounted' /\ spent'["returns"] = spent["returns"]
      BY <1>1, <2>4, SpentType DEF TargetTouched, Occasions
    <3>2. PICK c \in {"unsynced", "terminal"} : objs' = [objs EXCEPT ![r].cond = c]
      BY <2>4 DEF TargetTouched
    <3> QED
      BY <1>1, <1>2, <2>1, <3>1, <3>2 DEF LivesCounted, Targets
  <2>5. CASE DeleteTarget(r)
    BY <1>1, <1>2, <2>1, <2>5 DEF DeleteTarget, LivesCounted, SpentCounted, Targets
  <2>6. CASE TargetGoes(r)
    <3>1. objs' = [objs EXCEPT ![r] = [objs[r] EXCEPT !.there = FALSE, !.deleting = FALSE]]
      BY <1>1, <2>6 DEF TargetGoes
    <3> QED
      BY <1>1, <1>2, <2>1, <2>6, <3>1 DEF TargetGoes, LivesCounted, SpentCounted, Targets
  <2> QED
    BY <1>5, <2>2, <2>3, <2>4, <2>5, <2>6 DEF Target
<1>6. CASE UNCHANGED vars
  BY <1>3, <1>6 DEF vars
<1>7. ASSUME User /\ UNCHANGED objs
      PROVE  UNCHANGED <<objs, spent>> \/ (UNCHANGED objs /\ \E o \in {"edits", "errors"} : Spend(o))
  BY <1>7 DEF User, DeleteCR, EditReference
<1>8. ASSUME (Worker \/ Resync) /\ UNCHANGED objs
      PROVE  UNCHANGED <<objs, spent>> \/ (UNCHANGED objs /\ \E o \in {"edits", "errors"} : Spend(o))
  BY <1>8 DEF Worker, Resync, Reconcile, ResolveReference, Read, Create, Update, PatchSpec,
              PatchStatus, ReadToDelete, Delete, Release
<1> QED
  BY <1>3, <1>4, <1>5, <1>6, <1>7, <1>8 DEF Next

LEMMA RestedStep ==
  ASSUME Base, [Next]_vars
  PROVE  Rested'
<1>1. Rested /\ latest \in Views
  BY DEF Base, IInv, TypeOK
<1>2. CASE UNCHANGED controller
  BY <1>1, <1>2 DEF Rested, controller
<1>3. CASE PatchStatus \/ Release
  BY <1>3 DEF PatchStatus, Release, Rest, Goto, Rested, Blank
<1>4. CASE Reconcile \/ Read \/ ReadToDelete
  BY <1>1, <1>4 DEF Reconcile, Read, ReadToDelete, controller, Goto, At, Rested
<1>5. CASE Create \/ Update \/ PatchSpec \/ Delete
  BY <1>1, <1>5 DEF Create, Update, PatchSpec, Delete, StopWith, Goto, At, Rested
<1>6. CASE ResolveReference
  <2>1. PICK n \in Waiting : next' = n + 1 \/ next' = next
    BY <1>6 DEF ResolveReference, Unresolved
  <2>2. n \in Nat
    BY SubjectsAssumption, SubjectIsKnown DEF Base, IInv, Waiting, R
  <2> QED
    BY <1>1, <1>6, <2>1, <2>2 DEF ResolveReference, Unresolved, Resolving, StopWith, Goto, At, Rested
<1> QED
  BY <1>2, <1>3, <1>4, <1>5, <1>6 DEF Next, Worker, Resync, vars

LEMMA BaseStep == Base /\ [Next]_vars => Base'
BY CountedStep, RestedStep, IInvStep DEF Base

LEMMA BaseInit == Init => Base
<1> SUFFICES ASSUME Init PROVE Base
  OBVIOUS
<1>1. IInv
  BY IInvInit
<1>2. SpentCounted /\ spent["returns"] = 0
  BY BoundsAssumption DEF Init, SpentCounted, Occasions
<1>3. LivesCounted
  BY <1>2 DEF Init, LivesCounted
<1>4. Rested
  BY DEF Init, Rested, Blank
<1> QED
  BY <1>1, <1>2, <1>3, <1>4 DEF Base


-----------------------------------------------------------------------------
(* What holds as long as the user has not edited the object and it is       *)
(* there.                                                                   *)
Unedited == spent["edits"] = 0 /\ cr.present

(* An identifier the reference was resolved into, now or in an earlier life *)
(* of the object referred to.                                               *)
Once(r, v) == v # Given /\ (v = objs[r].id \/ v < objs[r].lives)

(* The reference names what every resource there is is named by.            *)
Named(r) ==
  cr.ref[r] => /\ Once(r, desired.val[r])
               /\ \A i \in LiveKids : kids[i].val[r] = desired.val[r]

Resolved(r) == \A n \in Waiting : R.resolves[n] # r

KidsNamed ==
  \A i \in Ids : \A r \in KeyRefs : kids[i].live =>
    /\ cr.ref[r]  => Once(r, kids[i].val[r])
    /\ ~cr.ref[r] => kids[i].val[r] = cr.val[r]

Snapped ==
  /\ \A r \in KeyRefs : cr.val[r] \in {0, Given}
  /\ pc # "idle" =>
       /\ desired.id = cr.id
       /\ \A r \in KeyRefs : /\ desired.ref[r] = cr.ref[r]
                             /\ ~cr.ref[r] => desired.val[r] = cr.val[r]

(* A reference that was passed over has every one that names the resource   *)
(* behind it.                                                               *)
SoFar ==
  /\ pc \in {"resolve", "resolveToDelete"} =>
       \A r \in KeyRefs : Resolved(r) => Named(r)
  /\ pc = "resolveToDelete" /\ unresolved # {} /\ unresolved \cap KeyRefs = {} =>
       \A r \in KeyRefs : cr.ref[r] => Resolved(r)

(* A Create follows a Get that found nothing.                               *)
ToCreate ==
  pc = "create" => LiveKids = {} /\ \A r \in KeyRefs : Named(r)

Shown ==
  M.key.needsID => \A i \in LiveKids : i = IF latest.id = 0 THEN cr.id ELSE latest.id

ToPatch == pc = "patchSpec" => \A r \in KeyRefs : latest.val[r] = desired.val[r]

ToGo ==
  /\ pc = "delete" => unresolved \cap KeyRefs # {} \/ LiveKids \subseteq Found(latest)
  /\ pc = "release" => unresolved \cap KeyRefs # {} \/ LiveKids = {}
  /\ LiveKids # {} => cr.finalizer

LeftInv == KidsNamed /\ Snapped /\ SoFar /\ ToCreate /\ Shown /\ ToPatch /\ ToGo

Left == Base /\ (Unedited => LeftInv)

-----------------------------------------------------------------------------
(* The parts of the invariant follow the resources and what is known of     *)
(* them; a step that leaves these alone leaves the invariant alone.         *)
LEMMA KeyRefsAre ==
  ASSUME Base, NEW r \in KeyRefs
  PROVE  /\ r \in refs /\ r.field \in M.key.fields /\ r.place = "top" /\ r \in R.clears
         /\ r.field \in M.sends
         /\ \E n \in DOMAIN R.resolves : R.resolves[n] = r
         /\ DOMAIN R.resolves \subseteq Nat \ {0}
         /\ \A k, n \in DOMAIN R.resolves :
              k < n /\ R.resolves[n] = r /\ R.resolves[k] \in refs => R.resolves[k] \in KeyRefs
<1>1. kind \in DOMAIN Referrers /\ refs \subseteq RefsOf(kind)
  BY SubjectIsKnown DEF Base, IInv
<1>2. r \in RefsOf(kind) /\ r.field \in Managers[kind].key.fields
  BY <1>1 DEF KeyRefs, M
<1> QED
  BY <1>1, <1>2, KeysAssumption, SubjectsAssumption DEF KeyRefs, RefsOf, M, R

LEMMA SameKeyRefs ==
  ASSUME UNCHANGED subject
  PROVE  KeyRefs' = KeyRefs /\ M' = M /\ R' = R /\ refs' = refs
BY DEF KeyRefs, M, R, subject

LEMMA SameLiveKids ==
  ASSUME UNCHANGED <<kids, objs, subject>>
  PROVE  LiveKids' = LiveKids
BY SameKeyRefs DEF LiveKids, Live, Alive

(* Every resource there is is found by a view that has its names.           *)
LEMMA NamedIsFound ==
  ASSUME Base, KidsNamed, Snapped, Shown, pc # "idle", latest.id = 0,
         \A r \in KeyRefs : Named(r),
         NEW view, M.key.needsID => view.id = desired.id,
         \A r \in KeyRefs : view.val[r] = desired.val[r],
         NEW i \in LiveKids
  PROVE  i \in Found(view)
<1>1. /\ i \in 1..MaxMade /\ i \in DOMAIN kids /\ kids[i].live /\ Live(i)
      /\ \A r \in KeyRefs : Alive(r, kids[i].val[r])
      /\ MaxMade \in Nat
  BY BoundsAssumption DEF LiveKids, Ids, Live, Base, IInv, TypeOK
<1>2. ASSUME NEW r \in KeyRefs PROVE kids[i].val[r] = view.val[r] /\ view.val[r] # 0
  <2>1. kids[i].val[r] = desired.val[r]
    BY <1>1 DEF Named, KidsNamed, Snapped, Ids
  <2>2. kids[i].val[r] # 0
    BY <1>1, BoundsAssumption DEF Alive, Given, Occasions
  <2> QED
    BY <2>1, <2>2
<1>3. M.key.needsID => i = view.id /\ view.id # 0
  BY <1>1 DEF Shown, Snapped
<1> QED
  BY <1>1, <1>2, <1>3 DEF Found, requiredFieldsMissing

(* What an object referred to comes back to: only by being there anew, or   *)
(* by becoming ready, does it change what it shows.                         *)
LEMMA TargetSame ==
  ASSUME Base, NEW t \in refs, Target(t), NEW r \in refs,
         r # t \/ TargetTouched(t) \/ DeleteTarget(t) \/ TargetGoes(t)
  PROVE  /\ objs'[r].id = objs[r].id /\ objs'[r].lives = objs[r].lives
         /\ objs'[r].there => objs[r].there
<1>1. objs \in [refs -> Targets] /\ objs[r] \in Targets /\ objs[t] \in Targets
  BY DEF Base, IInv, TypeOK
<1>2. CASE r # t
  <2>1. CASE TargetAppears(t)
    BY <1>1, <1>2, <2>1 DEF TargetAppears
  <2>2. CASE TargetReady(t)
    BY <1>1, <1>2, <2>2 DEF TargetReady
  <2>3. CASE TargetTouched(t)
    BY <1>1, <1>2, <2>3 DEF TargetTouched
  <2>4. CASE DeleteTarget(t)
    BY <1>1, <1>2, <2>4 DEF DeleteTarget
  <2>5. CASE TargetGoes(t)
    BY <1>1, <1>2, <2>5 DEF TargetGoes
  <2> QED
    BY <2>1, <2>2, <2>3, <2>4, <2>5 DEF Target
<1>3. CASE TargetTouched(t)
  <2>1. PICK c \in {"unsynced", "terminal"} : objs' = [objs EXCEPT ![t].cond = c]
    BY <1>3 DEF TargetTouched
  <2> QED
    BY <1>1, <2>1 DEF Targets
<1>4. CASE DeleteTarget(t)
  BY <1>1, <1>4 DEF DeleteTarget, Targets
<1>5. CASE TargetGoes(t)
  <2>1. objs' = [objs EXCEPT ![t] = [objs[t] EXCEPT !.there = FALSE, !.deleting = FALSE]]
    BY <1>1, <1>5 DEF TargetGoes
  <2> QED
    BY <1>1, <2>1 DEF Targets
<1> QED
  BY <1>2, <1>3, <1>4, <1>5

(* An object referred to that changes brings back no resource, and takes no *)
(* identifier back.                                                         *)
LEMMA OnceStays ==
  ASSUME Base, NEW t \in refs, Target(t), NEW r \in refs, NEW v \in Nat, Once(r, v)
  PROVE  Once(r, v)'
<1>1. objs \in [refs -> Targets] /\ objs[r] \in Targets /\ LivesCounted
  BY DEF Base, IInv, TypeOK
<1>2. CASE objs'[r].id = objs[r].id /\ objs'[r].lives = objs[r].lives
  BY <1>2 DEF Once
<1>3. CASE r = t /\ TargetAppears(t)
  <2>1. objs'[r].lives = objs[r].lives + 1
    BY <1>1, <1>3 DEF TargetAppears
  <2>2. v < objs[r].lives + 1
    BY <1>1 DEF Once, LivesCounted, Targets
  <2> QED
    BY <2>1, <2>2 DEF Once
<1>4. CASE r = t /\ TargetReady(t)
  <2>1. objs'[r].lives = objs[r].lives /\ objs'[r].id = objs[r].lives /\ objs[r].lives > 0
    BY <1>1, <1>4 DEF TargetReady, LivesCounted
  <2>2. v = objs[r].lives \/ v < objs[r].lives
    BY <1>1, <2>1 DEF Once, LivesCounted, Targets
  <2> QED
    BY <2>1, <2>2 DEF Once
<1>5. r # t \/ TargetTouched(t) \/ DeleteTarget(t) \/ TargetGoes(t)
        => objs'[r].id = objs[r].id /\ objs'[r].lives = objs[r].lives
  BY TargetSame
<1> QED
  BY <1>2, <1>3, <1>4, <1>5 DEF Target

LEMMA NoneRevives ==
  ASSUME Base, KidsNamed, Snapped, NEW t \in refs, Target(t), UNCHANGED <<kids, subject>>
  PROVE  LiveKids' \subseteq LiveKids
<1> SUFFICES ASSUME NEW i \in Ids, kids[i].live,
                    \A r \in KeyRefs : Alive(r, kids[i].val[r])',
                    NEW r \in KeyRefs
             PROVE  Alive(r, kids[i].val[r])
  BY SameKeyRefs DEF LiveKids, Live
<1> DEFINE v == kids[i].val[r]
<1>1. /\ objs \in [refs -> Targets] /\ objs[r] \in Targets /\ LivesCounted /\ r \in refs
      /\ kids[i].val \in [refs -> Nat]
  BY KeyRefsAre DEF Base, IInv, TypeOK, Ids, Kids
<1>2. v = Given \/ (objs'[r].there /\ v # 0 /\ v = objs'[r].id)
  BY DEF Alive
<1>3. v = Given \/ v = 0 \/ Once(r, v)
  BY DEF KidsNamed, Snapped
<1>4. v \in Nat
  BY <1>1
<1> HIDE DEF v
<1>5. CASE v = Given
  BY <1>5 DEF Alive, v
<1>6. ASSUME v # Given, objs'[r].there, v # 0, v = objs'[r].id, Once(r, v)
      PROVE  objs[r].there /\ v = objs[r].id
  <2>1. CASE r = t /\ TargetAppears(t)
    BY <1>1, <1>6, <2>1 DEF TargetAppears
  <2>2. CASE r = t /\ TargetReady(t)
    BY <1>1, <1>4, <1>6, <2>2 DEF TargetReady, Once, LivesCounted, Targets
  <2>3. r # t \/ TargetTouched(t) \/ DeleteTarget(t) \/ TargetGoes(t)
          => objs'[r].id = objs[r].id /\ (objs'[r].there => objs[r].there)
    BY <1>1, TargetSame
  <2> QED
    BY <1>6, <2>1, <2>2, <2>3 DEF Target
<1> QED
  BY <1>2, <1>3, <1>5, <1>6 DEF Alive, v


-----------------------------------------------------------------------------
(* The steps of the objects referred to, and of the user.                   *)
LEMMA TargetLeft ==
  ASSUME Base, LeftInv, NEW t \in refs, Target(t),
         UNCHANGED <<cr, queued, controller, service, subject>>
  PROVE  LeftInv'
<1> USE DEF controller, service
<1>1. /\ KidsNamed /\ Snapped /\ SoFar /\ ToCreate /\ Shown /\ ToPatch /\ ToGo
      /\ desired \in Views /\ kids \in [Ids -> Kids]
  BY DEF LeftInv, Base, IInv, TypeOK, Ids
<1>2. KeyRefs' = KeyRefs /\ M' = M /\ R' = R /\ refs' = refs /\ KeyRefs \subseteq refs
  BY SameKeyRefs DEF KeyRefs
<1>3. LiveKids' \subseteq LiveKids /\ LiveKids \subseteq Ids
  BY <1>1, NoneRevives DEF LiveKids
<1>4. Waiting' = Waiting
  BY <1>2 DEF Waiting
<1>5. KidsNamed'
  <2> SUFFICES ASSUME NEW i \in Ids, NEW r \in KeyRefs, kids[i].live
               PROVE  /\ cr.ref[r] => Once(r, kids[i].val[r])'
                      /\ ~cr.ref[r] => kids[i].val[r] = cr.val[r]
    BY <1>2 DEF KidsNamed, Once
  <2>1. kids[i].val[r] \in Nat
    BY <1>1, <1>2 DEF Kids
  <2> QED
    BY <1>1, <1>2, <2>1, OnceStays DEF KidsNamed
<1>6. Snapped'
  BY <1>1, <1>2 DEF Snapped
<1>7. ASSUME NEW r \in KeyRefs, Named(r), cr.ref[r]
      PROVE  /\ Once(r, desired.val[r])'
             /\ \A i \in LiveKids' : kids[i].val[r] = desired.val[r]
  <2>1. desired.val[r] \in Nat
    BY <1>1, <1>2 DEF Views
  <2> QED
    BY <1>2, <1>3, <1>7, <2>1, OnceStays DEF Named
<1>8. SoFar'
  BY <1>1, <1>2, <1>4, <1>7 DEF SoFar, Resolved, Named, Once
<1>9. ToCreate'
  BY <1>1, <1>2, <1>3, <1>7 DEF ToCreate, Named, Once
<1>10. Shown'
  BY <1>1, <1>2, <1>3 DEF Shown
<1>11. ToPatch'
  BY <1>1, <1>2 DEF ToPatch
<1>12. LiveKids \subseteq Found(latest) => LiveKids' \subseteq Found(latest)'
  BY <1>2, <1>3 DEF Found, requiredFieldsMissing, LiveKids
<1>13. ToGo'
  BY <1>1, <1>2, <1>3, <1>12 DEF ToGo
<1> QED
  BY <1>5, <1>6, <1>8, <1>9, <1>10, <1>11, <1>13 DEF LeftInv

LEMMA SameLeft ==
  ASSUME Base, LeftInv, UNCHANGED <<controller, service, objs, subject>>,
         cr'.ref = cr.ref, cr'.val = cr.val, cr'.id = cr.id, cr'.finalizer = cr.finalizer
  PROVE  LeftInv'
<1> USE DEF controller, service
<1>1. KeyRefs' = KeyRefs /\ M' = M /\ R' = R /\ refs' = refs /\ LiveKids' = LiveKids
  BY SameKeyRefs, SameLiveKids
<1>2. Waiting' = Waiting
  BY <1>1 DEF Waiting
<1>3. KidsNamed' /\ Snapped' /\ Shown' /\ ToPatch'
  BY <1>1 DEF LeftInv, KidsNamed, Snapped, Shown, ToPatch, Once
<1>4. SoFar' /\ ToCreate'
  BY <1>1, <1>2 DEF LeftInv, SoFar, ToCreate, Resolved, Named, Once
<1>5. LiveKids \subseteq Found(latest) => LiveKids' \subseteq Found(latest)'
  BY <1>1 DEF Found, requiredFieldsMissing, LiveKids
<1>6. ToGo'
  BY <1>1, <1>5 DEF LeftInv, ToGo
<1> QED
  BY <1>3, <1>4, <1>6 DEF LeftInv

-----------------------------------------------------------------------------
(* The steps of the worker.  The resources and the objects are the same in  *)
(* those that only read.                                                    *)
LEMMA ReconcileLeft ==
  ASSUME Base, LeftInv, Reconcile, UNCHANGED <<objs, subject>>
  PROVE  LeftInv'
<1>1. CASE UNCHANGED controller
  BY <1>1, SameLeft DEF Reconcile
<1>2. CASE ~UNCHANGED controller
  <2>1. /\ pc = "idle" /\ pc' \in {"resolve", "resolveToDelete"}
        /\ desired' = [ref |-> cr.ref, val |-> cr.val, id |-> cr.id]
        /\ UNCHANGED <<cr, kids, made, next, unresolved, latest>>
    BY <1>2 DEF Reconcile, service, At, Goto
  <2>2. KeyRefs' = KeyRefs /\ M' = M /\ R' = R /\ refs' = refs /\ LiveKids' = LiveKids
    BY <2>1, SameKeyRefs, SameLiveKids
  <2>3. next = 1 /\ unresolved = {}
    BY <2>1 DEF Base, Rested
  <2>4. ASSUME NEW r \in KeyRefs, cr.ref[r] PROVE \E n \in Waiting' : R.resolves[n] = r
    BY <2>1, <2>2, <2>3, <2>4, KeyRefsAre DEF Waiting
  <2>5. SoFar'
    BY <2>1, <2>2, <2>3, <2>4 DEF SoFar, Resolved, Named
  <2>6. KidsNamed' /\ Snapped' /\ Shown'
    BY <2>1, <2>2 DEF LeftInv, KidsNamed, Snapped, Shown, Once
  <2>7. ToCreate' /\ ToPatch' /\ ToGo'
    BY <2>1, <2>2 DEF LeftInv, ToCreate, ToPatch, ToGo
  <2> QED
    BY <2>5, <2>6, <2>7 DEF LeftInv
<1> QED
  BY <1>1, <1>2


LEMMA ResolveLeft ==
  ASSUME Base, LeftInv, ResolveReference, UNCHANGED <<objs, subject>>
  PROVE  LeftInv'
<1>1. /\ KidsNamed /\ Snapped /\ SoFar /\ ToCreate /\ Shown /\ ToPatch /\ ToGo
      /\ desired \in Views /\ objs \in [refs -> Targets] /\ LivesCounted /\ SpentCounted
  BY DEF LeftInv, Base, IInv, TypeOK
<1>2. PICK n \in Waiting :
        /\ \A m \in Waiting : n <= m
        /\ \/ /\ Resolvable(R.resolves[n])
              /\ desired' = [desired EXCEPT !.val[R.resolves[n]] = objs[R.resolves[n]].id]
              /\ next' = n + 1
              /\ UNCHANGED <<pc, unresolved>>
           \/ Unresolved(R.resolves[n])
  BY DEF ResolveReference
<1> DEFINE r == R.resolves[n]
<1>3. /\ pc \in {"resolve", "resolveToDelete"} /\ unresolved = {}
      /\ UNCHANGED <<cr, kids, made, latest>>
  BY DEF ResolveReference, Resolving, At, service
<1>4. KeyRefs' = KeyRefs /\ M' = M /\ R' = R /\ refs' = refs /\ LiveKids' = LiveKids
  BY <1>3, SameKeyRefs, SameLiveKids
<1>5. KeyRefs \subseteq refs /\ r \in refs /\ desired.ref[r]
  BY DEF KeyRefs, Waiting
<1>6. \A q \in KeyRefs : \A m, k \in Waiting :
        k < m /\ R.resolves[m] = q => R.resolves[k] \in KeyRefs
  BY KeyRefsAre DEF Waiting
<1>7. Waiting \subseteq Nat
  BY SubjectsAssumption, SubjectIsKnown DEF Waiting, Base, IInv, R
<1>8. KidsNamed'
  BY <1>1, <1>3, <1>4 DEF KidsNamed, Once
<1>9. CASE Resolvable(r) /\ desired' = [desired EXCEPT !.val[r] = objs[r].id]
           /\ next' = n + 1 /\ UNCHANGED <<pc, unresolved>>
  <2>1. /\ desired'.ref = desired.ref /\ desired'.id = desired.id
        /\ desired'.val[r] = objs[r].id
        /\ \A q \in refs \ {r} : desired'.val[q] = desired.val[q]
    BY <1>1, <1>5, <1>9 DEF Views
  <2>2. Snapped'
    BY <1>1, <1>3, <1>4, <1>5, <1>9, <2>1 DEF Snapped
  <2>3. ASSUME NEW q \in KeyRefs, cr.ref[q], q # r, \A m \in Waiting' : R.resolves[m] # q
        PROVE  Resolved(q)
    <3> SUFFICES ASSUME NEW m \in Waiting, R.resolves[m] = q PROVE FALSE
      BY DEF Resolved
    <3>1. m # n /\ m \in Nat /\ n \in Nat /\ n <= m
      BY <1>2, <1>7, <2>3
    <3>2. m \in Waiting'
      BY <1>4, <1>9, <2>1, <3>1 DEF Waiting
    <3> QED
      BY <2>3, <3>2
  <2>4. ASSUME r \in KeyRefs, cr.ref[r]
        PROVE  Once(r, objs[r].id) /\ \A i \in LiveKids : kids[i].val[r] = objs[r].id
    <3>1. objs[r].id # Given
      BY <1>1, <1>5, BoundsAssumption DEF LivesCounted, SpentCounted, Given, Occasions, Targets
    <3>2. ASSUME NEW i \in LiveKids PROVE kids[i].val[r] = objs[r].id
      <4>1. kids[i].live /\ Alive(r, kids[i].val[r]) /\ i \in Ids
        BY <2>4 DEF LiveKids, Live
      <4>2. kids[i].val[r] # Given
        BY <1>1, <2>4, <4>1 DEF KidsNamed, Once
      <4> QED
        BY <4>1, <4>2 DEF Alive
    <3> QED
      BY <3>1, <3>2 DEF Once
  <2>5. ASSUME NEW q \in KeyRefs, cr.ref[q], \A m \in Waiting' : R.resolves[m] # q
        PROVE  /\ Once(q, desired'.val[q])
               /\ \A i \in LiveKids : kids[i].val[q] = desired'.val[q]
    <3>1. CASE q = r
      BY <2>1, <2>4, <2>5, <3>1
    <3>2. CASE q # r
      BY <1>1, <1>3, <1>5, <2>1, <2>3, <2>5, <3>2 DEF SoFar, Named
    <3> QED
      BY <3>1, <3>2
  <2>6. SoFar'
    BY <1>3, <1>4, <1>9, <2>5 DEF SoFar, Resolved, Named, Once
  <2>7. ToCreate' /\ Shown' /\ ToPatch' /\ ToGo'
    BY <1>1, <1>3, <1>4, <1>9 DEF ToCreate, Shown, ToPatch, ToGo
  <2> QED
    BY <1>8, <2>2, <2>6, <2>7 DEF LeftInv
<1>10. CASE Unresolved(r)
  <2>1. /\ unresolved' = {r} /\ UNCHANGED <<next, desired>>
        /\ pc' = "patchStatus" \/ (pc = "resolveToDelete" /\ pc' = pc)
    BY <1>3, <1>10 DEF Unresolved, StopWith, Goto, At
  <2>2. Waiting' = Waiting
    BY <1>4, <2>1 DEF Waiting
  <2>3. ASSUME NEW q \in KeyRefs, r \notin KeyRefs PROVE Resolved(q)
    <3> SUFFICES ASSUME NEW m \in Waiting, R.resolves[m] = q PROVE FALSE
      BY DEF Resolved
    <3>1. m # n /\ m \in Nat /\ n \in Nat /\ n <= m
      BY <1>2, <1>7, <2>3
    <3> QED
      BY <1>6, <2>3, <3>1
  <2>4. SoFar'
    BY <1>1, <1>3, <1>4, <2>1, <2>2, <2>3 DEF SoFar, Resolved, Named, Once
  <2>5. Snapped'
    BY <1>1, <1>3, <1>4, <2>1 DEF Snapped
  <2>6. ToCreate' /\ Shown' /\ ToPatch' /\ ToGo'
    BY <1>1, <1>3, <1>4, <2>1 DEF ToCreate, Shown, ToPatch, ToGo
  <2> QED
    BY <1>8, <2>4, <2>5, <2>6 DEF LeftInv
<1> QED
  BY <1>2, <1>9, <1>10

(* Every reference that names the resource is resolved by the time of a Get.*)
LEMMA AllAreNamed ==
  ASSUME SoFar, pc \in {"resolve", "resolveToDelete"}, AllResolved
  PROVE  \A r \in KeyRefs : Named(r)
BY DEF SoFar, AllResolved, Resolved

LEMMA ReadLeft ==
  ASSUME Base, LeftInv, Read, UNCHANGED <<objs, subject>>
  PROVE  LeftInv'
<1>1. /\ KidsNamed /\ Snapped /\ SoFar /\ Shown /\ ToGo
      /\ pc = "resolve" /\ AllResolved /\ latest.id = 0 /\ desired \in Views
      /\ UNCHANGED <<cr, kids, made, desired, unresolved>>
  BY DEF LeftInv, Read, At, service, Base, Rested, IInv, TypeOK
<1>2. KeyRefs' = KeyRefs /\ M' = M /\ R' = R /\ refs' = refs /\ LiveKids' = LiveKids
  BY <1>1, SameKeyRefs, SameLiveKids
<1>3. \A r \in KeyRefs : Named(r)
  BY <1>1, AllAreNamed
<1>4. LiveKids \subseteq Found(desired)
  BY <1>1, <1>3, NamedIsFound
<1>5. KidsNamed' /\ Snapped'
  BY <1>1, <1>2 DEF KidsNamed, Snapped, Once
<1>6. CASE Found(desired) = {} /\ pc' = "create" /\ UNCHANGED latest
  <2>1. LiveKids = {}
    BY <1>4, <1>6
  <2>2. ToCreate'
    BY <1>1, <1>2, <1>3, <2>1 DEF ToCreate, Named, Once
  <2>3. SoFar' /\ Shown' /\ ToPatch' /\ ToGo'
    BY <1>1, <1>2, <1>6, <2>1 DEF SoFar, Shown, ToPatch, ToGo
  <2> QED
    BY <1>5, <2>2, <2>3 DEF LeftInv
<1>7. ASSUME NEW i \in Found(desired), latest' = Rebuilt(M.reads, i, desired),
             pc' \in {"update", "patchStatus"}
      PROVE  LeftInv'
  <2>1. latest'.id = i
    BY <1>7 DEF Rebuilt
  <2>2. i \in Ids /\ i # 0 /\ (M.key.needsID => i = cr.id)
    BY <1>1 DEF Found, Snapped, Base, IInv, TypeOK, Ids
  <2>3. Shown'
    BY <1>1, <1>2, <2>1, <2>2 DEF Shown
  <2>4. SoFar' /\ ToCreate' /\ ToPatch' /\ ToGo'
    BY <1>1, <1>2, <1>7 DEF SoFar, ToCreate, ToPatch, ToGo
  <2> QED
    BY <1>5, <2>3, <2>4 DEF LeftInv
<1> QED
  BY <1>6, <1>7 DEF Read, Goto

(* What is not behind a reference that names the resource is not in the way *)
(* of its deletion.                                                         *)
LEMMA ReadToDeleteLeft ==
  ASSUME Base, LeftInv, ReadToDelete, UNCHANGED <<objs, subject>>
  PROVE  LeftInv'
<1>1. /\ KidsNamed /\ Snapped /\ SoFar /\ Shown /\ ToGo
      /\ pc = "resolveToDelete" /\ (AllResolved \/ unresolved # {}) /\ latest.id = 0
      /\ desired \in Views /\ UNCHANGED <<cr, kids, made, desired, unresolved>>
  BY DEF LeftInv, ReadToDelete, At, service, Base, Rested, IInv, TypeOK
<1>2. KeyRefs' = KeyRefs /\ M' = M /\ R' = R /\ refs' = refs /\ LiveKids' = LiveKids
  BY <1>1, SameKeyRefs, SameLiveKids
<1>3. unresolved \cap KeyRefs # {} \/ \A r \in KeyRefs : Named(r)
  <2>1. CASE AllResolved
    BY <1>1, <2>1, AllAreNamed
  <2>2. CASE unresolved # {} /\ unresolved \cap KeyRefs = {}
    BY <1>1, <2>2 DEF SoFar, Named
  <2> QED
    BY <1>1, <2>1, <2>2
<1>4. KidsNamed' /\ Snapped'
  BY <1>1, <1>2 DEF KidsNamed, Snapped, Once
<1>5. CASE Found(desired) = {} /\ pc' = "release" /\ UNCHANGED latest
  <2>1. unresolved \cap KeyRefs # {} \/ LiveKids = {}
    BY <1>1, <1>3, <1>5, NamedIsFound
  <2>2. SoFar' /\ ToCreate' /\ Shown' /\ ToPatch' /\ ToGo'
    BY <1>1, <1>2, <1>5, <2>1 DEF SoFar, ToCreate, Shown, ToPatch, ToGo
  <2> QED
    BY <1>4, <2>2 DEF LeftInv
<1>6. ASSUME NEW i \in Found(desired), latest' = Rebuilt(M.reads, i, desired), pc' = "delete"
      PROVE  LeftInv'
  <2>1. i \in Ids /\ i # 0 /\ (M.key.needsID => i = desired.id) /\ desired.id = cr.id
    BY <1>1 DEF Found, Snapped, Base, IInv, TypeOK, Ids
  <2>2. latest'.id = i /\ \A r \in KeyRefs : latest'.val[r] = desired.val[r]
    <3> SUFFICES ASSUME NEW r \in KeyRefs PROVE latest'.id = i /\ latest'.val[r] = desired.val[r]
      BY <1>6 DEF Rebuilt
    <3>1. r \in refs /\ kids'[i].val[r] = desired.val[r]
      BY <1>1 DEF Found, KeyRefs
    <3> QED
      BY <1>1, <1>6, <3>1, RebuiltHasNoMore
  <2>3. unresolved \cap KeyRefs # {} \/ LiveKids \subseteq Found(latest')
    BY <1>1, <1>3, <2>1, <2>2, NamedIsFound
  <2>4. LiveKids \subseteq Found(latest') => LiveKids' \subseteq Found(latest)'
    BY <1>1, <1>2 DEF Found, requiredFieldsMissing, LiveKids
  <2>5. Shown'
    BY <1>1, <1>2, <2>1, <2>2 DEF Shown
  <2>6. SoFar' /\ ToCreate' /\ ToPatch'
    BY <1>6 DEF SoFar, ToCreate, ToPatch
  <2>7. ToGo'
    BY <1>1, <1>2, <1>6, <2>3, <2>4 DEF ToGo
  <2> QED
    BY <1>4, <2>5, <2>6, <2>7 DEF LeftInv
<1> QED
  BY <1>5, <1>6 DEF ReadToDelete, Goto


LEMMA CreateLeft ==
  ASSUME Base, LeftInv, cr.present, Create, UNCHANGED <<objs, subject>>
  PROVE  LeftInv'
<1>1. /\ KidsNamed /\ Snapped /\ LiveKids = {} /\ (\A r \in KeyRefs : Named(r))
      /\ pc = "create" /\ desired \in Views /\ cr \in Objects
      /\ kids \in [Ids -> Kids] /\ made \in 0..MaxMade /\ MaxMade \in Nat
      /\ desired' = desired
  BY BoundsAssumption DEF LeftInv, ToCreate, Create, At, Base, IInv, TypeOK, Ids
<1>2. KeyRefs' = KeyRefs /\ M' = M /\ R' = R /\ refs' = refs /\ KeyRefs \subseteq refs
  BY SameKeyRefs DEF KeyRefs
<1>3. cr'.ref = cr.ref /\ cr'.val = cr.val /\ cr'.id = cr.id
  BY <1>1 DEF Create, Objects
<1>4. Snapped'
  BY <1>1, <1>2, <1>3 DEF Snapped
<1>5. CASE pc' = "patchStatus"
  <2>1. UNCHANGED <<latest, kids>>
    BY <1>5 DEF Create, Goto, service
  <2>2. LiveKids' = {}
    BY <1>1, <2>1, SameLiveKids
  <2>3. KidsNamed'
    BY <1>1, <1>2, <1>3, <2>1 DEF KidsNamed, Once
  <2>4. SoFar' /\ ToCreate' /\ Shown' /\ ToPatch' /\ ToGo'
    BY <1>5, <2>2 DEF SoFar, ToCreate, Shown, ToPatch, ToGo
  <2> QED
    BY <1>4, <2>3, <2>4 DEF LeftInv
<1>6. CASE pc' # "patchStatus"
  <2> DEFINE new == [live |-> TRUE,
                     val  |-> [r \in refs |-> IF r.field \in M.sends THEN desired.val[r] ELSE 0]]
  <2>1. /\ made < MaxMade /\ made' = made + 1 /\ kids' = [kids EXCEPT ![made'] = new]
        /\ latest' = Rebuilt(M.echoes, made', desired)
        /\ cr' = [cr EXCEPT !.finalizer = TRUE] /\ pc' = "patchSpec"
    BY <1>6 DEF Create, Creatable, StopWith, Goto
  <2>2. PICK k \in Ids : k = made' /\ k # 0
    BY <1>1, <2>1 DEF Ids
  <2>3. /\ kids'[k].live /\ \A r \in KeyRefs : kids'[k].val[r] = desired.val[r]
        /\ \A i \in Ids \ {k} : kids'[i] = kids[i]
    BY <1>1, <1>2, <2>1, <2>2, KeyRefsAre
  <2>4. LiveKids' \subseteq {k}
    BY <1>1, <1>2, <2>3 DEF LiveKids, Live, Alive
  <2>5. KidsNamed'
    <3> SUFFICES ASSUME NEW i \in Ids, NEW r \in KeyRefs, kids'[i].live
                 PROVE  /\ cr.ref[r]  => Once(r, kids'[i].val[r])
                        /\ ~cr.ref[r] => kids'[i].val[r] = cr.val[r]
      BY <1>2, <1>3 DEF KidsNamed, Once
    <3>1. CASE i = k
      BY <1>1, <2>3, <3>1 DEF Named, Snapped
    <3>2. CASE i # k
      BY <1>1, <2>3, <3>2 DEF KidsNamed
    <3> QED
      BY <3>1, <3>2
  <2>6. latest'.id = k
    BY <2>1, <2>2 DEF Rebuilt
  <2>7. Shown'
    BY <2>2, <2>4, <2>6 DEF Shown
  <2>8. ToPatch'
    <3> SUFFICES ASSUME NEW r \in KeyRefs PROVE latest'.val[r] = desired.val[r]
      BY <1>1, <1>2 DEF ToPatch
    <3> QED
      BY <1>1, <1>2, <2>1, <2>2, <2>3, RebuiltHasNoMore
  <2>9. cr'.finalizer
    BY <1>1, <2>1 DEF Objects
  <2>10. SoFar' /\ ToCreate' /\ ToGo'
    BY <2>1, <2>9 DEF SoFar, ToCreate, ToGo
  <2> QED
    BY <1>4, <2>5, <2>7, <2>8, <2>10 DEF LeftInv
<1> QED
  BY <1>5, <1>6

(* An Update carries no name. *)
LEMMA UpdateLeft ==
  ASSUME Base, LeftInv, Update, UNCHANGED <<objs, subject>>
  PROVE  LeftInv'
<1>1. /\ KidsNamed /\ Snapped /\ Shown /\ ToGo
      /\ pc = "update" /\ desired \in Views /\ kids \in [Ids -> Kids] /\ Ids = 1..MaxMade
      /\ UNCHANGED <<cr, made, desired>>
  BY DEF LeftInv, Update, At, Base, IInv, TypeOK, Ids
<1>2. KeyRefs' = KeyRefs /\ M' = M /\ R' = R /\ refs' = refs /\ KeyRefs \subseteq refs
  BY SameKeyRefs DEF KeyRefs
<1>3. pc' \in {"patchStatus", "patchSpec"}
  BY DEF Update, StopWith, Goto
<1>4. SoFar' /\ ToCreate'
  BY <1>3 DEF SoFar, ToCreate
<1>5. Snapped'
  BY <1>1, <1>2, <1>3 DEF Snapped
<1>6. CASE UNCHANGED kids /\ latest'.id = latest.id
           /\ (pc' = "patchSpec" => latest'.val = desired.val)
  <2>1. LiveKids' = LiveKids
    BY <1>6, SameLiveKids
  <2>2. KidsNamed' /\ Shown' /\ ToPatch' /\ ToGo'
    BY <1>1, <1>2, <1>3, <1>6, <2>1 DEF KidsNamed, Shown, ToPatch, ToGo, Once
  <2> QED
    BY <1>4, <1>5, <2>2 DEF LeftInv
<1>7. ASSUME NEW i \in Found(desired),
             kids' = [kids EXCEPT ![i].val =
               [r \in refs |-> IF r.field \in M.patches \ M.key.fields
                               THEN desired.val[r] ELSE @[r]]],
             latest' = Rebuilt(M.update.returns, i, desired)
      PROVE  LeftInv'
  <2>1. i \in Ids /\ i # 0 /\ i \in LiveKids
    BY <1>1 DEF Found, LiveKids
  <2>2. \A j \in Ids : kids'[j].live = kids[j].live
                       /\ \A r \in KeyRefs : kids'[j].val[r] = kids[j].val[r]
    BY <1>1, <1>2, <1>7, <2>1 DEF Kids, KeyRefs
  <2>3. LiveKids' = LiveKids
    BY <1>2, <2>2 DEF LiveKids, Live, Alive
  <2>4. KidsNamed'
    BY <1>1, <1>2, <2>2 DEF KidsNamed, Once
  <2>5. latest'.id = i
    BY <1>7 DEF Rebuilt
  <2>6. Shown'
    BY <1>1, <1>2, <2>1, <2>3, <2>5 DEF Shown
  <2>7. ToPatch'
    <3> SUFFICES ASSUME NEW r \in KeyRefs PROVE latest'.val[r] = desired.val[r]
      BY <1>1, <1>2 DEF ToPatch
    <3>1. kids[i].val[r] = desired.val[r]
      BY DEF Found
    <3> QED
      BY <1>1, <1>2, <1>7, <2>1, <2>2, <3>1, RebuiltHasNoMore
  <2>8. ToGo'
    BY <1>1, <1>3, <2>3 DEF ToGo
  <2> QED
    BY <1>4, <1>5, <2>4, <2>6, <2>7, <2>8 DEF LeftInv
<1>8. latest' = [desired EXCEPT !.id = latest.id] => latest'.id = latest.id /\ latest'.val = desired.val
  BY <1>1 DEF Views
<1> QED
  BY <1>6, <1>7, <1>8 DEF Update, StopWith, Goto

(* The patch of the spec leaves alone what names the resource.              *)
LEMMA PatchKeepsNames ==
  ASSUME Base, LeftInv, PatchSpec, NEW r \in KeyRefs
  PROVE  cr'.ref[r] = cr.ref[r] /\ cr'.val[r] = cr.val[r]
<1> DEFINE from == Cleared(desired)
           to   == ToStore
           patched(p) == p.place = "list"
                         /\ \E q \in refs : q.field = p.field /\ Changed(q, from, to)
           ref == [p \in refs |-> IF patched(p) \/ from.ref[p] # to.ref[p]
                                  THEN to.ref[p] ELSE cr.ref[p]]
           val == [p \in refs |-> IF patched(p) \/ from.val[p] # to.val[p]
                                  THEN to.val[p] ELSE cr.val[p]]
           new == [cr EXCEPT !.ref = ref, !.val = val]
<1>1. /\ cr \in Objects /\ desired \in Views /\ latest \in Views
      /\ r \in refs /\ r.place = "top" /\ r \in R.clears
  BY KeyRefsAre DEF Base, IInv, TypeOK
<1>2. latest.ref[r] = desired.ref[r] /\ latest.val[r] = desired.val[r]
  BY <1>1 DEF Base, IInv, TopKept, LeftInv, ToPatch, PatchSpec, At
<1>3. /\ from.ref[r] = desired.ref[r]
      /\ from.val[r] = IF desired.ref[r] THEN 0 ELSE desired.val[r]
  BY <1>1, ClearedType DEF Cleared, Views
<1>4. Ensured(latest) \in Views /\ Ensured(latest).val = latest.val
      /\ Ensured(latest).ref[r] = desired.ref[r]
  BY <1>1, <1>2, EnsuredType DEF Ensured, Views
<1>5. /\ to.ref[r] = desired.ref[r]
      /\ to.val[r] = IF desired.ref[r] THEN 0 ELSE latest.val[r]
  BY <1>1, <1>4, ClearedType DEF ToStore, Cleared, Views
<1>6. cr' = cr \/ cr' = new
  BY DEF PatchSpec
<1>7. ~patched(r)
  BY <1>1
<1> HIDE DEF from, to, patched
<1>8. ref[r] = cr.ref[r] /\ val[r] = cr.val[r]
  BY <1>1, <1>2, <1>3, <1>5, <1>7
<1>9. new.ref = ref /\ new.val = val
  BY <1>1 DEF Objects
<1> QED
  BY <1>6, <1>8, <1>9

LEMMA PatchSpecLeft ==
  ASSUME Base, LeftInv, PatchSpec, UNCHANGED <<objs, subject>>
  PROVE  LeftInv'
<1>1. /\ KidsNamed /\ Snapped /\ Shown /\ ToGo
      /\ pc = "patchSpec" /\ pc' = "patchStatus" /\ cr \in Objects
      /\ UNCHANGED <<kids, made, desired, latest>>
  BY DEF LeftInv, PatchSpec, StopWith, Goto, At, service, Base, IInv, TypeOK
<1>2. KeyRefs' = KeyRefs /\ M' = M /\ R' = R /\ refs' = refs /\ LiveKids' = LiveKids
  BY <1>1, SameKeyRefs, SameLiveKids
<1>3. cr'.id = cr.id /\ cr'.finalizer = cr.finalizer
  BY <1>1 DEF PatchSpec, Objects
<1>4. \A r \in KeyRefs : cr'.ref[r] = cr.ref[r] /\ cr'.val[r] = cr.val[r]
  BY PatchKeepsNames
<1>5. KidsNamed' /\ Snapped'
  BY <1>1, <1>2, <1>3, <1>4 DEF KidsNamed, Snapped, Once
<1>6. SoFar' /\ ToCreate' /\ Shown' /\ ToPatch' /\ ToGo'
  BY <1>1, <1>2, <1>3 DEF SoFar, ToCreate, Shown, ToPatch, ToGo
<1> QED
  BY <1>5, <1>6 DEF LeftInv

LEMMA PatchStatusLeft ==
  ASSUME Base, LeftInv, PatchStatus, cr.present, UNCHANGED <<objs, subject>>
  PROVE  LeftInv'
<1>1. /\ KidsNamed /\ Snapped /\ Shown /\ ToGo
      /\ pc # "idle" /\ pc' = "idle" /\ cr \in Objects /\ UNCHANGED <<kids, made>>
      /\ latest'.id = 0
      /\ cr' = [cr EXCEPT !.id = IF latest.id = 0 THEN desired.id ELSE latest.id, !.cond = err]
  BY DEF LeftInv, PatchStatus, ToShow, Rest, Blank, Goto, At, service, Base, IInv, TypeOK
<1>2. KeyRefs' = KeyRefs /\ M' = M /\ R' = R /\ refs' = refs /\ LiveKids' = LiveKids
  BY <1>1, SameKeyRefs, SameLiveKids
<1>3. /\ cr'.ref = cr.ref /\ cr'.val = cr.val /\ cr'.finalizer = cr.finalizer
      /\ cr'.id = IF latest.id = 0 THEN cr.id ELSE latest.id
  BY <1>1 DEF Snapped, Objects
<1>4. KidsNamed' /\ Snapped'
  BY <1>1, <1>2, <1>3 DEF KidsNamed, Snapped, Once
<1>5. SoFar' /\ ToCreate' /\ Shown' /\ ToPatch' /\ ToGo'
  BY <1>1, <1>2, <1>3 DEF SoFar, ToCreate, Shown, ToPatch, ToGo
<1> QED
  BY <1>4, <1>5 DEF LeftInv

LEMMA DeleteLeft ==
  ASSUME Base, LeftInv, Delete, UNCHANGED <<objs, subject>>
  PROVE  LeftInv'
<1>1. /\ KidsNamed /\ Snapped /\ Shown /\ ToGo
      /\ pc = "delete" /\ pc' = "release" /\ kids \in [Ids -> Kids]
      /\ UNCHANGED <<cr, made, desired, latest, unresolved>>
  BY DEF LeftInv, Delete, Goto, At, Base, IInv, TypeOK, Ids
<1>2. KeyRefs' = KeyRefs /\ M' = M /\ R' = R /\ refs' = refs
  BY SameKeyRefs
<1>3. \A i \in Ids : kids'[i].val = kids[i].val
                     /\ (kids'[i].live <=> kids[i].live /\ i \notin Found(latest))
  BY <1>1 DEF Delete, Kids
<1>4. LiveKids' \subseteq LiveKids \ Found(latest)
  BY <1>2, <1>3 DEF LiveKids, Live, Alive
<1>5. KidsNamed' /\ Snapped'
  BY <1>1, <1>2, <1>3 DEF KidsNamed, Snapped, Once
<1>6. SoFar' /\ ToCreate' /\ Shown' /\ ToPatch' /\ ToGo'
  BY <1>1, <1>2, <1>4 DEF SoFar, ToCreate, Shown, ToPatch, ToGo
<1> QED
  BY <1>5, <1>6 DEF LeftInv

-----------------------------------------------------------------------------
(* An object that is gone does not come again, and what was edited stays    *)
(* edited.                                                                  *)
LEMMA UneditedBefore == Base /\ [Next]_vars /\ Unedited' => Unedited
<1> SUFFICES ASSUME Base, [Next]_vars, Unedited' PROVE Unedited
  OBVIOUS
<1>1. /\ cr \in Objects /\ SpentCounted /\ objs \in [refs -> Targets]
  BY DEF Base, IInv, TypeOK
<1>2. spent["edits"] = 0
  <2>1. CASE spent' = spent
    BY <2>1 DEF Unedited
  <2>2. ASSUME NEW o \in {"touches", "errors"}, Spend(o) PROVE spent["edits"] = 0
    BY <1>1, <2>2 DEF Unedited, Spend, SpentCounted, Occasions
  <2>3. CASE \E r \in refs : TargetAppears(r)
    BY <1>1, <2>3 DEF Unedited, TargetAppears, SpentCounted, Occasions
  <2>4. CASE Spend("edits")
    BY <1>1, <2>4 DEF Unedited, Spend, SpentCounted, Occasions
  <2> QED
    BY <2>1, <2>2, <2>3, <2>4
       DEF Next, Worker, User, Target, DeleteCR, EditReference, Resync, Reconcile, ResolveReference,
           Read, Create, Update, PatchSpec, PatchStatus, ReadToDelete, Delete, Release,
           TargetReady, TargetTouched, DeleteTarget, TargetGoes, vars
<1>3. cr.present
  <2> SUFFICES ASSUME ~cr.present PROVE FALSE
    OBVIOUS
  <2>1. ~cr'.present
    BY <1>1
       DEF Next, Worker, User, DeleteCR, EditReference, Resync, Reconcile, ResolveReference,
           Read, Create, Update, PatchSpec, PatchStatus, ReadToDelete, Delete, Release,
           vars, Objects
  <2> QED
    BY <2>1 DEF Unedited
<1> QED
  BY <1>2, <1>3 DEF Unedited

LEMMA LeftStep == Left /\ [Next]_vars => Left'
<1> SUFFICES ASSUME Left, [Next]_vars PROVE Left'
  OBVIOUS
<1>1. Base /\ Base'
  BY BaseStep DEF Left
<1> SUFFICES ASSUME Unedited' PROVE LeftInv'
  BY <1>1 DEF Left
<1>2. LeftInv /\ Unedited /\ cr.present
  BY <1>1, UneditedBefore DEF Left, Unedited
<1>3. CASE UNCHANGED vars
  BY <1>1, <1>2, <1>3, SameLeft DEF vars
<1>4. CASE Worker /\ UNCHANGED <<objs, subject>>
  <2>1. ~Release
    BY <1>1 DEF Release, Unedited, Base, IInv, TypeOK, Objects
  <2> QED
    BY <1>1, <1>2, <1>4, <2>1, ReconcileLeft, ResolveLeft, ReadLeft, CreateLeft, UpdateLeft,
       PatchSpecLeft, PatchStatusLeft, ReadToDeleteLeft, DeleteLeft DEF Worker
<1>5. CASE Resync /\ UNCHANGED <<objs, subject>>
  BY <1>1, <1>2, <1>5, SameLeft DEF Resync
<1>6. CASE User /\ UNCHANGED <<objs, controller, service, subject>>
  <2>1. DeleteCR
    <3>1. ~Spend("edits")
      BY <1>1 DEF Spend, Unedited, Base, SpentCounted, Occasions
    <3> QED
      BY <1>6, <3>1 DEF User, EditReference
  <2>2. cr'.ref = cr.ref /\ cr'.val = cr.val /\ cr'.id = cr.id /\ cr'.finalizer = cr.finalizer
    BY <1>1, <2>1 DEF DeleteCR, Base, IInv, TypeOK, Objects
  <2> QED
    BY <1>1, <1>2, <1>6, <2>2, SameLeft
<1>7. CASE (\E r \in refs : Target(r)) /\ UNCHANGED <<cr, queued, controller, service, subject>>
  BY <1>1, <1>2, <1>7, TargetLeft
<1> QED
  BY <1>3, <1>4, <1>5, <1>6, <1>7 DEF Next

LEMMA LeftInit == Init => Left
<1> SUFFICES ASSUME Init PROVE Left
  OBVIOUS
<1>1. Base
  BY BaseInit
<1>2. LiveKids = {} /\ \A i \in Ids : ~kids[i].live
  BY DEF Init, LiveKids, Live, Ids
<1>3. KeyRefs \subseteq refs /\ \A r \in refs : cr.val[r] \in {0, Given}
  BY DEF Init, KeyRefs
<1>4. KidsNamed /\ Shown
  BY <1>2 DEF KidsNamed, Shown
<1>5. Snapped
  BY <1>3 DEF Init, Snapped
<1>6. SoFar /\ ToCreate /\ ToPatch /\ ToGo
  BY <1>2 DEF Init, SoFar, ToCreate, ToPatch, ToGo
<1> QED
  BY <1>1, <1>4, <1>5, <1>6 DEF Left, LeftInv

(* An object that nobody edited goes and leaves a resource only if the      *)
(* reference that could not be resolved is one the resource is named by.    *)
THEOREM NothingElseIsLeft == Spec => LeftOnlyUnresolved
<1> DEFINE Leaves == cr.present /\ ~cr'.present /\ (\E i \in DOMAIN kids : Live(i)) =>
                       unresolved \cap KeyRefs # {} \/ spent.edits > 0
<1>1. Left /\ [Next]_vars => Leaves
  <2> SUFFICES ASSUME Left, [Next]_vars, cr.present, ~cr'.present,
                      NEW i \in DOMAIN kids, Live(i), spent["edits"] = 0
               PROVE  unresolved \cap KeyRefs # {}
    BY DEF Left, Base, SpentCounted, Occasions
  <2>1. LeftInv /\ cr \in Objects
    BY DEF Left, Unedited, Base, IInv, TypeOK
  <2>2. i \in LiveKids
    BY DEF LiveKids, Ids, Left, Base, IInv, TypeOK
  <2>3. cr.finalizer
    BY <2>1, <2>2 DEF LeftInv, ToGo
  <2>4. ~Create
    BY <2>1, <2>2 DEF Create, At, LeftInv, ToCreate
  <2>5. Release
    BY <2>1, <2>3, <2>4
       DEF Next, Worker, User, DeleteCR, EditReference, Resync, Reconcile, ResolveReference,
           Read, Update, PatchSpec, PatchStatus, ReadToDelete, Delete, vars, Objects
  <2> QED
    BY <2>1, <2>2, <2>5 DEF Release, At, LeftInv, ToGo
<1>2. Left /\ [Next]_vars => [Leaves]_vars
  BY <1>1
<1> QED
  BY <1>2, LeftInit, LeftStep, PTL DEF Spec, LeftOnlyUnresolved

=============================================================================
