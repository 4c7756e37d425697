-------------------------- MODULE References_proofs -------------------------
(***************************************************************************)
(* What References promises for every kind, every set of references and    *)
(* every budget: a reconcile never takes a *Ref out of a stored spec,      *)
(* unless it is in a list, and never makes a spec one that is refused.     *)
(*                                                                         *)
(* The patch of the spec is what differs between the snapshot and the view *)
(* of the resource, and that view is the snapshot with the fields of a     *)
(* response put in.  A *Ref at the top of the spec is in no response, so   *)
(* view and snapshot agree on it (TopKept); one in a struct is lost with   *)
(* the struct and put back by EnsureReferences.  Edits that come between   *)
(* the snapshot and the patch are in neither.                              *)
(*                                                                         *)
(* A spec is refused for a value beside a *Ref, or for having neither.     *)
(* The view has no *Ref the snapshot has not, and the snapshot's value     *)
(* where one is wanted (NothingNew); the value beside a *Ref is cleared.   *)
(***************************************************************************)
EXTENDS References, TLAPS

Views   == [ref: [refs -> BOOLEAN], val: [refs -> Nat], id: Nat]
Results == {"ok", "retry", "terminal"}
Objects == [present: BOOLEAN, deleting: BOOLEAN, finalizer: BOOLEAN,
            ref: [refs -> BOOLEAN], val: [refs -> Nat], id: Nat, cond: Results]
Targets == [there: BOOLEAN, cond: {"unsynced", "synced", "terminal"}, id: Nat,
            deleting: BOOLEAN, lives: Nat]
Kids    == [live: BOOLEAN, val: [refs -> Nat]]

TypeOK ==
  /\ \E s \in Subjects : kind = s.kind /\ refs = s.refs
  /\ cr \in Objects
  /\ desired \in Views /\ latest \in Views
  /\ err \in Results
  /\ objs \in [refs -> Targets]
  /\ kids \in [1..MaxMade -> Kids] /\ made \in 0..MaxMade

(* The subject is one of the table. *)
LEMMA SubjectIsKnown ==
  ASSUME TypeOK
  PROVE  kind \in DOMAIN Referrers /\ refs \subseteq RefsOf(kind)
BY SubjectsAssumption DEF TypeOK

TopKept ==
  pc = "patchSpec" => \A r \in refs : r.place = "top" => latest.ref[r] = desired.ref[r]

IInv == TypeOK /\ TopKept

-----------------------------------------------------------------------------
(* The operators take views to views.                                       *)
LEMMA GivenType == Given \in Nat
BY BoundsAssumption DEF Given, Occasions

LEMMA BlankType == Blank \in Views
BY DEF Blank, Views

LEMMA RebuiltType ==
  ASSUME NEW view \in Views, NEW fields, NEW i \in 1..MaxMade, kids' \in [1..MaxMade -> Kids],
         MaxMade \in Nat
  PROVE  Rebuilt(fields, i, view) \in Views
<1>1. kids'[i].val \in [refs -> Nat] /\ i \in Nat
  BY DEF Kids
<1> QED
  BY <1>1 DEF Rebuilt, Views

(* A view rebuilt from a response keeps the *Refs at the top.               *)
LEMMA RebuiltKeepsTop ==
  ASSUME NEW view \in Views, NEW fields, NEW i, NEW r \in refs, r.place = "top"
  PROVE  Rebuilt(fields, i, view).ref[r] = view.ref[r]
BY DEF Rebuilt, Views

LEMMA ClearedType ==
  ASSUME NEW view \in Views
  PROVE  Cleared(view) \in Views /\ Cleared(view).ref = view.ref
BY DEF Cleared, Views

LEMMA EnsuredType ==
  ASSUME NEW view \in Views, desired \in Views
  PROVE  /\ Ensured(view) \in Views
         /\ \A r \in refs : Ensured(view).ref[r] <=> view.ref[r] \/ (r \in R.ensures /\ desired.ref[r])
<1>1. [r \in refs |-> view.ref[r] \/ (r \in R.ensures /\ desired.ref[r])] \in [refs -> BOOLEAN]
  OBVIOUS
<1> QED
  BY <1>1 DEF Ensured, Views

-----------------------------------------------------------------------------
(* The patch: the object stays an object, and a *Ref that was there and is  *)
(* not in a list is there after it.                                         *)
LEMMA PatchKeeps ==
  ASSUME IInv, PatchSpec, refs' = refs, kind' = kind
  PROVE  /\ cr' \in Objects /\ err' \in Results
         /\ \A r \in refs : cr.ref[r] /\ r.place # "list" => cr'.ref[r]
<1> DEFINE from == Cleared(desired)
           to   == ToStore
           patched(r) == r.place = "list"
                         /\ \E q \in refs : q.field = r.field /\ Changed(q, from, to)
           ref == [r \in refs |-> IF patched(r) \/ from.ref[r] # to.ref[r]
                                  THEN to.ref[r] ELSE cr.ref[r]]
           val == [r \in refs |-> IF patched(r) \/ from.val[r] # to.val[r]
                                  THEN to.val[r] ELSE cr.val[r]]
           new == [cr EXCEPT !.ref = ref, !.val = val]
<1>1. cr \in Objects /\ desired \in Views /\ latest \in Views /\ err \in Results
  BY DEF IInv, TypeOK
<1>2. from \in Views /\ from.ref = desired.ref
  BY <1>1, ClearedType
<1>3. /\ to \in Views
      /\ \A r \in refs : to.ref[r] <=> latest.ref[r] \/ (r \in R.ensures /\ desired.ref[r])
  BY <1>1, ClearedType, EnsuredType DEF ToStore
<1>4. cr' = new \/ cr' = cr
  BY DEF PatchSpec
<1>5. err' \in Results
  BY <1>1 DEF PatchSpec, StopWith, Results
<1> HIDE DEF from, to
<1>6. ref \in [refs -> BOOLEAN] /\ val \in [refs -> Nat]
  BY <1>1, <1>2, <1>3 DEF Views, Objects
<1>7. ASSUME NEW r \in refs, cr.ref[r], r.place # "list" PROVE ref[r]
  <2>1. ref[r] = IF from.ref[r] # to.ref[r] THEN to.ref[r] ELSE cr.ref[r]
    BY <1>7
  <2>2. CASE r.place = "top"
    <3>1. latest.ref[r] = desired.ref[r]
      BY <2>2 DEF IInv, TopKept, PatchSpec, At
    <3> QED
      BY <1>1, <1>2, <1>3, <1>7, <2>1, <3>1 DEF Views
  <2>3. CASE r.place = "struct"
    <3>1. r \in R.ensures
      BY <2>3, EnsuresAssumption, SubjectIsKnown DEF IInv, R
    <3> QED
      BY <1>1, <1>2, <1>3, <1>7, <2>1, <3>1 DEF Views
  <2> QED
    BY <1>7, <2>2, <2>3, EnsuresAssumption, SubjectIsKnown DEF IInv
<1> HIDE DEF ref, val
<1>8. new \in Objects /\ new.ref = ref
  BY <1>1, <1>6 DEF Objects
<1> QED
  BY <1>1, <1>4, <1>5, <1>7, <1>8

-----------------------------------------------------------------------------
(* The steps of the worker. *)
LEMMA WorkerStep ==
  ASSUME IInv, Worker, UNCHANGED <<objs, subject>>
  PROVE  IInv'
<1>1. refs' = refs /\ kind' = kind /\ objs' = objs
  BY DEF subject
<1>2. /\ \E s \in Subjects : kind = s.kind /\ refs = s.refs
      /\ cr \in Objects /\ desired \in Views /\ latest \in Views /\ err \in Results
      /\ objs \in [refs -> Targets] /\ kids \in [1..MaxMade -> Kids] /\ made \in 0..MaxMade
      /\ MaxMade \in Nat
  BY BoundsAssumption DEF IInv, TypeOK
<1>3. Views' = Views /\ Objects' = Objects /\ Kids' = Kids
  BY <1>1 DEF Views, Objects, Kids
<1>4. SUFFICES /\ cr' \in Objects /\ desired' \in Views /\ latest' \in Views /\ err' \in Results
               /\ kids' \in [1..MaxMade -> Kids] /\ made' \in 0..MaxMade
               /\ TopKept'
  BY <1>1, <1>2, <1>3 DEF IInv, TypeOK
<1> USE DEF At, Goto
<1>5. CASE Reconcile
  <2>1. desired' \in Views
    <3>1. [ref |-> cr.ref, val |-> cr.val, id |-> cr.id] \in Views
      BY <1>2 DEF Objects, Views
    <3> QED
      BY <1>2, <1>5, <3>1 DEF Reconcile, controller
  <2>2. err' \in Results
    BY <1>2, <1>5 DEF Reconcile, controller, Results
  <2> QED
    BY <1>2, <1>5, <2>1, <2>2 DEF Reconcile, controller, service, TopKept
<1>6. CASE ResolveReference
  <2>1. desired' \in Views
    <3>1. CASE UNCHANGED desired
      BY <1>2, <3>1
    <3>2. ASSUME NEW r \in refs, desired' = [desired EXCEPT !.val[r] = objs[r].id]
          PROVE  desired' \in Views
      <4> DEFINE val == [desired.val EXCEPT ![r] = objs[r].id]
      <4>1. val \in [refs -> Nat]
        BY <1>2 DEF Views, Targets
      <4>2. desired' = [desired EXCEPT !.val = val]
        BY <3>2
      <4> HIDE DEF val
      <4> QED
        BY <1>2, <4>1, <4>2 DEF Views
    <3> QED
      BY <1>6, <3>1, <3>2 DEF ResolveReference, Unresolved, Waiting
  <2>2. err' \in Results /\ pc' # "patchSpec"
    BY <1>2, <1>6 DEF ResolveReference, Unresolved, StopWith, Resolving, Results
  <2> QED
    BY <1>2, <1>6, <2>1, <2>2 DEF ResolveReference, service, TopKept
<1>7. CASE Read
  <2>1. latest' \in Views
    BY <1>2, <1>7, RebuiltType DEF Read, service, Found
  <2> QED
    BY <1>2, <1>7, <2>1 DEF Read, service, TopKept
<1>8. CASE Create
  <2>1. CASE pc' = "patchStatus"
    BY <1>2, <1>8, <2>1 DEF Create, StopWith, Class, service, TopKept, Objects, Results
  <2>2. CASE pc' = "patchSpec"
    <3>1. /\ made < MaxMade /\ made' = made + 1
          /\ kids' = [kids EXCEPT ![made'] =
               [live |-> TRUE,
                val  |-> [r \in refs |-> IF r.field \in M.sends THEN desired.val[r] ELSE 0]]]
          /\ latest' = Rebuilt(M.echoes, made', desired)
          /\ cr' = [cr EXCEPT !.finalizer = TRUE]
          /\ UNCHANGED <<desired, err>>
      BY <1>8, <2>2 DEF Create, StopWith, Creatable
    <3>2. made' \in 1..MaxMade
      BY <1>2, <3>1
    <3>3. [r \in refs |-> IF r.field \in M.sends THEN desired.val[r] ELSE 0] \in [refs -> Nat]
      BY <1>2 DEF Views
    <3>4. kids' \in [1..MaxMade -> Kids]
      BY <1>2, <3>1, <3>2, <3>3 DEF Kids
    <3>5. latest' \in Views
      BY <1>2, <3>1, <3>2, <3>4, RebuiltType
    <3>6. \A r \in refs : r.place = "top" => latest'.ref[r] = desired.ref[r]
      BY <1>2, <3>1, RebuiltKeepsTop
    <3>7. cr' \in Objects
      BY <1>2, <3>1 DEF Objects
    <3> QED
      BY <1>1, <1>2, <3>1, <3>2, <3>4, <3>5, <3>6, <3>7 DEF TopKept
  <2> QED
    BY <1>8, <2>1, <2>2 DEF Create, StopWith
<1>9. CASE Update
  <2>1. CASE pc' = "patchStatus"
    BY <1>2, <1>9, <2>1 DEF Update, StopWith, Class, TopKept, Results
  <2>2. CASE M.update.mode = "tagsOnly" /\ latest' = [desired EXCEPT !.id = latest.id]
             /\ UNCHANGED <<kids, err>>
    <3>1. latest' \in Views /\ latest'.ref = desired.ref
      BY <1>2, <2>2 DEF Views
    <3> QED
      BY <1>1, <1>2, <1>9, <2>2, <3>1 DEF Update, TopKept
  <2>3. CASE \E i \in Found(desired) :
               /\ kids' = [kids EXCEPT ![i].val =
                    [r \in refs |-> IF r.field \in M.patches \ M.key.fields
                                    THEN desired.val[r] ELSE @[r]]]
               /\ latest' = Rebuilt(M.update.returns, i, desired)
    <3>1. PICK i \in Found(desired) :
               /\ kids' = [kids EXCEPT ![i].val =
                    [r \in refs |-> IF r.field \in M.patches \ M.key.fields
                                    THEN desired.val[r] ELSE @[r]]]
               /\ latest' = Rebuilt(M.update.returns, i, desired)
      BY <2>3
    <3>2. i \in 1..MaxMade
      BY <1>2 DEF Found
    <3> DEFINE val == [r \in refs |-> IF r.field \in M.patches \ M.key.fields
                                      THEN desired.val[r] ELSE kids[i].val[r]]
    <3>3. val \in [refs -> Nat]
      BY <1>2, <3>2 DEF Views, Kids
    <3>4. kids' = [kids EXCEPT ![i] = [kids[i] EXCEPT !.val = val]]
      BY <3>1
    <3> HIDE DEF val
    <3>5. kids' \in [1..MaxMade -> Kids]
      BY <1>2, <3>2, <3>3, <3>4 DEF Kids
    <3>6. latest' \in Views
      BY <1>2, <3>1, <3>2, <3>5, RebuiltType
    <3>7. \A r \in refs : r.place = "top" => latest'.ref[r] = desired.ref[r]
      BY <1>2, <3>1, RebuiltKeepsTop
    <3>8. cr' = cr /\ desired' = desired /\ made' = made /\ err' \in Results
      BY <1>2, <1>9 DEF Update, StopWith, Class, Results
    <3> QED
      BY <1>1, <1>2, <3>5, <3>6, <3>7, <3>8 DEF TopKept
  <2> QED
    BY <1>9, <2>1, <2>2, <2>3 DEF Update, StopWith
<1>10. CASE PatchSpec
  <2>1. cr' \in Objects /\ err' \in Results
    BY <1>1, <1>10, PatchKeeps
  <2>2. pc' = "patchStatus"
    BY <1>10 DEF PatchSpec, StopWith
  <2> QED
    BY <1>2, <1>10, <2>1, <2>2 DEF PatchSpec, service, TopKept
<1>11. CASE PatchStatus
  <2>1. cr' \in Objects
    BY <1>2, <1>11 DEF PatchStatus, ToShow, Objects, Views
  <2> QED
    BY <1>1, <1>2, <1>3, <1>11, <2>1, BlankType DEF PatchStatus, Rest, service, TopKept, Results
<1>12. CASE ReadToDelete
  <2>1. latest' \in Views
    BY <1>2, <1>12, RebuiltType DEF ReadToDelete, service, Found
  <2> QED
    BY <1>2, <1>12, <2>1 DEF ReadToDelete, service, TopKept
<1>13. CASE Delete
  <2>1. kids' \in [1..MaxMade -> Kids]
    BY <1>2, <1>13 DEF Delete, Kids
  <2> QED
    BY <1>2, <1>13, <2>1 DEF Delete, TopKept
<1>14. CASE Release
  <2>1. cr' \in Objects
    BY <1>2, <1>14 DEF Release, Objects
  <2> QED
    BY <1>1, <1>2, <1>3, <1>14, <2>1, BlankType DEF Release, Rest, service, TopKept, Results
<1> QED
  BY <1>5, <1>6, <1>7, <1>8, <1>9, <1>10, <1>11, <1>12, <1>13, <1>14 DEF Worker

(* The steps of the user, and of the objects referred to.                   *)
LEMMA UserStep ==
  ASSUME IInv, User, UNCHANGED <<objs, controller, service, subject>>
  PROVE  IInv'
<1> USE DEF subject, controller, service
<1>1. cr \in Objects
  BY DEF IInv, TypeOK
<1>2. cr' \in Objects
  <2>1. CASE DeleteCR
    BY <1>1, <2>1 DEF DeleteCR, Objects
  <2>2. ASSUME NEW r \in refs, EditReference(r) PROVE cr' \in Objects
    <3>1. PICK ref \in BOOLEAN, val \in {0, Given} :
            cr' = [cr EXCEPT !.ref[r] = ref, !.val[r] = val]
      BY <2>2 DEF EditReference
    <3>2. /\ [cr.ref EXCEPT ![r] = ref] \in [refs -> BOOLEAN]
          /\ [cr.val EXCEPT ![r] = val] \in [refs -> Nat]
      BY <1>1, <3>1, GivenType DEF Objects
    <3>3. cr' = [cr EXCEPT !.ref = [cr.ref EXCEPT ![r] = ref], !.val = [cr.val EXCEPT ![r] = val]]
      BY <3>1
    <3> QED
      BY <1>1, <3>2, <3>3 DEF Objects
  <2> QED
    BY <2>1, <2>2 DEF User
<1> QED
  BY <1>2 DEF IInv, TypeOK, TopKept, Objects, Views, Kids

LEMMA TargetStep ==
  ASSUME IInv, NEW r \in refs, Target(r),
         UNCHANGED <<cr, queued, controller, service, subject>>
  PROVE  IInv'
<1> USE DEF subject, controller, service
<1>1. objs \in [refs -> Targets]
  BY DEF IInv, TypeOK
<1>2. objs' \in [refs -> Targets]
  <2>1. objs[r] \in Targets
    BY <1>1
  <2>2. CASE TargetAppears(r)
    BY <1>1, <2>1, <2>2 DEF TargetAppears, Targets
  <2>3. CASE TargetReady(r)
    <3>1. [objs[r] EXCEPT !.cond = "synced", !.id = objs[r].lives] \in Targets
      BY <2>1 DEF Targets
    <3>2. objs' = [objs EXCEPT ![r] = [objs[r] EXCEPT !.cond = "synced", !.id = objs[r].lives]]
      BY <1>1, <2>3 DEF TargetReady
    <3> QED
      BY <1>1, <3>1, <3>2
  <2>4. CASE TargetTouched(r)
    <3>1. PICK c \in {"unsynced", "terminal"} : objs' = [objs EXCEPT ![r].cond = c]
      BY <2>4 DEF TargetTouched
    <3> QED
      BY <1>1, <2>1, <3>1 DEF Targets
  <2>5. CASE DeleteTarget(r)
    BY <1>1, <2>1, <2>5 DEF DeleteTarget, Targets
  <2>6. CASE TargetGoes(r)
    <3>1. [objs[r] EXCEPT !.there = FALSE, !.deleting = FALSE] \in Targets
      BY <2>1 DEF Targets
    <3>2. objs' = [objs EXCEPT ![r] = [objs[r] EXCEPT !.there = FALSE, !.deleting = FALSE]]
      BY <1>1, <2>6 DEF TargetGoes
    <3> QED
      BY <1>1, <3>1, <3>2
  <2> QED
    BY <2>2, <2>3, <2>4, <2>5, <2>6 DEF Target
<1> QED
  BY <1>2 DEF IInv, TypeOK, TopKept, Objects, Views, Kids

LEMMA IInvStep == IInv /\ [Next]_vars => IInv'
<1> SUFFICES ASSUME IInv, [Next]_vars PROVE IInv'
  OBVIOUS
<1>1. CASE UNCHANGED vars
  BY <1>1 DEF vars, subject, controller, service, IInv, TypeOK, TopKept, Objects, Views, Kids
<1>2. CASE Worker /\ UNCHANGED <<objs, subject>>
  BY <1>2, WorkerStep
<1>3. CASE Resync /\ UNCHANGED <<objs, subject>>
  BY <1>3 DEF Resync, subject, controller, service, IInv, TypeOK, TopKept, Objects, Views, Kids
<1>4. CASE User /\ UNCHANGED <<objs, controller, service, subject>>
  BY <1>4, UserStep
<1>5. CASE (\E r \in refs : Target(r)) /\ UNCHANGED <<cr, queued, controller, service, subject>>
  BY <1>5, TargetStep
<1> QED
  BY <1>1, <1>2, <1>3, <1>4, <1>5 DEF Next

LEMMA IInvInit == Init => IInv
<1> SUFFICES ASSUME Init PROVE IInv
  OBVIOUS
<1>1. cr \in Objects
  BY GivenType DEF Init, Objects, Results
<1>2. objs \in [refs -> Targets]
  BY DEF Init, Targets
<1>3. kids \in [1..MaxMade -> Kids] /\ made \in 0..MaxMade
  BY BoundsAssumption DEF Init, Kids
<1> QED
  BY <1>1, <1>2, <1>3, BlankType DEF Init, IInv, TypeOK, TopKept, Results

-----------------------------------------------------------------------------
(* A reconcile takes no *Ref out of the spec, unless it is in a list.       *)
THEOREM ReferencesStay == Spec => ReferencesKept
<1> DEFINE Keeps == WorkerSteps /\ cr'.present =>
                      \A r \in refs : cr.ref[r] /\ r.place # "list" => cr'.ref[r]
<1>1. IInv /\ [Next]_vars => Keeps
  <2> SUFFICES ASSUME IInv, [Next]_vars, pc' # pc,
                      NEW r \in refs, cr.ref[r], r.place # "list"
               PROVE  cr'.ref[r]
    BY DEF WorkerSteps
  <2>1. cr \in Objects
    BY DEF IInv, TypeOK
  <2>2. Worker /\ refs' = refs /\ kind' = kind
    BY DEF Next, Resync, controller, subject, vars
  <2>3. CASE PatchSpec
    BY <2>2, <2>3, PatchKeeps
  <2>4. CASE Create \/ PatchStatus \/ Release
    <3>1. cr'.ref = cr.ref
      BY <2>1, <2>4 DEF Create, PatchStatus, Release, Objects
    <3> QED
      BY <3>1
  <2>5. CASE UNCHANGED cr
    BY <2>5
  <2> QED
    BY <2>2, <2>3, <2>4, <2>5 DEF Worker, Reconcile, ResolveReference, Read, Update,
                                  ReadToDelete, Delete
<1>2. IInv /\ [Next]_vars => [Keeps]_vars
  BY <1>1
<1> QED
  BY <1>2, IInvInit, IInvStep, PTL DEF Spec, ReferencesKept

-----------------------------------------------------------------------------
(* What the patch of the spec is made from: the view has no *Ref the        *)
(* snapshot has not, and the same value where one is wanted.                *)
NothingNew ==
  pc = "patchSpec" =>
    \A r \in refs : /\ latest.ref[r] => desired.ref[r]
                    /\ r \in R.refuses.neither => latest.val[r] = desired.val[r]

LEMMA RebuiltHasNoMore ==
  ASSUME NEW view \in Views, NEW fields, NEW i, NEW r \in refs
  PROVE  /\ Rebuilt(fields, i, view).ref[r] => view.ref[r]
         /\ Rebuilt(fields, i, view).val[r] = IF r.field \in fields THEN kids'[i].val[r]
                                              ELSE view.val[r]
         /\ Rebuilt(fields, i, view).id = i
BY DEF Rebuilt, Views

LEMMA CreateBringsNothingNew ==
  ASSUME IInv, Create, UNCHANGED subject
  PROVE  NothingNew'
<1> SUFFICES ASSUME pc' = "patchSpec", NEW r \in refs
             PROVE  /\ latest'.ref[r] => desired.ref[r]
                    /\ r \in R.refuses.neither => latest'.val[r] = desired.val[r]
  BY DEF NothingNew, Create, subject, R
<1>1. /\ made < MaxMade /\ made' = made + 1
      /\ kids' = [kids EXCEPT ![made'] =
           [live |-> TRUE,
            val  |-> [q \in refs |-> IF q.field \in M.sends THEN desired.val[q] ELSE 0]]]
      /\ latest' = Rebuilt(M.echoes, made', desired)
  BY DEF Create, Creatable, StopWith, Goto
<1>2. /\ desired \in Views /\ kids \in [1..MaxMade -> Kids]
      /\ made \in 0..MaxMade /\ MaxMade \in Nat
  BY BoundsAssumption DEF IInv, TypeOK
<1>3. made' \in 1..MaxMade
  BY <1>1, <1>2
<1>4. kids'[made'].val[r] = IF r.field \in M.sends THEN desired.val[r] ELSE 0
  BY <1>1, <1>2, <1>3
<1>5. r \in R.refuses.neither /\ r.field \in M.echoes => r.field \in M.sends
  BY RefusesAssumption, SubjectIsKnown DEF IInv, R, M
<1> QED
  BY <1>1, <1>2, <1>4, <1>5, RebuiltHasNoMore

LEMMA UpdateBringsNothingNew ==
  ASSUME IInv, Update, UNCHANGED subject
  PROVE  NothingNew'
<1> SUFFICES ASSUME pc' = "patchSpec", NEW r \in refs
             PROVE  /\ latest'.ref[r] => desired.ref[r]
                    /\ r \in R.refuses.neither => latest'.val[r] = desired.val[r]
  BY DEF NothingNew, Update, subject, R
<1>1. desired \in Views /\ kids \in [1..MaxMade -> Kids]
  BY DEF IInv, TypeOK
<1>2. CASE latest' = [desired EXCEPT !.id = latest.id]
  BY <1>1, <1>2 DEF Views
<1>3. ASSUME NEW i \in Found(desired),
             kids' = [kids EXCEPT ![i].val =
               [q \in refs |-> IF q.field \in M.patches \ M.key.fields
                               THEN desired.val[q] ELSE @[q]]],
             latest' = Rebuilt(M.update.returns, i, desired)
      PROVE  /\ latest'.ref[r] => desired.ref[r]
             /\ r \in R.refuses.neither => latest'.val[r] = desired.val[r]
  <2>1. i \in 1..MaxMade
    BY <1>1 DEF Found
  <2>2. kids'[i].val[r] = IF r.field \in M.patches \ M.key.fields
                          THEN desired.val[r] ELSE kids[i].val[r]
    BY <1>1, <1>3, <2>1 DEF Kids
  <2>3. r.field \in M.key.fields => kids[i].val[r] = desired.val[r]
    BY DEF Found, KeyRefs
  <2>4. r \in R.refuses.neither /\ r.field \in M.update.returns
          => r.field \in M.patches \cup M.key.fields
    BY RefusesAssumption, SubjectIsKnown DEF IInv, R, M
  <2> QED
    BY <1>1, <1>3, <2>2, <2>3, <2>4, RebuiltHasNoMore
<1> QED
  BY <1>2, <1>3 DEF Update, StopWith, Goto

LEMMA NothingNewStep == IInv /\ NothingNew /\ [Next]_vars => NothingNew'
<1> SUFFICES ASSUME IInv, NothingNew, [Next]_vars PROVE NothingNew'
  OBVIOUS
<1>1. CASE pc' # "patchSpec"
  BY <1>1 DEF NothingNew
<1>2. CASE UNCHANGED <<pc, desired, latest, subject>>
  BY <1>2 DEF NothingNew, subject, R
<1>3. CASE (Create \/ Update) /\ UNCHANGED subject
  BY <1>3, CreateBringsNothingNew, UpdateBringsNothingNew
<1>4. ASSUME Reconcile \/ ResolveReference \/ Read \/ PatchSpec \/ PatchStatus
             \/ ReadToDelete \/ Delete \/ Release
      PROVE  pc' # "patchSpec" \/ UNCHANGED <<pc, desired, latest>>
  BY <1>4 DEF Reconcile, ResolveReference, Unresolved, Resolving, Read, PatchSpec, PatchStatus,
              ReadToDelete, Delete, Release, controller, StopWith, Goto, At
<1> QED
  BY <1>1, <1>2, <1>3, <1>4 DEF Next, Worker, Resync, controller, subject, vars

(* The patch makes nothing refused that was not, for a reference that has   *)
(* been a *Ref, or not been one, since the snapshot.                        *)
LEMMA PatchStaysValid ==
  ASSUME IInv, NothingNew, PatchSpec, UNCHANGED subject,
         NEW r \in refs, desired.ref[r] = cr.ref[r], ~RefusedFor(r, cr)
  PROVE  ~RefusedFor(r, cr')
<1> DEFINE from == Cleared(desired)
           to   == ToStore
           patched(p) == p.place = "list"
                         /\ \E q \in refs : q.field = p.field /\ Changed(q, from, to)
           ref == [p \in refs |-> IF patched(p) \/ from.ref[p] # to.ref[p]
                                  THEN to.ref[p] ELSE cr.ref[p]]
           val == [p \in refs |-> IF patched(p) \/ from.val[p] # to.val[p]
                                  THEN to.val[p] ELSE cr.val[p]]
           new == [cr EXCEPT !.ref = ref, !.val = val]
<1>1. /\ cr \in Objects /\ desired \in Views /\ latest \in Views /\ R' = R
      /\ r.place \in {"top", "struct", "list"}
  BY EnsuresAssumption, SubjectIsKnown DEF IInv, TypeOK, subject, R
<1>2. /\ from \in Views /\ from.ref = desired.ref
      /\ from.val[r] = IF r \in R.clears /\ desired.ref[r] THEN 0 ELSE desired.val[r]
  BY <1>1, ClearedType DEF Cleared, Views
<1>3. /\ to \in Views
      /\ to.ref[r] <=> latest.ref[r] \/ (r \in R.ensures /\ desired.ref[r])
      /\ to.val[r] = IF r \in R.clears /\ to.ref[r] THEN 0 ELSE latest.val[r]
  <2>1. Ensured(latest) \in Views /\ Ensured(latest).val = latest.val
    BY <1>1, EnsuredType DEF Ensured, Views
  <2> QED
    BY <1>1, <2>1, ClearedType, EnsuredType DEF ToStore, Cleared, Views
<1>4. /\ r \in R.refuses.both => r \in R.clears
      /\ r \in R.refuses.neither => r.place # "list"
  BY RefusesAssumption, SubjectIsKnown DEF IInv, R
<1>5. r.place # "list" => to.ref[r] = desired.ref[r]
  <2>1. r.place = "top" => latest.ref[r] = desired.ref[r]
    BY DEF IInv, TopKept, PatchSpec, At
  <2>2. r.place = "struct" => r \in R.ensures
    BY EnsuresAssumption, SubjectIsKnown DEF IInv, R
  <2>3. latest.ref[r] => desired.ref[r]
    BY DEF NothingNew, PatchSpec, At
  <2> QED
    BY <1>1, <1>3, <2>1, <2>2, <2>3 DEF Views
<1>6. r \in R.refuses.neither => latest.val[r] = desired.val[r]
  BY DEF NothingNew, PatchSpec, At
<1>7. cr' = cr \/ cr' = new
  BY DEF PatchSpec
<1>8. /\ patched(r) => r.place = "list"
      /\ ~patched(r) /\ r.place = "list" => from.ref[r] = to.ref[r] /\ from.val[r] = to.val[r]
  BY DEF Changed
<1> HIDE DEF from, to, patched
<1>9. /\ new.ref = ref /\ new.val = val
      /\ ref[r] = IF patched(r) \/ from.ref[r] # to.ref[r] THEN to.ref[r] ELSE cr.ref[r]
      /\ val[r] = IF patched(r) \/ from.val[r] # to.val[r] THEN to.val[r] ELSE cr.val[r]
  BY <1>1 DEF Objects
<1> HIDE DEF ref, val, new
<1>10. /\ from.ref[r] = desired.ref[r] /\ {from.ref[r], to.ref[r], cr.ref[r]} \subseteq BOOLEAN
       /\ to.ref[r] /\ r \in R.clears => to.val[r] = 0
  BY <1>1, <1>2, <1>3 DEF Objects, Views
<1>11. ~(r \in R.refuses.both /\ ref[r] /\ val[r] # 0)
  <2> SUFFICES ASSUME r \in R.refuses.both, ref[r] PROVE val[r] = 0
    OBVIOUS
  <2>1. r \in R.clears
    BY <1>4
  <2>2. CASE patched(r)
    BY <1>9, <1>10, <2>1, <2>2
  <2>3. CASE ~patched(r)
    <3>1. from.ref[r] = to.ref[r] /\ cr.ref[r] /\ to.ref[r]
      BY <1>5, <1>8, <1>9, <1>10, <2>3
    <3>2. to.val[r] = 0 /\ from.val[r] = 0 /\ cr.val[r] = 0
      BY <1>2, <1>10, <2>1, <3>1 DEF RefusedFor
    <3> QED
      BY <1>9, <2>3, <3>2
  <2> QED
    BY <2>2, <2>3
<1>12. ~(r \in R.refuses.neither /\ ~ref[r] /\ val[r] = 0)
  <2> SUFFICES ASSUME r \in R.refuses.neither, ~ref[r] PROVE val[r] # 0
    OBVIOUS
  <2>1. ~patched(r) /\ from.ref[r] = to.ref[r] /\ ~cr.ref[r] /\ ~to.ref[r]
    BY <1>4, <1>5, <1>8, <1>9, <1>10
  <2>2. from.val[r] = to.val[r] /\ cr.val[r] # 0
    BY <1>2, <1>3, <1>6, <1>10, <2>1 DEF RefusedFor
  <2> QED
    BY <1>9, <2>1, <2>2
<1> QED
  BY <1>1, <1>7, <1>9, <1>11, <1>12 DEF RefusedFor

(* No reconcile makes a reference refused that was accepted, by a copy left *)
(* beside a *Ref or by taking away the one of the two there was.            *)
THEOREM ReferencesStayValid == Spec => StaysValid
<1> DEFINE Keeps == WorkerSteps /\ cr.present =>
                      \A r \in refs : /\ ~RefusedFor(r, cr)
                                      /\ At("patchSpec") => desired.ref[r] = cr.ref[r]
                                      => ~RefusedFor(r, cr')
<1>1. IInv /\ NothingNew /\ [Next]_vars => Keeps
  <2> SUFFICES ASSUME IInv, NothingNew, [Next]_vars, pc' # pc, NEW r \in refs,
                      ~RefusedFor(r, cr), At("patchSpec") => desired.ref[r] = cr.ref[r]
               PROVE  ~RefusedFor(r, cr')
    BY DEF WorkerSteps
  <2>1. cr \in Objects
    BY DEF IInv, TypeOK
  <2>2. Worker /\ UNCHANGED subject
    BY DEF Next, Resync, controller, subject, vars
  <2>3. CASE PatchSpec
    BY <2>2, <2>3, PatchStaysValid DEF PatchSpec
  <2>4. CASE cr'.ref = cr.ref /\ cr'.val = cr.val
    BY <2>2, <2>4 DEF RefusedFor, R, subject
  <2>5. Create \/ PatchStatus \/ Release => cr'.ref = cr.ref /\ cr'.val = cr.val
    BY <2>1 DEF Create, PatchStatus, Release, Objects
  <2> QED
    BY <2>2, <2>3, <2>4, <2>5 DEF Worker, Reconcile, ResolveReference, Read, Update,
                                  ReadToDelete, Delete
<1>2. Init => NothingNew
  BY DEF Init, NothingNew
<1>3. IInv /\ NothingNew /\ [Next]_vars => [Keeps]_vars
  BY <1>1
<1> QED
  BY <1>2, <1>3, IInvInit, IInvStep, NothingNewStep, PTL DEF Spec, StaysValid
=============================================================================
