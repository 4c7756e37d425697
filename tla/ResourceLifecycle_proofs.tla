---------------------- MODULE ResourceLifecycle_proofs ----------------------
(***************************************************************************)
(* How many resources one object can leave in the service, for every table *)
(* of managers, every subject and every bound; and that ResourceReconciler *)
(* implements ResourceLifecycle.                                           *)
(*                                                                         *)
(* Nothing counts resources in the code: a view leads to at most one of    *)
(* them, and the others, its strays, must have been paid for.  The         *)
(* invariant follows the view: from the object, when no reconcile is under *)
(* way, to the worker's view of the resource and back.                     *)
(***************************************************************************)
EXTENDS ResourceReconciler_proofs, FiniteSetTheorems

(* The resources there are, those a view leads to, and the others. *)
Alive == {i \in Ids : Live(i)}

Leads(view, i) ==
  Key(aws[i].val) = Key(view.val) /\ (M.key.needsID => i = view.id)

Strays(view) == {i \in Alive : ~Leads(view, i)}

(* An edit of the names while a reconcile is under way, which goes on under *)
(* the old ones: the object will lose sight of what the worker still sees.  *)
Owed == IF pc # "idle" /\ Key(cr.val) # Key(desired.val) THEN 1 ELSE 0

(* The finalizer is on the object whenever the worker is about to create,   *)
(* to change or to remove a resource; a deletion is what the user asked.    *)
Managing == {"compare", "create", "unmanage", "confirm", "tags", "update"}
Removing == {"readToDelete", "delete", "release"}

Finalized ==
  /\ cr.finalizer => cr.present
  /\ cr.present /\ cr.deleting => cr.finalizer
  /\ pc \in Managing \cup Removing => cr.finalizer
  /\ pc \in Removing => cr.deleting

(* The worker's two views of the resource go by the same names, and by the  *)
(* same identifier until the resource was confirmed or updated.             *)
Steady ==
  pc # "idle" =>
    /\ Key(latest.val) = Key(desired.val)
    /\ pc \in {"read", "readToDelete", "manage", "create", "unmanage"} => latest = desired
    /\ pc \in {"compare", "tags", "update"} /\ M.key.needsID => latest.id = desired.id

-----------------------------------------------------------------------------
(* Counting. *)

LEMMA Counting ==
  ASSUME NEW S \in SUBSET Ids, NEW T \in SUBSET Ids
  PROVE  /\ Cardinality(S) \in Nat
         /\ S \subseteq T => Cardinality(S) <= Cardinality(T)
         /\ \A x : S \subseteq T \cup {x} => Cardinality(S) <= Cardinality(T) + 1
<1>1. IsFiniteSet(Ids)
  BY BoundsAssumption, FS_Interval DEF Ids
<1>2. IsFiniteSet(S) /\ IsFiniteSet(T)
  BY <1>1, FS_Subset
<1>3. Cardinality(S) \in Nat /\ Cardinality(T) \in Nat
  BY <1>2, FS_CardinalityType
<1>4. S \subseteq T => Cardinality(S) <= Cardinality(T)
  BY <1>2, FS_Subset
<1>5. ASSUME NEW x, S \subseteq T \cup {x}
      PROVE  Cardinality(S) <= Cardinality(T) + 1
  <2>1. /\ IsFiniteSet(T \cup {x})
        /\ Cardinality(T \cup {x}) \in {Cardinality(T), Cardinality(T) + 1}
    <3>1. CASE x \in T
      <4>1. T \cup {x} = T
        BY <3>1
      <4> QED
        BY <1>2, <4>1
    <3>2. CASE x \notin T
      BY <1>2, <3>2, FS_AddElement
    <3> QED
      BY <3>1, <3>2
  <2>2. Cardinality(S) <= Cardinality(T \cup {x}) /\ Cardinality(T \cup {x}) \in Nat
    BY <1>5, <2>1, FS_Subset, FS_CardinalityType
  <2> QED
    BY <1>3, <2>1, <2>2
<1> QED
  BY <1>3, <1>4, <1>5

LEMMA ExcusesAreCounted ==
  ASSUME TypeOK
  PROVE  Excuses \in Nat /\ Owed \in {0, 1}
BY DEF TypeOK, Occasions, Excuses, Owed

(* A view leads to at most one resource. *)
LEMMA AllButOneStray ==
  ASSUME NamedOnce, NEW view
  PROVE  Cardinality(Alive) <= Cardinality(Strays(view)) + 1
<1>1. \A i, j \in Alive : Leads(view, i) /\ Leads(view, j) => i = j
  BY DEF NamedOnce, Leads, Alive
<1>2. PICK x : Alive \subseteq Strays(view) \cup {x}
  BY <1>1 DEF Strays
<1> QED
  BY <1>2, Counting DEF Alive, Strays

-----------------------------------------------------------------------------
(* The finalizer. *)

LEMMA FinalizedNext ==
  ASSUME TypeInv, Finalized, [Next]_vars
  PROVE  Finalized'
<1>1. cr \in Object
  BY DEF TypeInv, TypeOK
<1>2. ASSUME UNCHANGED <<cr, pc>> \/ (UNCHANGED cr /\ pc' \notin Managing \cup Removing)
      PROVE  Finalized'
  BY <1>2 DEF Finalized
<1>3. CASE UNCHANGED vars
  BY <1>2, <1>3 DEF vars, controller
<1>4. CASE Forget \/ Resync \/ Service \/ Crash
  BY <1>2, <1>4 DEF Forget, Resync, Service, Settle, Proceed, FailSettle, Drift, Crash, Goto,
     controller, Managing, Removing
<1>5. CASE User
  <2>1. CASE DeleteCR
    BY <1>1, <2>1 DEF DeleteCR, Object, Finalized, controller
  <2>2. CASE \E f \in tracked : EditSpec(f)
    BY <1>1, <2>2 DEF EditSpec, Object, Finalized, controller
  <2> QED
    BY <1>5, <2>1, <2>2 DEF User
<1>6. CASE Reconcile
  BY <1>6 DEF Reconcile, Goto, Finalized, Managing, Removing
<1>7. CASE ReadOne
  BY <1>7 DEF ReadOne, ReadFails, Refused, StopWith, Goto, Finalized, Managing, Removing
<1>8. CASE Compare \/ Create \/ Confirm \/ SyncTags \/ Update
  <2>1. UNCHANGED cr /\ pc \in Managing /\ pc' \notin Removing
    BY <1>8 DEF Compare, Last, Create, Confirm, SyncTags, Update, NothingElse, CustomUpdate,
       NotUpdatable, UpdateRefused, UpdateCall, Refused, StopWith, At, Goto, Managing, Removing
  <2> QED
    BY <2>1 DEF Finalized
<1>9. CASE MarkManaged \/ MarkUnmanaged \/ Release
  <2>1. CASE MarkManaged
    BY <1>1, <2>1 DEF MarkManaged, At, Goto, Object, Finalized, Managing, Removing
  <2>2. CASE MarkUnmanaged \/ Release
    BY <1>1, <2>2 DEF MarkUnmanaged, Release, At, Goto, Object, Finalized, Managing, Removing
  <2> QED
    BY <1>9, <2>1, <2>2
<1>10. CASE PatchSpec \/ LateInitialize \/ PatchStatus
  <2>1. pc' \notin Managing \cup Removing
    BY <1>10 DEF PatchSpec, LateInitialize, MergePatch, PatchStatus, Last, Refused, StopWith,
       Goto, Managing, Removing
  <2>2. /\ cr'.finalizer = cr.finalizer /\ cr'.present = cr.present
        /\ cr'.deleting = cr.deleting
    BY <1>1, <1>10 DEF PatchSpec, LateInitialize, MergePatch, PatchStatus, Object
  <2> QED
    BY <2>1, <2>2 DEF Finalized
<1>11. CASE ReadToDelete \/ Delete
  <2>1. UNCHANGED cr /\ pc \in Removing /\ pc' \notin Managing
    BY <1>11 DEF ReadToDelete, ReadFails, Delete, NotDeletable, DeleteRefused, DeleteCall,
       Refused, StopWith, At, Goto, Managing, Removing
  <2> QED
    BY <2>1 DEF Finalized
<1> QED
  BY <1>3, <1>4, <1>5, <1>6, <1>7, <1>8, <1>9, <1>10, <1>11
  DEF Next, Worker, Sync, Remove

-----------------------------------------------------------------------------
(* The worker's views. *)

LEMMA ObservedKeepsKey ==
  ASSUME TypeOK, NEW view, NEW i \in Found(view)
  PROVE  /\ Key(Observed(view, i).val) = Key(view.val)
         /\ Observed(view, i).id = i
         /\ M.key.needsID => i = view.id
<1>1. Key(Shown(view, i)) = Key(view.val)
  BY ShownIsNamed DEF Found
<1> QED
  BY <1>1, OverlayKeepsKey DEF Observed, Found

LEMMA LateKeepsKey ==
  ASSUME TypeOK, NEW i \in Found(latest)
  PROVE  Key(LateInitialized(i)) = Key(latest.val)
<1>1. Key(Shown(latest, i)) = Key(latest.val)
  BY ShownIsNamed DEF Found
<1>2. \A f \in tracked \cap M.key.fields : Shown(latest, i)[f] = latest.val[f]
  BY <1>1 DEF Key
<1> QED
  BY <1>2 DEF LateInitialized, Key

LEMMA UpdatedKeepsKey ==
  ASSUME TypeInv, UNCHANGED subject, NEW i \in Ids, UpdateCall(i)
  PROVE  Key(Overlay(M.update.returns, aws'[i].val, desired.val)) = Key(desired.val)
<1>1. Key(aws[i].val) = Key(desired.val)
  BY DEF UpdateCall, Found
<1>2. Live(i)'
  <2>1. aws'[i].st = Life.updating
    BY DEF UpdateCall, Put, TypeInv, TypeOK
  <2> QED
    BY <2>1, LifeIsSound DEF Live, TypeInv
<1>3. Key(aws'[i].val) = Key(desired.val)
  BY <1>1, <1>2, UpdateKeepsName DEF NamesKept
<1> QED
  BY <1>3, OverlayKeepsKey

(* What a step inside a reconcile has to show. *)
LEMMA StaysSteady ==
  ASSUME UNCHANGED subject, UNCHANGED desired, Steady, pc # "idle",
         Key(latest'.val) = Key(desired.val),
         pc' \in {"read", "readToDelete", "manage", "create", "unmanage"} => latest' = desired,
         pc' \in {"compare", "tags", "update"} /\ M.key.needsID => latest'.id = desired.id
  PROVE  Steady'
BY DEF Steady, Key, M, subject

LEMMA SteadyNext ==
  ASSUME TypeInv, Steady, [Next]_vars
  PROVE  Steady'
<1>1. UNCHANGED subject
  BY DEF Next, vars
<1>2. ASSUME UNCHANGED <<desired, latest, pc>>
      PROVE  Steady'
  BY <1>1, <1>2 DEF Steady, Key, M, subject
<1>3. ASSUME pc' = "idle"
      PROVE  Steady'
  BY <1>3 DEF Steady
<1>4. CASE UNCHANGED vars
  BY <1>2, <1>4 DEF vars, controller
<1>5. CASE Forget \/ Resync \/ Service \/ User
  BY <1>2, <1>5 DEF Forget, Resync, Service, Settle, Proceed, FailSettle, Drift, User, DeleteCR,
     EditSpec, controller
<1>6. CASE PatchStatus \/ Release \/ Crash
  BY <1>3, <1>6 DEF PatchStatus, Release, Crash, Goto
<1>7. CASE Reconcile
  BY <1>7 DEF Reconcile, Goto, Steady
<1>8. CASE ReadOne \/ ReadToDelete
  <2>1. UNCHANGED desired /\ pc # "idle" /\ latest = desired
    BY <1>8 DEF ReadOne, ReadToDelete, At, Steady
  <2>2. ASSUME NEW i \in Found(desired), latest' = Observed(desired, i),
               pc' \notin {"read", "readToDelete", "manage", "create", "unmanage"}
        PROVE  Steady'
    BY <1>1, <2>1, <2>2, ObservedKeepsKey, StaysSteady DEF TypeInv
  <2>3. ASSUME UNCHANGED latest
        PROVE  Steady'
    BY <1>1, <2>1, <2>3, StaysSteady
  <2> QED
    BY <1>8, <2>2, <2>3 DEF ReadOne, ReadToDelete, ReadFails, StopWith, Goto
<1>9. CASE Compare \/ MarkManaged \/ MarkUnmanaged \/ SyncTags \/ PatchSpec \/ Delete
  <2>1. UNCHANGED <<desired, latest>> /\ pc # "idle"
    BY <1>9 DEF Compare, MarkManaged, MarkUnmanaged, SyncTags, PatchSpec, Delete, At
  <2>2. \/ pc = "manage" /\ pc' = "create"
        \/ pc \in {"compare", "tags"} /\ pc' \in {"tags", "update"}
        \/ pc' \in {"lateInit", "patchStatus", "release"}
    BY <1>9 DEF Compare, MarkManaged, MarkUnmanaged, SyncTags, PatchSpec, MergePatch, Delete,
       NotDeletable, DeleteRefused, DeleteCall, Last, Refused, StopWith, At, Goto
  <2> QED
    BY <1>1, <2>1, <2>2, StaysSteady DEF Steady
<1>10. CASE Create
  <2>1. UNCHANGED desired /\ pc = "create" /\ latest = desired
    BY <1>10 DEF Create, At, Steady
  <2>2. CASE UNCHANGED latest /\ pc' = "unmanage"
    BY <1>1, <2>1, <2>2, StaysSteady
  <2>3. CASE Creates /\ latest' = Created /\ pc' = "confirm"
    <3>1. Key(aws'[made'].val) = Key(desired.val)
      BY <1>1, <2>3, CreatedIsNamed
    <3>2. Key(latest'.val) = Key(desired.val)
      BY <2>3, <3>1, OverlayKeepsKey DEF Created
    <3> QED
      BY <1>1, <2>1, <2>3, <3>2, StaysSteady
  <2> QED
    BY <1>10, <2>2, <2>3 DEF Create, Goto
<1>11. CASE Confirm \/ LateInitialize
  <2>1. UNCHANGED desired /\ pc # "idle" /\ pc' \in {"patchSpec", "patchStatus"}
    BY <1>11 DEF Confirm, LateInitialize, MergePatch, Refused, StopWith, At, Goto
  <2>2. Key(latest'.val) = Key(latest.val)
    <3>1. latest \in View
      BY DEF TypeInv, TypeOK
    <3>2. CASE UNCHANGED latest
      BY <3>2
    <3>3. CASE \E i \in Found(latest) : latest' = Confirmed(i)
      BY <3>1, <3>3 DEF Confirmed, View
    <3>4. ASSUME NEW i \in Found(latest), latest' = [latest EXCEPT !.val = LateInitialized(i)]
          PROVE  Key(latest'.val) = Key(latest.val)
      <4>1. latest'.val = LateInitialized(i)
        BY <3>1, <3>4 DEF View
      <4> QED
        BY <4>1, LateKeepsKey DEF TypeInv
    <3> QED
      BY <1>11, <3>2, <3>3, <3>4 DEF Confirm, LateInitialize
  <2> QED
    BY <1>1, <2>1, <2>2, StaysSteady DEF Steady
<1>12. CASE Update
  <2>1. UNCHANGED desired /\ pc = "update" /\ pc' \in {"patchSpec", "patchStatus"}
    BY <1>12 DEF Update, NothingElse, CustomUpdate, NotUpdatable, UpdateRefused, UpdateCall,
       Refused, StopWith, At, Goto
  <2>2. CASE UNCHANGED latest
    BY <1>1, <2>1, <2>2, StaysSteady DEF Steady
  <2>3. CASE latest' = desired \/ latest' = [latest EXCEPT !.val = desired.val]
    <3>1. latest'.val = desired.val
      BY <2>3 DEF TypeInv, TypeOK, View
    <3> QED
      BY <1>1, <2>1, <3>1, StaysSteady
  <2>4. ASSUME NEW i \in Ids, UpdateCall(i),
               latest' = [val    |-> Overlay(M.update.returns, aws'[i].val, desired.val),
                          id     |-> i,
                          ver    |-> Version(aws'[i].val),
                          status |-> aws'[i].st]
        PROVE  Steady'
    BY <1>1, <2>1, <2>4, UpdatedKeepsKey, StaysSteady
  <2> QED
    BY <1>12, <2>2, <2>3, <2>4 DEF Update, NothingElse, CustomUpdate, NotUpdatable,
       UpdateRefused, UpdateCall
<1> QED
  BY <1>4, <1>5, <1>6, <1>7, <1>8, <1>9, <1>10, <1>11, <1>12
  DEF Next, Worker, Sync, Remove

-----------------------------------------------------------------------------
(* What each step does to the resources that are kept. *)

(* What the statuses of a deletion are told apart from. *)
LEMMA LifeIsOrdered ==
  ASSUME TypeOK
  PROVE  /\ ~Leaving(Life.active) /\ ~Leaving(Life.creating)
         /\ ~Leaving(Life.updating) /\ ~Leaving(Life.busy)
         /\ Life.deleting = Gone \/ Leaving(Life.deleting)
         /\ \A st : InFlight(st) => (Leaving(st) <=> st \in Stages(Life.deleting))
         /\ \A s \in Life.shows : Leaving(s.as) <=> Leaving(s.op)
         /\ \A st : InFlight(st) /\ FailedFrom(st) # Nil =>
              /\ FailedFrom(st) \notin {Absent, Gone}
              /\ Leaving(FailedFrom(st)) <=> Leaving(st)
<1> DEFINE starts   == {Life.creating, Life.updating, Life.busy}
           later    == {s.as : s \in Life.shows}
           failures == {Life.createFailed, Life.updateFailed, Life.busyFailed}
<1>1. /\ (starts \cup later \cup failures \cup {Life.active, Life.deleteFailed})
           \cap {Absent, Gone} = {}
      /\ (failures \cup {Life.deleteFailed})
           \cap ((starts \cup later \cup {Life.deleting}) \ {Life.active}) = {}
      /\ Life.deleting \notin starts \cup later \cup {Life.active}
      /\ later \cap (starts \cup {Life.active}) = {}
      /\ \A s \in Life.shows :
           s.op \in (starts \cup {Life.deleting}) \ {Life.active, Gone}
      /\ \A s, t \in Life.shows : s.as = t.as => s.op = t.op
      /\ Life.deleteFailed # Nil => Life.deleteFailed \notin failures \cup {Life.active}
  BY LifeAssumption DEF TypeOK, Life, M
<1>2. \A op \in starts : op \notin Stages(Life.deleting)
  BY <1>1 DEF Stages
<1>3. \A op \in starts : ~Leaving(op)
  BY <1>1, <1>2 DEF Leaving
<1>4. ~Leaving(Life.active) /\ (Life.deleting = Gone \/ Leaving(Life.deleting))
  BY <1>1 DEF Leaving, Stages
<1>5. \A s \in Life.shows : s.as \in Stages(Life.deleting) <=> s.op = Life.deleting
  BY <1>1 DEF Stages
<1>6. ASSUME NEW st, InFlight(st)
      PROVE  Leaving(st) <=> st \in Stages(Life.deleting)
  BY <1>1, <1>6 DEF Leaving, InFlight
<1>7. \A s \in Life.shows : InFlight(s.as) /\ InFlight(s.op)
  BY <1>1 DEF InFlight
<1>8. \A s \in Life.shows : Leaving(s.as) <=> Leaving(s.op)
  <2>1. \A s \in Life.shows : s.op \in Stages(Life.deleting) <=> s.op = Life.deleting
    BY <1>1, <1>2 DEF Stages
  <2> QED
    BY <1>5, <1>6, <1>7, <2>1
<1>9. ASSUME NEW st, InFlight(st), FailedFrom(st) # Nil
      PROVE  /\ FailedFrom(st) \notin {Absent, Gone}
             /\ Leaving(FailedFrom(st)) <=> Leaving(st)
  <2>1. \A op \in starts : op # Life.deleting
    BY <1>1
  <2>2. ASSUME NEW op \in starts, st \in Stages(op)
        PROVE  st \notin Stages(Life.deleting)
    <3>1. CASE st = op
      BY <1>2, <3>1
    <3>2. CASE \E s \in Life.shows : s.op = op /\ s.as = st
      BY <1>5, <2>1, <3>2
    <3> QED
      BY <2>2, <3>1, <3>2 DEF Stages
  <2>3. CASE st = Life.deleting
    <3>1. st \in Stages(Life.deleting)
      BY <2>3 DEF Stages
    <3>2. FailedFrom(st) = Life.deleteFailed
      BY <2>2, <2>3, <3>1 DEF FailedFrom
    <3>3. Leaving(st)
      BY <1>6, <1>9, <3>1
    <3> QED
      BY <1>1, <1>9, <3>2, <3>3 DEF Leaving
  <2>4. CASE st # Life.deleting
    <3>1. st \in Stages(Life.creating) \cup Stages(Life.updating) \cup Stages(Life.busy)
      BY <1>9, <2>4 DEF FailedFrom
    <3>2. FailedFrom(st) \in failures
      BY <2>4, <3>1 DEF FailedFrom
    <3>3. ~Leaving(st)
      BY <1>6, <1>9, <2>2, <3>1
    <3>4. ~Leaving(FailedFrom(st))
      <4>1. FailedFrom(st) \notin Stages(Life.deleting) \ {Life.active}
        BY <1>1, <3>2 DEF Stages
      <4>2. FailedFrom(st) # Life.deleteFailed
        BY <1>1, <1>9, <3>2
      <4> QED
        BY <4>1, <4>2 DEF Leaving
    <3> QED
      BY <1>1, <3>2, <3>3, <3>4
  <2> QED
    BY <2>3, <2>4
<1> QED
  BY <1>3, <1>4, <1>6, <1>8, <1>9

LEMMA StatusesKeep ==
  ASSUME UNCHANGED subject, \A j \in Ids : aws'[j].st = aws[j].st
  PROVE  Kept' = Kept /\ Alive' = Alive
BY DEF Kept, Leaving, Stages, Alive, Live, Life, M, subject

(* One resource is put anew. *)
LEMMA StatusMoves ==
  ASSUME TypeOK, UNCHANGED subject, NEW i \in Ids, Live(i), NEW st, NEW val, NEW other,
         aws' = [aws EXCEPT ![i] = Put(st, val, other)]
  PROVE  /\ st \notin {Absent, Gone} /\ (Leaving(st) <=> Leaving(aws[i].st)) => Kept' = Kept
         /\ st = Gone \/ Leaving(st) => Kept' = Kept \ {i}
<1>1. aws'[i].st = st /\ \A j \in Ids \ {i} : aws'[j].st = aws[j].st
  BY DEF TypeOK, Put
<1>2. Kept' = {j \in Ids : Live(j)' /\ ~Leaving(aws'[j].st)}
  BY DEF Kept, Leaving, Stages, Life, M, subject
<1>3. \A j \in Ids \ {i} : Live(j)' = Live(j)
  BY <1>1 DEF Live
<1>4. Live(i)' <=> st \notin {Absent, Gone}
  BY <1>1 DEF Live
<1> QED
  BY <1>1, <1>2, <1>3, <1>4 DEF Kept

LEMMA AliveShrinks ==
  ASSUME NamesKept
  PROVE  Alive' \subseteq Alive
BY DEF NamesKept, Alive

(* The service takes a resource that is kept only when somebody else asks   *)
(* for it.                                                                  *)
LEMMA ServiceKeeps ==
  ASSUME TypeInv, UNCHANGED subject, Service
  PROVE  \/ Kept' = Kept
         \/ /\ spent'.drifts = spent.drifts + 1
            /\ \E i \in Kept : Kept' = Kept \ {i}
<1>1. PICK i \in Ids : Settle(i) \/ Proceed(i) \/ FailSettle(i) \/ Drift(i)
  BY DEF Service
<1>2. Live(i) /\ aws \in [Ids -> Resource] /\ TypeOK
  BY <1>1, ServiceIsPut DEF TypeInv, TypeOK
<1>3. CASE Settle(i)
  <2> DEFINE st == IF aws[i].st \in Stages(Life.deleting) THEN Gone ELSE Life.active
  <2>1. aws' = [aws EXCEPT ![i] = Put(st, aws[i].val, FALSE)] /\ InFlight(aws[i].st)
    BY <1>2, <1>3 DEF Settle
  <2>2. CASE aws[i].st \in Stages(Life.deleting)
    <3>1. st = Gone /\ i \notin Kept
      BY <1>2, <2>1, <2>2, LifeIsOrdered DEF Kept
    <3>2. Kept' = Kept \ {i}
      <4> HIDE DEF st
      <4> QED
        BY <1>2, <2>1, <3>1, StatusMoves
    <3> QED
      BY <3>1, <3>2
  <2>3. CASE aws[i].st \notin Stages(Life.deleting)
    <3>1. st = Life.active /\ ~Leaving(aws[i].st) /\ ~Leaving(Life.active)
      BY <1>2, <2>1, <2>3, LifeIsOrdered
    <3>2. Life.active \notin {Absent, Gone}
      BY <1>2, LifeIsSound
    <3> HIDE DEF st
    <3> QED
      BY <1>2, <2>1, <3>1, <3>2, StatusMoves
  <2> QED
    BY <2>2, <2>3
<1>4. CASE Proceed(i)
  <2>1. PICK s \in Life.shows :
          s.op = aws[i].st /\ aws' = [aws EXCEPT ![i] = Put(s.as, aws[i].val, aws[i].other)]
    BY <1>2, <1>4 DEF Proceed
  <2>2. s.as \notin {Absent, Gone}
    BY <1>2, LifeAssumption DEF TypeOK, Life, M
  <2>3. Leaving(s.as) <=> Leaving(aws[i].st)
    BY <1>2, <2>1, LifeIsOrdered
  <2> QED
    BY <1>2, <2>1, <2>2, <2>3, StatusMoves
<1>5. CASE FailSettle(i)
  <2>1. /\ aws' = [aws EXCEPT ![i] = Put(FailedFrom(aws[i].st), aws[i].val, FALSE)]
        /\ InFlight(aws[i].st) /\ FailedFrom(aws[i].st) # Nil
    BY <1>2, <1>5 DEF FailSettle
  <2> QED
    BY <1>2, <2>1, LifeIsOrdered, StatusMoves
<1>6. CASE Drift(i)
  <2>1. spent'.drifts = spent.drifts + 1
    BY <1>6 DEF Drift, Spend, Occasions, TypeInv, TypeOK
  <2>2. ASSUME NEW st \in {Life.updating, Life.busy}, NEW val,
               MayUpdate(i), aws' = [aws EXCEPT ![i] = Put(st, val, TRUE)]
        PROVE  Kept' = Kept
    <3>1. ~Leaving(st) /\ ~Leaving(aws[i].st)
      BY <1>2, <2>2, LifeIsOrdered DEF MayUpdate
    <3>2. st \notin {Absent, Gone}
      BY <1>2, LifeAssumption DEF TypeOK, Life, M
    <3> QED
      BY <1>2, <2>2, <3>1, <3>2, StatusMoves
  <2>3. CASE aws' = [aws EXCEPT ![i] = Put(Life.deleting, aws[i].val, TRUE)]
    <3>1. Kept' = Kept \ {i}
      BY <1>2, <2>3, LifeIsOrdered, StatusMoves
    <3>2. CASE i \in Kept
      BY <2>1, <3>1, <3>2
    <3>3. CASE i \notin Kept
      BY <3>1, <3>3
    <3> QED
      BY <3>2, <3>3
  <2>4. CASE /\ MayUpdate(i)
             /\ \E f \in (tracked \cap M.patches) \ M.key.fields, v \in Values \ {0} :
                  aws' = [aws EXCEPT ![i] = Put(Life.updating, [@.val EXCEPT ![f] = v], TRUE)]
    <3>1. PICK f, v :
            aws' = [aws EXCEPT ![i] = Put(Life.updating, [aws[i].val EXCEPT ![f] = v], TRUE)]
      BY <1>2, <2>4
    <3> DEFINE val == [aws[i].val EXCEPT ![f] = v]
    <3>2. aws' = [aws EXCEPT ![i] = Put(Life.updating, val, TRUE)]
      BY <3>1
    <3> HIDE DEF val
    <3> QED
      BY <2>2, <2>4, <3>2
  <2>5. CASE /\ MayUpdate(i)
             /\ \E op \in {Life.updating, Life.busy} :
                  aws' = [aws EXCEPT ![i] = Put(op, aws[i].val, TRUE)]
    BY <2>2, <2>5
  <2>6. \/ /\ MayUpdate(i)
           /\ \E op \in {Life.updating, Life.busy} :
                aws' = [aws EXCEPT ![i] = Put(op, aws[i].val, TRUE)]
        \/ /\ MayUpdate(i)
           /\ \E f \in (tracked \cap M.patches) \ M.key.fields, v \in Values \ {0} :
                aws' = [aws EXCEPT ![i] = Put(Life.updating, [@.val EXCEPT ![f] = v], TRUE)]
        \/ aws' = [aws EXCEPT ![i] = Put(Life.deleting, aws[i].val, TRUE)]
    BY <1>2, <1>6 DEF Drift
  <2> QED
    BY <2>3, <2>4, <2>5, <2>6
<1> QED
  BY <1>1, <1>3, <1>4, <1>5, <1>6

(* The service accepts an Update of a resource only if it is kept. *)
LEMMA UpdateKeeps ==
  ASSUME TypeInv, UNCHANGED subject, NEW i \in Ids, UpdateCall(i)
  PROVE  Kept' = Kept
<1>1. /\ Live(i)
      /\ aws' = [aws EXCEPT ![i] =
                   Put(Life.updating, Overlay(Sent, desired.val, aws[i].val), FALSE)]
  BY FoundIsMade DEF UpdateCall
<1>2. ~Leaving(Life.updating) /\ ~Leaving(aws[i].st)
  BY LifeIsOrdered DEF UpdateCall, MayUpdate, TypeInv
<1>3. Life.updating \notin {Absent, Gone}
  BY LifeIsSound DEF TypeInv
<1> QED
  BY <1>1, <1>2, <1>3, StatusMoves DEF TypeInv

(* A Delete takes a resource out of those that are kept. *)
LEMMA DeleteUnkeeps ==
  ASSUME TypeInv, UNCHANGED subject, NEW i \in Ids, DeleteCall(i)
  PROVE  Kept' = Kept \ {i}
<1>1. Live(i) /\ aws' = [aws EXCEPT ![i] = Put(Life.deleting, aws[i].val, FALSE)]
  BY FoundIsMade DEF DeleteCall, TypeInv, TypeOK
<1>2. Life.deleting = Gone \/ Leaving(Life.deleting)
  BY LifeIsOrdered DEF TypeInv
<1> QED
  BY <1>1, <1>2, StatusMoves DEF TypeInv

(* A Create adds one. *)
LEMMA CreateKeeps ==
  ASSUME TypeInv, UNCHANGED subject, Creates
  PROVE  /\ made' = made + 1 /\ made' \in Ids \ Alive
         /\ Alive' = Alive \cup {made'} /\ Kept' = Kept \cup {made'}
         /\ \A k \in Ids \ {made'} : aws'[k] = aws[k]
<1>1. made' \in Ids /\ made' = made + 1 /\ \A k \in Ids \ {made'} : aws'[k] = aws[k]
  BY TypeCreates, CreatedIsNamed
<1>2. ~Live(made')
  BY <1>1 DEF TypeInv, TypeOK, InOrder
<1>3. aws'[made'].st = Life.creating
  BY <1>1 DEF Creates, Put, TypeInv, TypeOK
<1>4. ~Leaving(Life.creating) /\ Life.creating \notin {Absent, Gone}
  BY LifeIsOrdered, LifeIsSound DEF TypeInv
<1>5. \A k \in Ids : Live(k)' <=> Live(k) \/ k = made'
  BY <1>1, <1>3, <1>4 DEF Live
<1>6. Alive' = Alive \cup {made'}
  BY <1>1, <1>5 DEF Alive
<1>7. Kept' = {k \in Ids : Live(k)' /\ ~Leaving(aws'[k].st)}
  BY DEF Kept, Leaving, Stages, Life, M, subject
<1>8. Kept' = Kept \cup {made'}
  BY <1>1, <1>3, <1>4, <1>5, <1>7 DEF Kept
<1> QED
  BY <1>1, <1>2, <1>6, <1>8 DEF Alive

(* A step that is no Create brings nothing to life and renames nothing; one *)
(* that is no step of the service and no call reaches no resource at all.   *)
Reaching == Service \/ SyncTags \/ Update \/ Delete

LEMMA StepsReach ==
  ASSUME TypeInv, TagStep, [Next]_vars
  PROVE  /\ UNCHANGED subject
         /\ NamesKept \/ (Create /\ Creates)
         /\ UNCHANGED service \/ (Create /\ Creates) \/ Reaching
<1>1. UNCHANGED subject
  BY DEF Next, vars
<1>2. UNCHANGED service \/ (Create /\ Creates) \/ Reaching
  <2>1. CASE Reconcile \/ Forget \/ ReadOne \/ Compare \/ MarkManaged \/ MarkUnmanaged
             \/ Confirm \/ PatchSpec \/ LateInitialize \/ PatchStatus \/ ReadToDelete
             \/ Release \/ User \/ Crash \/ Resync \/ UNCHANGED vars
    BY <2>1 DEF Reconcile, Forget, ReadOne, Compare, MarkManaged, MarkUnmanaged, Confirm,
       PatchSpec, LateInitialize, PatchStatus, ReadToDelete, Release, User, DeleteCR,
       EditSpec, Crash, Resync, vars
  <2>2. CASE Create
    BY <2>2 DEF Create
  <2> QED
    BY <2>1, <2>2 DEF Next, Worker, Sync, Remove, Reaching
<1> QED
  BY <1>1, <1>2, QuietKeepsNames, ServiceKeepsNames, RequestKeepsNames DEF Reaching

(* What a call does to the resources that are kept. *)
LEMMA CallsKeep ==
  ASSUME TypeInv, TagStep, UNCHANGED subject, SyncTags \/ Update
  PROVE  Kept' = Kept
<1>1. CASE \A j \in Ids : aws'[j].st = aws[j].st
  BY <1>1, StatusesKeep
<1>2. CASE \E i \in Ids : UpdateCall(i)
  BY <1>2, UpdateKeeps
<1>3. CASE SyncTags
  <2>1. \A j \in Ids : aws'[j].st = aws[j].st
    BY <1>3 DEF SyncTags, TypeInv, TypeOK, Resource
  <2> QED
    BY <1>1, <2>1
<1>4. CASE UNCHANGED aws
  BY <1>1, <1>4
<1> QED
  BY <1>2, <1>3, <1>4 DEF Update, NothingElse, CustomUpdate, NotUpdatable, UpdateRefused

LEMMA KeptShrinks ==
  ASSUME TypeInv, TagStep, [Next]_vars, ~(Create /\ Creates)
  PROVE  Kept' \subseteq Kept
<1>1. UNCHANGED subject
  BY StepsReach
<1>2. CASE UNCHANGED service
  BY <1>1, <1>2, StatusesKeep DEF service
<1>3. CASE Delete
  <2>1. CASE UNCHANGED aws
    BY <1>1, <2>1, StatusesKeep
  <2>2. CASE \E i \in Ids : DeleteCall(i)
    BY <1>1, <2>2, DeleteUnkeeps
  <2> QED
    BY <1>3, <2>1, <2>2 DEF Delete, NotDeletable, DeleteRefused
<1> QED
  BY <1>1, <1>2, <1>3, StepsReach, ServiceKeeps, CallsKeep DEF Reaching

-----------------------------------------------------------------------------
(* Nothing is forgiven, and an edit of the object's names is counted.       *)

LEMMA SpendCounts ==
  ASSUME TypeOK, NEW o \in Occasions \ {"rekeys"}, Spend(o)
  PROVE  /\ o \in {"losses", "crashes"} => Excuses' = Excuses + 1
         /\ o \notin {"losses", "crashes"} => Excuses' = Excuses
         /\ o # "drifts" => spent'.drifts = spent.drifts
BY DEF TypeOK, Spend, Occasions, Excuses

LEMMA EditCounts ==
  ASSUME TypeOK, NEW f \in tracked, EditSpec(f)
  PROVE  /\ cr'.id = cr.id /\ cr'.present = cr.present /\ cr'.deleting = cr.deleting
         /\ cr'.finalizer = cr.finalizer
         /\ spent'.drifts = spent.drifts
         /\ \/ f \in M.key.fields /\ Excuses' = Excuses + 1
            \/ Key(cr'.val) = Key(cr.val) /\ Excuses' = Excuses
<1>1. PICK v : cr' = [cr EXCEPT !.val[f] = v]
  BY DEF EditSpec
<1>2. /\ cr'.id = cr.id /\ cr'.present = cr.present /\ cr'.deleting = cr.deleting
      /\ cr'.finalizer = cr.finalizer /\ cr'.val = [cr.val EXCEPT ![f] = v]
  BY <1>1 DEF TypeOK, Object
<1>3. /\ spent'.rekeys = spent.rekeys + IF f \in M.key.fields THEN 1 ELSE 0
      /\ spent'.losses = spent.losses /\ spent'.crashes = spent.crashes
      /\ spent'.drifts = spent.drifts
  BY DEF EditSpec, TypeOK, Occasions
<1>4. spent.losses \in Nat /\ spent.crashes \in Nat /\ spent.rekeys \in Nat
  BY DEF TypeOK, Occasions
<1>5. f \notin M.key.fields => Key(cr'.val) = Key(cr.val)
  BY <1>2 DEF Key, TypeOK, Object, Vals
<1> QED
  BY <1>2, <1>3, <1>4, <1>5 DEF Excuses

(* One step adds at most one excuse, and counts a drift only if there is one *)
LEMMA ExcusesGrow ==
  ASSUME TypeInv, [Next]_vars
  PROVE  /\ Excuses \in Nat /\ Excuses' \in {Excuses, Excuses + 1}
         /\ Service \/ spent'.drifts = spent.drifts
         /\ spent'.drifts \in {spent.drifts, spent.drifts + 1}
<1>1. Excuses \in Nat /\ TypeOK
  BY ExcusesAreCounted DEF TypeInv
<1>2. CASE UNCHANGED spent
  BY <1>1, <1>2 DEF Excuses
<1>3. CASE \E f \in tracked : EditSpec(f)
  BY <1>1, <1>3, EditCounts
<1>4. ASSUME NEW o \in Occasions \ {"rekeys", "drifts"}, Spend(o)
      PROVE  Excuses' \in {Excuses, Excuses + 1} /\ spent'.drifts = spent.drifts
  BY <1>1, <1>4, SpendCounts
<1>5. CASE Service
  <2>1. Spend("failures") \/ Spend("drifts") \/ UNCHANGED spent
    BY <1>5 DEF Service, Settle, Proceed, FailSettle, Drift
  <2>2. CASE Spend("drifts")
    <3>1. Excuses' = Excuses
      BY <1>1, <2>2, SpendCounts DEF Occasions
    <3>2. spent'.drifts = spent.drifts + 1
      BY <1>1, <2>2 DEF Spend, Occasions, TypeOK
    <3> QED
      BY <1>1, <1>5, <3>1, <3>2
  <2> QED
    BY <1>1, <1>2, <1>4, <1>5, <2>1, <2>2 DEF Occasions
<1>6. CASE Spend("errors") \/ Spend("losses") \/ Spend("crashes")
  BY <1>1, <1>4, <1>6 DEF Occasions
<1>7. CASE Worker \/ Crash \/ Resync \/ DeleteCR \/ UNCHANGED vars
  <2>1. \/ Spend("errors") \/ Spend("losses") \/ Spend("crashes")
        \/ UNCHANGED spent
    BY <1>7 DEF vars, Worker, Sync, Remove, Reconcile, Forget, ReadOne, ReadFails, Compare,
       MarkManaged, Create, MarkUnmanaged, Confirm, SyncTags, Update, NothingElse,
       CustomUpdate, NotUpdatable, UpdateRefused, UpdateCall, PatchSpec, LateInitialize,
       PatchStatus, ReadToDelete, Delete, NotDeletable, DeleteRefused, DeleteCall, Release,
       Refused, Crash, Resync, DeleteCR
  <2> QED
    BY <1>1, <1>2, <1>6, <2>1
<1> QED
  BY <1>3, <1>5, <1>7 DEF Next, User

(* The object goes by other names only when the user gave it others. *)
LEMMA RenamedByUser ==
  ASSUME TypeInv, Steady, [Next]_vars
  PROVE  \/ Key(cr'.val) = Key(cr.val)
         \/ UNCHANGED <<controller, service>> /\ Excuses' = Excuses + 1
<1>1. cr \in Object
  BY DEF TypeInv, TypeOK
<1>2. CASE \E f \in tracked : EditSpec(f)
  <2>1. UNCHANGED <<controller, service>>
    BY <1>2 DEF EditSpec
  <2> QED
    BY <1>2, <2>1, EditCounts DEF TypeInv
<1>3. CASE PatchSpec
  <2>1. Key(desired.val) = Key(latest.val)
    BY <1>3 DEF PatchSpec, At, Steady
  <2> QED
    BY <1>3, <2>1, MergeKeepsKey DEF PatchSpec, TypeInv
<1>4. CASE LateInitialize
  <2>1. ASSUME NEW i \in Found(latest),
               MergePatch(latest.val, LateInitialized(i), "patchStatus")
        PROVE  Key(cr'.val) = Key(cr.val)
    BY <2>1, LateKeepsKey, MergeKeepsKey DEF TypeInv
  <2> QED
    BY <1>4, <2>1 DEF LateInitialize
<1>5. CASE ~PatchSpec /\ ~LateInitialize /\ ~(\E f \in tracked : EditSpec(f))
  <2>1. cr'.val = cr.val
    BY <1>1, <1>5 DEF vars, Next, Worker, Sync, Remove, User, Service, Reconcile, Forget,
       ReadOne, Compare, MarkManaged, Create, MarkUnmanaged, Confirm, SyncTags, Update,
       PatchStatus, ReadToDelete, Delete, Release, DeleteCR, Settle, Proceed, FailSettle, Drift,
       Crash, Resync, Object
  <2> QED
    BY <2>1
<1> QED
  BY <1>2, <1>3, <1>4, <1>5

-----------------------------------------------------------------------------
(* The invariant: every stray of the view that is followed was paid for.    *)
(* Between a lookup that found nothing and the Create there is nothing but  *)
(* strays.                                                                  *)
StraysPaid ==
  /\ pc = "idle" /\ cr.present => Cardinality(Strays(cr)) <= Excuses
  /\ pc # "idle" => Cardinality(Strays(latest)) + Owed <= Excuses

Making == {"manage", "create", "unmanage"}

AlivePaid ==
  /\ pc \in Making => Cardinality(Alive) + Owed <= Excuses
  /\ Cardinality(Alive) <= 1 + Excuses

(* What is kept when the finalizer is off, or about to be taken off. *)
KeptPaid == ~cr.finalizer \/ pc = "release" => Cardinality(Kept) <= Excuses

LifecycleInv ==
  TypeInv /\ TagStep /\ NamesInv /\ Finalized /\ Steady
          /\ StraysPaid /\ AlivePaid /\ KeptPaid

(* The numbers the proofs compare are numbers, before and after a step. *)
LEMMA CountsAreNumbers ==
  ASSUME TypeInv, TypeInv', UNCHANGED subject
  PROVE  /\ Excuses \in Nat /\ Owed \in {0, 1} /\ Excuses' \in Nat /\ Owed' \in {0, 1}
         /\ Alive \in SUBSET Ids /\ Kept \in SUBSET Alive
         /\ Alive' \in SUBSET Ids /\ Kept' \in SUBSET Alive'
         /\ \A view : Strays(view) \in SUBSET Alive
         /\ Strays(cr)' \in SUBSET Alive' /\ Strays(latest)' \in SUBSET Alive'
<1>1. Excuses \in Nat /\ Owed \in {0, 1}
  BY ExcusesAreCounted DEF TypeInv
<1>2. Excuses' \in Nat /\ Owed' \in {0, 1}
  <2>1. spent'.losses \in Nat /\ spent'.crashes \in Nat /\ spent'.rekeys \in Nat
    BY DEF TypeInv, TypeOK, Occasions
  <2> QED
    BY <2>1 DEF Excuses, Owed
<1> QED
  BY <1>1, <1>2 DEF Alive, Kept, Strays

LEMMA Balance ==
  ASSUME NEW a \in {0, 1}, NEW b \in {0, 1}, NEW m \in Nat, NEW n \in {m, m + 1},
         b = a \/ n = m + 1
  PROVE  b + m <= a + n
OBVIOUS

(* What a reconcile goes by stays as it is, Create apart. *)
LEMMA WorkGoesOn ==
  ASSUME TypeInv, TypeInv', Steady, Steady', [Next]_vars, pc # "idle", pc' # "idle"
  PROVE  /\ UNCHANGED desired
         /\ Owed' + Excuses <= Owed + Excuses'
         /\ Key(latest'.val) = Key(latest.val)
         /\ ~(Create /\ Creates) /\ M.key.needsID => latest'.id = latest.id
<1>1. UNCHANGED subject
  BY DEF Next, vars
<1>2. UNCHANGED desired
  BY DEF vars, Next, Worker, Sync, Remove, User, Service, Reconcile, Forget, ReadOne,
     Compare, MarkManaged, Create, MarkUnmanaged, Confirm, SyncTags, Update, PatchSpec,
     LateInitialize, PatchStatus, ReadToDelete, Delete, Release, DeleteCR, EditSpec,
     Settle, Proceed, FailSettle, Drift, Crash, Resync, At, Goto, controller
<1>3. Key(latest'.val) = Key(latest.val)
  BY <1>1, <1>2 DEF Steady, Key, M, subject
<1>4. Owed' + Excuses <= Owed + Excuses'
  <2>1. /\ Excuses \in Nat /\ Excuses' \in {Excuses, Excuses + 1}
        /\ Owed \in {0, 1} /\ Owed' \in {0, 1}
    BY <1>1, ExcusesGrow, CountsAreNumbers
  <2>2. Owed' = Owed \/ Excuses' = Excuses + 1
    BY <1>1, <1>2, RenamedByUser DEF Owed, Key, M, subject
  <2> QED
    BY <2>1, <2>2, Balance
<1>5. ASSUME ~(Create /\ Creates), M.key.needsID
      PROVE  latest'.id = latest.id
  <2>1. latest \in View
    BY DEF TypeInv, TypeOK
  <2>2. CASE UNCHANGED latest
    BY <2>2
  <2>3. CASE ReadOne \/ ReadToDelete
    <3>1. latest = desired
      BY <2>3 DEF Steady, ReadOne, ReadToDelete, At
    <3> QED
      BY <1>5, <2>3, <3>1, ObservedKeepsKey DEF TypeInv, ReadOne, ReadToDelete, ReadFails
  <2>4. CASE Confirm \/ LateInitialize
    <3>1. \A i \in Found(latest) : i = latest.id
      BY <1>5 DEF Found
    <3>2. ASSUME NEW i \in Found(latest),
                 latest' = Confirmed(i)
          PROVE  latest'.id = i
      BY <2>1, <3>2 DEF Confirmed, View
    <3>3. ASSUME NEW i \in Found(latest), latest' = [latest EXCEPT !.val = LateInitialized(i)]
          PROVE  latest'.id = latest.id
      BY <2>1, <3>3 DEF View
    <3> QED
      BY <2>2, <2>4, <3>1, <3>2, <3>3 DEF Confirm, LateInitialize
  <2>5. CASE Update
    <3>1. latest.id = desired.id
      BY <1>5, <2>5 DEF Steady, Update, At
    <3>2. ASSUME NEW i \in Ids, UpdateCall(i)
          PROVE  latest'.id = latest.id
      <4>1. i = desired.id
        BY <1>5, <3>2 DEF UpdateCall, Found
      <4>2. \/ UNCHANGED latest
            \/ latest' = [val    |-> Overlay(M.update.returns, aws'[i].val, desired.val),
                          id     |-> i,
                          ver    |-> Version(aws'[i].val),
                          status |-> aws'[i].st]
        BY <3>2, Zenon DEF UpdateCall
      <4> QED
        BY <3>1, <4>1, <4>2
    <3>3. CASE NothingElse \/ CustomUpdate \/ NotUpdatable \/ UpdateRefused
      BY <2>1, <3>1, <3>3
      DEF NothingElse, CustomUpdate, NotUpdatable, UpdateRefused, View
    <3> QED
      BY <2>5, <3>2, <3>3 DEF Update
  <2>6. CASE Create
    BY <1>5, <2>6 DEF Create
  <2>7. CASE ~(ReadOne \/ ReadToDelete \/ Confirm \/ LateInitialize \/ Update \/ Create)
    BY <1>5, <2>2, <2>7
    DEF vars, Next, Worker, Sync, Remove, User, Service, Reconcile, Forget,
        Compare, MarkManaged, MarkUnmanaged, SyncTags, PatchSpec,
        PatchStatus, Delete, Release, DeleteCR, EditSpec, Settle, Proceed, FailSettle,
        Drift, Crash, Resync, At, Goto, controller
  <2> QED
    BY <2>3, <2>4, <2>5, <2>6, <2>7
<1> QED
  BY <1>2, <1>3, <1>4, <1>5

(* A view that goes by the same names and the same identifier has no more   *)
(* strays than before.                                                      *)
LEMMA StraysStay ==
  ASSUME UNCHANGED subject, NamesKept, NEW view
  PROVE  /\ Key(latest'.val) = Key(view.val) /\ (M.key.needsID => latest'.id = view.id) =>
              Strays(latest)' \subseteq Strays(view)
         /\ Key(cr'.val) = Key(view.val) /\ (M.key.needsID => cr'.id = view.id) =>
              Strays(cr)' \subseteq Strays(view)
BY DEF Strays, Leads, Alive, NamesKept, Key, M, subject

(* A lookup that finds nothing leaves only strays. *)
LEMMA NothingButStrays ==
  ASSUME NEW view, Found(view) = {}
  PROVE  Strays(view) = Alive
BY DEF Found, Strays, Alive, Leads

LEMMA AlivePaidNext ==
  ASSUME TypeInv, TypeInv', TagStep, Steady, Steady', StraysPaid, AlivePaid, [Next]_vars
  PROVE  AlivePaid'
<1> DEFINE a == Cardinality(Alive)
           b == Cardinality(Alive')
           o == Owed
           p == Owed'
           m == Excuses
           n == Excuses'
<1>1. UNCHANGED subject
  BY StepsReach
<1>2. m \in Nat /\ n \in {m, m + 1} /\ o \in {0, 1} /\ p \in {0, 1}
  BY <1>1, ExcusesGrow, CountsAreNumbers
<1>3. /\ a \in Nat /\ b \in Nat
      /\ Alive' \subseteq Alive => b <= a
      /\ \A x : Alive' \subseteq Alive \cup {x} => b <= a + 1
  BY <1>1, CountsAreNumbers, Counting
<1>4. (pc \in Making => a + o <= m) /\ a <= 1 + m
  BY DEF AlivePaid
<1>5. pc # "idle" /\ pc' # "idle" => p + m <= o + n
  BY WorkGoesOn
<1>6. AlivePaid' <=> (pc' \in Making => b + p <= n) /\ b <= 1 + n
  BY DEF AlivePaid, Making
<1>7. CASE NamesKept
  <2>1. b <= a
    BY <1>3, <1>7, AliveShrinks
  <2>2. pc' \in Making => a + o <= m /\ pc # "idle"
    <3>1. CASE pc \in Making
      BY <1>4, <3>1 DEF Making
    <3>2. CASE ReadOne /\ Found(desired) = {}
      <4>1. Strays(latest) = Alive /\ pc # "idle"
        BY <3>2, NothingButStrays DEF Steady, ReadOne, At
      <4> QED
        BY <4>1 DEF StraysPaid
    <3>3. ASSUME pc \notin Making, pc' \in Making
          PROVE  ReadOne /\ Found(desired) = {}
      BY <3>3 DEF Making, vars, Next, Worker, Sync, Remove, User, Service, Reconcile, Forget,
         ReadOne, ReadFails, Compare, MarkManaged, Create, MarkUnmanaged, Confirm, SyncTags,
         Update, NothingElse, CustomUpdate, NotUpdatable, UpdateRefused, UpdateCall, PatchSpec,
         LateInitialize, MergePatch, Last, PatchStatus, ReadToDelete, Delete, NotDeletable,
         DeleteRefused, DeleteCall, Release, DeleteCR, EditSpec, Settle, Proceed, FailSettle, Drift,
         Crash, Resync, Refused, StopWith, At, Goto, controller
    <3> QED
      BY <3>1, <3>2, <3>3
  <2>3. pc' \in Making => pc' # "idle"
    BY DEF Making
  <2> HIDE DEF a, b, o, p, m, n
  <2>4. b <= 1 + n
    BY <1>2, <1>3, <1>4, <2>1
  <2>5. pc' \in Making => b + p <= n
    BY <1>2, <1>3, <1>5, <2>1, <2>2, <2>3
  <2> QED
    BY <1>6, <2>4, <2>5
<1>8. CASE Create /\ Creates
  <2>1. a + o <= m /\ b <= a + 1
    BY <1>1, <1>3, <1>4, <1>8, CreateKeeps DEF Create, At, Making
  <2>2. pc' \in Making => n = m + 1 /\ p = o
    <3>1. pc' \in Making => Spend("losses")
      <4>1. made' # made
        BY <1>1, <1>8, CreateKeeps DEF TypeInv, TypeOK
      <4> QED
        BY <1>8, <4>1 DEF Create, Goto, Making, service
    <3>2. Spend("losses") => n = m + 1
      BY SpendCounts DEF Occasions, TypeInv
    <3>3. pc' \in Making => p = o
      BY <1>1, <1>8 DEF Create, Making, At, Owed, Key, M, subject
    <3> QED
      BY <3>1, <3>2, <3>3
  <2> HIDE DEF a, b, o, p, m, n
  <2>3. b <= 1 + n
    BY <1>2, <1>3, <2>1
  <2>4. pc' \in Making => b + p <= n
    BY <1>2, <1>3, <2>1, <2>2
  <2> QED
    BY <1>6, <2>3, <2>4
<1> QED
  BY <1>7, <1>8, StepsReach

LEMMA StraysPaidNext ==
  ASSUME TypeInv, TypeInv', TagStep, NamedOnce, Steady, Steady', StraysPaid, AlivePaid,
         [Next]_vars
  PROVE  StraysPaid'
<1> DEFINE a == Cardinality(Alive)
           b == Cardinality(Alive')
           u == Cardinality(Strays(cr))
           v == Cardinality(Strays(latest))
           x == Cardinality(Strays(cr)')
           y == Cardinality(Strays(latest)')
           o == Owed
           p == Owed'
           m == Excuses
           n == Excuses'
<1>1. UNCHANGED subject
  BY StepsReach
<1>2. m \in Nat /\ n \in {m, m + 1} /\ o \in {0, 1} /\ p \in {0, 1}
  BY <1>1, ExcusesGrow, CountsAreNumbers
<1>3. /\ Alive \in SUBSET Ids /\ Alive' \in SUBSET Ids
      /\ Strays(cr) \in SUBSET Ids /\ Strays(latest) \in SUBSET Ids
      /\ Strays(cr)' \in SUBSET Alive' /\ Strays(latest)' \in SUBSET Alive'
  BY <1>1, CountsAreNumbers DEF Strays
<1>4. /\ a \in Nat /\ b \in Nat /\ u \in Nat /\ v \in Nat /\ x \in Nat /\ y \in Nat
      /\ x <= b /\ y <= b
  BY <1>3, Counting
<1>5. a <= u + 1 /\ a <= v + 1
  BY AllButOneStray
<1>6. /\ pc = "idle" /\ cr.present => u <= m
      /\ pc # "idle" => v + o <= m
      /\ pc \in Making => a + o <= m
      /\ a <= 1 + m
  BY DEF StraysPaid, AlivePaid
<1>7. StraysPaid' <=> /\ pc' = "idle" /\ cr'.present => x <= n
                      /\ pc' # "idle" => y + p <= n
  BY DEF StraysPaid
<1>8. CASE NamesKept /\ pc # "idle" /\ pc' # "idle"
  <2>1. ~(Create /\ Creates)
    BY <1>1, <1>8, CreateKeeps, AliveShrinks
  <2>2. y <= v /\ p + m <= o + n
    <3>1. Strays(latest)' \subseteq Strays(latest)
      BY <1>1, <1>8, <2>1, WorkGoesOn, StraysStay
    <3> QED
      BY <1>3, <1>8, <3>1, WorkGoesOn, Counting
  <2> HIDE DEF a, b, u, v, x, y, o, p, m, n
  <2>3. y + p <= n
    BY <1>2, <1>4, <1>6, <1>8, <2>2
  <2> QED
    BY <1>7, <1>8, <2>3
<1>9. CASE NamesKept /\ pc = "idle" /\ pc' # "idle"
  <2>1. CASE Reconcile
    <3>1. p = 0 /\ y <= u
      <4>1. Key(latest'.val) = Key(cr.val) /\ latest'.id = cr.id /\ Key(cr'.val) = Key(desired'.val)
        BY <2>1 DEF Reconcile
      <4>2. p = 0
        BY <1>1, <4>1 DEF Owed, Key, M, subject
      <4>3. Strays(latest)' \subseteq Strays(cr)
        BY <1>1, <1>9, <4>1, StraysStay
      <4> QED
        BY <1>3, <4>2, <4>3, Counting
    <3>2. cr.present
      BY <2>1 DEF Reconcile
    <3> HIDE DEF a, b, u, v, x, y, o, p, m, n
    <3>3. y + p <= n
      BY <1>2, <1>4, <1>6, <1>9, <3>1, <3>2
    <3> QED
      BY <1>7, <1>9, <3>3
  <2>2. Reconcile
    BY <1>9 DEF vars, Next, Worker, Sync, Remove, User, Service, Forget,
       ReadOne, Compare, MarkManaged, Create, MarkUnmanaged, Confirm, SyncTags, Update,
       PatchSpec, LateInitialize, PatchStatus, ReadToDelete, Delete, Release, DeleteCR,
       EditSpec, Settle, Proceed, FailSettle, Drift, Crash, Resync, At, Goto, controller
  <2> QED
    BY <2>1, <2>2
<1>10. CASE NamesKept /\ pc' = "idle"
  <2>1. x <= a
    <3>1. Strays(cr)' \subseteq Alive
      BY <1>3, <1>10, AliveShrinks
    <3> QED
      BY <1>3, <3>1, Counting
  <2>2. CASE Crash
    <3>1. n = m + 1
      BY <2>2, SpendCounts DEF Crash, Occasions, TypeInv
    <3> HIDE DEF a, b, u, v, x, y, o, p, m, n
    <3>2. x <= n
      BY <1>2, <1>4, <1>6, <2>1, <3>1
    <3> QED
      BY <1>7, <1>10, <3>2
  <2>3. CASE PatchStatus
    <3>1. pc # "idle" /\ n = m /\ cr'.val = cr.val /\ (cr'.present => cr'.id = latest.id)
      BY <2>3 DEF PatchStatus, At, Excuses, TypeInv, TypeOK, Object
    <3>2. ASSUME o = 0, cr'.present PROVE x <= v
      <4>1. Key(cr'.val) = Key(latest.val) /\ cr'.id = latest.id
        BY <3>1, <3>2 DEF Owed, Steady
      <4>2. Strays(cr)' \subseteq Strays(latest)
        BY <1>1, <1>10, <4>1, StraysStay
      <4> QED
        BY <1>3, <4>2, Counting
    <3> HIDE DEF a, b, u, v, x, y, o, p, m, n
    <3>3. cr'.present => x <= n
      BY <1>2, <1>4, <1>5, <1>6, <2>1, <3>1, <3>2
    <3> QED
      BY <1>7, <1>10, <3>3
  <2>4. CASE pc = "idle" /\ (cr'.present => cr.present /\ cr'.id = cr.id)
    <3>1. cr'.present => x <= u \/ n = m + 1
      <4>1. CASE Key(cr'.val) = Key(cr.val) /\ cr'.present
        <5>1. Strays(cr)' \subseteq Strays(cr)
          BY <1>1, <1>10, <2>4, <4>1, StraysStay
        <5> QED
          BY <1>3, <5>1, Counting
      <4> QED
        BY <4>1, RenamedByUser
    <3> HIDE DEF a, b, u, v, x, y, o, p, m, n
    <3>2. cr'.present => x <= n
      BY <1>2, <1>4, <1>5, <1>6, <2>1, <2>4, <3>1
    <3> QED
      BY <1>7, <1>10, <3>2
  <2>5. CASE Release
    <3>1. ~cr'.present
      BY <2>5 DEF Release, TypeInv, TypeOK, Object
    <3> QED
      BY <1>7, <1>10, <3>1
  <2>6. CASE ~(Crash \/ PatchStatus \/ Release)
    <3>1. pc = "idle"
      BY <1>10, <2>6 DEF vars, Next, Worker, Sync, Remove, User, Service, Reconcile, Forget,
         ReadOne, ReadFails, Compare, MarkManaged, Create, MarkUnmanaged, Confirm, SyncTags,
         Update, NothingElse, CustomUpdate, NotUpdatable, UpdateRefused, UpdateCall, PatchSpec,
         LateInitialize, MergePatch, Last, ReadToDelete, Delete, NotDeletable, DeleteRefused,
         DeleteCall, DeleteCR, EditSpec, Settle, Proceed, FailSettle, Drift, Resync, Refused, StopWith,
         At, Goto, controller
    <3>2. CASE User
      <4>1. DeleteCR => cr.present /\ cr'.id = cr.id
        BY DEF DeleteCR, TypeInv, TypeOK, Object
      <4>2. (\E f \in tracked : EditSpec(f)) => cr.present /\ cr'.id = cr.id
        BY EditCounts DEF EditSpec, TypeInv
      <4> QED
        BY <2>4, <3>1, <3>2, <4>1, <4>2 DEF User
    <3>3. CASE ~User
      <4>1. cr' = cr
        BY <1>10, <2>6, <3>1, <3>3 DEF vars, Next, Worker, Sync, Remove, Service, Reconcile,
           Forget, ReadOne, Compare, MarkManaged, Create, MarkUnmanaged, Confirm, SyncTags,
           Update, PatchSpec, LateInitialize, ReadToDelete, Delete, Settle, Proceed, FailSettle, Drift,
           Resync, At
      <4> QED
        BY <2>4, <3>1, <4>1
    <3> QED
      BY <3>2, <3>3
  <2> QED
    BY <2>2, <2>3, <2>5, <2>6
<1>11. CASE Create /\ Creates
  <2>1. pc = "create" /\ pc' # "idle" /\ a + o <= m /\ p = o
    BY <1>1, <1>6, <1>11 DEF Create, At, Goto, Making, Owed, Key, M, subject
  <2>2. b <= a + 1
    BY <1>1, <1>3, <1>11, CreateKeeps, Counting
  <2>3. CASE Spend("losses")
    <3>1. n = m + 1
      BY <2>3, SpendCounts DEF Occasions, TypeInv
    <3> HIDE DEF a, b, u, v, x, y, o, p, m, n
    <3>2. y + p <= n
      BY <1>2, <1>4, <2>1, <2>2, <3>1
    <3> QED
      BY <1>7, <2>1, <3>2
  <2>4. CASE latest' = Created
    <3>1. y <= a
      <4>1. Key(aws'[made'].val) = Key(desired.val) /\ made' \in Ids
        BY <1>1, <1>11, CreatedIsNamed, CreateKeeps
      <4>2. Key(latest'.val) = Key(desired.val) /\ latest'.id = made'
        BY <2>4, <4>1, OverlayKeepsKey DEF Created
      <4>3. made' \notin Strays(latest)'
        BY <1>1, <4>1, <4>2 DEF Strays, Leads, Key, M, subject
      <4>4. Strays(latest)' \subseteq Alive
        BY <1>1, <1>3, <1>11, <4>3, CreateKeeps
      <4> QED
        BY <1>3, <4>4, Counting
    <3> HIDE DEF a, b, u, v, x, y, o, p, m, n
    <3>2. y + p <= n
      BY <1>2, <1>4, <2>1, <3>1
    <3> QED
      BY <1>7, <2>1, <3>2
  <2> QED
    <3>1. made' # made
      BY <1>1, <1>11, CreateKeeps DEF TypeInv, TypeOK
    <3> QED
      BY <1>11, <2>3, <2>4, <3>1 DEF Create, service
<1> QED
  BY <1>8, <1>9, <1>10, <1>11, StepsReach

LEMMA KeptPaidNext ==
  ASSUME TypeInv, TypeInv', TagStep, NamedOnce, Finalized, Steady,
         StraysPaid, AlivePaid, KeptPaid, [Next]_vars
  PROVE  KeptPaid'
<1> DEFINE k == Cardinality(Kept)
           l == Cardinality(Kept')
           a == Cardinality(Alive)
           v == Cardinality(Strays(latest))
           o == Owed
           m == Excuses
           n == Excuses'
<1>1. UNCHANGED subject
  BY StepsReach
<1>2. m \in Nat /\ n \in {m, m + 1} /\ o \in {0, 1}
  BY <1>1, ExcusesGrow, CountsAreNumbers
<1>3. /\ Alive \in SUBSET Ids /\ Kept \in SUBSET Ids /\ Kept' \in SUBSET Ids
      /\ Strays(latest) \in SUBSET Ids /\ Kept \subseteq Alive
  BY <1>1, CountsAreNumbers DEF Strays
<1>4. k \in Nat /\ l \in Nat /\ a \in Nat /\ v \in Nat /\ k <= a
  BY <1>3, Counting
<1>5. /\ pc # "idle" => v + o <= m
      /\ pc \in Making => a + o <= m
      /\ ~cr.finalizer \/ pc = "release" => k <= m
  BY DEF StraysPaid, AlivePaid, KeptPaid
<1>6. KeptPaid' <=> (~cr'.finalizer \/ pc' = "release" => l <= n)
  BY DEF KeptPaid
<1>7. CASE Create /\ Creates
  <2>1. cr'.finalizer /\ pc' # "release"
    BY <1>7 DEF Create, At, Goto, Finalized, Managing
  <2> QED
    BY <1>6, <2>1
<1>8. CASE ~(Create /\ Creates)
  <2>1. l <= k
    BY <1>3, <1>8, KeptShrinks, Counting
  <2>2. CASE ~cr.finalizer \/ pc = "release"
    <3> HIDE DEF k, l, a, v, o, m, n
    <3>1. l <= n
      BY <1>2, <1>4, <1>5, <2>1, <2>2
    <3> QED
      BY <1>6, <3>1
  <2>3. CASE MarkUnmanaged
    <3>1. pc \in Making
      BY <2>3 DEF MarkUnmanaged, At, Making
    <3> HIDE DEF k, l, a, v, o, m, n
    <3>2. l <= n
      BY <1>2, <1>4, <1>5, <2>1, <3>1
    <3> QED
      BY <1>6, <3>2
  <2>4. CASE ReadToDelete /\ Found(desired) = {}
    <3>1. Strays(latest) = Alive /\ pc # "idle"
      BY <2>4, NothingButStrays DEF Steady, ReadToDelete, At
    <3>2. a = v
      BY <3>1
    <3> HIDE DEF k, l, a, v, o, m, n
    <3>3. l <= n
      BY <1>2, <1>4, <1>5, <2>1, <3>1, <3>2
    <3> QED
      BY <1>6, <3>3
  <2>5. CASE Delete /\ \E i \in Ids : DeleteCall(i)
    <3>1. PICK i \in Ids : DeleteCall(i)
      BY <2>5
    <3>2. Kept' = Kept \ {i}
      BY <1>1, <3>1, DeleteUnkeeps
    <3>3. \A j \in Alive \ {i} : j \in Strays(latest)
      <4>1. i \in Alive /\ Leads(latest, i)
        BY <3>1 DEF DeleteCall, Found, Alive, Leads
      <4> QED
        BY <4>1 DEF NamedOnce, Strays, Leads, Alive
    <3>4. Kept' \subseteq Strays(latest) /\ pc # "idle"
      BY <1>3, <2>5, <3>2, <3>3 DEF Delete, At
    <3>5. l <= v
      BY <1>3, <3>4, Counting
    <3> HIDE DEF k, l, a, v, o, m, n
    <3>6. l <= n
      BY <1>2, <1>4, <1>5, <3>4, <3>5
    <3> QED
      BY <1>6, <3>6
  <2>6. ASSUME cr.finalizer, pc # "release", ~cr'.finalizer
        PROVE  MarkUnmanaged
    <3>1. cr \in Object
      BY DEF TypeInv, TypeOK
    <3> QED
      BY <2>6, <3>1, EditCounts DEF vars, Next, Worker, Sync, Remove, User, Service, Reconcile,
         Forget, ReadOne, Compare, MarkManaged, Create, Confirm, SyncTags, Update, PatchSpec,
         LateInitialize, MergePatch, PatchStatus, ReadToDelete, Delete, Release, DeleteCR,
         Settle, Proceed, FailSettle, Drift, Crash, Resync, At, Object, TypeInv
  <2>7. ASSUME pc # "release", pc' = "release"
        PROVE  \/ ReadToDelete /\ Found(desired) = {}
               \/ Delete /\ \E i \in Ids : DeleteCall(i)
    BY <2>7 DEF vars, Next, Worker, Sync, Remove, User, Service, Reconcile, Forget,
       ReadOne, ReadFails, Compare, MarkManaged, Create, MarkUnmanaged, Confirm, SyncTags,
       Update, NothingElse, CustomUpdate, NotUpdatable, UpdateRefused, UpdateCall, PatchSpec,
       LateInitialize, MergePatch, Last, PatchStatus, ReadToDelete, Delete, NotDeletable,
       DeleteRefused, Release, DeleteCR, EditSpec, Settle, Proceed, FailSettle, Drift,
       Crash, Resync, Refused, StopWith, At, Goto, controller
  <2> QED
    BY <1>6, <2>2, <2>3, <2>4, <2>5, <2>6, <2>7
<1> QED
  BY <1>7, <1>8

LEMMA LifecycleInit == Init => LifecycleInv
<1> SUFFICES ASSUME Init PROVE LifecycleInv
  OBVIOUS
<1>1. TypeInv
  BY TypeInit
<1>2. pc = "idle" /\ cr.finalizer = FALSE /\ cr.deleting = FALSE
  BY DEF Init
<1>3. \A i \in Ids : ~Live(i)
  BY DEF Init, Live, Put
<1>4. Alive = {} /\ Kept = {} /\ Strays(cr) = {}
  BY <1>3 DEF Alive, Kept, Strays
<1>5. Cardinality({}) = 0
  BY FS_EmptySet
<1>6. Excuses \in Nat
  BY <1>1, ExcusesAreCounted DEF TypeInv
<1>7. TagStep /\ NamesInv /\ Finalized /\ Steady
  BY <1>2, <1>3, <1>4 DEF TagStep, NamesInv, NamedOnce, NothingFound, Finalized, Managing,
     Removing, Steady
<1>8. StraysPaid /\ AlivePaid /\ KeptPaid
  BY <1>2, <1>4, <1>5, <1>6 DEF StraysPaid, AlivePaid, KeptPaid, Making
<1> QED
  BY <1>1, <1>7, <1>8 DEF LifecycleInv

LEMMA LifecycleNext ==
  ASSUME LifecycleInv, [Next]_vars
  PROVE  LifecycleInv'
<1>1. TypeInv' /\ TagStep' /\ NamesInv'
  BY TypeNext, TagStepNext, NamesNext DEF LifecycleInv
<1>2. Finalized' /\ Steady'
  BY FinalizedNext, SteadyNext DEF LifecycleInv
<1>3. StraysPaid' /\ AlivePaid' /\ KeptPaid'
  BY <1>1, <1>2, StraysPaidNext, AlivePaidNext, KeptPaidNext DEF LifecycleInv, NamesInv
<1> QED
  BY <1>1, <1>2, <1>3 DEF LifecycleInv

(* One object never has more than one resource, but for those that a lost   *)
(* answer, a crash or a change of names has cost it: a lookup comes before  *)
(* every Create, and what a Create returns is not lost sight of.            *)
THEOREM ResourcesAreFew == Spec => []AtMostOneLive
<1>1. LifecycleInv => AtMostOneLive
  BY DEF LifecycleInv, AlivePaid, Alive, AtMostOneLive
<1> QED
  BY <1>1, LifecycleInit, LifecycleNext, PTL DEF Spec

(* When the object is gone, so are its resources, or they are on their way: *)
(* the finalizer is only taken off when a lookup found nothing, when the    *)
(* deletion of what it found was accepted, or when a Create had failed.     *)
THEOREM NothingIsLeft == Spec => []NothingLeftBehind
<1>1. LifecycleInv => NothingLeftBehind
  BY DEF LifecycleInv, Finalized, KeptPaid, NothingLeftBehind
<1> QED
  BY <1>1, LifecycleInit, LifecycleNext, PTL DEF Spec

-----------------------------------------------------------------------------
(* Every step is one of ResourceLifecycle. *)

(* ResourceLifecycle counts as this module does. *)
LEMMA SameCount == ASSUME NEW S PROVE Outside!Cardinality(S) = Cardinality(S)
BY DEF Outside!Cardinality, Cardinality

(* What is seen from outside does not change. *)
LEMMA FaultStep ==
  ASSUME TypeInv, [Next]_vars, Kept' = Kept, made' = made,
         cr'.present = cr.present, cr'.deleting = cr.deleting, cr'.finalizer = cr.finalizer
  PROVE  Outside!Next
<1>1. Outside!Fault
  BY DEF Outside!Fault
<1> QED
  BY <1>1, ExcusesGrow DEF Outside!Next

LEMMA UserStep ==
  ASSUME TypeInv, Finalized, [Next]_vars, User
  PROVE  Outside!Next
<1>1. UNCHANGED subject /\ UNCHANGED service
  BY StepsReach DEF User, DeleteCR, EditSpec, Next, vars
<1>2. Kept' = Kept /\ made' = made
  BY <1>1, StatusesKeep DEF service
<1>3. CASE DeleteCR
  <2>1. /\ cr.present /\ ~cr.deleting
        /\ cr'.deleting /\ cr'.present = cr.finalizer /\ cr'.finalizer = cr.finalizer
    BY <1>3 DEF DeleteCR, TypeInv, TypeOK, Object
  <2>2. cr.present = TRUE /\ cr.deleting = FALSE /\ cr'.deleting = TRUE
        /\ cr.finalizer \in BOOLEAN
    BY <2>1 DEF TypeInv, TypeOK, Object
  <2>3. Outside!Delete
    BY <1>2, <2>1, <2>2 DEF Outside!Delete
  <2> QED
    BY <2>3, ExcusesGrow DEF Outside!Next
<1>4. CASE \E f \in tracked : EditSpec(f)
  BY <1>2, <1>4, EditCounts, FaultStep DEF TypeInv
<1> QED
  BY <1>3, <1>4 DEF User

LEMMA ServiceStep ==
  ASSUME TypeInv, [Next]_vars, Service
  PROVE  Outside!Next
<1>1. UNCHANGED subject /\ UNCHANGED <<cr, made>>
  BY DEF Next, vars, Service, Settle, Proceed, FailSettle, Drift
<1>2. CASE Kept' = Kept
  BY <1>1, <1>2, FaultStep
<1>3. CASE spent'.drifts = spent.drifts + 1 /\ \E i \in Kept : Kept' = Kept \ {i}
  <2>1. spent'.drifts > spent.drifts
    BY <1>3 DEF TypeInv, TypeOK, Occasions
  <2>2. Outside!Unmake
    BY <1>1, <1>3, <2>1 DEF Outside!Unmake
  <2> QED
    BY <2>2, ExcusesGrow DEF Outside!Next
<1> QED
  BY <1>1, <1>2, <1>3, ServiceKeeps

LEMMA CreateStep ==
  ASSUME TypeInv, TypeInv', Finalized, AlivePaid, [Next]_vars, Create, Creates
  PROVE  Outside!Next
<1>1. UNCHANGED subject /\ UNCHANGED cr
  BY DEF Next, vars, Create
<1>2. /\ made' = made + 1 /\ made' \in Ids /\ Kept' = Kept \cup {made'}
  BY <1>1, CreateKeeps
<1>3. made' \in Ids \ (1..made) /\ 1..made' = 1..made \cup {made'}
  BY <1>2, BoundsAssumption DEF TypeInv, TypeOK, Ids
<1>4. cr.present /\ cr.finalizer
  BY DEF Create, At, Finalized, Managing
<1>5. Cardinality(Kept) <= Excuses
  <2> DEFINE k == Cardinality(Kept)
             a == Cardinality(Alive)
  <2>1. k \in Nat /\ a \in Nat /\ k <= a /\ Excuses \in Nat /\ Owed \in {0, 1}
    BY <1>1, CountsAreNumbers, Counting
  <2>2. a + Owed <= Excuses
    BY DEF AlivePaid, Create, At, Making
  <2> HIDE DEF k, a
  <2>3. k <= Excuses
    BY <2>1, <2>2
  <2> QED
    BY <2>3 DEF k
<1>6. Outside!Make
  BY <1>1, <1>2, <1>3, <1>4, <1>5, SameCount DEF Outside!Make, Outside!Cleared
<1> QED
  BY <1>6, ExcusesGrow DEF Outside!Next

LEMMA DeleteStep ==
  ASSUME TypeInv, Finalized, [Next]_vars, Delete
  PROVE  Outside!Next
<1>1. UNCHANGED subject /\ UNCHANGED <<cr, made>>
  BY DEF Next, vars, Delete
<1>2. cr.present /\ cr.finalizer /\ cr.deleting
  BY DEF Delete, At, Finalized, Removing
<1>3. CASE UNCHANGED aws
  BY <1>1, <1>3, StatusesKeep, FaultStep
<1>4. ASSUME NEW i \in Ids, DeleteCall(i)
      PROVE  Outside!Next
  <2>1. Kept' = Kept \ {i}
    BY <1>1, <1>4, DeleteUnkeeps
  <2>2. CASE i \in Kept
    <3>1. Outside!Unmake
      BY <1>1, <1>2, <2>1, <2>2 DEF Outside!Unmake
    <3> QED
      BY <3>1, ExcusesGrow DEF Outside!Next
  <2>3. CASE i \notin Kept
    BY <1>1, <2>1, <2>3, FaultStep
  <2> QED
    BY <2>2, <2>3
<1> QED
  BY <1>3, <1>4 DEF Delete, NotDeletable, DeleteRefused

LEMMA FinalizerStep ==
  ASSUME LifecycleInv, TypeInv', [Next]_vars, MarkManaged \/ MarkUnmanaged \/ Release
  PROVE  Outside!Next
<1>1. UNCHANGED subject /\ UNCHANGED service /\ cr \in Object
  BY DEF Next, vars, MarkManaged, MarkUnmanaged, Release, LifecycleInv, TypeInv, TypeOK
<1>2. Kept' = Kept /\ made' = made
  BY <1>1, StatusesKeep DEF service
<1>3. CASE MarkManaged
  <2>1. CASE UNCHANGED cr
    BY <1>2, <2>1, FaultStep DEF LifecycleInv
  <2>2. CASE cr.present /\ cr' = [cr EXCEPT !.finalizer = TRUE]
    <3>1. cr'.finalizer = TRUE /\ cr'.present = cr.present /\ cr'.deleting = cr.deleting
      BY <1>1, <2>2 DEF Object
    <3>2. CASE cr.finalizer
      BY <1>1, <1>2, <3>1, <3>2, FaultStep DEF LifecycleInv, Object
    <3>3. CASE ~cr.finalizer
      <4>1. Outside!Hold
        BY <1>2, <2>2, <3>1, <3>3 DEF Outside!Hold
      <4> QED
        BY <4>1, ExcusesGrow DEF Outside!Next, LifecycleInv
    <3> QED
      BY <3>2, <3>3
  <2> QED
    BY <1>3, <2>1, <2>2 DEF MarkManaged
<1>4. CASE MarkUnmanaged \/ Release
  <2>1. cr.present /\ cr.finalizer
    BY <1>4 DEF LifecycleInv, Finalized, MarkUnmanaged, Release, At, Managing, Removing
  <2>2. /\ ~cr'.finalizer /\ cr'.deleting = cr.deleting
        /\ cr.deleting => ~cr'.present
        /\ ~cr.deleting => cr'.present
    BY <1>1, <1>4 DEF MarkUnmanaged, Release, Object, LifecycleInv, Finalized, At, Removing
  <2>3. Cardinality(Kept) <= Excuses
    <3>1. CASE Release
      BY <3>1 DEF LifecycleInv, KeptPaid, Release, At
    <3>2. CASE MarkUnmanaged
      <4> DEFINE k == Cardinality(Kept)
                 a == Cardinality(Alive)
      <4>1. k \in Nat /\ a \in Nat /\ k <= a /\ Excuses \in Nat /\ Owed \in {0, 1}
        BY <1>1, CountsAreNumbers, Counting DEF LifecycleInv
      <4>2. a + Owed <= Excuses
        BY <3>2 DEF LifecycleInv, AlivePaid, MarkUnmanaged, At, Making
      <4> HIDE DEF k, a
      <4>3. k <= Excuses
        BY <4>1, <4>2
      <4> QED
        BY <4>3 DEF k
    <3> QED
      BY <1>4, <3>1, <3>2
  <2>4. Outside!GiveBack
    BY <1>2, <2>1, <2>2, <2>3, SameCount DEF Outside!GiveBack, Outside!Cleared
  <2> QED
    BY <2>4, ExcusesGrow DEF Outside!Next, LifecycleInv
<1> QED
  BY <1>3, <1>4

LEMMA InsideStep ==
  ASSUME LifecycleInv, [Next]_vars, ~User, ~Service, ~(Create /\ Creates), ~Delete,
         ~(MarkManaged \/ MarkUnmanaged \/ Release)
  PROVE  Outside!Next
<1>1. UNCHANGED subject /\ cr \in Object /\ TypeInv
  BY StepsReach DEF LifecycleInv, TypeInv, TypeOK
<1>2. /\ cr'.present = cr.present /\ cr'.deleting = cr.deleting
      /\ cr'.finalizer = cr.finalizer
  BY <1>1 DEF vars, Next, Worker, Sync, Remove, Reconcile, Forget, ReadOne, Compare, Create,
     Confirm, SyncTags, Update, PatchSpec, LateInitialize, MergePatch, PatchStatus,
     ReadToDelete, Crash, Resync, Object
<1>3. Kept' = Kept /\ made' = made
  <2>1. CASE UNCHANGED service
    BY <1>1, <2>1, StatusesKeep DEF service
  <2>2. CASE SyncTags \/ Update
    BY <1>1, <2>2, CallsKeep DEF SyncTags, Update, LifecycleInv
  <2> QED
    BY <2>1, <2>2, StepsReach DEF Reaching, LifecycleInv
<1> QED
  BY <1>1, <1>2, <1>3, FaultStep

LEMMA LifecycleStarts == Init => Outside!Init
<1> SUFFICES ASSUME Init PROVE Outside!Init
  OBVIOUS
<1>1. cr.present = TRUE /\ cr.deleting = FALSE /\ cr.finalizer = FALSE
  BY DEF Init
<1>2. 1..made = {}
  BY DEF Init
<1>3. Kept = {}
  BY DEF Init, Kept, Live, Put
<1>4. spent.losses = 0 /\ spent.crashes = 0 /\ spent.rekeys = 0 /\ spent.drifts = 0
  BY DEF Init, Occasions
<1> QED
  BY <1>1, <1>2, <1>3, <1>4 DEF Outside!Init, Excuses

(* The reconciler implements ResourceLifecycle: seen from outside, it makes *)
(* a resource only under the finalizer and when it may, takes one down only *)
(* for an object that is being deleted, and lets go of the object only when *)
(* nothing is behind it, whatever is edited, lost, refused or crashes.      *)
THEOREM LifecycleKept == Spec => LifecycleSpec
<1>1. LifecycleInv /\ LifecycleInv' /\ [Next]_vars => Outside!Next
  <2> SUFFICES ASSUME LifecycleInv, LifecycleInv', [Next]_vars
               PROVE  Outside!Next
    OBVIOUS
  <2>1. TypeInv /\ TypeInv' /\ Finalized /\ AlivePaid
    BY DEF LifecycleInv
  <2> QED
    BY <2>1, UserStep, ServiceStep, CreateStep, DeleteStep, FinalizerStep, InsideStep
<1>2. Spec => [][Outside!Next]_(Outside!vars)
  BY <1>1, LifecycleInit, LifecycleNext, PTL DEF Spec
<1> QED
  BY <1>2, LifecycleStarts DEF LifecycleSpec, Outside!Spec, Spec

=============================================================================
