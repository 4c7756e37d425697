--------------------- MODULE ResourceReconciler_proofs ----------------------
(***************************************************************************)
(* What holds of ResourceReconciler for every table of managers, every     *)
(* choice of tracked fields and every bound.                               *)
(***************************************************************************)
EXTENDS ResourceReconciler, TLAPS

(* Identifiers are given out in order. *)
InOrder == \A i \in Ids : Live(i) => i <= made

TypeInv == TypeOK /\ InOrder

(* The manager of the subject is a manager. *)
LEMMA ManagerIsTyped ==
  ASSUME TypeOK
  PROVE  M \in Manager /\ Life \in Lifecycle
BY ManagersAssumption DEF TypeOK, M, Life, Manager, Kinds

LEMMA LifeIsTyped ==
  ASSUME TypeOK
  PROVE  /\ Life.creating \in Statuses /\ Life.active \in Statuses
         /\ Life.updating \in Statuses /\ Life.deleting \in Statuses
         /\ Life.createFailed \in Statuses /\ Life.updateFailed \in Statuses
         /\ Life.deleteFailed \in Statuses
         /\ Life.busy \in Statuses /\ Life.busyFailed \in Statuses
         /\ \A s \in Life.shows : s.op \in Statuses /\ s.as \in Statuses
BY ManagerIsTyped DEF Lifecycle

(* What LifeAssumption says of the statuses of the subject's kind. *)
LEMMA LifeIsSound ==
  ASSUME TypeOK
  PROVE  /\ \A st : InFlight(st) => st \notin {Absent, Gone}
         /\ ~InFlight(Gone) /\ ~InFlight(Life.active) /\ ~InFlight(Life.deleteFailed)
         /\ ~InFlight(Life.createFailed) /\ ~InFlight(Life.updateFailed)
         /\ ~InFlight(Life.busyFailed)
         /\ \A s \in Life.shows : InFlight(s.op)
         /\ Life.creating \notin {Absent, Gone} /\ Life.updating \notin {Absent, Gone}
         /\ Life.active \notin {Absent, Gone}
<1> DEFINE later == {s.as : s \in Life.shows}
<1>1. /\ ({Life.creating, Life.updating, Life.busy} \cup later
            \cup {Life.createFailed, Life.updateFailed, Life.busyFailed}
            \cup {Life.active, Life.deleteFailed}) \cap {Absent, Gone} = {}
      /\ Life.deleting # Absent
      /\ ({Life.createFailed, Life.updateFailed, Life.busyFailed} \cup {Life.deleteFailed})
           \cap (({Life.creating, Life.updating, Life.busy} \cup later \cup {Life.deleting})
                   \ {Life.active}) = {}
      /\ \A s \in Life.shows :
           s.op \in ({Life.creating, Life.updating, Life.busy} \cup {Life.deleting})
                     \ {Life.active, Gone}
  BY LifeAssumption DEF TypeOK, Life, M
<1>2. \A st : InFlight(st) <=>
             st \in ({Life.creating, Life.updating, Life.deleting, Life.busy} \cup later)
                     \ {Life.active, Gone}
  BY DEF InFlight
<1> HIDE DEF later
<1> QED
  BY <1>1, <1>2

(* A request's values are values. *)
LEMMA OverlayIsTyped ==
  ASSUME NEW fields, NEW from \in Vals, NEW onto \in Vals
  PROVE  Overlay(fields, from, onto) \in Vals
BY DEF Overlay, Vals

LEMMA FilledIsTyped ==
  ASSUME NEW val \in Vals
  PROVE  Filled(val) \in Vals
BY DEF Filled, Vals, Values, Default

(* A resource changes by being put anew. *)
LEMMA PutIsTyped ==
  ASSUME NEW st \in Statuses, NEW val \in Vals, NEW other \in BOOLEAN
  PROVE  /\ Put(st, val, other) \in Resource
         /\ Put(st, val, other).st = st /\ Put(st, val, other).val = val
         /\ Put(st, val, other).other = (other /\ InFlight(st))
BY DEF Put, Resource, InFlight

LEMMA VersionIsTyped ==
  ASSUME NEW val \in Vals
  PROVE  Version(val) \in Vals
BY DEF Version, Unset, Vals, Values

LEMMA ShownIsTyped ==
  ASSUME TypeOK, NEW view, view.ver \in Vals, NEW i \in Ids
  PROVE  Shown(view, i) \in Vals
BY DEF Shown, TypeOK, Resource

(* A version goes by the names of its resource. *)
LEMMA ShownIsNamed ==
  ASSUME TypeOK, NEW view, NEW i
  PROVE  Key(Shown(view, i)) = Key(aws[i].val)
<1>1. M.key.versioned => M.key.fields = {}
  BY NamesAssumption DEF TypeOK, M
<1> QED
  BY <1>1 DEF Shown, Key

LEMMA BlankIsTyped == ASSUME TypeOK PROVE Blank \in View /\ Unset \in Vals
<1>1. Unset \in Vals
  BY DEF Unset, Vals, Values
<1>2. 0 \in 0..made
  BY BoundsAssumption DEF TypeOK
<1> QED
  BY <1>1, <1>2 DEF Blank, View, Statuses, Ungated

LEMMA FoundIsMade ==
  ASSUME TypeInv, NEW view, NEW i \in Found(view)
  PROVE  i \in Ids /\ i \in 0..made /\ Live(i)
BY BoundsAssumption DEF TypeInv, InOrder, Found, Ids, TypeOK

LEMMA ObservedIsTyped ==
  ASSUME TypeInv, NEW view \in View, NEW i \in Found(view)
  PROVE  Observed(view, i) \in View
<1>1. i \in Ids /\ i \in 0..made
  BY FoundIsMade
<1>2. aws[i].st \in Statuses /\ view.val \in Vals /\ view.ver \in Vals
  BY <1>1 DEF TypeInv, TypeOK, View, Resource
<1>3. Shown(view, i) \in Vals
  BY <1>1, <1>2, ShownIsTyped DEF TypeInv
<1>4. Overlay(M.reads, Shown(view, i), view.val) \in Vals /\ Version(Shown(view, i)) \in Vals
  BY <1>2, <1>3, OverlayIsTyped, VersionIsTyped
<1> QED
  BY <1>1, <1>2, <1>4 DEF Observed, View

LEMMA SpentIsTyped ==
  ASSUME TypeOK, NEW o \in Occasions, Spend(o)
  PROVE  spent' \in [Occasions -> Nat]
BY DEF TypeOK, Spend, Occasions

(* A field of one resource is overwritten. *)
LEMMA FieldIsTyped ==
  ASSUME TypeOK, NEW i \in Ids, NEW f \in tracked, NEW v \in Values
  PROVE  [aws EXCEPT ![i].val[f] = v] \in [Ids -> Resource]
<1> DEFINE new == [aws[i].val EXCEPT ![f] = v]
           res == [aws[i] EXCEPT !.val = new]
<1>1. aws \in [Ids -> Resource]
  BY DEF TypeOK
<1>2. new \in Vals
  BY <1>1 DEF Resource, Vals
<1>3. res \in Resource
  <2> HIDE DEF new
  <2> QED
    BY <1>1, <1>2 DEF Resource
<1>4. [aws EXCEPT ![i] = res] \in [Ids -> Resource]
  <2> HIDE DEF res
  <2> QED
    BY <1>1, <1>3
<1> QED
  BY <1>4

(* Initially every variable has its type. *)
LEMMA TypeInit == Init => TypeInv
<1> SUFFICES ASSUME Init PROVE TypeInv
  OBVIOUS
<1>1. kind \in Kinds /\ tracked \subseteq M.spec.fields
  BY SubjectsAssumption DEF Init, M
<1>2. Unset \in Vals
  BY DEF Unset, Vals, Values
<1>3. made = 0 /\ 0 \in 0..made /\ made \in 0..MaxMade
  BY BoundsAssumption DEF Init
<1>4. Blank \in View
  BY <1>2, <1>3 DEF Blank, View, Statuses, Ungated
<1>5. aws \in [Ids -> Resource]
  BY <1>2, PutIsTyped DEF Init, Statuses
<1>6. cr \in Object
  BY <1>2, <1>3 DEF Init, Object, Statuses, Ungated
<1>7. spent \in [Occasions -> Nat]
  BY DEF Init
<1>8. TypeOK
  BY <1>1, <1>3, <1>4, <1>5, <1>6, <1>7 DEF Init, TypeOK, Steps
<1>9. InOrder
  BY DEF Init, InOrder, Live, Put
<1> QED
  BY <1>8, <1>9 DEF TypeInv

(* What an action that leaves the service and the bounds alone has to show. *)
LEMMA TypeOfWorker ==
  ASSUME TypeInv, UNCHANGED subject, UNCHANGED service,
         cr' \in Object, queued' \in BOOLEAN, pc' \in Steps,
         desired' \in View, latest' \in View,
         err' \in {"ok", "retry", "terminal"},
         spent' \in [Occasions -> Nat]
  PROVE  TypeInv'
<1>1. TypeOK'
  BY DEF TypeInv, TypeOK, subject, service, M, View, Object, Resource, Vals
<1>2. InOrder'
  BY DEF TypeInv, InOrder, Live, service, Ids
<1> QED
  BY <1>1, <1>2 DEF TypeInv

(* What an action that only changes resources has to show. *)
LEMMA TypeOfService ==
  ASSUME TypeInv, UNCHANGED subject, UNCHANGED <<cr, queued, controller, made>>,
         aws' \in [Ids -> Resource],
         \A i \in Ids : Live(i)' => Live(i),
         spent' \in [Occasions -> Nat]
  PROVE  TypeInv'
<1>1. TypeOK'
  BY DEF TypeInv, TypeOK, subject, controller, M, View, Object, Resource, Vals
<1>2. InOrder'
  BY DEF TypeInv, InOrder, Ids
<1> QED
  BY <1>1, <1>2 DEF TypeInv

(* The service's steps.  Each puts one resource that is there anew, under   *)
(* its names, at rest or for somebody else unless it was neither before.    *)
ServicePuts(i) ==
  \E st \in Statuses, val \in Vals, other \in BOOLEAN :
    /\ aws' = [aws EXCEPT ![i] = Put(st, val, other)]
    /\ Key(val) = Key(aws[i].val)
    /\ InFlight(st) /\ ~other => InFlight(aws[i].st) /\ ~aws[i].other

LEMMA ServiceIsPut ==
  ASSUME TypeInv, NEW i \in Ids, Settle(i) \/ Proceed(i) \/ FailSettle(i) \/ Drift(i)
  PROVE  Live(i) /\ ServicePuts(i)
<1>1. aws[i].st \in Statuses /\ aws[i].val \in Vals /\ aws[i].other \in BOOLEAN
  BY DEF TypeInv, TypeOK, Resource
<1>2. ASSUME NEW st \in Statuses, NEW val \in Vals, NEW other \in BOOLEAN,
             aws' = [aws EXCEPT ![i] = Put(st, val, other)],
             Key(val) = Key(aws[i].val),
             InFlight(st) /\ ~other => InFlight(aws[i].st) /\ ~aws[i].other
      PROVE  ServicePuts(i)
  BY <1>2 DEF ServicePuts
<1>3. ASSUME NEW st \in Statuses, NEW other \in BOOLEAN,
             aws' = [aws EXCEPT ![i] = Put(st, @.val, other)],
             InFlight(st) /\ ~other => InFlight(aws[i].st) /\ ~aws[i].other
      PROVE  ServicePuts(i)
  <2>1. aws' = [aws EXCEPT ![i] = Put(st, aws[i].val, other)]
    BY <1>3 DEF TypeInv, TypeOK
  <2> QED
    BY <1>1, <1>2, <1>3, <2>1
<1>4. CASE Settle(i)
  <2> DEFINE st == IF aws[i].st \in Stages(Life.deleting) THEN Gone ELSE Life.active
  <2>1. st \in Statuses /\ ~InFlight(st)
    BY LifeIsTyped, LifeIsSound DEF TypeInv, Statuses
  <2>2. aws' = [aws EXCEPT ![i] = Put(st, @.val, FALSE)]
    BY <1>4 DEF Settle
  <2>3. Live(i)
    BY <1>4, LifeIsSound DEF Settle, Live, TypeInv
  <2> HIDE DEF st
  <2> QED
    BY <1>3, <2>1, <2>2, <2>3
<1>5. CASE Proceed(i)
  <2>1. PICK s \in Life.shows :
          s.op = aws[i].st /\ aws' = [aws EXCEPT ![i] = Put(s.as, @.val, @.other)]
    BY <1>5 DEF Proceed
  <2>2. InFlight(aws[i].st) /\ s.as \in Statuses
    BY <2>1, LifeIsTyped, LifeIsSound DEF TypeInv
  <2>3. Live(i)
    BY <2>2, LifeIsSound DEF Live, TypeInv
  <2>4. aws' = [aws EXCEPT ![i] = Put(s.as, @.val, aws[i].other)]
    BY <2>1 DEF TypeInv, TypeOK
  <2> QED
    BY <1>1, <1>3, <2>2, <2>3, <2>4
<1>6. CASE FailSettle(i)
  <2>1. FailedFrom(aws[i].st) \in Statuses /\ ~InFlight(FailedFrom(aws[i].st))
    <3>1. /\ Nil \in Statuses
          /\ FailedFrom(aws[i].st) \in {Life.createFailed, Life.updateFailed, Life.busyFailed,
                                       Life.deleteFailed, Nil}
      BY DEF FailedFrom, Statuses, Ungated
    <3> QED
      BY <1>6, <3>1, LifeIsTyped, LifeIsSound DEF FailSettle, TypeInv
  <2>2. aws' = [aws EXCEPT ![i] = Put(FailedFrom(aws[i].st), @.val, FALSE)]
    BY <1>6 DEF FailSettle, TypeInv, TypeOK
  <2>3. Live(i)
    BY <1>6, LifeIsSound DEF FailSettle, Live, TypeInv
  <2> QED
    BY <1>3, <2>1, <2>2, <2>3
<1>7. CASE Drift(i)
  <2>1. Live(i)
    BY <1>7 DEF Drift
  <2>2. ASSUME NEW f \in (tracked \cap M.patches) \ M.key.fields, NEW v \in Values \ {0},
               aws' = [aws EXCEPT ![i] = Put(Life.updating, [@.val EXCEPT ![f] = v], TRUE)]
        PROVE  ServicePuts(i)
    <3> DEFINE val == [aws[i].val EXCEPT ![f] = v]
    <3>1. val \in Vals /\ Key(val) = Key(aws[i].val)
      BY <1>1 DEF Vals, Key
    <3>2. aws' = [aws EXCEPT ![i] = Put(Life.updating, val, TRUE)]
      BY <2>2 DEF TypeInv, TypeOK
    <3> HIDE DEF val
    <3> QED
      BY <1>2, <3>1, <3>2, LifeIsTyped DEF TypeInv
  <2>3. ASSUME NEW op \in {Life.updating, Life.busy, Life.deleting},
               aws' = [aws EXCEPT ![i] = Put(op, @.val, TRUE)]
        PROVE  ServicePuts(i)
    <3>1. op \in Statuses /\ TRUE \in BOOLEAN
      BY LifeIsTyped DEF TypeInv
    <3>2. InFlight(op) /\ ~TRUE => InFlight(aws[i].st) /\ ~aws[i].other
      OBVIOUS
    <3> QED
      BY <1>3, <2>3, <3>1, <3>2
  <2> QED
    BY <1>7, <2>1, <2>2, <2>3 DEF Drift
<1> QED
  BY <1>4, <1>5, <1>6, <1>7

LEMMA TypeServes ==
  ASSUME TypeInv, UNCHANGED subject, Service
  PROVE  TypeInv'
<1>1. PICK i \in Ids : Settle(i) \/ Proceed(i) \/ FailSettle(i) \/ Drift(i)
  BY DEF Service
<1>2. Live(i) /\ ServicePuts(i)
  BY <1>1, ServiceIsPut
<1>3. aws' \in [Ids -> Resource]
  BY <1>2, PutIsTyped DEF ServicePuts, TypeInv, TypeOK
<1>4. \A j \in Ids : Live(j)' => Live(j)
  BY <1>2 DEF ServicePuts, Live, TypeInv, TypeOK
<1>5. spent' \in [Occasions -> Nat]
  BY <1>1, SpentIsTyped DEF Settle, Proceed, FailSettle, Drift, Occasions, TypeInv, TypeOK
<1> QED
  BY <1>1, <1>3, <1>4, <1>5, TypeOfService DEF Settle, Proceed, FailSettle, Drift

(* The user's steps. *)
LEMMA TypeUser ==
  ASSUME TypeInv, UNCHANGED subject, User
  PROVE  TypeInv'
<1>1. CASE DeleteCR
  BY <1>1, TypeOfWorker DEF DeleteCR, TypeInv, TypeOK, Object, controller
<1>2. ASSUME NEW f \in tracked, EditSpec(f)
      PROVE  TypeInv'
  <2>1. cr' \in Object
    BY <1>2 DEF EditSpec, TypeInv, TypeOK, Object, Vals
  <2>2. spent' \in [Occasions -> Nat]
    <3>1. spent.edits + 1 \in Nat /\ spent.rekeys + 1 \in Nat /\ spent.rekeys + 0 \in Nat
      BY DEF TypeInv, TypeOK, Occasions
    <3> QED
      BY <1>2, <3>1 DEF EditSpec, TypeInv, TypeOK
  <2> QED
    BY <1>2, <2>1, <2>2, TypeOfWorker DEF EditSpec, TypeInv, TypeOK, controller
<1> QED
  BY <1>1, <1>2 DEF User

(* The steps of the worker that leave the service alone. *)
LEMMA TypeReconcile ==
  ASSUME TypeInv, UNCHANGED subject, Reconcile \/ Forget
  PROVE  TypeInv'
<1>1. CASE Reconcile
  <2>1. desired' \in View /\ latest' \in View
    BY <1>1 DEF Reconcile, TypeInv, TypeOK, Object, View
  <2> QED
    BY <1>1, <2>1, TypeOfWorker
    DEF Reconcile, At, Goto, Steps, TypeInv, TypeOK
<1>2. CASE Forget
  BY <1>2, TypeOfWorker DEF Forget, controller, TypeInv, TypeOK
<1> QED
  BY <1>1, <1>2

LEMMA TypeRead ==
  ASSUME TypeInv, UNCHANGED subject, ReadOne \/ ReadToDelete
  PROVE  TypeInv'
<1>1. \A i \in Found(desired) : Observed(desired, i) \in View
  BY ObservedIsTyped DEF TypeInv, TypeOK
<1>2. latest' \in View
  BY <1>1 DEF ReadOne, ReadFails, ReadToDelete, TypeInv, TypeOK
<1>3. spent' \in [Occasions -> Nat]
  BY SpentIsTyped DEF ReadOne, ReadFails, ReadToDelete, Refused, Occasions, TypeInv, TypeOK
<1>4. pc' \in Steps /\ err' \in {"ok", "retry", "terminal"}
  BY DEF ReadOne, ReadFails, ReadToDelete, Refused, StopWith, Goto, Steps, Class, TypeInv, TypeOK
<1> QED
  BY <1>2, <1>3, <1>4, TypeOfWorker DEF ReadOne, ReadFails, ReadToDelete, TypeInv, TypeOK

LEMMA TypeFinalizer ==
  ASSUME TypeInv, UNCHANGED subject, Compare \/ MarkManaged \/ MarkUnmanaged \/ Release
  PROVE  TypeInv'
<1>1. pc' \in Steps
  BY DEF Compare, Last, MarkManaged, MarkUnmanaged, Release, Goto, Steps
<1>2. cr' \in Object
  BY DEF Compare, MarkManaged, MarkUnmanaged, Release, TypeInv, TypeOK, Object
<1>3. Blank \in View
  BY BlankIsTyped DEF TypeInv
<1> QED
  BY <1>1, <1>2, <1>3, TypeOfWorker
  DEF Compare, MarkManaged, MarkUnmanaged, Release, TypeInv, TypeOK

LEMMA TypeConfirm ==
  ASSUME TypeInv, UNCHANGED subject, Confirm
  PROVE  TypeInv'
<1>1. latest' \in View
  <2>1. CASE UNCHANGED latest
    BY <2>1 DEF TypeInv, TypeOK
  <2>2. ASSUME NEW i \in Found(latest), latest' = Confirmed(i) PROVE latest' \in View
    <3>1. Version(Shown(latest, i)) \in Vals /\ i \in Ids /\ i \in 0..made
      BY FoundIsMade, ShownIsTyped, VersionIsTyped DEF TypeInv, TypeOK, View
    <3> QED
      BY <2>2, <3>1 DEF Confirmed, TypeInv, TypeOK, View, Resource
  <2> QED
    BY <2>1, <2>2 DEF Confirm
<1>2. spent' \in [Occasions -> Nat]
  BY SpentIsTyped DEF Confirm, Refused, Occasions, TypeInv, TypeOK
<1>3. pc' \in Steps /\ err' \in {"ok", "retry", "terminal"}
  BY DEF Confirm, Refused, StopWith, Goto, Steps, Class, TypeInv, TypeOK
<1> QED
  BY <1>1, <1>2, <1>3, TypeOfWorker DEF Confirm, TypeInv, TypeOK

LEMMA TypeMergePatch ==
  ASSUME TypeInv, NEW from, NEW to \in Vals, NEW step \in Steps,
         MergePatch(from, to, step)
  PROVE  /\ cr' \in Object /\ queued' \in BOOLEAN
         /\ pc' \in Steps /\ err' \in {"ok", "retry", "terminal"}
<1> DEFINE new == [f \in tracked |-> IF to[f] # from[f] THEN to[f] ELSE cr.val[f]]
           barred == \E f \in tracked \cap M.spec.immutable :
                       0 \notin {cr.val[f], new[f]} /\ cr.val[f] # new[f]
<1>1. new \in Vals
  BY DEF TypeInv, TypeOK, Object, Vals
<1>2. CASE barred
  BY <1>2 DEF MergePatch, StopWith, Goto, Steps, TypeInv, TypeOK
<1>3. CASE ~barred
  <2>1. /\ cr' = [cr EXCEPT !.val = new] /\ queued' = (queued \/ new # cr.val)
        /\ pc' = step /\ UNCHANGED err
    BY <1>3 DEF MergePatch, Goto
  <2> HIDE DEF new, barred
  <2> QED
    BY <1>1, <2>1 DEF TypeInv, TypeOK, Object
<1> QED
  BY <1>2, <1>3

LEMMA TypePatchSpec ==
  ASSUME TypeInv, UNCHANGED subject, PatchSpec
  PROVE  TypeInv'
<1>1. latest.val \in Vals /\ Last \in Steps
  BY DEF TypeInv, TypeOK, View, Last, Steps
<1> QED
  BY <1>1, TypeMergePatch, TypeOfWorker DEF PatchSpec, TypeInv, TypeOK

LEMMA TypeLateInitialize ==
  ASSUME TypeInv, UNCHANGED subject, LateInitialize
  PROVE  TypeInv'
<1>1. CASE \E i \in Found(latest) :
             /\ latest' = [latest EXCEPT !.val = LateInitialized(i)]
             /\ MergePatch(latest.val, LateInitialized(i), "patchStatus")
             /\ UNCHANGED spent
  <2>1. PICK i \in Found(latest) :
          /\ latest' = [latest EXCEPT !.val = LateInitialized(i)]
          /\ MergePatch(latest.val, LateInitialized(i), "patchStatus")
          /\ UNCHANGED spent
    BY <1>1
  <2>2. Shown(latest, i) \in Vals /\ latest.val \in Vals
    BY FoundIsMade, ShownIsTyped DEF TypeInv, TypeOK, View
  <2>3. LateInitialized(i) \in Vals
    BY <2>2 DEF LateInitialized, Vals
  <2>4. latest' \in View
    BY <2>1, <2>3 DEF TypeInv, TypeOK, View
  <2>5. /\ cr' \in Object /\ queued' \in BOOLEAN
        /\ pc' \in Steps /\ err' \in {"ok", "retry", "terminal"}
    BY <2>1, <2>3, TypeMergePatch DEF Steps
  <2> QED
    BY <2>1, <2>4, <2>5, TypeOfWorker DEF LateInitialize, TypeInv, TypeOK
<1>2. CASE UNCHANGED <<cr, queued, latest>>
  <2>1. spent' \in [Occasions -> Nat]
    BY <1>1, <1>2, SpentIsTyped DEF LateInitialize, Refused, Occasions, TypeInv, TypeOK
  <2>2. pc' \in Steps /\ err' \in {"ok", "retry", "terminal"}
    BY <1>2 DEF LateInitialize, MergePatch, Refused, StopWith, Goto, Class, Steps,
       TypeInv, TypeOK
  <2> QED
    BY <1>2, <2>1, <2>2, TypeOfWorker DEF LateInitialize, TypeInv, TypeOK
<1> QED
  BY <1>1, <1>2 DEF LateInitialize

LEMMA TypePatchStatus ==
  ASSUME TypeInv, UNCHANGED subject, PatchStatus
  PROVE  TypeInv'
<1>1. cr' \in Object
  BY DEF PatchStatus, IsSynced, TypeInv, TypeOK, Object, View
<1>2. queued' \in BOOLEAN
  BY DEF PatchStatus, TypeInv, TypeOK
<1>3. desired' \in View /\ latest' \in View
  BY BlankIsTyped DEF PatchStatus, TypeInv
<1> QED
  BY <1>1, <1>2, <1>3, TypeOfWorker DEF PatchStatus, Goto, Steps, TypeInv, TypeOK

LEMMA TypeRestart ==
  ASSUME TypeInv, UNCHANGED subject, Crash \/ Resync
  PROVE  TypeInv'
<1>1. Blank \in View
  BY BlankIsTyped DEF TypeInv
<1>2. spent' \in [Occasions -> Nat]
  BY SpentIsTyped DEF Crash, Resync, Occasions, TypeInv, TypeOK
<1> QED
  BY <1>1, <1>2, TypeOfWorker DEF Crash, Resync, Goto, Steps, controller, TypeInv, TypeOK

(* What a call to the service about an existing resource has to show. *)
LEMMA TypeOfCall ==
  ASSUME TypeInv, UNCHANGED subject, UNCHANGED <<cr, queued, desired, made>>,
         aws' \in [Ids -> Resource],
         \A i \in Ids : Live(i)' => Live(i),
         latest' \in View, pc' \in Steps, err' \in {"ok", "retry", "terminal"},
         spent' \in [Occasions -> Nat]
  PROVE  TypeInv'
<1>1. TypeOK'
  BY DEF TypeInv, TypeOK, subject, M, View, Object, Resource, Vals
<1>2. InOrder'
  BY DEF TypeInv, InOrder, Ids
<1> QED
  BY <1>1, <1>2 DEF TypeInv

LEMMA TypeSyncTags ==
  ASSUME TypeInv, UNCHANGED subject, SyncTags, latest.id \in Ids, "Tags" \in tracked
  PROVE  TypeInv'
<1>1. desired.val["Tags"] \in Values
  BY DEF TypeInv, TypeOK, View, Vals
<1>2. aws' \in [Ids -> Resource]
  BY <1>1, FieldIsTyped DEF SyncTags, TypeInv, TypeOK
<1>3. \A j \in Ids : Live(j)' => Live(j)
  BY DEF SyncTags, Live, TypeInv, TypeOK, Resource
<1>4. spent' \in [Occasions -> Nat]
  BY SpentIsTyped DEF SyncTags, Refused, Occasions, TypeInv, TypeOK
<1>5. pc' \in Steps /\ err' \in {"ok", "retry", "terminal"}
  BY DEF SyncTags, Refused, StopWith, Goto, Steps, Class, TypeInv, TypeOK
<1> QED
  BY <1>2, <1>3, <1>4, <1>5, TypeOfCall DEF SyncTags, TypeInv, TypeOK

LEMMA TypeUpdateCall ==
  ASSUME TypeInv, UNCHANGED subject, UNCHANGED <<cr, queued, desired, made>>,
         NEW i \in Ids, UpdateCall(i)
  PROVE  TypeInv'
<1> DEFINE val == Overlay(Sent, desired.val, aws[i].val)
           new == Put(Life.updating, val, FALSE)
<1>1. desired.val \in Vals /\ aws[i].val \in Vals /\ Life.updating \in Statuses
  BY LifeIsTyped DEF TypeInv, TypeOK, View, Resource
<1>2. new \in Resource /\ new.val \in Vals
  BY <1>1, OverlayIsTyped, PutIsTyped DEF Resource
<1>3. aws' = [aws EXCEPT ![i] = new]
  BY DEF UpdateCall, TypeInv, TypeOK
<1>4. aws' \in [Ids -> Resource] /\ aws'[i] = new
  <2> HIDE DEF new
  <2> QED
    BY <1>2, <1>3 DEF TypeInv, TypeOK
<1>5. \A j \in Ids : Live(j)' => Live(j)
  <2> HIDE DEF new
  <2> QED
    BY <1>3, FoundIsMade DEF Live, UpdateCall, TypeInv, TypeOK
<1>6. latest' \in View
  <2>1. CASE UNCHANGED latest
    BY <2>1 DEF TypeInv, TypeOK
  <2>2. CASE latest' = [val |-> Overlay(M.update.returns, aws'[i].val, desired.val),
                        id |-> i, ver |-> Version(aws'[i].val), status |-> aws'[i].st]
    <3>1. Overlay(M.update.returns, new.val, desired.val) \in Vals
      <4> HIDE DEF new
      <4> QED
        BY <1>1, <1>2, OverlayIsTyped
    <3>2. i \in 0..made
      BY FoundIsMade DEF UpdateCall
    <3>3. new.st \in Statuses /\ Version(new.val) \in Vals
      BY <1>1, <1>2, VersionIsTyped DEF Resource
    <3> HIDE DEF new
    <3> QED
      BY <2>2, <3>1, <3>2, <3>3, <1>4 DEF View
  <2> QED
    BY <2>1, <2>2 DEF UpdateCall
<1>7. spent' \in [Occasions -> Nat]
  BY SpentIsTyped DEF UpdateCall, Occasions, TypeInv, TypeOK
<1>8. pc' \in Steps /\ err' \in {"ok", "retry", "terminal"}
  BY DEF UpdateCall, StopWith, Goto, Steps, TypeInv, TypeOK
<1> QED
  BY <1>4, <1>5, <1>6, <1>7, <1>8, TypeOfCall

LEMMA TypeUpdate ==
  ASSUME TypeInv, UNCHANGED subject, Update
  PROVE  TypeInv'
<1>1. CASE \E i \in Ids : UpdateCall(i)
  BY <1>1, TypeUpdateCall DEF Update
<1>2. CASE NothingElse \/ CustomUpdate \/ NotUpdatable \/ UpdateRefused
  <2>1. latest' \in View
    BY <1>2 DEF NothingElse, CustomUpdate, NotUpdatable, UpdateRefused,
                TypeInv, TypeOK, View
  <2>2. spent' \in [Occasions -> Nat]
    BY <1>2, SpentIsTyped DEF NothingElse, CustomUpdate, NotUpdatable,
         UpdateRefused, Refused, Occasions, TypeInv, TypeOK
  <2>3. pc' \in Steps /\ err' \in {"ok", "retry", "terminal"}
    BY <1>2 DEF NothingElse, CustomUpdate, NotUpdatable, UpdateRefused, Refused,
         StopWith, Goto, Class, Steps, TypeInv, TypeOK
  <2>4. UNCHANGED aws
    BY <1>2 DEF NothingElse, CustomUpdate, NotUpdatable, UpdateRefused
  <2>5. \A i \in Ids : Live(i)' => Live(i)
    BY <2>4 DEF Live
  <2> QED
    BY <2>1, <2>2, <2>3, <2>4, <2>5, TypeOfCall DEF Update, TypeInv, TypeOK
<1> QED
  BY <1>1, <1>2 DEF Update

LEMMA TypeDelete ==
  ASSUME TypeInv, UNCHANGED subject, Delete
  PROVE  TypeInv'
<1>1. aws' \in [Ids -> Resource]
  <2>1. Life.deleting \in Statuses /\ \A i \in Ids : aws[i].val \in Vals
    BY LifeIsTyped DEF TypeInv, TypeOK, Resource
  <2>2. \A i \in Ids : Put(Life.deleting, aws[i].val, FALSE) \in Resource
    BY <2>1, PutIsTyped
  <2>3. ASSUME NEW i \in Ids, DeleteCall(i) PROVE aws' \in [Ids -> Resource]
    BY <2>2, <2>3 DEF DeleteCall, TypeInv, TypeOK
  <2> QED
    BY <2>3 DEF Delete, NotDeletable, DeleteRefused, TypeInv, TypeOK
<1>2. \A j \in Ids : Live(j)' => Live(j)
  BY FoundIsMade DEF Delete, DeleteCall, NotDeletable, DeleteRefused, Live,
     TypeInv, TypeOK
<1>3. spent' \in [Occasions -> Nat]
  BY SpentIsTyped DEF Delete, DeleteCall, NotDeletable, DeleteRefused, Refused,
     Occasions, TypeInv, TypeOK
<1>4. pc' \in Steps /\ err' \in {"ok", "retry", "terminal"}
  BY DEF Delete, DeleteCall, NotDeletable, DeleteRefused, Refused, StopWith,
     Goto, Class, Steps, TypeInv, TypeOK
<1> QED
  BY <1>1, <1>2, <1>3, <1>4, TypeOfCall DEF Delete, TypeInv, TypeOK

LEMMA TypeCreates ==
  ASSUME TypeInv, UNCHANGED subject, Creates
  PROVE  /\ made' \in Ids /\ made' = made + 1
         /\ aws' \in [Ids -> Resource] /\ aws'[made'].val \in Vals
         /\ InOrder'
<1> DEFINE new == Put(Life.creating, Filled(Overlay(M.sends, desired.val, Unset)), FALSE)
<1>1. made \in Nat /\ MaxMade \in Nat /\ made' = made + 1 /\ made' \in Ids
  BY BoundsAssumption DEF Creates, TypeInv, TypeOK, Ids
<1>2. new \in Resource /\ new.val \in Vals
  <2>1. desired.val \in Vals /\ Unset \in Vals
    BY BlankIsTyped DEF TypeInv, TypeOK, View
  <2>2. Overlay(M.sends, desired.val, Unset) \in Vals
    BY <2>1, OverlayIsTyped
  <2> QED
    BY <2>2, FilledIsTyped, LifeIsTyped, PutIsTyped DEF Resource, TypeInv
<1>3. aws' = [aws EXCEPT ![made'] = new]
  BY DEF Creates
<1>4. aws' \in [Ids -> Resource] /\ aws'[made'] = new
  <2> HIDE DEF new
  <2> QED
    BY <1>1, <1>2, <1>3 DEF TypeInv, TypeOK
<1>5. \A i \in Ids : i # made' => aws'[i] = aws[i]
  <2> HIDE DEF new
  <2> QED
    BY <1>3 DEF TypeInv, TypeOK
<1>6. InOrder'
  <2> SUFFICES ASSUME NEW i \in Ids, Live(i)' PROVE i <= made'
    BY DEF InOrder, Ids
  <2>1. CASE i = made'
    BY <2>1, <1>1 DEF Ids
  <2>2. CASE i # made'
    BY <2>2, <1>1, <1>5 DEF TypeInv, InOrder, Live, Ids
  <2> QED
    BY <2>1, <2>2
<1> QED
  BY <1>1, <1>2, <1>4, <1>6

LEMMA TypeCreate ==
  ASSUME TypeInv, UNCHANGED subject, Create
  PROVE  TypeInv'
<1>1. spent' \in [Occasions -> Nat]
  BY SpentIsTyped DEF Create, Creates, Occasions, TypeInv, TypeOK
<1>2. pc' \in Steps /\ err' \in {"ok", "retry", "terminal"}
  BY DEF Create, Goto, Class, Steps, TypeInv, TypeOK
<1>3. CASE UNCHANGED <<latest, service>>
  BY <1>1, <1>2, <1>3, TypeOfWorker DEF Create, TypeInv, TypeOK
<1>4. CASE Creates
  <2>1. /\ made' \in Ids /\ made' = made + 1 /\ aws' \in [Ids -> Resource]
        /\ aws'[made'].val \in Vals /\ InOrder'
    BY <1>4, TypeCreates
  <2>2. 0..made \subseteq 0..made' /\ made' \in 0..made' /\ made' \in 0..MaxMade
    BY <2>1, BoundsAssumption DEF TypeInv, TypeOK, Ids
  <2>3. aws'[made'].st \in Statuses
    BY <2>1 DEF Resource
  <2>4. desired.val \in Vals
    BY DEF TypeInv, TypeOK, View
  <2>5. Overlay(M.echoes, aws'[made'].val, desired.val) \in Vals
    BY <2>1, <2>4, OverlayIsTyped
  <2>6. latest' \in [val: Vals, id: 0..made', ver: Vals, status: Statuses]
    <3>1. CASE UNCHANGED latest
      BY <3>1, <2>2 DEF TypeInv, TypeOK, View
    <3>2. CASE latest' = [val    |-> Overlay(M.echoes, aws'[made'].val, desired.val),
                          id     |-> made',
                          ver    |-> Version(aws'[made'].val),
                          status |-> aws'[made'].st]
      BY <3>2, <2>1, <2>2, <2>3, <2>5, VersionIsTyped
    <3> QED
      BY <3>1, <3>2 DEF Create, Created
  <2>7. Vals' = Vals
    BY DEF subject, Vals
  <2>8. cr' \in Object' /\ desired' \in View'
    BY <2>2, <2>7 DEF Create, TypeInv, TypeOK, Object, View
  <2>9. latest' \in View'
    BY <2>6, <2>7 DEF View
  <2>10. aws' \in [Ids -> Resource']
    BY <2>1, <2>7 DEF Resource
  <2>11. TypeOK'
    BY <1>1, <1>2, <2>2, <2>8, <2>9, <2>10 DEF TypeInv, TypeOK, Create, subject, M
  <2> QED
    BY <2>1, <2>11 DEF TypeInv
<1> QED
  BY <1>3, <1>4 DEF Create

(* The tags are synchronised of a resource that was read, by an object that *)
(* has tags.                                                                *)
TagStep ==
  /\ pc = "compare" => latest.id \in Ids
  /\ pc = "tags" => latest.id \in Ids /\ "Tags" \in tracked

LEMMA TagStepNext ==
  ASSUME TypeInv, TagStep, [Next]_vars
  PROVE  TagStep'
<1>1. CASE UNCHANGED vars
  BY <1>1 DEF TagStep, vars, subject, controller
<1>2. CASE UNCHANGED <<subject, controller>>
  BY <1>2 DEF TagStep, subject, controller
<1>3. ASSUME UNCHANGED subject, pc' \notin {"compare", "tags"}
      PROVE  TagStep'
  BY <1>3 DEF TagStep
<1>4. CASE Next
  <2>1. UNCHANGED subject
    BY <1>4 DEF Next
  <2>2. CASE ReadOne
    <3>1. CASE pc' = "compare"
      <4>1. PICK i \in Found(desired) : latest' = Observed(desired, i)
        BY <2>2, <3>1 DEF ReadOne, ReadFails, Refused, StopWith, Goto
      <4>2. latest'.id \in Ids
        BY <4>1, FoundIsMade DEF Observed
      <4> QED
        BY <3>1, <4>2 DEF TagStep
    <3>2. CASE pc' # "compare"
      BY <2>1, <2>2, <3>2, <1>3 DEF ReadOne, ReadFails, Refused, StopWith, Goto
    <3> QED
      BY <3>1, <3>2
  <2>3. CASE Compare
    BY <2>1, <2>3 DEF Compare, Last, At, Goto, TagStep, subject
  <2>4. CASE Reconcile \/ MarkManaged \/ Create \/ MarkUnmanaged \/ Confirm
             \/ SyncTags \/ Update \/ PatchSpec \/ LateInitialize \/ PatchStatus
             \/ Remove \/ Crash
    BY <2>1, <2>4, <1>3 DEF Reconcile, MarkManaged, Create, MarkUnmanaged, Confirm,
       SyncTags, Update, NothingElse, CustomUpdate, NotUpdatable, UpdateRefused,
       UpdateCall, PatchSpec, LateInitialize, MergePatch, Last, PatchStatus, Remove, ReadToDelete, Delete,
       NotDeletable, DeleteRefused, DeleteCall, Release, Crash, ReadFails, Refused,
       StopWith, Goto
  <2>5. CASE Forget \/ User \/ Service \/ Resync
    BY <2>1, <2>5, <1>2 DEF Forget, User, DeleteCR, EditSpec, Service, Settle, Proceed,
       FailSettle, Drift, Resync
  <2> QED
    BY <1>4, <2>2, <2>3, <2>4, <2>5 DEF Next, Worker, Sync
<1> QED
  BY <1>1, <1>4

LEMMA TypeNext ==
  ASSUME TypeInv, TagStep, [Next]_vars
  PROVE  TypeInv'
<1>1. CASE UNCHANGED vars
  BY <1>1, TypeOfWorker DEF vars, controller, TypeInv, TypeOK
<1>2. CASE Next
  <2>1. UNCHANGED subject
    BY <1>2 DEF Next
  <2>2. CASE Reconcile \/ Forget
    BY <2>1, <2>2, TypeReconcile
  <2>3. CASE ReadOne \/ ReadToDelete
    BY <2>1, <2>3, TypeRead
  <2>4. CASE Compare \/ MarkManaged \/ MarkUnmanaged \/ Release
    BY <2>1, <2>4, TypeFinalizer
  <2>5. CASE Create
    BY <2>1, <2>5, TypeCreate
  <2>6. CASE Confirm
    BY <2>1, <2>6, TypeConfirm
  <2>7. CASE SyncTags
    BY <2>1, <2>7, TypeSyncTags DEF TagStep, SyncTags, At
  <2>8. CASE Update
    BY <2>1, <2>8, TypeUpdate
  <2>9. CASE PatchSpec \/ LateInitialize \/ PatchStatus
    BY <2>1, <2>9, TypePatchSpec, TypeLateInitialize, TypePatchStatus
  <2>10. CASE Delete
    BY <2>1, <2>10, TypeDelete
  <2>11. CASE User
    BY <2>1, <2>11, TypeUser
  <2>12. CASE Service
    BY <2>1, <2>12, TypeServes
  <2>13. CASE Crash \/ Resync
    BY <2>1, <2>13, TypeRestart
  <2> QED
    BY <1>2, <2>2, <2>3, <2>4, <2>5, <2>6, <2>7, <2>8, <2>9, <2>10, <2>11,
       <2>12, <2>13 DEF Next, Worker, Sync, Remove
<1> QED
  BY <1>1, <1>2

(* Every variable of a reconcile keeps its type, for every table of managers *)
(* and every subject: the views handed from one call of manager.go to the    *)
(* next never name a resource that was not created.                          *)
THEOREM TypeCorrect == Spec => []TypeOK
<1>1. Init => TypeInv /\ TagStep
  BY TypeInit DEF Init, TagStep
<1>2. TypeInv /\ TagStep /\ [Next]_vars => (TypeInv /\ TagStep)'
  BY TypeNext, TagStepNext
<1>3. TypeInv => TypeOK
  BY DEF TypeInv
<1> QED
  BY <1>1, <1>2, <1>3, PTL DEF Spec

-----------------------------------------------------------------------------
(* What a step leaves of the resources' names: no resource comes to life,   *)
(* and those that live are named as before.                                 *)
NamesKept ==
  \A i \in Ids : Live(i)' => Live(i) /\ Key(aws'[i].val) = Key(aws[i].val)

(* A Create is on its way only when nothing has the names it will give.     *)
NothingFound ==
  pc \in {"manage", "create"} /\ ~M.key.needsID => Found(desired) = {}

NamesInv == NamedOnce /\ NothingFound

LEMMA NamesStayOnce ==
  ASSUME UNCHANGED subject, NamedOnce, NamesKept
  PROVE  NamedOnce'
<1> SUFFICES ASSUME ~M.key.needsID, NEW i \in Ids, NEW j \in Ids,
                    Live(i)', Live(j)', Key(aws'[i].val) = Key(aws'[j].val)
             PROVE  i = j
  BY DEF NamedOnce, subject, M, Key
<1> QED
  BY DEF NamedOnce, NamesKept

LEMMA NothingComes ==
  ASSUME UNCHANGED subject, UNCHANGED desired, NamesKept, ~M.key.needsID,
         Found(desired) = {}
  PROVE  Found(desired)' = {}
<1> SUFFICES ASSUME NEW i \in Ids, Live(i)', Key(aws'[i].val) = Key(desired.val)
             PROVE  FALSE
  BY DEF Found, subject, M, Key
<1> QED
  BY DEF NamesKept, Found

(* Every step but Create keeps the names. *)
LEMMA FieldKeepsName ==
  ASSUME TypeOK, NEW i \in Ids, NEW f \in tracked \ M.key.fields, NEW v \in Values,
         aws' = [aws EXCEPT ![i].val[f] = v], UNCHANGED subject
  PROVE  NamesKept
<1> SUFFICES ASSUME NEW j \in Ids, Live(j)'
             PROVE  Live(j) /\ Key(aws'[j].val) = Key(aws[j].val)
  BY DEF NamesKept
<1>1. aws[j] \in Resource /\ aws[i] \in Resource
  BY DEF TypeOK
<1>2. aws'[j].st = aws[j].st
  BY <1>1 DEF TypeOK, Resource
<1>3. \A g \in tracked \cap M.key.fields : aws'[j].val[g] = aws[j].val[g]
  BY <1>1 DEF TypeOK, Resource, Vals
<1> QED
  BY <1>2, <1>3 DEF Live, Key

LEMMA PutKeepsName ==
  ASSUME TypeOK, NEW i \in Ids, Live(i), NEW st, NEW val, NEW other,
         aws' = [aws EXCEPT ![i] = Put(st, val, other)], Key(val) = Key(aws[i].val)
  PROVE  NamesKept
<1> SUFFICES ASSUME NEW j \in Ids, Live(j)'
             PROVE  Live(j) /\ Key(aws'[j].val) = Key(aws[j].val)
  BY DEF NamesKept
<1>1. CASE j = i
  <2>1. aws'[i].val = val
    BY DEF TypeOK, Put
  <2> QED
    BY <1>1, <2>1
<1>2. CASE j # i
  <2>1. aws'[j] = aws[j]
    BY <1>2 DEF TypeOK
  <2> QED
    BY <2>1 DEF Live
<1> QED
  BY <1>1, <1>2

(* The service's own steps, the requests about an existing resource, and the *)
(* steps that reach no resource.                                             *)
LEMMA ServiceKeepsNames ==
  ASSUME TypeInv, UNCHANGED subject, Service
  PROVE  NamesKept
<1>1. PICK i \in Ids : Settle(i) \/ Proceed(i) \/ FailSettle(i) \/ Drift(i)
  BY DEF Service
<1>2. Live(i) /\ ServicePuts(i)
  BY <1>1, ServiceIsPut
<1> QED
  BY <1>2, PutKeepsName DEF ServicePuts, TypeInv

LEMMA UpdateKeepsName ==
  ASSUME TypeInv, NEW i \in Ids, UpdateCall(i)
  PROVE  NamesKept
<1> DEFINE new == Overlay(Sent, desired.val, aws[i].val)
<1>1. aws' = [aws EXCEPT ![i] = Put(Life.updating, new, FALSE)]
  BY DEF UpdateCall, TypeInv, TypeOK
<1>2. Live(i)
  BY FoundIsMade DEF UpdateCall
<1>3. Key(new) = Key(aws[i].val)
  BY DEF Sent, Carried, Overlay, Key
<1> HIDE DEF new
<1> QED
  BY <1>1, <1>2, <1>3, PutKeepsName DEF TypeInv

LEMMA DeleteKeepsName ==
  ASSUME TypeInv, NEW i \in Ids, DeleteCall(i)
  PROVE  NamesKept
<1>1. aws' = [aws EXCEPT ![i] = Put(Life.deleting, aws[i].val, FALSE)]
  BY DEF DeleteCall, TypeInv, TypeOK
<1> QED
  BY <1>1, FoundIsMade, PutKeepsName DEF DeleteCall, TypeInv

LEMMA RequestKeepsNames ==
  ASSUME TypeInv, TagStep, UNCHANGED subject, SyncTags \/ Update \/ Delete
  PROVE  NamesKept
<1>1. CASE UNCHANGED aws
  BY <1>1 DEF NamesKept, Live, Key
<1>2. CASE SyncTags /\ aws' = [aws EXCEPT ![latest.id].val["Tags"] = desired.val["Tags"]]
  <2>1. latest.id \in Ids /\ "Tags" \in tracked
    BY <1>2 DEF SyncTags, At, TagStep
  <2>2. "Tags" \notin M.key.fields
    BY NamesAssumption DEF TypeInv, TypeOK, M
  <2>3. desired.val["Tags"] \in Values
    BY <2>1 DEF TypeInv, TypeOK, View, Vals
  <2> QED
    BY <1>2, <2>1, <2>2, <2>3, FieldKeepsName DEF TypeInv
<1>3. CASE \E i \in Ids : UpdateCall(i)
  BY <1>3, UpdateKeepsName
<1>4. CASE \E i \in Ids : DeleteCall(i)
  BY <1>4, DeleteKeepsName
<1> QED
  BY <1>1, <1>2, <1>3, <1>4
  DEF SyncTags, Update, NothingElse, CustomUpdate, NotUpdatable, UpdateRefused,
      Delete, NotDeletable, DeleteRefused

LEMMA QuietKeepsNames ==
  ASSUME UNCHANGED subject, UNCHANGED service
  PROVE  NamesKept
BY DEF NamesKept, Live, Key, service

(* A Create touches one resource, and names it as the request does. *)
LEMMA CreatedIsNamed ==
  ASSUME TypeInv, UNCHANGED subject, Creates
  PROVE  /\ Key(aws'[made'].val) = Key(desired.val)
         /\ \A k \in Ids \ {made'} : aws'[k] = aws[k]
<1> DEFINE new == Filled(Overlay(M.sends, desired.val, Unset))
<1>1. Key(new) = Key(desired.val)
  <2>1. M.key.fields \subseteq M.sends /\ M.key.fields \cap M.defaults = {}
    BY NamesAssumption DEF TypeInv, TypeOK, M
  <2>2. \A f \in tracked \cap M.key.fields : new[f] = desired.val[f]
    BY <2>1 DEF Filled, Overlay
  <2> QED
    BY <2>2 DEF Key
<1>2. made' \in Ids
  BY TypeCreates
<1>3. aws' = [aws EXCEPT ![made'] = Put(Life.creating, new, FALSE)]
  BY DEF Creates
<1> HIDE DEF new
<1>4. aws'[made'] = Put(Life.creating, new, FALSE)
  BY <1>2, <1>3 DEF TypeInv, TypeOK
<1>5. aws'[made'].val = new
  BY <1>4 DEF Put
<1> QED
  BY <1>1, <1>2, <1>3, <1>5 DEF TypeInv, TypeOK

(* A Create gives its resource names that nothing had. *)
LEMMA CreatesNamesOnce ==
  ASSUME TypeInv, NamesInv, UNCHANGED subject, pc = "create", Creates
  PROVE  NamedOnce'
<1> SUFFICES ASSUME ~M.key.needsID, NEW i \in Ids, NEW j \in Ids,
                    Live(i)', Live(j)', Key(aws'[i].val) = Key(aws'[j].val), i # j
             PROVE  FALSE
  BY DEF NamedOnce, subject, M, Key
<1>1. Found(desired) = {}
  BY DEF NamesInv, NothingFound
<1>2. Key(aws'[made'].val) = Key(desired.val) /\ \A k \in Ids \ {made'} : aws'[k] = aws[k]
  BY CreatedIsNamed
<1>3. \A k \in Ids \ {made'} : Live(k)' => Live(k) /\ Key(aws'[k].val) # Key(desired.val)
  BY <1>1, <1>2 DEF Live, Found
<1>4. CASE i = made' \/ j = made'
  BY <1>2, <1>3, <1>4
<1>5. CASE i # made' /\ j # made'
  BY <1>2, <1>3, <1>5 DEF NamesInv, NamedOnce
<1> QED
  BY <1>4, <1>5

LEMMA NamesNext ==
  ASSUME TypeInv, TagStep, NamesInv, [Next]_vars
  PROVE  NamesInv'
<1>1. UNCHANGED subject
  BY DEF Next, vars
<1>2. ASSUME NamesKept, pc' \notin {"manage", "create"}
      PROVE  NamesInv'
  BY <1>1, <1>2, NamesStayOnce DEF NamesInv, NothingFound
<1>3. ASSUME NamesKept, UNCHANGED desired, NothingFound, pc' = pc
      PROVE  NamesInv'
  BY <1>1, <1>3, NamesStayOnce, NothingComes DEF NamesInv, NothingFound, subject, M
<1>4. CASE UNCHANGED vars
  BY <1>1, <1>3, <1>4, QuietKeepsNames DEF vars, controller, NamesInv
<1>5. CASE User \/ Forget \/ Resync
  BY <1>1, <1>3, <1>5, QuietKeepsNames
  DEF User, DeleteCR, EditSpec, Forget, Resync, controller, NamesInv
<1>6. CASE Service
  BY <1>1, <1>3, <1>6, ServiceKeepsNames
  DEF Service, Settle, Proceed, FailSettle, Drift, controller, NamesInv
<1>7. CASE SyncTags \/ Update \/ Delete
  BY <1>1, <1>2, <1>7, RequestKeepsNames
  DEF SyncTags, Update, NothingElse, CustomUpdate, NotUpdatable, UpdateRefused,
      UpdateCall, Delete, NotDeletable, DeleteRefused, DeleteCall, Refused,
      StopWith, Goto
<1>8. CASE Reconcile \/ Compare \/ MarkUnmanaged \/ Confirm \/ PatchSpec
           \/ LateInitialize \/ PatchStatus \/ ReadToDelete \/ Release \/ Crash
  BY <1>1, <1>2, <1>8, QuietKeepsNames
  DEF Reconcile, Compare, MarkUnmanaged, Confirm, PatchSpec, LateInitialize,
      MergePatch, Last, PatchStatus, ReadToDelete, ReadFails, Release, Crash, Refused, StopWith, Goto
<1>9. CASE ReadOne
  <2>1. NamesKept
    BY <1>1, <1>9, QuietKeepsNames DEF ReadOne
  <2>2. CASE pc' \in {"manage", "create"}
    <3>1. Found(desired) = {} /\ UNCHANGED desired
      BY <1>9, <2>2 DEF ReadOne, ReadFails, Refused, StopWith, Goto
    <3>2. ~M.key.needsID => Found(desired)' = {}
      BY <1>1, <2>1, <3>1, NothingComes
    <3> QED
      BY <1>1, <2>1, <3>2, NamesStayOnce DEF NamesInv, NothingFound, subject, M
  <2> QED
    BY <1>2, <2>1, <2>2
<1>10. CASE MarkManaged
  <2>1. NamesKept /\ UNCHANGED desired
    BY <1>1, <1>10, QuietKeepsNames DEF MarkManaged
  <2>2. ~M.key.needsID => Found(desired)' = {}
    BY <1>1, <1>10, <2>1, NothingComes DEF MarkManaged, At, NamesInv, NothingFound
  <2> QED
    BY <1>1, <2>1, <2>2, NamesStayOnce DEF NamesInv, NothingFound, subject, M
<1>11. CASE Create
  <2>1. pc = "create" /\ pc' \notin {"manage", "create"}
    BY <1>11 DEF Create, At, Goto
  <2>2. CASE Creates
    BY <1>1, <2>1, <2>2, CreatesNamesOnce DEF NamesInv, NothingFound
  <2>3. CASE UNCHANGED service
    BY <1>1, <1>2, <2>1, <2>3, QuietKeepsNames
  <2> QED
    BY <1>11, <2>2, <2>3 DEF Create
<1> QED
  BY <1>4, <1>5, <1>6, <1>7, <1>8, <1>9, <1>10, <1>11
  DEF Next, Worker, Sync, Remove

(* A kind that is found by the user's names never has two resources under   *)
(* the same names: between the lookup that finds none and the Create,       *)
(* nothing but this object's own Create can make one.                       *)
THEOREM NamesAreUnique == Spec => []NamedOnce
<1>1. Init => TypeInv /\ TagStep /\ NamesInv
  <2>1. Init => TypeInv /\ TagStep /\ NothingFound
    BY TypeInit DEF Init, TagStep, NothingFound
  <2>2. Init => \A i \in Ids : ~Live(i)
    BY DEF Init, Live, Put
  <2> QED
    BY <2>1, <2>2 DEF NamesInv, NamedOnce
<1>2. TypeInv /\ TagStep /\ NamesInv /\ [Next]_vars => (TypeInv /\ TagStep /\ NamesInv)'
  BY TypeNext, TagStepNext, NamesNext
<1>3. NamesInv => NamedOnce
  BY DEF NamesInv
<1> QED
  BY <1>1, <1>2, <1>3, PTL DEF Spec

-----------------------------------------------------------------------------
(* The status a guard will look at is the one the resource has, unless the  *)
(* resource has come to rest since it was read, or somebody else has set    *)
(* something going.                                                         *)
Guarding == {"compare", "tags", "update", "delete"}

(* An operation of the controller's own is under way. *)
Busy(i) == InFlight(aws[i].st) /\ ~aws[i].other

AsRead(view) == \A j \in Found(view) : Busy(j) => InFlight(view.status)

StatusIsRead == pc \in Guarding => AsRead(latest)

(* What a step may do to such an operation: leave it, or end it. *)
StatusesRest == \A i \in Ids : Live(i)' /\ Busy(i)' => Busy(i)

LEMMA FoundWasFound ==
  ASSUME UNCHANGED subject, NamesKept, NEW view, NEW i \in Ids,
         Live(i)', Key(aws'[i].val) = Key(view.val), M.key.needsID => i = view.id
  PROVE  i \in Found(view)
BY DEF NamesKept, Found

LEMMA StaysAsRead ==
  ASSUME UNCHANGED subject, UNCHANGED latest, NamesKept, StatusesRest,
         AsRead(latest)
  PROVE  AsRead(latest)'
<1> SUFFICES ASSUME NEW j \in Ids, Live(j)', Key(aws'[j].val) = Key(latest.val),
                    M.key.needsID => j = latest.id
             PROVE  Busy(j)' => InFlight(latest.status)
  BY DEF AsRead, Found, Key, M, Life, subject, InFlight
<1>1. j \in Found(latest)
  BY FoundWasFound
<1> QED
  BY <1>1 DEF AsRead, StatusesRest

LEMMA ServiceRests ==
  ASSUME TypeInv, UNCHANGED subject, Service
  PROVE  StatusesRest
<1>1. PICK i \in Ids : Settle(i) \/ Proceed(i) \/ FailSettle(i) \/ Drift(i)
  BY DEF Service
<1>2. PICK st \in Statuses, val \in Vals, other \in BOOLEAN :
        /\ aws' = [aws EXCEPT ![i] = Put(st, val, other)]
        /\ InFlight(st) /\ ~other => Busy(i)
  BY <1>1, ServiceIsPut DEF ServicePuts, Busy
<1>3. aws'[i].st = st /\ aws'[i].other = (other /\ InFlight(st))
  BY <1>2, PutIsTyped DEF TypeInv, TypeOK
<1>4. \A j \in Ids : j # i => aws'[j] = aws[j]
  BY <1>2 DEF TypeInv, TypeOK
<1> QED
  BY <1>2, <1>3, <1>4 DEF StatusesRest, Busy, InFlight, Life, M, subject

(* What Get returns is the one resource the view it fills will find. *)
LEMMA ObservedIsAsRead ==
  ASSUME TypeInv, NamedOnce, NEW view, NEW i \in Found(view)
  PROVE  AsRead(Observed(view, i))
<1> DEFINE seen == Observed(view, i)
<1> SUFFICES ASSUME NEW j \in Found(seen) PROVE aws[j].st = seen.status
  BY DEF AsRead, Busy
<1>1. i \in Ids /\ j \in Ids /\ Live(i) /\ Live(j)
  BY FoundIsMade
<1>2. Key(seen.val) = Key(aws[i].val)
  <2>1. Key(aws[i].val) = Key(view.val)
    BY DEF Found
  <2>2. Key(Shown(view, i)) = Key(view.val)
    BY <2>1, ShownIsNamed DEF TypeInv
  <2>3. \A f \in tracked \cap M.key.fields : Shown(view, i)[f] = view.val[f]
    BY <2>2 DEF Key
  <2>4. Key(seen.val) = Key(view.val)
    BY <2>3 DEF Key, Observed, Overlay
  <2> QED
    BY <2>1, <2>4
<1>3. CASE M.key.needsID
  BY <1>3 DEF Found, Observed
<1>4. CASE ~M.key.needsID
  <2>1. Key(aws[j].val) = Key(aws[i].val)
    BY <1>2 DEF Found
  <2>2. i = j
    BY <1>1, <1>4, <2>1 DEF NamedOnce
  <2> QED
    BY <2>2 DEF Observed
<1> QED
  BY <1>3, <1>4

LEMMA StatusNext ==
  ASSUME TypeInv, TagStep, NamesInv, StatusIsRead, [Next]_vars
  PROVE  StatusIsRead'
<1>1. UNCHANGED subject
  BY DEF Next, vars
<1>2. ASSUME pc' \notin Guarding
      PROVE  StatusIsRead'
  BY <1>2 DEF StatusIsRead
<1>3. ASSUME NamesKept, StatusesRest, UNCHANGED latest, pc \in Guarding \/ pc' = pc
      PROVE  StatusIsRead'
  BY <1>1, <1>3, StaysAsRead DEF StatusIsRead
<1>4. UNCHANGED aws => StatusesRest
  BY <1>1 DEF StatusesRest, Busy, InFlight, Life, M, subject
<1>5. CASE UNCHANGED vars
  BY <1>1, <1>3, <1>4, <1>5, QuietKeepsNames DEF vars, controller, service
<1>6. CASE User \/ Forget \/ Resync
  BY <1>1, <1>3, <1>4, <1>6, QuietKeepsNames
  DEF User, DeleteCR, EditSpec, Forget, Resync, controller, service
<1>7. CASE Service
  BY <1>1, <1>3, <1>7, ServiceKeepsNames, ServiceRests
  DEF Service, Settle, Proceed, FailSettle, Drift, controller
<1>8. CASE Compare
  BY <1>1, <1>3, <1>4, <1>8, QuietKeepsNames DEF Compare, At, Guarding, service
<1>9. CASE SyncTags
  <2>1. StatusesRest
    <3>1. \A j \in Ids : aws'[j].st = aws[j].st /\ aws'[j].other = aws[j].other
      BY <1>9 DEF SyncTags, TypeInv, TypeOK, Resource
    <3> QED
      BY <1>1, <3>1 DEF StatusesRest, Busy, InFlight, Life, M, subject
  <2> QED
    BY <1>1, <1>3, <1>9, <2>1, RequestKeepsNames DEF SyncTags, At, Guarding
<1>10. CASE ReadOne \/ ReadToDelete
  <2>1. CASE pc' \in Guarding
    <3>1. PICK i \in Found(desired) : latest' = Observed(desired, i)
      BY <1>10, <2>1 DEF ReadOne, ReadFails, ReadToDelete, Refused, StopWith, Goto, Guarding
    <3>2. AsRead(Observed(desired, i))
      BY ObservedIsAsRead DEF NamesInv
    <3>3. UNCHANGED service
      BY <1>10 DEF ReadOne, ReadToDelete
    <3> QED
      BY <1>1, <3>1, <3>2, <3>3
      DEF StatusIsRead, AsRead, Busy, Found, Live, Key, M, Life, InFlight, subject, service
  <2> QED
    BY <1>2, <2>1
<1>11. CASE Reconcile \/ MarkManaged \/ Create \/ MarkUnmanaged \/ Confirm
            \/ PatchSpec \/ LateInitialize \/ PatchStatus \/ Release \/ Crash
  BY <1>2, <1>11 DEF Reconcile, MarkManaged, Create, MarkUnmanaged, Confirm,
     PatchSpec, LateInitialize, MergePatch, Last, PatchStatus, Release, Crash,
     Refused, StopWith, Goto, Guarding
<1>12. CASE Update \/ Delete
  BY <1>2, <1>12 DEF Update, NothingElse, CustomUpdate, NotUpdatable,
     UpdateRefused, UpdateCall, Delete, NotDeletable, DeleteRefused, DeleteCall,
     Refused, StopWith, Goto, Guarding
<1> QED
  BY <1>5, <1>6, <1>7, <1>8, <1>9, <1>10, <1>11, <1>12
  DEF Next, Worker, Sync, Remove

(* A guarded kind runs into no operation of its own, whatever the service    *)
(* and others do between the read and the call: what it finds in transition  *)
(* then was set going by somebody else.                                      *)
THEOREM CallsAreGuarded == Spec => []NoCallInTransition
<1>1. Init => TypeInv /\ TagStep /\ NamesInv /\ StatusIsRead
  <2>1. Init => TypeInv /\ TagStep /\ NothingFound /\ StatusIsRead
    BY TypeInit DEF Init, TagStep, NothingFound, StatusIsRead, Guarding
  <2>2. Init => \A i \in Ids : ~Live(i)
    BY DEF Init, Live, Put
  <2> QED
    BY <2>1, <2>2 DEF NamesInv, NamedOnce
<1>2. TypeInv /\ TagStep /\ NamesInv /\ StatusIsRead /\ [Next]_vars
        => (TypeInv /\ TagStep /\ NamesInv /\ StatusIsRead)'
  BY TypeNext, TagStepNext, NamesNext, StatusNext
<1>3. StatusIsRead => NoCallInTransition
  BY DEF StatusIsRead, AsRead, Busy, Guarding, NoCallInTransition
<1> QED
  BY <1>1, <1>2, <1>3, PTL DEF Spec

-----------------------------------------------------------------------------
(* The identifier in the object's status leads to the resource its names    *)
(* lead to, as long as the user does not change those: what the worker      *)
(* carries through a reconcile goes by the names of the object, and an      *)
(* identifier other than the object's means that the object's is gone.      *)
Named(id) == id # 0 /\ Live(id) => Key(aws[id].val) = Key(cr.val)

Lost == cr.id # 0 => ~Live(cr.id)

Carries ==
  /\ desired.id = cr.id
  /\ Key(desired.val) = Key(cr.val) /\ Key(latest.val) = Key(cr.val)
  /\ Named(latest.id)
  /\ latest.id # cr.id => Lost
  /\ pc \in {"manage", "create"} => Lost

Remembered == spent.rekeys = 0 => Named(cr.id) /\ (pc # "idle" => Carries)

LEMMA OverlayKeepsKey ==
  ASSUME NEW fields, NEW from, NEW onto, Key(from) = Key(onto)
  PROVE  Key(Overlay(fields, from, onto)) = Key(onto)
<1>1. \A f \in tracked \cap M.key.fields : from[f] = onto[f]
  BY DEF Key
<1> QED
  BY <1>1 DEF Key, Overlay

LEMMA MergeKeepsKey ==
  ASSUME TypeOK, NEW from, NEW to, NEW step, MergePatch(from, to, step), Key(from) = Key(to)
  PROVE  cr'.id = cr.id /\ Key(cr'.val) = Key(cr.val)
<1> DEFINE new == [f \in tracked |-> IF to[f] # from[f] THEN to[f] ELSE cr.val[f]]
<1>1. \A f \in tracked \cap M.key.fields : from[f] = to[f]
  BY DEF Key
<1>2. Key(new) = Key(cr.val)
  BY <1>1 DEF Key
<1>3. UNCHANGED cr \/ cr' = [cr EXCEPT !.val = new]
  BY DEF MergePatch
<1> HIDE DEF new
<1> QED
  BY <1>2, <1>3 DEF TypeOK, Object

(* What a view finds goes by the object's names, and if it is not what the  *)
(* object's identifier says, that is gone.                                  *)
LEMMA FoundIsNamed ==
  ASSUME TypeInv, NamedOnce, Remembered, spent.rekeys = 0, pc # "idle",
         NEW view \in {desired, latest}, NEW i \in Found(view)
  PROVE  /\ i \in Ids /\ Live(i)
         /\ Key(view.val) = Key(cr.val) /\ Key(aws[i].val) = Key(cr.val)
         /\ i # cr.id => Lost
<1>1. i \in Ids /\ Live(i)
  BY FoundIsMade
<1>2. Carries /\ Named(cr.id)
  BY DEF Remembered
<1>3. Key(aws[i].val) = Key(view.val) /\ Key(view.val) = Key(cr.val)
  BY <1>2 DEF Found, Carries
<1>4. ASSUME i # cr.id, cr.id # 0, Live(cr.id) PROVE FALSE
  <2>1. cr.id \in Ids
    BY <1>4, BoundsAssumption DEF TypeInv, TypeOK, Object, Ids
  <2>2. CASE M.key.needsID
    BY <1>2, <1>4, <2>2 DEF Found, Carries, Lost
  <2>3. CASE ~M.key.needsID
    BY <1>1, <1>2, <1>3, <1>4, <2>1, <2>3 DEF Named, NamedOnce
  <2> QED
    BY <2>2, <2>3
<1> QED
  BY <1>1, <1>3, <1>4 DEF Lost

(* What a step that brings nothing to life has to show. *)
LEMMA StaysRemembered ==
  ASSUME TypeInv, TypeInv', UNCHANGED subject, UNCHANGED made, Remembered, NamesKept,
         spent'.rekeys = 0 =>
           /\ spent.rekeys = 0
           /\ cr'.id = cr.id /\ Key(cr'.val) = Key(cr.val)
           /\ pc' # "idle" => /\ pc # "idle" /\ UNCHANGED desired
                              /\ Key(latest'.val) = Key(cr.val)
                              /\ Named(latest'.id) /\ (latest'.id # cr.id => Lost)
                              /\ pc' \in {"manage", "create"} => Lost
  PROVE  Remembered'
<1> SUFFICES ASSUME spent'.rekeys = 0
             PROVE  (Named(cr.id) /\ (pc # "idle" => Carries))'
  BY DEF Remembered
<1>1. \A id \in 0..made : id # 0 => id \in Ids
  BY BoundsAssumption DEF TypeInv, TypeOK, Ids
<1>2. cr.id \in 0..made /\ cr'.id = cr.id
  BY DEF TypeInv, TypeOK, Object
<1>3. Named(cr.id)'
  BY <1>1, <1>2 DEF Remembered, Named, NamesKept, Key, M, subject
<1>4. ASSUME pc' # "idle" PROVE Carries'
  <2>1. Carries
    BY <1>4 DEF Remembered
  <2>2. latest'.id \in 0..made
    BY DEF TypeInv, TypeOK, View
  <2>3. Lost => Lost'
    BY <1>1, <1>2 DEF Lost, NamesKept
  <2>4. Named(latest.id)'
    BY <1>1, <1>4, <2>2 DEF Named, NamesKept, Key, M, subject
  <2>5. (Key(desired.val) = Key(cr.val) /\ Key(latest.val) = Key(cr.val))'
    BY <1>4, <2>1 DEF Carries, Key, M, subject
  <2> QED
    BY <1>2, <1>4, <2>1, <2>3, <2>4, <2>5 DEF Carries
<1> QED
  BY <1>3, <1>4

(* The steps that leave the views alone. *)
LEMMA QuietRemembers ==
  ASSUME TypeInv, TypeInv', UNCHANGED subject, UNCHANGED made, Remembered, NamesKept,
         UNCHANGED <<desired, latest>> \/ pc' = "idle",
         spent'.rekeys = 0 => spent.rekeys = 0 /\ cr'.id = cr.id /\ Key(cr'.val) = Key(cr.val),
         pc' = pc \/ pc' = "idle" \/ (pc # "idle" /\ pc' \notin {"manage", "create"})
                  \/ (pc = "manage" /\ pc' = "create")
  PROVE  Remembered'
<1> SUFFICES ASSUME spent'.rekeys = 0, pc' # "idle"
             PROVE  /\ pc # "idle" /\ UNCHANGED desired
                    /\ Key(latest'.val) = Key(cr.val)
                    /\ Named(latest'.id) /\ (latest'.id # cr.id => Lost)
                    /\ pc' \in {"manage", "create"} => Lost
  BY StaysRemembered
<1>1. Carries /\ pc # "idle"
  BY DEF Remembered
<1>2. latest' = latest /\ desired' = desired
  OBVIOUS
<1> QED
  BY <1>1, <1>2 DEF Carries

(* The steps that make a view of what they found. *)
LEMMA FindRemembers ==
  ASSUME TypeInv, TypeInv', UNCHANGED subject, UNCHANGED made, Remembered, NamedOnce, NamesKept,
         pc # "idle", UNCHANGED desired, pc' \notin {"manage", "create"},
         NEW view \in {desired, latest}, NEW i \in Found(view), latest'.id = i,
         spent.rekeys = 0 => Key(latest'.val) = Key(cr.val),
         spent'.rekeys = 0 => spent.rekeys = 0 /\ cr'.id = cr.id /\ Key(cr'.val) = Key(cr.val)
  PROVE  Remembered'
<1> SUFFICES ASSUME spent'.rekeys = 0
             PROVE  /\ Key(latest'.val) = Key(cr.val)
                    /\ Named(latest'.id) /\ (latest'.id # cr.id => Lost)
  BY StaysRemembered
<1>1. Key(aws[i].val) = Key(cr.val) /\ (i # cr.id => Lost)
  BY FoundIsNamed
<1> QED
  BY <1>1 DEF Named

LEMMA SpendKeepsRekeys ==
  ASSUME TypeOK, NEW o \in Occasions \ {"rekeys"}, Spend(o)
  PROVE  spent'.rekeys = spent.rekeys
BY DEF TypeOK, Spend, Occasions

(* An edit of a name is counted; any other leaves the names alone. *)
LEMMA EditRemembers ==
  ASSUME TypeInv, TypeInv', UNCHANGED subject, Remembered, User
  PROVE  Remembered'
<1>1. UNCHANGED <<made, desired, latest, pc>> /\ NamesKept
  BY QuietKeepsNames DEF User, DeleteCR, EditSpec, controller, service
<1>2. spent'.rekeys = 0 => spent.rekeys = 0 /\ cr'.id = cr.id /\ Key(cr'.val) = Key(cr.val)
  <2>1. CASE DeleteCR
    BY <2>1 DEF DeleteCR, TypeInv, TypeOK, Object
  <2>2. ASSUME NEW f \in tracked, EditSpec(f)
        PROVE  spent'.rekeys = 0 => /\ spent.rekeys = 0 /\ cr'.id = cr.id
                                    /\ Key(cr'.val) = Key(cr.val)
    <3>1. spent.rekeys \in Nat
      BY DEF TypeInv, TypeOK, Occasions
    <3>2. spent'.rekeys = spent.rekeys + IF f \in M.key.fields THEN 1 ELSE 0
      BY <2>2 DEF EditSpec, TypeInv, TypeOK, Occasions
    <3>3. PICK v : cr' = [cr EXCEPT !.val[f] = v]
      BY <2>2 DEF EditSpec
    <3>4. cr'.id = cr.id /\ cr'.val = [cr.val EXCEPT ![f] = v]
      BY <3>3 DEF TypeInv, TypeOK, Object
    <3>5. f \notin M.key.fields => Key(cr'.val) = Key(cr.val)
      BY <3>4 DEF Key, TypeInv, TypeOK, Object, Vals
    <3> QED
      BY <3>1, <3>2, <3>4, <3>5
  <2> QED
    BY <2>1, <2>2 DEF User
<1> QED
  BY <1>1, <1>2, QuietRemembers

LEMMA ReadRemembers ==
  ASSUME TypeInv, TypeInv', UNCHANGED subject, Remembered, NamedOnce,
         ReadOne \/ ReadToDelete
  PROVE  Remembered'
<1>1. UNCHANGED <<made, desired, cr>> /\ pc # "idle" /\ NamesKept
  BY QuietKeepsNames DEF ReadOne, ReadToDelete, At, service
<1>2. spent'.rekeys = spent.rekeys
  BY SpendKeepsRekeys DEF ReadOne, ReadToDelete, ReadFails, Refused, Occasions, TypeInv
<1>3. CASE \E i \in Found(desired) :
             latest' = Observed(desired, i) /\ pc' \notin {"manage", "create"}
  <2>1. PICK i \in Found(desired) : latest' = Observed(desired, i) /\ pc' \notin {"manage", "create"}
    BY <1>3
  <2>2. latest'.id = i
    BY <2>1 DEF Observed
  <2>3. ASSUME spent.rekeys = 0 PROVE Key(latest'.val) = Key(cr.val)
    <3>1. Key(aws[i].val) = Key(desired.val) /\ Key(desired.val) = Key(cr.val)
      BY <1>1, <2>3, FoundIsNamed DEF Found
    <3>2. Key(Shown(desired, i)) = Key(desired.val)
      BY <3>1, ShownIsNamed DEF TypeInv
    <3> QED
      BY <2>1, <3>1, <3>2, OverlayKeepsKey DEF Observed
  <2> QED
    BY <1>1, <1>2, <2>1, <2>2, <2>3, FindRemembers
<1>4. CASE Found(desired) = {} /\ UNCHANGED latest
  <2>1. ASSUME spent.rekeys = 0 PROVE Carries /\ Lost
    <3>1. Carries /\ Named(cr.id)
      BY <1>1, <2>1 DEF Remembered
    <3>2. cr.id # 0 => cr.id \in Ids
      BY BoundsAssumption DEF TypeInv, TypeOK, Object, Ids
    <3> QED
      BY <1>4, <3>1, <3>2 DEF Named, Carries, Found, Lost
  <2> QED
    BY <1>1, <1>2, <1>4, <2>1, StaysRemembered DEF Carries
<1>5. CASE ReadFails
  BY <1>1, <1>2, <1>5, QuietRemembers DEF ReadFails, Refused, StopWith, Goto
<1> QED
  BY <1>3, <1>4, <1>5 DEF ReadOne, ReadToDelete, StopWith, Goto

LEMMA ConfirmRemembers ==
  ASSUME TypeInv, TypeInv', UNCHANGED subject, Remembered, NamedOnce, Confirm
  PROVE  Remembered'
<1>1. UNCHANGED <<made, desired, cr>> /\ pc # "idle" /\ NamesKept
  BY QuietKeepsNames DEF Confirm, At, service
<1>2. spent'.rekeys = spent.rekeys /\ pc' \notin {"manage", "create"}
  BY SpendKeepsRekeys DEF Confirm, Refused, StopWith, Goto, Occasions, TypeInv
<1>3. ASSUME NEW i \in Found(latest), latest' = Confirmed(i)
      PROVE  Remembered'
  <2>1. latest'.id = i /\ latest'.val = latest.val
    BY <1>3 DEF Confirmed, TypeInv, TypeOK, View
  <2>2. spent.rekeys = 0 => Key(latest'.val) = Key(cr.val)
    BY <1>1, <1>3, <2>1, FoundIsNamed
  <2> QED
    BY <1>1, <1>2, <2>1, <2>2, FindRemembers
<1>4. CASE UNCHANGED latest
  BY <1>1, <1>2, <1>4, QuietRemembers
<1> QED
  BY <1>3, <1>4 DEF Confirm

LEMMA CreateRemembers ==
  ASSUME TypeInv, TypeInv', UNCHANGED subject, Remembered, Create
  PROVE  Remembered'
<1>1. UNCHANGED <<cr, desired>> /\ pc = "create" /\ pc' \notin {"idle", "manage", "create"}
  BY DEF Create, At, Goto
<1>2. spent'.rekeys = spent.rekeys
  BY SpendKeepsRekeys DEF Create, Occasions, TypeInv
<1>3. CASE UNCHANGED <<latest, service>>
  <2>1. UNCHANGED made /\ NamesKept
    BY <1>3, QuietKeepsNames DEF service
  <2> QED
    BY <1>1, <1>2, <1>3, <2>1, QuietRemembers
<1>4. CASE Creates
  <2> SUFFICES ASSUME spent'.rekeys = 0
               PROVE  Named(cr.id)' /\ Carries'
    BY DEF Remembered
  <2>1. Carries /\ Named(cr.id) /\ Lost
    BY <1>1, <1>2 DEF Remembered, Carries
  <2>2. /\ Key(aws'[made'].val) = Key(desired.val)
        /\ \A k \in Ids \ {made'} : aws'[k] = aws[k]
    BY <1>4, CreatedIsNamed
  <2>3. \A id \in 0..made : id # 0 => id \in Ids \ {made'}
    BY <1>4, BoundsAssumption DEF TypeInv, TypeOK, Ids, Creates
  <2>4. cr.id \in 0..made /\ latest.id \in 0..made
    BY DEF TypeInv, TypeOK, Object, View
  <2>5. Named(cr.id)' /\ Lost'
    BY <1>1, <2>1, <2>2, <2>3, <2>4 DEF Named, Lost, Live, Key, M, subject
  <2>6. CASE UNCHANGED latest
    <3>1. Named(latest.id)'
      BY <1>1, <2>1, <2>2, <2>3, <2>4, <2>6 DEF Carries, Named, Live, Key, M, subject
    <3> QED
      BY <1>1, <2>1, <2>5, <2>6, <3>1 DEF Carries, Key, M, subject
  <2>7. CASE latest' = Created
    <3>1. latest'.id = made'
      BY <2>7 DEF Created
    <3>2. Key(latest'.val) = Key(desired.val)
      BY <2>2, <2>7, OverlayKeepsKey DEF Created
    <3>3. Named(latest.id)'
      BY <1>1, <2>1, <2>2, <3>1 DEF Carries, Named, Key, M, subject
    <3> QED
      BY <1>1, <2>1, <2>5, <3>2, <3>3 DEF Carries, Key, M, subject
  <2> QED
    BY <1>4, <2>5, <2>6, <2>7 DEF Create
<1> QED
  BY <1>3, <1>4 DEF Create

LEMMA UpdateRemembers ==
  ASSUME TypeInv, TypeInv', TagStep, UNCHANGED subject, Remembered, NamedOnce, Update
  PROVE  Remembered'
<1>1. UNCHANGED <<made, desired, cr>> /\ pc = "update" /\ NamesKept
  BY RequestKeepsNames DEF Update, At
<1>2. pc' \notin {"idle", "manage", "create"}
  BY DEF Update, NothingElse, CustomUpdate, NotUpdatable, UpdateRefused, UpdateCall,
     Refused, StopWith, Goto
<1>3. spent'.rekeys = spent.rekeys
  BY SpendKeepsRekeys DEF Update, NothingElse, CustomUpdate, NotUpdatable, UpdateRefused,
     UpdateCall, Refused, Occasions, TypeInv
<1>4. CASE UNCHANGED latest
  BY <1>1, <1>2, <1>3, <1>4, QuietRemembers
<1>5. CASE latest' = desired \/ latest' = [latest EXCEPT !.val = desired.val]
  <2>1. latest'.val = desired.val /\ latest'.id \in {desired.id, latest.id}
    BY <1>5 DEF TypeInv, TypeOK, View
  <2>2. ASSUME spent.rekeys = 0
        PROVE  /\ Key(latest'.val) = Key(cr.val)
               /\ Named(latest'.id) /\ (latest'.id # cr.id => Lost)
    BY <1>1, <2>1, <2>2 DEF Remembered, Carries
  <2> QED
    BY <1>1, <1>2, <1>3, <2>2, StaysRemembered
<1>6. ASSUME NEW i \in Ids, UpdateCall(i),
             latest' = [val    |-> Overlay(M.update.returns, aws'[i].val, desired.val),
                        id     |-> i,
                        ver    |-> Version(aws'[i].val),
                        status |-> aws'[i].st]
      PROVE  Remembered'
  <2>1. i \in Found(desired) /\ latest'.id = i
    BY <1>6 DEF UpdateCall
  <2>2. ASSUME spent.rekeys = 0 PROVE Key(latest'.val) = Key(cr.val)
    <3>1. Key(desired.val) = Key(cr.val) /\ Key(aws[i].val) = Key(desired.val)
      BY <1>1, <2>1, <2>2, FoundIsNamed DEF Found
    <3>2. Live(i)'
      BY <1>6, LifeIsSound DEF UpdateCall, Live, Put, TypeInv, TypeOK
    <3>3. Key(aws'[i].val) = Key(desired.val)
      BY <1>1, <3>1, <3>2 DEF NamesKept
    <3> QED
      BY <1>6, <3>1, <3>3, OverlayKeepsKey
  <2> QED
    BY <1>1, <1>2, <1>3, <2>1, <2>2, FindRemembers
<1> QED
  BY <1>4, <1>5, <1>6
  DEF Update, NothingElse, CustomUpdate, NotUpdatable, UpdateRefused, UpdateCall

LEMMA PatchRemembers ==
  ASSUME TypeInv, TypeInv', UNCHANGED subject, Remembered, NamedOnce,
         PatchSpec \/ LateInitialize
  PROVE  Remembered'
<1>1. UNCHANGED <<made, desired>> /\ pc # "idle" /\ NamesKept
  BY QuietKeepsNames DEF PatchSpec, LateInitialize, At, service
<1>2. spent'.rekeys = spent.rekeys /\ pc' \notin {"manage", "create"}
  BY SpendKeepsRekeys DEF PatchSpec, LateInitialize, MergePatch, Last, Refused, StopWith,
     Goto, Occasions, TypeInv
<1>3. CASE PatchSpec
  <2>1. ASSUME spent.rekeys = 0 PROVE cr'.id = cr.id /\ Key(cr'.val) = Key(cr.val)
    <3>1. Key(desired.val) = Key(latest.val)
      BY <1>1, <2>1 DEF Remembered, Carries
    <3> QED
      BY <1>3, <3>1, MergeKeepsKey DEF PatchSpec, TypeInv
  <2> QED
    BY <1>1, <1>2, <1>3, <2>1, QuietRemembers DEF PatchSpec
<1>4. ASSUME NEW i \in Found(latest),
             latest' = [latest EXCEPT !.val = LateInitialized(i)],
             MergePatch(latest.val, LateInitialized(i), "patchStatus")
      PROVE  Remembered'
  <2>1. latest'.id = latest.id /\ latest'.val = LateInitialized(i)
    BY <1>4 DEF TypeInv, TypeOK, View
  <2>2. Key(LateInitialized(i)) = Key(latest.val)
    <3>1. Key(Shown(latest, i)) = Key(latest.val)
      BY <1>4, ShownIsNamed DEF Found, TypeInv
    <3>2. \A f \in tracked \cap M.key.fields : Shown(latest, i)[f] = latest.val[f]
      BY <3>1 DEF Key
    <3> QED
      BY <3>2 DEF LateInitialized, Key
  <2>3. cr'.id = cr.id /\ Key(cr'.val) = Key(cr.val)
    BY <1>4, <2>2, MergeKeepsKey DEF TypeInv
  <2>4. ASSUME spent.rekeys = 0
        PROVE  /\ Key(latest'.val) = Key(cr.val)
               /\ Named(latest'.id) /\ (latest'.id # cr.id => Lost)
    BY <1>1, <2>1, <2>2, <2>4 DEF Remembered, Carries
  <2> QED
    BY <1>1, <1>2, <2>3, <2>4, StaysRemembered
<1>5. CASE LateInitialize /\ UNCHANGED <<cr, latest>>
  BY <1>1, <1>2, <1>5, QuietRemembers
<1> QED
  BY <1>3, <1>4, <1>5 DEF LateInitialize

LEMMA RememberedNext ==
  ASSUME TypeInv, TypeInv', TagStep, NamedOnce, Remembered, [Next]_vars
  PROVE  Remembered'
<1>1. UNCHANGED subject
  BY DEF Next, vars
<1>2. CASE UNCHANGED vars
  <2>1. NamesKept /\ UNCHANGED <<made, desired, latest, cr, spent, pc>>
    BY <1>1, <1>2, QuietKeepsNames DEF vars, controller, service
  <2> QED
    BY <1>1, <2>1, QuietRemembers
<1>3. CASE Service
  <2>1. NamesKept /\ UNCHANGED <<made, desired, latest, cr, pc>>
    BY <1>1, <1>3, ServiceKeepsNames DEF Service, Settle, Proceed, FailSettle, Drift, controller
  <2>2. spent'.rekeys = spent.rekeys
    BY <1>3, SpendKeepsRekeys DEF Service, Settle, Proceed, FailSettle, Drift, Occasions, TypeInv
  <2> QED
    BY <1>1, <2>1, <2>2, QuietRemembers
<1>4. CASE Reconcile
  <2>1. NamesKept /\ UNCHANGED <<made, cr, spent, service, subject>>
    BY <1>1, <1>4, QuietKeepsNames DEF Reconcile, service
  <2>2. /\ desired' = [val |-> cr.val, id |-> cr.id, ver |-> cr.ver, status |-> cr.status]
        /\ latest' = desired' /\ pc' \in {"read", "readToDelete"}
    BY <1>4 DEF Reconcile, Goto
  <2> QED
    BY <2>1, <2>2 DEF Remembered, Carries, Named, Lost, Live, Key, M, subject, service
<1>5. CASE Forget \/ Resync \/ Compare \/ MarkManaged \/ MarkUnmanaged \/ Release
  <2>1. NamesKept /\ UNCHANGED <<made, spent>>
    BY <1>1, <1>5, QuietKeepsNames
    DEF Forget, Resync, Compare, MarkManaged, MarkUnmanaged, Release, service
  <2>2. cr'.id = cr.id /\ cr'.val = cr.val
    BY <1>5 DEF Forget, Resync, Compare, MarkManaged, MarkUnmanaged, Release,
       TypeInv, TypeOK, Object
  <2>3. UNCHANGED <<desired, latest>> \/ pc' = "idle"
    BY <1>5 DEF Forget, Resync, Compare, MarkManaged, MarkUnmanaged, Release, controller,
       Goto
  <2>4. \/ pc' = pc \/ pc' = "idle"
        \/ pc # "idle" /\ pc' \notin {"manage", "create"}
        \/ pc = "manage" /\ pc' = "create"
    BY <1>5 DEF Forget, Resync, Compare, MarkManaged, MarkUnmanaged, Release, controller,
       Last, At, Goto
  <2> QED
    BY <1>1, <2>1, <2>2, <2>3, <2>4, QuietRemembers
<1>6. CASE SyncTags \/ Delete
  <2>1. NamesKept /\ UNCHANGED <<made, desired, latest, cr>>
    BY <1>1, <1>6, RequestKeepsNames DEF SyncTags, Delete
  <2>2. spent'.rekeys = spent.rekeys
    BY <1>6, SpendKeepsRekeys DEF SyncTags, Delete, NotDeletable, DeleteRefused, DeleteCall,
       Refused, Occasions, TypeInv
  <2>3. pc # "idle" /\ pc' \notin {"manage", "create"}
    BY <1>6 DEF SyncTags, Delete, NotDeletable, DeleteRefused, DeleteCall, Refused,
       StopWith, At, Goto
  <2> QED
    BY <1>1, <2>1, <2>2, <2>3, QuietRemembers
<1>7. CASE PatchStatus
  <2>1. NamesKept /\ UNCHANGED <<service, spent>> /\ pc # "idle" /\ pc' = "idle"
    BY <1>1, <1>7, QuietKeepsNames DEF PatchStatus, At, Goto
  <2>2. cr'.val = cr.val /\ cr'.id \in {cr.id, latest.id}
    BY <1>7 DEF PatchStatus, TypeInv, TypeOK, Object
  <2> QED
    BY <1>1, <2>1, <2>2 DEF Remembered, Carries, Named, Live, Key, M, subject, service
<1>8. CASE Crash
  <2>1. NamesKept /\ UNCHANGED <<made, cr>> /\ pc' = "idle"
    BY <1>1, <1>8, QuietKeepsNames DEF Crash, Goto, service
  <2>2. spent'.rekeys = spent.rekeys
    BY <1>8, SpendKeepsRekeys DEF Crash, Occasions, TypeInv
  <2> QED
    BY <1>1, <2>1, <2>2, QuietRemembers
<1> QED
  BY <1>1, <1>2, <1>3, <1>4, <1>5, <1>6, <1>7, <1>8, EditRemembers, ReadRemembers,
     ConfirmRemembers, CreateRemembers, UpdateRemembers, PatchRemembers
  DEF Next, Worker, Sync, Remove

(* The identifier in the status gives way to another only when a Create or  *)
(* a lookup found its resource gone, for every kind, fault and              *)
(* interleaving, unless the user edits what the resource is named by.       *)
THEOREM ResourceKept == Spec => NeverForgotten
<1> DEFINE Inv   == TypeInv /\ TagStep /\ NamesInv /\ Remembered
           Keeps == cr.id # 0 /\ cr'.id # cr.id /\ spent.rekeys = 0 => ~Live(cr.id)
<1>1. Init => Inv
  <2>1. Init => TypeInv /\ TagStep /\ NothingFound
    BY TypeInit DEF Init, TagStep, NothingFound
  <2>2. Init => \A i \in Ids : ~Live(i)
    BY DEF Init, Live, Put
  <2>3. Init => cr.id = 0 /\ pc = "idle"
    BY DEF Init
  <2>4. Init => Remembered
    BY <2>3 DEF Remembered, Named
  <2> QED
    BY <2>1, <2>2, <2>4 DEF NamesInv, NamedOnce
<1>2. Inv /\ [Next]_vars => Inv'
  BY TypeNext, TagStepNext, NamesNext, RememberedNext DEF NamesInv
<1>3. Inv /\ [Next]_vars => Keeps
  <2> SUFFICES ASSUME Inv, [Next]_vars, cr.id # 0, cr'.id # cr.id, spent.rekeys = 0
               PROVE  ~Live(cr.id)
    OBVIOUS
  <2>1. CASE PatchStatus
    <3>1. cr'.id = latest.id /\ pc # "idle"
      BY <2>1 DEF PatchStatus, At, TypeInv, TypeOK, Object
    <3> QED
      BY <3>1 DEF Remembered, Carries, Lost
  <2>2. CASE ~PatchStatus
    <3>1. cr'.id = cr.id
      BY <2>2 DEF vars, Next, Worker, Sync, Remove, User, Service, Reconcile, Forget, ReadOne,
         Compare, MarkManaged, Create, MarkUnmanaged, Confirm, SyncTags, Update, PatchSpec,
         LateInitialize, MergePatch, StopWith, ReadToDelete, Delete, Release, DeleteCR,
         EditSpec, Settle, Proceed, FailSettle, Drift, Crash, Resync, TypeInv, TypeOK, Object
    <3> QED
      BY <3>1
  <2> QED
    BY <2>1, <2>2
<1>4. Inv /\ [Next]_vars => [Keeps]_vars
  BY <1>3
<1> HIDE DEF Inv, Keeps
<1>5. Spec => [][Keeps]_vars
  BY <1>1, <1>2, <1>4, PTL DEF Spec
<1> QED
  BY <1>5 DEF NeverForgotten, Keeps

=============================================================================
