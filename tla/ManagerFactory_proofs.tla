----------------------- MODULE ManagerFactory_proofs -----------------------
(***************************************************************************)
(* What ManagerFactory promises for every set of workers and owners: the   *)
(* map is never written under a reader, a worker never gets a manager with *)
(* the credentials of another role, no more managers are made for a role   *)
(* than there are workers, and the whole is a cache.                       *)
(***************************************************************************)
EXTENDS ManagerFactory, FiniteSetTheorems, TLAPS

(* Who is where, by the lock. *)
Readers == \A c \in Callers : c \in readers <=> pc[c] \in {"lookup", "runlock"}
Writer  == \A c \in Callers : c = writer <=> pc[c] \in {"new", "store", "unlock"}
Apart   == writer = Nobody \/ readers = {}

LockInv == TypeOK /\ Readers /\ Writer /\ Apart

(* What the map holds was made for what it is found under. *)
Filed == \A id \in RmIds : rmCache[id] # Nobody => RmId(rmCache[id].owner) = id

RightInv == TypeOK /\ Filed /\ RightManager

-----------------------------------------------------------------------------
(* No two owners are found under one identifier: its three parts are all    *)
(* there is of an owner (ManagerFor's rmId).                                *)
LEMMA IdIsOwner ==
  ASSUME NEW o \in Owners, NEW p \in Owners, RmId(o) = RmId(p)
  PROVE  o = p
BY OwnersAssumption DEF RmId

(* A manager is of its type. *)
LEMMA ManagerType ==
  ASSUME NEW o \in Owners, NEW n \in Nat
  PROVE  Manager(o, n) \in Managers
BY DEF Manager, Managers

(* And it is not the absence of one. *)
LEMMA ManagerIsOne ==
  ASSUME NEW o \in Owners, NEW n \in Nat
  PROVE  Manager(o, n) # Nobody
<1>1. Manager(o, n) \in Managers
  BY ManagerType
<1>2. Nobody \notin Managers
  BY NobodyAssumption DEF Managers
<1> QED
  BY <1>1, <1>2

(* An owner has an identifier. *)
LEMMA IdType ==
  ASSUME NEW o \in Owners
  PROVE  RmId(o) \in RmIds
BY DEF RmIds

-----------------------------------------------------------------------------
(* Every step keeps the types. *)
LEMMA TypeStep == TypeOK /\ [Next]_vars => TypeOK'
<1> SUFFICES ASSUME TypeOK, [Next]_vars PROVE TypeOK'
  OBVIOUS
<1> USE DEF TypeOK, At, Goto, lock, Steps
<1>1. CASE UNCHANGED vars
  BY <1>1 DEF vars
<1>2. ASSUME NEW c \in Callers, Call(c) PROVE TypeOK'
  BY <1>2, CallsAssumption DEF Call
<1>3. ASSUME NEW c \in Callers, RLock(c) PROVE TypeOK'
  BY <1>3 DEF RLock
<1>4. ASSUME NEW c \in Callers, Lookup(c) PROVE TypeOK'
  BY <1>4, IdType DEF Lookup
<1>5. ASSUME NEW c \in Callers, RUnlock(c) PROVE TypeOK'
  BY <1>5 DEF RUnlock
<1>6. ASSUME NEW c \in Callers, Lock(c) PROVE TypeOK'
  BY <1>6 DEF Lock
<1>7. ASSUME NEW c \in Callers, Enter(c) PROVE TypeOK'
  BY <1>7 DEF Enter
<1>8. ASSUME NEW c \in Callers, NewResourceManager(c) PROVE TypeOK'
  <2>1. RmId(owner[c]) \in RmIds
    BY IdType
  <2>2. built' \in [RmIds -> Nat]
    BY <1>8, <2>1 DEF NewResourceManager
  <2>3. Manager(owner[c], built'[RmId(owner[c])]) \in Managers
    BY <2>1, <2>2, ManagerType
  <2> QED
    BY <1>8, <2>2, <2>3 DEF NewResourceManager
<1>9. ASSUME NEW c \in Callers, Store(c) PROVE TypeOK'
  BY <1>9, IdType DEF Store
<1>10. ASSUME NEW c \in Callers, Unlock(c) PROVE TypeOK'
  BY <1>10 DEF Unlock
<1> QED
  BY <1>1, <1>2, <1>3, <1>4, <1>5, <1>6, <1>7, <1>8, <1>9, <1>10 DEF Next, ManagerFor

(* Every variable of the factory and its workers keeps its type.            *)
THEOREM FactoryTypeCorrect == Spec => []TypeOK
<1>1. Init => TypeOK
  BY DEF Init, TypeOK, Steps
<1> QED
  BY <1>1, TypeStep, PTL DEF Spec

-----------------------------------------------------------------------------
(* The lock: a worker that reads is among the readers, the one that writes  *)
(* is the writer, and there are never both.                                 *)
LEMMA LockStep == LockInv /\ [Next]_vars => LockInv'
<1> SUFFICES ASSUME LockInv, [Next]_vars PROVE (Readers /\ Writer /\ Apart)'
  BY TypeStep DEF LockInv
<1> USE DEF LockInv, TypeOK, Readers, Writer, Apart, At, Goto, lock
<1> USE CallersAssumption
<1>1. CASE UNCHANGED vars
  BY <1>1 DEF vars
<1>2. ASSUME NEW c \in Callers, Call(c) PROVE (Readers /\ Writer /\ Apart)'
  BY <1>2 DEF Call
<1>3. ASSUME NEW c \in Callers, RLock(c) PROVE (Readers /\ Writer /\ Apart)'
  BY <1>3 DEF RLock
<1>4. ASSUME NEW c \in Callers, Lookup(c) PROVE (Readers /\ Writer /\ Apart)'
  BY <1>4 DEF Lookup
<1>5. ASSUME NEW c \in Callers, RUnlock(c) PROVE (Readers /\ Writer /\ Apart)'
  BY <1>5 DEF RUnlock
<1>6. ASSUME NEW c \in Callers, Lock(c) PROVE (Readers /\ Writer /\ Apart)'
  BY <1>6 DEF Lock
<1>7. ASSUME NEW c \in Callers, Enter(c) PROVE (Readers /\ Writer /\ Apart)'
  BY <1>7 DEF Enter
<1>8. ASSUME NEW c \in Callers, NewResourceManager(c) PROVE (Readers /\ Writer /\ Apart)'
  BY <1>8 DEF NewResourceManager
<1>9. ASSUME NEW c \in Callers, Store(c) PROVE (Readers /\ Writer /\ Apart)'
  BY <1>9 DEF Store
<1>10. ASSUME NEW c \in Callers, Unlock(c) PROVE (Readers /\ Writer /\ Apart)'
  BY <1>10 DEF Unlock
<1> QED
  BY <1>1, <1>2, <1>3, <1>4, <1>5, <1>6, <1>7, <1>8, <1>9, <1>10 DEF Next, ManagerFor

(* The map is never written while another caller reads or writes it.        *)
THEOREM MapGuarded == Spec => []MapIsGuarded
<1>1. Init => LockInv
  BY CallersAssumption DEF Init, LockInv, TypeOK, Readers, Writer, Apart, Steps
<1>2. LockInv => MapIsGuarded
  BY CallersAssumption DEF LockInv, MapIsGuarded, Readers, Writer, Apart, At
<1> QED
  BY <1>1, <1>2, LockStep, PTL DEF Spec

-----------------------------------------------------------------------------
(* What a worker holds, and what the map holds, stays of the right owner.   *)
LEMMA RightStep == RightInv /\ [Next]_vars => RightInv'
<1> SUFFICES ASSUME RightInv, [Next]_vars PROVE (Filed /\ RightManager)'
  BY TypeStep DEF RightInv
<1> USE DEF RightInv, TypeOK, Filed, RightManager
<1>1. ASSUME UNCHANGED <<rmCache, rm, owner>> PROVE (Filed /\ RightManager)'
  BY <1>1
<1>2. ASSUME NEW c \in Callers, Call(c) PROVE (Filed /\ RightManager)'
  BY <1>2 DEF Call
<1>3. ASSUME NEW c \in Callers, Lookup(c) PROVE (Filed /\ RightManager)'
  <2>1. Filed'
    BY <1>3 DEF Lookup
  <2>2. rmCache[RmId(owner[c])] # Nobody => rmCache[RmId(owner[c])].owner = owner[c]
    BY IdType, IdIsOwner DEF Managers
  <2> QED
    BY <1>3, <2>1, <2>2 DEF Lookup
<1>4. ASSUME NEW c \in Callers, NewResourceManager(c) PROVE (Filed /\ RightManager)'
  BY <1>4 DEF NewResourceManager, Manager
<1>5. ASSUME NEW c \in Callers, Store(c) PROVE (Filed /\ RightManager)'
  BY <1>5, IdType DEF Store
<1> QED
  BY <1>1, <1>2, <1>3, <1>4, <1>5
  DEF Next, ManagerFor, vars, RLock, RUnlock, Lock, Enter, Unlock

(* A reconcile gets a manager of the account, region and role it asked for. *)
THEOREM ManagersAreRight == Spec => []RightManager
<1>1. Init => RightInv
  BY DEF Init, RightInv, TypeOK, Filed, RightManager, Steps
<1>2. RightInv => RightManager
  BY DEF RightInv
<1> QED
  BY <1>1, <1>2, RightStep, PTL DEF Spec

-----------------------------------------------------------------------------
(* A worker holds no manager until it has looked one up or made one, and    *)
(* has one when it leaves the write lock.                                   *)
Unserved == \A c \in Callers :
  /\ pc[c] \in {"rlock", "lookup", "lock", "wait", "new"} => rm[c] = Nobody
  /\ pc[c] \in {"store", "unlock"} => rm[c] # Nobody

ServedInv == RightInv /\ Unserved

(* That stays so.                                                           *)
LEMMA ServedStep == ServedInv /\ [Next]_vars => ServedInv'
<1> SUFFICES ASSUME ServedInv, [Next]_vars PROVE Unserved'
  BY RightStep DEF ServedInv
<1> USE DEF ServedInv, RightInv, TypeOK, Unserved, At, Goto
<1>1. CASE UNCHANGED vars
  BY <1>1 DEF vars
<1>2. ASSUME NEW c \in Callers, Call(c) PROVE Unserved'
  BY <1>2 DEF Call
<1>3. ASSUME NEW c \in Callers, RLock(c) PROVE Unserved'
  BY <1>3 DEF RLock
<1>4. ASSUME NEW c \in Callers, Lookup(c) PROVE Unserved'
  BY <1>4 DEF Lookup
<1>5. ASSUME NEW c \in Callers, RUnlock(c) PROVE Unserved'
  BY <1>5 DEF RUnlock
<1>6. ASSUME NEW c \in Callers, Lock(c) PROVE Unserved'
  BY <1>6 DEF Lock
<1>7. ASSUME NEW c \in Callers, Enter(c) PROVE Unserved'
  BY <1>7 DEF Enter
<1>8. ASSUME NEW c \in Callers, NewResourceManager(c) PROVE Unserved'
  <2>1. rm'[c] = Manager(owner[c], built'[RmId(owner[c])])
    BY <1>8 DEF NewResourceManager
  <2>2. rm'[c] # Nobody
    <3>1. TypeOK'
      BY TypeStep
    <3>2. built'[RmId(owner[c])] \in Nat
      BY <3>1, IdType
    <3> QED
      BY <2>1, <3>2, ManagerIsOne
  <2> QED
    BY <1>8, <2>2 DEF NewResourceManager
<1>9. ASSUME NEW c \in Callers, Store(c) PROVE Unserved'
  BY <1>9 DEF Store
<1>10. ASSUME NEW c \in Callers, Unlock(c) PROVE Unserved'
  BY <1>10 DEF Unlock
<1> QED
  BY <1>1, <1>2, <1>3, <1>4, <1>5, <1>6, <1>7, <1>8, <1>9, <1>10 DEF Next, ManagerFor

(* Every step of a worker is a step of the abstract cache, or none: the     *)
(* look-up that hits takes, the write to the map makes.                     *)
LEMMA CacheStep == ServedInv /\ ServedInv' /\ [Next]_vars => [Cache!Next]_Cache!vars
<1> SUFFICES ASSUME ServedInv, ServedInv', [Next]_vars PROVE [Cache!Next]_Cache!vars
  OBVIOUS
<1> DEFINE Busy == {c \in Callers : ~At(c, "idle")}
<1> USE DEF ServedInv, RightInv, TypeOK, Unserved, At, Goto, Held
<1>1. CASE UNCHANGED vars
  BY <1>1 DEF vars, Cache!vars
<1>2. ASSUME NEW c \in Callers, Call(c) PROVE Cache!Ask(c)
  <2>1. c \notin Busy /\ Busy' = Busy \cup {c}
    BY <1>2 DEF Call
  <2>2. Held' = [Held EXCEPT ![c] = Nobody]
    BY <1>2 DEF Call
  <2> QED
    BY <1>2, <2>1, <2>2 DEF Call, Cache!Ask
<1>3. ASSUME NEW c \in Callers, Lookup(c) PROVE Cache!Take(c) \/ UNCHANGED Cache!vars
  <2>1. Busy' = Busy /\ Held' = [Held EXCEPT ![c] = rm'[c]]
    BY <1>3 DEF Lookup
  <2>2. CASE rm'[c] = Nobody
    BY <1>3, <2>1, <2>2 DEF Lookup, Cache!vars
  <2>3. CASE rm'[c] # Nobody
    BY <1>3, <2>1, <2>3 DEF Lookup, Cache!Take, Cache!Waits
  <2> QED
    BY <2>2, <2>3
<1>4. ASSUME NEW c \in Callers, RUnlock(c) PROVE Cache!Return(c) \/ UNCHANGED Cache!vars
  <2>1. Held' = Held
    BY <1>4 DEF RUnlock
  <2>2. CASE rm[c] = Nobody
    BY <1>4, <2>1, <2>2 DEF RUnlock, Cache!vars
  <2>3. CASE rm[c] # Nobody
    <3>1. c \in Busy /\ Busy' = Busy \ {c}
      BY <1>4, <2>3 DEF RUnlock
    <3>2. Held[c] # Nobody
      BY <1>4, <2>3 DEF RUnlock
    <3> QED
      BY <1>4, <2>1, <3>1, <3>2 DEF RUnlock, Cache!Return
  <2> QED
    BY <2>2, <2>3
<1>5. ASSUME NEW c \in Callers, Store(c) PROVE Cache!Make(c)
  <2>1. Busy' = Busy /\ c \in Busy /\ Held[c] = Nobody
    BY <1>5 DEF Store
  <2>2. Held' = [Held EXCEPT ![c] = rm[c]] /\ Held'[c] = rm[c]
    BY <1>5 DEF Store
  <2>3. MadeFor(rm[c], owner[c])
    BY <1>5 DEF Store, RightManager, MadeFor
  <2> QED
    BY <1>5, <2>1, <2>2, <2>3 DEF Store, Cache!Make, Cache!Waits
<1>6. ASSUME NEW c \in Callers, Unlock(c) PROVE Cache!Return(c)
  <2>1. c \in Busy /\ Busy' = Busy \ {c}
    BY <1>6 DEF Unlock
  <2>2. Held' = Held /\ Held[c] # Nobody
    BY <1>6 DEF Unlock
  <2> QED
    BY <1>6, <2>1, <2>2 DEF Unlock, Cache!Return
<1>7. ASSUME NEW c \in Callers, RLock(c) \/ Lock(c) \/ Enter(c) \/ NewResourceManager(c)
      PROVE  UNCHANGED Cache!vars
  <2>1. UNCHANGED <<rmCache, owner>>
    BY <1>7 DEF RLock, Lock, Enter, NewResourceManager
  <2>2. Busy' = Busy
    BY <1>7 DEF RLock, Lock, Enter, NewResourceManager
  <2>3. Held' = Held
    BY <1>7 DEF RLock, Lock, Enter, NewResourceManager
  <2> QED
    BY <2>1, <2>2, <2>3 DEF Cache!vars
<1> QED
  BY <1>1, <1>2, <1>3, <1>4, <1>5, <1>6, <1>7 DEF Next, ManagerFor, Cache!Next

(* A call of ManagerFor looks like one instant: it takes the manager kept   *)
(* for what it asked for, or makes one and keeps it (ManagerCache).         *)
THEOREM FactoryIsCache == Spec => CacheSpec
<1>1. Init => ServedInv
  BY DEF Init, ServedInv, Unserved, RightInv, TypeOK, Filed, RightManager, Steps
<1>2. Init => Cache!Init
  <2> SUFFICES ASSUME Init PROVE Cache!Init
    OBVIOUS
  <2>1. {c \in Callers : ~At(c, "idle")} = {} /\ Held = [c \in Callers |-> Nobody]
    BY DEF Init, At, Held
  <2> QED
    BY <2>1 DEF Init, Cache!Init
<1> QED
  BY <1>1, <1>2, ServedStep, CacheStep, PTL DEF Spec, CacheSpec, Cache!Spec

-----------------------------------------------------------------------------
(* Those that missed: they are past their look-up, which found nothing, and *)
(* are going to make a manager, whatever is kept by then.                   *)
Missed(id) ==
  {c \in Callers : /\ RmId(owner[c]) = id
                   /\ \/ pc[c] \in {"lock", "wait", "new"}
                      \/ pc[c] = "runlock" /\ rm[c] = Nobody}

(* As long as none is kept at most one was made, by a worker that is about  *)
(* to keep it; from then on only those that have missed make another.       *)
NoneKept(id) ==
  rmCache[id] = Nobody =>
    \/ built[id] = 0
    \/ built[id] = 1 /\ \E c \in Callers : pc[c] = "store" /\ RmId(owner[c]) = id

OneKept(id) ==
  rmCache[id] # Nobody => built[id] + Cardinality(Missed(id)) <= Cardinality(Callers)

Bounded == \A id \in RmIds : NoneKept(id) /\ OneKept(id)

FewInv == LockInv /\ ServedInv /\ Bounded

LEMMA CountsOfCallers ==
  ASSUME NEW S \in SUBSET Callers, NEW T \in SUBSET Callers
  PROVE  /\ Cardinality(S) \in Nat /\ Cardinality(Callers) \in Nat
         /\ Cardinality(S) <= Cardinality(Callers)
         /\ S \subseteq T => Cardinality(S) <= Cardinality(T)
         /\ \A c \in T : S \subseteq T \ {c} => Cardinality(S) + 1 <= Cardinality(T)
<1>1. IsFiniteSet(Callers) /\ IsFiniteSet(S) /\ IsFiniteSet(T)
  BY CallersAssumption, FS_Subset
<1>2. /\ Cardinality(S) \in Nat /\ Cardinality(T) \in Nat /\ Cardinality(Callers) \in Nat
      /\ Cardinality(S) <= Cardinality(Callers)
      /\ S \subseteq T => Cardinality(S) <= Cardinality(T)
  BY <1>1, FS_CardinalityType, FS_Subset
<1>3. ASSUME NEW c \in T, S \subseteq T \ {c}
      PROVE  Cardinality(S) + 1 <= Cardinality(T)
  <2>1. Cardinality(T \ {c}) = Cardinality(T) - 1 /\ IsFiniteSet(T \ {c})
    BY <1>1, FS_RemoveElement
  <2>2. Cardinality(S) <= Cardinality(T \ {c})
    BY <1>3, <2>1, FS_Subset
  <2> QED
    BY <1>2, <2>1, <2>2
<1> QED
  BY <1>2, <1>3

(* A step that makes nothing and keeps nothing lets nobody miss what is     *)
(* kept.                                                                    *)
LEMMA BoundedStays ==
  ASSUME TypeOK, Bounded, UNCHANGED <<rmCache, built>>,
         \A id \in RmIds : rmCache[id] # Nobody => Missed(id)' \subseteq Missed(id),
         \A c \in Callers : pc[c] = "store" => pc'[c] = "store" /\ owner'[c] = owner[c]
  PROVE  Bounded'
<1> SUFFICES ASSUME NEW id \in RmIds PROVE NoneKept(id)' /\ OneKept(id)'
  BY DEF Bounded
<1>1. NoneKept(id)'
  BY DEF Bounded, NoneKept
<1>2. OneKept(id)'
  <2> SUFFICES ASSUME rmCache[id] # Nobody
               PROVE  built[id] + Cardinality(Missed(id)') <= Cardinality(Callers)
    BY DEF OneKept
  <2> DEFINE missed == Missed(id)'
  <2>1. missed \subseteq Missed(id) /\ Missed(id) \subseteq Callers
    BY DEF Missed
  <2>2. built[id] + Cardinality(Missed(id)) <= Cardinality(Callers) /\ built[id] \in Nat
    BY DEF Bounded, OneKept, TypeOK
  <2> HIDE DEF missed
  <2>3. built[id] + Cardinality(missed) <= Cardinality(Callers)
    BY <2>1, <2>2, CountsOfCallers
  <2> QED
    BY <2>3 DEF missed
<1> QED
  BY <1>1, <1>2

LEMMA MakeBounded ==
  ASSUME FewInv, NEW c \in Callers, NewResourceManager(c)
  PROVE  Bounded'
<1> DEFINE mine == RmId(owner[c])
<1>1. /\ TypeOK /\ Bounded /\ mine \in RmIds /\ pc[c] = "new"
      /\ pc' = [pc EXCEPT ![c] = "store"] /\ UNCHANGED <<rmCache, owner>>
  <2>1. TypeOK /\ Bounded
    BY DEF FewInv, LockInv
  <2>2. owner[c] \in Owners
    BY <2>1 DEF TypeOK
  <2>3. mine \in RmIds
    BY <2>2, IdType
  <2> QED
    BY <2>1, <2>3 DEF NewResourceManager, At, Goto
<1>2. /\ built'[mine] = built[mine] + 1
      /\ \A id \in RmIds \ {mine} : built'[id] = built[id]
      /\ \A d \in Callers \ {c} : rm'[d] = rm[d]
  BY <1>1 DEF NewResourceManager, TypeOK
<1>3. \A d \in Callers : pc[d] # "store"
  BY <1>1 DEF FewInv, LockInv, Writer
<1>4. \A id \in RmIds : Missed(id)' \subseteq Missed(id) \ {c}
  BY <1>1, <1>2 DEF Missed, TypeOK
<1>5. c \in Missed(mine)
  BY <1>1 DEF Missed
<1> SUFFICES ASSUME NEW id \in RmIds PROVE NoneKept(id)' /\ OneKept(id)'
  BY DEF Bounded
<1>6. /\ rmCache[id] = Nobody => built[id] = 0
      /\ rmCache[id] # Nobody
           => built[id] + Cardinality(Missed(id)) <= Cardinality(Callers)
      /\ built[id] \in Nat
  BY <1>1, <1>3 DEF Bounded, NoneKept, OneKept, TypeOK
<1> DEFINE missed == Missed(id)'
           number == built'[id]
<1>7. missed \subseteq Missed(id) \ {c} /\ Missed(id) \subseteq Callers
  BY <1>4 DEF Missed
<1>8. number = IF id = mine THEN built[id] + 1 ELSE built[id]
  BY <1>2
<1>9. NoneKept(id)'
  <2> SUFFICES ASSUME rmCache[id] = Nobody
               PROVE  \/ number = 0
                      \/ number = 1 /\ \E d \in Callers : pc'[d] = "store" /\ RmId(owner[d]) = id
    BY <1>1 DEF NoneKept, RmId
  <2> HIDE DEF number
  <2> QED
    BY <1>1, <1>6, <1>8 DEF TypeOK
<1>10. OneKept(id)'
  <2> SUFFICES ASSUME rmCache[id] # Nobody
               PROVE  number + Cardinality(missed) <= Cardinality(Callers)
    BY <1>1 DEF OneKept
  <2>1. id = mine => c \in Missed(id)
    BY <1>5
  <2> HIDE DEF number, missed
  <2>2. id = mine => Cardinality(missed) + 1 <= Cardinality(Missed(id))
    BY <1>7, <2>1, CountsOfCallers
  <2>3. Cardinality(missed) <= Cardinality(Missed(id))
    BY <1>7, CountsOfCallers
  <2>4. Cardinality(missed) \in Nat /\ Cardinality(Missed(id)) \in Nat
        /\ Cardinality(Callers) \in Nat
    BY <1>7, CountsOfCallers
  <2> HIDE DEF mine
  <2> QED
    BY <1>6, <1>8, <2>2, <2>3, <2>4
<1> QED
  BY <1>9, <1>10

LEMMA KeepBounded ==
  ASSUME FewInv, NEW c \in Callers, Store(c)
  PROVE  Bounded'
<1> DEFINE mine == RmId(owner[c])
<1>1. /\ TypeOK /\ Bounded /\ mine \in RmIds /\ pc[c] = "store"
      /\ pc' = [pc EXCEPT ![c] = "unlock"] /\ UNCHANGED <<built, owner, rm>>
      /\ rmCache' = [rmCache EXCEPT ![mine] = rm[c]]
  <2>1. TypeOK /\ Bounded
    BY DEF FewInv, LockInv
  <2>2. owner[c] \in Owners
    BY <2>1 DEF TypeOK
  <2>3. mine \in RmIds
    BY <2>2, IdType
  <2> QED
    BY <2>1, <2>3 DEF Store, At, Goto
<1>2. /\ rmCache'[mine] # Nobody
      /\ \A id \in RmIds \ {mine} : rmCache'[id] = rmCache[id]
  BY <1>1 DEF FewInv, ServedInv, Unserved, TypeOK
<1>3. \A id \in RmIds : Missed(id)' \subseteq Missed(id) /\ c \notin Missed(id)
  BY <1>1 DEF Missed, TypeOK
<1> SUFFICES ASSUME NEW id \in RmIds PROVE NoneKept(id)' /\ OneKept(id)'
  BY DEF Bounded
<1>4. NoneKept(id)'
  <2>1. CASE id = mine
    BY <1>2, <2>1 DEF NoneKept
  <2>2. CASE id # mine
    <3>1. \A d \in Callers : pc[d] = "store" /\ RmId(owner[d]) = id => pc'[d] = "store"
      BY <1>1, <2>2 DEF TypeOK
    <3> QED
      BY <1>1, <1>2, <2>2, <3>1 DEF Bounded, NoneKept, RmId
  <2> QED
    BY <2>1, <2>2
<1>5. OneKept(id)'
  <2> DEFINE missed == Missed(id)'
  <2> SUFFICES ASSUME rmCache'[id] # Nobody
               PROVE  built[id] + Cardinality(missed) <= Cardinality(Callers)
    BY <1>1 DEF OneKept
  <2>1. missed \subseteq Missed(id) /\ c \notin Missed(id) /\ Missed(id) \subseteq Callers
    BY <1>3 DEF Missed
  <2>2. built[id] \in Nat
    BY <1>1 DEF TypeOK
  <2> HIDE DEF missed
  <2>3. /\ Cardinality(missed) <= Cardinality(Missed(id)) /\ Cardinality(missed) \in Nat
        /\ Cardinality(missed) + 1 <= Cardinality(Callers)
        /\ Cardinality(Missed(id)) \in Nat /\ Cardinality(Callers) \in Nat
    BY <2>1, CountsOfCallers
  <2>4. CASE rmCache[id] = Nobody
    <3>1. built[id] <= 1
      BY <1>1, <2>4 DEF Bounded, NoneKept
    <3> QED
      BY <2>2, <2>3, <3>1
  <2>5. CASE rmCache[id] # Nobody
    <3>1. built[id] + Cardinality(Missed(id)) <= Cardinality(Callers)
      BY <1>1, <2>5 DEF Bounded, OneKept
    <3> QED
      BY <2>2, <2>3, <3>1
  <2> QED
    BY <2>4, <2>5
<1> QED
  BY <1>4, <1>5

LEMMA BoundedStep == FewInv /\ [Next]_vars => Bounded'
<1> SUFFICES ASSUME FewInv, [Next]_vars PROVE Bounded'
  OBVIOUS
<1>1. TypeOK /\ Bounded
  BY DEF FewInv, LockInv
<1>2. CASE UNCHANGED vars
  BY <1>1, <1>2, BoundedStays DEF vars, Missed
<1>3. ASSUME NEW c \in Callers, Call(c) \/ RLock(c) \/ Lookup(c) \/ RUnlock(c)
      PROVE  Bounded'
  <2>1. UNCHANGED <<rmCache, built>>
    BY <1>3 DEF Call, RLock, Lookup, RUnlock
  <2>2. \A d \in Callers : pc[d] = "store" => pc'[d] = "store" /\ owner'[d] = owner[d]
    BY <1>1, <1>3 DEF TypeOK, Call, RLock, Lookup, RUnlock, At, Goto
  <2>3. ASSUME NEW id \in RmIds, rmCache[id] # Nobody
        PROVE  Missed(id)' \subseteq Missed(id)
    <3>1. CASE Call(c) \/ RLock(c)
      BY <1>1, <3>1 DEF Missed, TypeOK, Call, RLock, At, Goto
    <3>2. CASE Lookup(c)
      BY <1>1, <2>3, <3>2 DEF Missed, TypeOK, Lookup, At, Goto
    <3>3. CASE RUnlock(c)
      BY <1>1, <3>3 DEF Missed, TypeOK, RUnlock, At, Goto
    <3> QED
      BY <1>3, <3>1, <3>2, <3>3
  <2> QED
    BY <1>1, <2>1, <2>2, <2>3, BoundedStays
<1>4. ASSUME NEW c \in Callers, Lock(c) \/ Enter(c) \/ Unlock(c)
      PROVE  Bounded'
  <2>1. UNCHANGED <<rmCache, built, owner, rm>>
    BY <1>4 DEF Lock, Enter, Unlock
  <2>2. \A d \in Callers : pc[d] = "store" => pc'[d] = "store"
    BY <1>1, <1>4 DEF TypeOK, Lock, Enter, Unlock, At, Goto
  <2>3. ASSUME NEW id \in RmIds
        PROVE  Missed(id)' \subseteq Missed(id)
    BY <1>1, <1>4, <2>1 DEF Missed, RmId, TypeOK, Lock, Enter, Unlock, At, Goto
  <2> QED
    BY <1>1, <2>1, <2>2, <2>3, BoundedStays
<1> QED
  BY <1>2, <1>3, <1>4, MakeBounded, KeepBounded DEF Next, ManagerFor

(* No more managers are ever made for an owner than there are workers: one  *)
(* that has found the map filled never makes another.                       *)
THEOREM ManagersAreFew == Spec => []FewManagers
<1>1. Init => FewInv
  <2> SUFFICES ASSUME Init PROVE FewInv
    OBVIOUS
  <2>1. LockInv
    BY CallersAssumption DEF Init, LockInv, TypeOK, Readers, Writer, Apart, Steps
  <2>2. ServedInv
    BY DEF Init, ServedInv, Unserved, RightInv, TypeOK, Filed, RightManager, Steps
  <2>3. Bounded
    BY DEF Init, Bounded, NoneKept, OneKept
  <2> QED
    BY <2>1, <2>2, <2>3 DEF FewInv
<1>2. FewInv /\ [Next]_vars => FewInv'
  BY LockStep, ServedStep, BoundedStep DEF FewInv
<1>3. FewInv => FewManagers
  <2> SUFFICES ASSUME FewInv, NEW id \in RmIds PROVE built[id] <= Cardinality(Callers)
    BY DEF FewManagers
  <2>1. built[id] \in Nat /\ Missed(id) \subseteq Callers
    BY DEF FewInv, LockInv, TypeOK, Missed
  <2>2. /\ Cardinality(Missed(id)) \in Nat /\ Cardinality(Callers) \in Nat
        /\ \A c \in Callers : 1 <= Cardinality(Callers)
    BY <2>1, CountsOfCallers, FS_EmptySet
  <2>3. NoneKept(id) /\ OneKept(id)
    BY DEF FewInv, Bounded
  <2> QED
    BY <2>1, <2>2, <2>3 DEF NoneKept, OneKept
<1> QED
  BY <1>1, <1>2, <1>3, PTL DEF Spec

=============================================================================
