--------------------------- MODULE ManagerFactory ---------------------------
(***************************************************************************)
(* The resource managers of one kind, one for each account, region and     *)
(* role, made when a reconcile first asks for one and kept in a map under  *)
(* a read-write lock (manager_factory.go; the fifteen are the same file).  *)
(* The callers are the workers of the kind's reconciler, as many as        *)
(* helm/values.yaml sets in resourceMaxConcurrentSyncs.                    *)
(*                                                                         *)
(* A definition marked "slip:" is the next one with a mistake in it;       *)
(* nothing uses it.                                                        *)
(***************************************************************************)
EXTENDS Naturals, FiniteSets

CONSTANTS
  Callers,
  Owners,    \* records [account, region, role]
  Nobody,    \* no manager, no writer
  MaxCalls   \* calls in one behaviour

ASSUME OwnersAssumption ==
  \A o \in Owners : o = [account |-> o.account, region |-> o.region, role |-> o.role]
ASSUME NobodyAssumption  == Nobody \notin [owner: Owners, nth: Nat]
ASSUME CallersAssumption == IsFiniteSet(Callers) /\ Nobody \notin Callers
ASSUME CallsAssumption   == MaxCalls \in Nat

VARIABLES
  rmCache,  \* what a manager is found under -> the manager, or Nobody
  built,    \* what a manager is found under -> how many were ever made
  readers, pending, writer,  \* the lock: who reads, who waits to write, who writes
  pc, owner, rm,  \* of each caller: its step, what it asked for, its manager
  calls

lock == <<readers, pending, writer>>
vars == <<rmCache, built, lock, pc, owner, rm, calls>>

(* slip: the role is left out of the identifier *)
RmIdOfAccount(o) == <<o.account, o.region>>
RmId(o)          == <<o.account, o.region, o.role>>

RmIds == {RmId(o) : o \in Owners}

(* slip: the manager is made without what it is to work with *)
ManagerUnowned(o, n) == [owner |-> Nobody, nth |-> n]
(* A manager works with the credentials it was made with. *)
Manager(o, n) == [owner |-> o, nth |-> n]

At(c, step)   == pc[c] = step
Goto(c, step) == pc' = [pc EXCEPT ![c] = step]

-----------------------------------------------------------------------------
(* A worker calls ManagerFor. *)
Call(c) ==
  /\ At(c, "idle") /\ calls < MaxCalls
  /\ calls' = calls + 1
  /\ \E o \in Owners : owner' = [owner EXCEPT ![c] = o]
  /\ rm' = [rm EXCEPT ![c] = Nobody]
  /\ Goto(c, "rlock")
  /\ UNCHANGED <<rmCache, built, lock>>

(* slip: the map is looked up without the lock *)
RLockSkipped(c) ==
  /\ At(c, "rlock") /\ Goto(c, "lookup")
  /\ UNCHANGED <<rmCache, built, lock, owner, rm, calls>>
(* sync.RWMutex: a reader does not pass a writer that waits. *)
RLock(c) ==
  /\ At(c, "rlock") /\ writer = Nobody /\ pending = {}
  /\ readers' = readers \cup {c}
  /\ Goto(c, "lookup")
  /\ UNCHANGED <<rmCache, built, pending, writer, owner, rm, calls>>

Lookup(c) ==
  /\ At(c, "lookup")
  /\ rm' = [rm EXCEPT ![c] = rmCache[RmId(owner[c])]]
  /\ Goto(c, "runlock")
  /\ UNCHANGED <<rmCache, built, lock, owner, calls>>

RUnlock(c) ==
  /\ At(c, "runlock")
  /\ readers' = readers \ {c}
  /\ Goto(c, IF rm[c] # Nobody THEN "idle" ELSE "lock")
  /\ UNCHANGED <<rmCache, built, pending, writer, owner, rm, calls>>

Lock(c) ==
  /\ At(c, "lock")
  /\ pending' = pending \cup {c}
  /\ Goto(c, "wait")
  /\ UNCHANGED <<rmCache, built, readers, writer, owner, rm, calls>>

Enter(c) ==
  /\ At(c, "wait") /\ readers = {} /\ writer = Nobody
  /\ writer' = c /\ pending' = pending \ {c}
  /\ Goto(c, "new")
  /\ UNCHANGED <<rmCache, built, readers, owner, rm, calls>>

(* The map is not looked up again: another caller may have filled it. *)
NewResourceManager(c) ==
  /\ At(c, "new")
  /\ built' = [built EXCEPT ![RmId(owner[c])] = @ + 1]
  /\ rm' = [rm EXCEPT ![c] = Manager(owner[c], built'[RmId(owner[c])])]
  /\ Goto(c, "store")
  /\ UNCHANGED <<rmCache, lock, owner, calls>>

(* slip: the new manager is not kept *)
StoreForgotten(c) ==
  /\ At(c, "store") /\ Goto(c, "unlock")
  /\ UNCHANGED <<rmCache, built, lock, owner, rm, calls>>
Store(c) ==
  /\ At(c, "store")
  /\ rmCache' = [rmCache EXCEPT ![RmId(owner[c])] = rm[c]]
  /\ Goto(c, "unlock")
  /\ UNCHANGED <<built, lock, owner, rm, calls>>

(* slip: the deferred unlock is missing *)
UnlockForgotten(c) ==
  /\ At(c, "unlock") /\ Goto(c, "idle")
  /\ UNCHANGED <<rmCache, built, lock, owner, rm, calls>>
Unlock(c) ==
  /\ At(c, "unlock")
  /\ writer' = Nobody
  /\ Goto(c, "idle")
  /\ UNCHANGED <<rmCache, built, readers, pending, owner, rm, calls>>

-----------------------------------------------------------------------------
Init ==
  /\ rmCache = [id \in RmIds |-> Nobody] /\ built = [id \in RmIds |-> 0]
  /\ readers = {} /\ pending = {} /\ writer = Nobody
  /\ pc = [c \in Callers |-> "idle"]
  /\ \E o \in Owners : owner = [c \in Callers |-> o]
  /\ rm = [c \in Callers |-> Nobody]
  /\ calls = 0

ManagerFor(c) ==
  \/ RLock(c) \/ Lookup(c) \/ RUnlock(c)
  \/ Lock(c) \/ Enter(c) \/ NewResourceManager(c) \/ Store(c) \/ Unlock(c)

Next == \E c \in Callers : Call(c) \/ ManagerFor(c)

Spec == Init /\ [][Next]_vars

(* A worker that is not blocked goes on; nobody has to call. *)
FairSpec == Spec /\ \A c \in Callers : WF_vars(ManagerFor(c))

-----------------------------------------------------------------------------
Steps == {"idle", "rlock", "lookup", "runlock", "lock", "wait", "new", "store", "unlock"}

Managers == [owner: Owners, nth: Nat]

TypeOK ==
  /\ rmCache \in [RmIds -> Managers \cup {Nobody}]
  /\ built \in [RmIds -> Nat]
  /\ readers \subseteq Callers /\ pending \subseteq Callers
  /\ writer \in Callers \cup {Nobody}
  /\ pc \in [Callers -> Steps]
  /\ owner \in [Callers -> Owners]
  /\ rm \in [Callers -> Managers \cup {Nobody}]
  /\ calls \in Nat

(* The map is never written while another caller reads or writes it, for    *)
(* which the Go runtime would stop the process.                             *)
MapIsGuarded ==
  \A c, d \in Callers : At(c, "store") /\ c # d => pc[d] \notin {"lookup", "store"}

(* A reconcile gets a manager with the account, region and role it asked    *)
(* for, from the map or new.                                                *)
RightManager ==
  \A c \in Callers : rm[c] # Nobody => rm[c].owner = owner[c]

(* Each worker makes at most one manager for an owner, and so at most one   *)
(* is made for each worker: the map is filled for good.                     *)
FewManagers ==
  \A id \in RmIds : built[id] <= Cardinality(Callers)

(* Every call returns. *)
Returns == \A c \in Callers : ~At(c, "idle") ~> At(c, "idle")

(* What a caller has got: a manager it has made counts once it is kept.     *)
Held == [c \in Callers |-> IF At(c, "store") THEN Nobody ELSE rm[c]]

MadeFor(m, o) == m \in Managers /\ m.owner = o

Cache == INSTANCE ManagerCache WITH
  Ids <- RmIds, Id <- RmId, MadeFor <- MadeFor,
  kept <- rmCache, busy <- {c \in Callers : ~At(c, "idle")}, wants <- owner, holds <- Held

(* A call of ManagerFor looks like one instant: it takes the manager that   *)
(* is kept, or makes one and keeps it, and does not end without one.  The   *)
(* map is not looked up again under the write lock, so one made may replace *)
(* another ("helps us to avoid creating multiple resource managers").       *)
CacheSpec == Cache!Spec
=============================================================================
