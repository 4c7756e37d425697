----------------------------- MODULE Tags_proofs ----------------------------
(***************************************************************************)
(* What Tags promises for every set of keys, every budget of faults and    *)
(* every user: no tag of AWS that was read is changed or removed, and what *)
(* the controller patches into a spec is nothing of its own and nothing    *)
(* that would undo what the user writes.                                   *)
(*                                                                         *)
(* Neither is inductive alone.  Both rest on how the two snapshots of a    *)
(* reconcile are alike: before the calls, in the tags of AWS, because a    *)
(* read mirrors them; after the calls, in all others, because what a call  *)
(* answers is a copy of the snapshot and the read that follows a Create    *)
(* mirrors nothing but the tags of AWS.                                    *)
(***************************************************************************)
EXTENDS Tags, TLAPS

Tagging == [Keys -> Values]

Types ==
  /\ spec \in Tagging /\ tags \in Tagging
  /\ desired \in Tagging /\ latest \in Tagging

Ours == Keys \ AwsKeys

(* What of the snapshots is alike.                                          *)
Mirrored ==
  /\ pc \in {"compare", "add", "remove"} =>
       \A k \in AwsKeys : latest[k] # 0 => desired[k] = latest[k]
  /\ pc \in {"confirm", "patch"} => \A k \in Ours : desired[k] = latest[k]

NoneOfOurs == \A k \in ControllerKeys : spec[k] = 0

IInv == Types /\ version \in Nat /\ NoneOfOurs /\ Mirrored

-----------------------------------------------------------------------------
(* The operators take tags to tags. *)
LEMMA NoneType == None \in Tagging
BY DEF None, Tagging, Values

LEMMA EnsureType ==
  ASSUME NEW t \in Tagging, version \in Nat
  PROVE  EnsureTags(t) \in Tagging
BY DEF EnsureTags, Tagging, Values

LEMMA SyncType ==
  ASSUME NEW a \in Tagging, NEW b \in Tagging
  PROVE  syncAWSTags(a, b) \in Tagging
BY DEF syncAWSTags, Tagging

LEMMA IgnoreType ==
  ASSUME NEW t \in Tagging
  PROVE  ignoreSystemTags(t) \in Tagging
BY DEF ignoreSystemTags, Tagging, Values

(* Mirroring takes over every tag of AWS there is, and touches no other. *)
LEMMA SyncMirrors ==
  ASSUME NEW a \in Tagging, NEW b \in Tagging
  PROVE  /\ \A k \in AwsKeys : b[k] # 0 => syncAWSTags(a, b)[k] = b[k]
         /\ \A k \in Ours : syncAWSTags(a, b)[k] = a[k]
BY DEF syncAWSTags, Tagging, Keys, Ours

(* The filter leaves nothing of the controller. *)
LEMMA IgnoreLeavesNone ==
  ASSUME NEW t \in Tagging, NEW k \in ControllerKeys
  PROVE  ignoreSystemTags(t)[k] = 0
BY DEF ignoreSystemTags, Keys

(* A patch writes nothing but tags of AWS into the spec. *)
LEMMA PatchKeepsOurs ==
  ASSUME IInv, Patch
  PROVE  spec' \in Tagging /\ \A k \in Ours : spec'[k] = spec[k]
BY DEF IInv, Types, Mirrored, Patch, At, Ours, Tagging

LEMMA OursAreOurs == ControllerKeys \subseteq Ours /\ UserKeys \subseteq Ours
BY KeysAssumption DEF Ours, Keys

-----------------------------------------------------------------------------
(* Every step keeps the invariant. *)
LEMMA IInvStep == IInv /\ [Next]_vars => IInv'
<1> SUFFICES ASSUME IInv, [Next]_vars PROVE IInv'
  OBVIOUS
<1> USE DEF IInv, Types, NoneOfOurs, Mirrored, At, Goto
<1>1. CASE UNCHANGED vars
  BY <1>1 DEF vars, worker
<1>2. ASSUME NEW how, Finish(how), UNCHANGED <<spec, version>>, tags' \in Tagging PROVE IInv'
  BY <1>2, NoneType DEF Finish
<1>3. CASE Reconcile
  BY <1>3, EnsureType DEF Reconcile
<1>4. CASE ReadOne
  <2>1. CASE latest' = getTags /\ desired' = syncAWSTags(desired, getTags) /\ Goto("compare")
    <3>1. desired' \in Tagging /\ latest' \in Tagging
      BY <2>1, SyncType DEF getTags
    <3>2. \A k \in AwsKeys : latest'[k] # 0 => desired'[k] = latest'[k]
      BY <2>1, SyncMirrors DEF getTags
    <3> QED
      BY <1>4, <2>1, <3>1, <3>2 DEF ReadOne
  <2>2. CASE Goto("create") /\ UNCHANGED <<queued, desired, latest, cond, spent>>
    BY <1>4, <2>2 DEF ReadOne
  <2>3. CASE Refused
    BY <1>2, <1>4, <2>3 DEF ReadOne, Refused
  <2> QED
    BY <1>4, <2>1, <2>2, <2>3 DEF ReadOne
<1>5. CASE Compare
  <2>1. CASE Finish("ok")
    BY <1>2, <1>5, <2>1 DEF Compare
  <2>2. CASE Goto("add") /\ UNCHANGED <<queued, desired, latest, cond>>
    BY <1>5, <2>2 DEF Compare
  <2> QED
    BY <1>5, <2>1, <2>2 DEF Compare
<1>14. CASE Create
  <2>1. CASE \E how : Finish(how) /\ UNCHANGED tags
    BY <1>2, <1>14, <2>1 DEF Create
  <2>2. CASE \E aws \in [AwsKeys -> {0, 1}] :
               tags' = [k \in Keys |-> IF k \in AwsKeys THEN aws[k] ELSE desired[k]]
    <3>1. tags' \in Tagging
      BY <2>2 DEF Tagging, Values
    <3>2. CASE \E how : Finish(how)
      BY <1>2, <1>14, <3>1, <3>2 DEF Create
    <3>3. CASE latest' = desired /\ Goto("confirm") /\ UNCHANGED <<queued, desired, cond, spent>>
      BY <1>14, <3>1, <3>3 DEF Create
    <3> QED
      BY <1>14, <3>2, <3>3 DEF Create, Refused
  <2> QED
    BY <1>14, <2>1, <2>2 DEF Create, Refused
<1>15. CASE Confirm
  <2>1. CASE latest' = syncAWSTags(latest, getTags) /\ Goto("patch") /\ UNCHANGED desired
    BY <1>15, <2>1, SyncType, SyncMirrors DEF Confirm, getTags
  <2>2. CASE Refused
    BY <1>2, <1>15, <2>2 DEF Confirm, Refused
  <2> QED
    BY <1>15, <2>1, <2>2 DEF Confirm
<1>6. CASE addTags
  <2>1. tags' \in Tagging
    BY <1>6 DEF addTags, Tagging, Values
  <2>2. CASE \E how : Finish(how)
    BY <1>2, <1>6, <2>1, <2>2 DEF addTags
  <2>3. CASE Goto("remove") /\ UNCHANGED <<queued, desired, latest, cond, spent>>
    BY <1>6, <2>1, <2>3 DEF addTags
  <2> QED
    BY <1>6, <2>2, <2>3 DEF addTags, Refused
<1>7. CASE removeTags
  <2>1. tags' \in Tagging
    BY <1>7 DEF removeTags, Tagging, Values
  <2>2. CASE \E how : Finish(how)
    BY <1>2, <1>7, <2>1, <2>2 DEF removeTags
  <2>3. CASE latest' = desired /\ Goto("patch") /\ UNCHANGED <<queued, desired, cond, spent>>
    BY <1>7, <2>1, <2>3 DEF removeTags
  <2> QED
    BY <1>7, <2>2, <2>3 DEF removeTags, Refused
<1>8. CASE Patch
  BY <1>8, PatchKeepsOurs, OursAreOurs DEF Patch
<1>16. CASE Store
  BY <1>2, <1>16 DEF Store
<1>9. CASE Adopt
  <2>1. spec' \in Tagging
    BY <1>9, IgnoreType DEF Adopt, getTags
  <2>2. \A k \in ControllerKeys : spec'[k] = 0
    BY <1>9, IgnoreLeavesNone DEF Adopt, getTags
  <2> QED
    BY <1>9, <2>1, <2>2 DEF Adopt
<1>10. CASE Resync
  BY <1>10 DEF Resync, worker
<1>11. CASE EditTags
  <2>1. PICK k \in UserKeys \cup AwsKeys, v \in {0} \cup Set : spec' = [spec EXCEPT ![k] = v]
    BY <1>11 DEF EditTags
  <2>4. v \in Nat
    BY DEF Set
  <2>2. spec' \in Tagging
    BY <2>1, <2>4 DEF Tagging, Values
  <2>3. \A j \in ControllerKeys : spec'[j] = 0
    BY <2>1, KeysAssumption DEF Tagging
  <2> QED
    BY <1>11, <2>2, <2>3 DEF EditTags, worker
<1>12. CASE Drift
  <2>1. tags' \in Tagging
    BY <1>12 DEF Drift, Tagging, Values, Set
  <2> QED
    BY <1>12, <2>1 DEF Drift, worker
<1>13. CASE Upgrade
  BY <1>13, NoneType DEF Upgrade
<1> QED
  BY <1>1, <1>3, <1>4, <1>5, <1>6, <1>7, <1>8, <1>9, <1>10, <1>11, <1>12, <1>13, <1>14,
     <1>15, <1>16 DEF Next, Worker

LEMMA IInvInit == Init => IInv
<1> SUFFICES ASSUME Init PROVE IInv
  OBVIOUS
<1>1. PICK aws \in [AwsKeys -> {0, 1}], user \in [UserKeys -> {0, 1}] :
        LET both == [k \in Keys |-> IF k \in AwsKeys THEN aws[k]
                                    ELSE IF k \in UserKeys THEN user[k] ELSE 1]
        IN  \/ pc = "adopt" /\ spec = None /\ tags = both
            \/ pc = "idle" /\ spec = ignoreSystemTags(both) /\ tags = None
  BY DEF Init
<1> DEFINE both == [k \in Keys |-> IF k \in AwsKeys THEN aws[k]
                                   ELSE IF k \in UserKeys THEN user[k] ELSE 1]
<1>2. both \in Tagging
  BY DEF Tagging, Values
<1>3. spec \in Tagging /\ tags \in Tagging
  BY <1>1, <1>2, NoneType, IgnoreType
<1>4. NoneOfOurs
  BY <1>1, <1>2, IgnoreLeavesNone DEF NoneOfOurs, None, Keys
<1> QED
  BY <1>1, <1>3, <1>4, NoneType DEF Init, IInv, Types, Mirrored

-----------------------------------------------------------------------------
(* Whatever AWS, the user and others do and whichever calls fail, no        *)
(* request of SyncTags changes or removes a tag of AWS that was read.       *)
THEOREM AwsTagsSafe == Spec => []AwsTagsLeftAlone
<1>1. IInv => AwsTagsLeftAlone
  BY DEF IInv, Mirrored, AwsTagsLeftAlone, Reserved, toAdd, toDelete, Keys
<1> QED
  BY <1>1, IInvInit, IInvStep, PTL DEF Spec

-----------------------------------------------------------------------------
Counted == spent \in [Occasions -> Nat]

LEMMA SpendCounts ==
  ASSUME Counted, NEW o \in Occasions, Spend(o)
  PROVE  /\ Counted'
         /\ \A p \in Occasions : p # o => spent'[p] = spent[p]
         /\ spent'[o] # spent[o] /\ spent'[o] # 0
BY DEF Counted, Spend, Occasions

(* The patch after a Create or an Update, which knows only a snapshot of    *)
(* the spec and a view the tags of three parties were added to, leaves      *)
(* every tag of the user as it is by then and adds none of the controller.  *)
THEOREM SpecIsTheUsers == Spec => SpecHoldsUserTags
<1> DEFINE Step ==
      /\ \A k \in ControllerKeys : spec'[k] = 0
      /\ \A k \in UserKeys :
           spec'[k] # spec[k] => pc = "adopt" \/ spent'.edits # spent.edits
<1>1. Init => Counted
  BY DEF Init, Counted
<1>2. Counted /\ [Next]_vars => Counted'
  <2> SUFFICES ASSUME Counted, [Next]_vars PROVE Counted'
    OBVIOUS
  <2>1. CASE UNCHANGED spent
    BY <2>1 DEF Counted
  <2>2. CASE \E o \in Occasions : Spend(o)
    BY <2>2, SpendCounts
  <2>3. UNCHANGED spent \/ Spend("edits") \/ Spend("errors") \/ Spend("losses")
          \/ Spend("drifts") \/ Spend("upgrades")
    BY DEF vars, Next, Worker, Reconcile, ReadOne, Compare, Create, Confirm, addTags,
       removeTags, Patch, Store, Adopt, Resync, EditTags, Drift, Upgrade, Refused
  <2> QED
    BY <2>1, <2>2, <2>3 DEF Occasions
<1>3. IInv /\ Counted /\ [Next]_vars => Step
  <2> SUFFICES ASSUME IInv, Counted, [Next]_vars PROVE Step
    OBVIOUS
  <2>1. NoneOfOurs'
    BY IInvStep DEF IInv
  <2>2. CASE Patch
    BY <2>1, <2>2, PatchKeepsOurs, OursAreOurs DEF NoneOfOurs
  <2>3. CASE EditTags
    BY <2>1, <2>3, SpendCounts DEF EditTags, NoneOfOurs, Occasions
  <2>4. CASE Adopt
    BY <2>1, <2>4 DEF Adopt, At, NoneOfOurs
  <2>5. CASE UNCHANGED spec
    BY <2>1, <2>5 DEF NoneOfOurs
  <2> QED
    BY <2>2, <2>3, <2>4, <2>5 DEF vars, Next, Worker, Reconcile, ReadOne, Compare, Create,
       Confirm, addTags, removeTags, Store, Resync, Drift, Upgrade
<1>4. Step => [Step]_vars
  OBVIOUS
<1> QED
  BY <1>1, <1>2, <1>3, <1>4, IInvInit, IInvStep, PTL DEF Spec, SpecHoldsUserTags

-----------------------------------------------------------------------------
(* That a synced object has its tags rests on what each step of a reconcile *)
(* knows of the service, as long as nobody changes the tags past it: what   *)
(* was read is still there when the first call is made, what that call left *)
(* is what the second one is for, and an edit in between makes another      *)
(* reconcile due.                                                           *)
Current ==
  ~queued /\ pc \in {"read", "compare", "create", "confirm", "add", "remove", "patch", "store"} =>
    \A k \in Ours : desired[k] = EnsureTags(spec)[k]

Known ==
  /\ pc \in {"compare", "add", "remove"} => known
  /\ pc \in {"compare", "add"} => \A k \in Ours : tags[k] = latest[k]
  /\ pc = "remove" =>
       \A k \in Ours : tags[k] = IF k \in toAdd THEN desired[k] ELSE latest[k]
  /\ pc \in {"confirm", "patch", "store"} => \A k \in Ours : tags[k] = desired[k]

Rested == pc = "idle" /\ ~queued /\ cond = "ok" => AsWanted

Undisturbed == spent.drifts = 0 => Current /\ Known /\ Rested

(* Whoever ends a reconcile has to have the tags right, or another one due. *)
LEMMA FinishRests ==
  ASSUME NEW how, Finish(how), UNCHANGED spec, UNCHANGED version,
         how = "ok" /\ ~queued => AsWanted'
  PROVE  Current' /\ Known' /\ Rested'
BY DEF Finish, Goto, Current, Known, Rested

LEMMA UndisturbedStep ==
  IInv /\ Counted /\ Undisturbed /\ [Next]_vars => Counted' /\ Undisturbed'
<1> SUFFICES ASSUME IInv, Counted, Undisturbed, [Next]_vars PROVE Counted' /\ Undisturbed'
  OBVIOUS
<1>t. spec \in Tagging /\ tags \in Tagging /\ desired \in Tagging /\ latest \in Tagging
  BY DEF IInv, Types
<1>o. {"edits", "errors", "losses", "drifts", "upgrades"} \subseteq Occasions
  BY DEF Occasions
<1>s. ASSUME Spend("edits") \/ Spend("errors") \/ Spend("losses") \/ Spend("upgrades")
             \/ UNCHANGED spent
      PROVE  Counted' /\ spent'.drifts = spent.drifts
  BY <1>s, <1>o, SpendCounts DEF Counted
<1>f. ASSUME spent'.drifts = spent.drifts, Current /\ Known /\ Rested => Current' /\ Known' /\ Rested'
      PROVE  Undisturbed'
  BY <1>f DEF Undisturbed
<1>r. ASSUME Finish("retry") \/ Finish("terminal"), UNCHANGED spec, UNCHANGED version
      PROVE  Current' /\ Known' /\ Rested'
  BY <1>r, FinishRests
<1>1. CASE UNCHANGED vars
  BY <1>1 DEF vars, worker, Counted, Undisturbed, Current, Known, Rested, AsWanted,
     EnsureTags, toAdd
<1>2. CASE Reconcile
  <2>1. Current' /\ Known' /\ Rested'
    BY <1>2 DEF Reconcile, At, Goto, Current, Known, Rested, EnsureTags
  <2> QED
    BY <1>2, <1>s, <1>f, <2>1 DEF Reconcile
<1>3. CASE ReadOne
  <2>1. Counted' /\ spent'.drifts = spent.drifts
    BY <1>3, <1>s DEF ReadOne, Refused
  <2>2. CASE Finish("retry")
    BY <1>3, <1>r, <1>f, <2>1, <2>2 DEF ReadOne
  <2>3. CASE latest' = getTags /\ desired' = syncAWSTags(desired, getTags) /\ Goto("compare")
             /\ known /\ UNCHANGED queued
    <3>1. \A k \in Ours : latest'[k] = tags'[k] /\ desired'[k] = desired[k]
      BY <1>3, <1>t, <2>3 DEF ReadOne, getTags, syncAWSTags, Ours, Tagging
    <3>2. Current => Current'
      BY <1>3, <2>3, <3>1 DEF ReadOne, At, Goto, Current, EnsureTags
    <3>3. Known' /\ Rested'
      BY <1>3, <2>3, <3>1 DEF ReadOne, Goto, Known, Rested
    <3> QED
      BY <1>f, <2>1, <3>2, <3>3
  <2>4. CASE Goto("create") /\ UNCHANGED <<queued, desired, latest, cond, spent>>
    <3>1. Current => Current' /\ Known' /\ Rested'
      BY <1>3, <2>4 DEF ReadOne, At, Goto, Current, Known, Rested, EnsureTags
    <3> QED
      BY <1>f, <2>1, <3>1
  <2> QED
    BY <1>3, <2>1, <2>2, <2>3, <2>4 DEF ReadOne, Refused
<1>13. CASE Create
  <2>1. Counted' /\ spent'.drifts = spent.drifts
    BY <1>13, <1>s DEF Create, Refused
  <2>2. CASE Finish("retry") \/ Finish("terminal")
    BY <1>13, <1>r, <1>f, <2>1, <2>2 DEF Create
  <2>3. CASE /\ \E aws \in [AwsKeys -> {0, 1}] :
                  tags' = [k \in Keys |-> IF k \in AwsKeys THEN aws[k] ELSE desired[k]]
             /\ Goto("confirm") /\ UNCHANGED <<queued, desired, cond, spent>>
    <3>1. \A k \in Ours : tags'[k] = desired'[k]
      BY <2>3 DEF Ours
    <3>2. Current => Current' /\ Known' /\ Rested'
      BY <1>13, <2>3, <3>1 DEF Create, At, Goto, Current, Known, Rested, EnsureTags
    <3> QED
      BY <1>f, <2>1, <3>2
  <2> QED
    BY <1>13, <2>2, <2>3 DEF Create, Refused
<1>14. CASE Confirm
  <2>1. Counted' /\ spent'.drifts = spent.drifts
    BY <1>14, <1>s DEF Confirm, Refused
  <2>2. CASE Finish("retry")
    BY <1>14, <1>r, <1>f, <2>1, <2>2 DEF Confirm
  <2>3. CASE Goto("patch") /\ UNCHANGED <<known, queued, desired, cond, spent>>
    <3>1. Current /\ Known => Current' /\ Known' /\ Rested'
      BY <1>14, <2>3 DEF Confirm, At, Goto, Current, Known, Rested, EnsureTags
    <3> QED
      BY <1>f, <2>1, <3>1
  <2> QED
    BY <1>14, <2>2, <2>3 DEF Confirm, Refused
<1>4. CASE Compare
  <2>1. Counted' /\ spent'.drifts = spent.drifts
    BY <1>4, <1>s DEF Compare
  <2>2. CASE desired = latest /\ Finish("ok")
    <3>1. Current /\ Known /\ ~queued => AsWanted'
      BY <1>4, <2>2 DEF Compare, At, Current, Known, AsWanted, Ours, EnsureTags
    <3>2. Current /\ Known => Current' /\ Known' /\ Rested'
      BY <1>4, <2>2, <3>1, FinishRests DEF Compare
    <3> QED
      BY <1>f, <2>1, <3>2
  <2>3. CASE Goto("add") /\ UNCHANGED <<queued, desired, latest, cond>>
    <3>1. Current /\ Known => Current' /\ Known' /\ Rested'
      BY <1>4, <2>3 DEF Compare, At, Goto, Current, Known, Rested, EnsureTags
    <3> QED
      BY <1>f, <2>1, <3>1
  <2> QED
    BY <1>4, <2>1, <2>2, <2>3 DEF Compare
<1>5. CASE addTags
  <2>1. Counted' /\ spent'.drifts = spent.drifts
    BY <1>5, <1>s DEF addTags, Refused
  <2>2. CASE Finish("retry") \/ Finish("terminal")
    BY <1>5, <1>r, <1>f, <2>1, <2>2 DEF addTags
  <2>3. CASE /\ tags' = [k \in Keys |-> IF k \in toAdd THEN desired[k] ELSE tags[k]]
             /\ Goto("remove") /\ UNCHANGED <<queued, desired, latest, cond, spent>>
    <3>1. Known => \A k \in Ours : tags'[k] = IF k \in toAdd THEN desired[k] ELSE latest[k]
      BY <1>5, <2>3 DEF addTags, At, Known, Ours
    <3>2. toAdd' = toAdd
      BY <2>3 DEF toAdd
    <3>3. Current /\ Known => Current' /\ Known' /\ Rested'
      BY <1>5, <2>3, <3>1, <3>2 DEF addTags, At, Goto, Current, Known, Rested, EnsureTags
    <3> QED
      BY <1>f, <2>1, <3>3
  <2> QED
    BY <1>5, <2>1, <2>2, <2>3 DEF addTags, Refused
<1>6. CASE removeTags
  <2>1. Counted' /\ spent'.drifts = spent.drifts
    BY <1>6, <1>s DEF removeTags, Refused
  <2>2. CASE Finish("retry") \/ Finish("terminal")
    BY <1>6, <1>r, <1>f, <2>1, <2>2 DEF removeTags
  <2>3. CASE /\ tags' = [k \in Keys |-> IF k \in toDelete THEN 0 ELSE tags[k]]
             /\ Goto("patch") /\ UNCHANGED <<queued, desired, cond, spent>>
    <3>1. Known => \A k \in Ours : tags'[k] = desired[k]
      BY <1>6, <1>t, <2>3 DEF removeTags, At, Known, Ours, toAdd, toDelete, Tagging, Values
    <3>2. Current /\ Known => Current' /\ Known' /\ Rested'
      BY <1>6, <2>3, <3>1 DEF removeTags, At, Goto, Current, Known, Rested, EnsureTags
    <3> QED
      BY <1>f, <2>1, <3>2
  <2> QED
    BY <1>6, <2>1, <2>2, <2>3 DEF removeTags, Refused
<1>7. CASE Patch
  <2>1. Counted' /\ spent'.drifts = spent.drifts
    BY <1>7, <1>s DEF Patch
  <2>2. \A k \in Ours : EnsureTags(spec)'[k] = EnsureTags(spec)[k]
    BY <1>7, PatchKeepsOurs DEF Patch, EnsureTags, Ours
  <2>3. Current /\ Known => Current' /\ Known' /\ Rested'
    BY <1>7, <2>2 DEF Patch, At, Goto, Current, Known, Rested
  <2> QED
    BY <1>f, <2>1, <2>3
<1>15. CASE Store
  <2>1. Counted' /\ spent'.drifts = spent.drifts
    BY <1>15, <1>s DEF Store
  <2>2. Current /\ Known /\ ~queued => AsWanted'
    BY <1>15 DEF Store, At, Current, Known, AsWanted, Ours, EnsureTags
  <2>3. Current /\ Known => Current' /\ Known' /\ Rested'
    BY <1>15, <2>2, FinishRests DEF Store
  <2> QED
    BY <1>f, <2>1, <2>3
<1>8. CASE Adopt
  <2>1. Counted' /\ spent'.drifts = spent.drifts
    BY <1>8, <1>s DEF Adopt
  <2>2. Current' /\ Known' /\ Rested'
    BY <1>8 DEF Adopt, At, Goto, Current, Known, Rested
  <2> QED
    BY <1>f, <2>1, <2>2
<1>9. CASE Resync
  <2>1. Current' /\ Known' /\ Rested'
    BY <1>9 DEF Resync, At, worker, Current, Known, Rested
  <2> QED
    BY <1>9, <1>s, <1>f, <2>1 DEF Resync
<1>10. CASE EditTags
  <2>1. Counted' /\ spent'.drifts = spent.drifts
    BY <1>10, <1>s DEF EditTags
  <2>2. queued' = TRUE /\ UNCHANGED <<tags, version, known, worker, cond>>
    BY <1>10 DEF EditTags
  <2>3. Known => Known'
    BY <2>2 DEF worker, Known, toAdd
  <2>4. Current' /\ Rested'
    BY <2>2 DEF Current, Rested
  <2> QED
    BY <1>f, <2>1, <2>3, <2>4
<1>11. CASE Drift
  <2>1. Spend("drifts")
    BY <1>11 DEF Drift
  <2> QED
    BY <1>o, <2>1, SpendCounts DEF Undisturbed
<1>12. CASE Upgrade
  <2>1. Counted' /\ spent'.drifts = spent.drifts
    BY <1>12, <1>s DEF Upgrade
  <2>2. Current' /\ Known' /\ Rested'
    BY <1>12 DEF Upgrade, Goto, Current, Known, Rested
  <2> QED
    BY <1>f, <2>1, <2>2
<1> QED
  BY <1>1, <1>2, <1>3, <1>4, <1>5, <1>6, <1>7, <1>8, <1>9, <1>10, <1>11, <1>12, <1>13,
     <1>14, <1>15 DEF Next, Worker

(* After a reconcile that went well the tags are what the spec and the      *)
(* controller's flag ask for: no refused or lost call, and no edit, restart *)
(* or upgrade between the read and the second call, is passed off as done.  *)
THEOREM SyncedTagsAreReal == Spec => []SyncedTagsAreThere
<1>1. Init => Counted /\ Undisturbed
  BY DEF Init, Counted, Undisturbed, Current, Known, Rested, Occasions
<1>2. Undisturbed => SyncedTagsAreThere
  BY DEF Undisturbed, Rested, SyncedTagsAreThere
<1> QED
  BY <1>1, <1>2, IInvInit, IInvStep, UndisturbedStep, PTL DEF Spec
=============================================================================
