----------------------- MODULE MemoryStrategies_proofs ----------------------
(***************************************************************************)
(* What MemoryStrategies promises for every set of names and lists, every  *)
(* quota and whatever others do to a memory between the read and the       *)
(* update: a strategy whose name is in the spec is never deleted, and an   *)
(* update that is made has something in it.                                *)
(*                                                                         *)
(* The update names what it deletes by an identifier that was looked up    *)
(* under the name at the read.  By the time of the call that identifier    *)
(* may be gone, and the name may have come again under another; what it    *)
(* cannot be is the identifier of a strategy with a different name, since  *)
(* none is given out twice and none changes its name.                      *)
(*                                                                         *)
(* The comparison pairs strategies by the places of their names and the    *)
(* plan by the names; among the same names that is the same (PlaceIsName). *)
(***************************************************************************)
EXTENDS MemoryStrategies, FiniteSetTheorems, TLAPS

(* The strategies of the memory have identifiers that were given out.       *)
Held ==
  /\ ids \in Nat
  /\ held = [i \in DOMAIN held |-> held[i]]
  /\ \A i \in DOMAIN held : i \in Nat /\ i =< ids /\ held[i] \in Strategies

(* An identifier that was read under a name is of a strategy of that name,  *)
(* as long as there is one.                                                 *)
IdsTrue ==
  \A n \in DOMAIN latest.ids :
    /\ latest.ids[n] \in Nat /\ latest.ids[n] =< ids
    /\ latest.ids[n] \in DOMAIN held => held[latest.ids[n]].name = n

Listed == spec \in Seq(Strategies) /\ desired \in Seq(Strategies)

IInv == Held /\ IdsTrue /\ Listed

-----------------------------------------------------------------------------
(* What the service makes of a strategy is one, of the same name.           *)
LEMMA StoredType ==
  ASSUME NEW s \in Strategies
  PROVE  Stored(s) \in Strategies /\ Stored(s).name = s.name
<1> DEFINE filled(f) ==
      IF f \in Reflection /\ s.type = "episodicOverride" /\ s.has["reflection"] = Unset
      THEN Unset
      ELSE IF f \in Pair \cup Reflection
      THEN IF s.has[Partner(f)] # Unset THEN s.has[Partner(f)] ELSE Default
      ELSE IF f \in Steps THEN Empty ELSE Unset
<1>1. \A f \in Fields : s.has[f] \in Unset..Default
  BY DEF Strategies
<1>2. \A f \in Pair \cup Reflection : Partner(f) \in Fields
  BY DEF Partner, Pair, Reflection, Fields
<1>3. \A f \in Fields : filled(f) \in Unset..Default
  BY <1>1, <1>2 DEF Unset, Default, Empty
<1>4. Stored(s) = [s EXCEPT !.has = [f \in Fields |->
         IF f \in FieldsOf(s.type) /\ s.has[f] = Unset THEN filled(f) ELSE s.has[f]]]
  BY DEF Stored
<1> HIDE DEF filled
<1> QED
  BY <1>1, <1>3, <1>4 DEF Strategies

LEMMA ModifiedType ==
  ASSUME NEW s \in Strategies, NEW has \in [Fields -> Unset..Default]
  PROVE  Modified(s, has) \in Strategies /\ Modified(s, has).name = s.name
BY DEF Modified, Strategies

(* What a plan sends for a strategy is a value for each field.              *)
LEMMA ModifyType ==
  ASSUME NEW d \in Strategies, NEW l
  PROVE  buildModifyStrategyInput(d, l) \in [Fields -> Unset..Default]
BY DEF buildModifyStrategyInput, buildModifyStrategyConfiguration, Strategies, Unset, Default

LEMMA OfType ==
  ASSUME NEW list \in Seq(Strategies)
  PROVE  Of(list) \subseteq Strategies /\ IsFiniteSet(Of(list))
<1>1. list \in Surjection(1..Len(list), Of(list))
  BY DEF Of, Surjection
<1> QED
  BY <1>1, FS_NatSurjection DEF Of, ExistsSurjection

(* A set of strategies, put in order.                                       *)
LEMMA Sequenced ==
  ASSUME NEW S, IsFiniteSet(S)
  PROVE  Cardinality(S) \in Nat /\ SetToSeq(S) \in [1..Cardinality(S) -> S]
<1>1. Cardinality(S) \in Nat /\ ExistsBijection(1..Cardinality(S), S)
  BY FS_CardinalityType
<1>2. \E f \in [1..Cardinality(S) -> S] : IsInjective(f)
  BY <1>1 DEF ExistsBijection, Bijection, Injection
<1> QED
  BY <1>1, <1>2 DEF SetToSeq

-----------------------------------------------------------------------------
(* What an update leaves of a strategy.                                     *)
LEMMA PlanType ==
  ASSUME IInv
  PROVE  /\ Plan.adds \subseteq Strategies /\ IsFiniteSet(Plan.adds)
         /\ \A m \in Plan.modifies : m.has \in [Fields -> Unset..Default]
<1>1. Plan.adds \in SUBSET Of(desired)
  BY DEF Plan, buildModifyMemoryStrategies
<1>2. \A m \in Plan.modifies : \E d \in Of(desired) : \E l : m.has = buildModifyStrategyInput(d, l)
  BY DEF Plan, buildModifyMemoryStrategies
<1> QED
  BY <1>1, <1>2, OfType, ModifyType, FS_Subset DEF IInv, Listed

LEMMA ApplyKeeps ==
  ASSUME IInv, Apply(Plan)
  PROVE  /\ Held'
         /\ ids =< ids'
         /\ \A i \in DOMAIN held : i \notin Plan.deletes => i \in DOMAIN held'
         /\ \A i \in DOMAIN held' : /\ i \in DOMAIN held => held'[i].name = held[i].name
                                    /\ i \notin DOMAIN held => i > ids
<1> DEFINE added == SetToSeq(Plan.adds)
           kept  == DOMAIN held \ Plan.deletes
           new   == (ids + 1)..(ids + Cardinality(Plan.adds))
           changed(i) == \E m \in Plan.modifies : m.id = i
           change(i)  == (CHOOSE m \in Plan.modifies : m.id = i).has
           becomes(i) == IF i \in new THEN Stored(added[i - ids])
                         ELSE IF changed(i) THEN Modified(held[i], change(i)) ELSE held[i]
<1>1. ids' = ids + Cardinality(Plan.adds) /\ held' = [i \in kept \cup new |-> becomes(i)]
  BY DEF Apply
<1>2. Cardinality(Plan.adds) \in Nat /\ added \in [1..Cardinality(Plan.adds) -> Plan.adds]
  BY PlanType, Sequenced
<1>3. ids \in Nat /\ \A i \in DOMAIN held : i \in Nat /\ i =< ids /\ held[i] \in Strategies
  BY DEF IInv, Held
<1>4. ASSUME NEW i \in new PROVE i \in Nat /\ i > ids /\ i =< ids' /\ becomes(i) \in Strategies
  <2>1. i - ids \in 1..Cardinality(Plan.adds) /\ i \in Nat /\ i > ids /\ i =< ids'
    BY <1>1, <1>2, <1>3
  <2>2. added[i - ids] \in Strategies
    BY <1>2, <2>1, PlanType
  <2> QED
    BY <2>1, <2>2, StoredType
<1>5. ASSUME NEW i \in kept
      PROVE  /\ i \in Nat /\ i =< ids' /\ i \notin new
             /\ becomes(i) \in Strategies /\ becomes(i).name = held[i].name
  <2>1. i \in Nat /\ i =< ids /\ i \notin new /\ held[i] \in Strategies
    BY <1>2, <1>3
  <2>2. changed(i) => change(i) \in [Fields -> Unset..Default]
    BY PlanType
  <2>3. changed(i) => /\ Modified(held[i], change(i)) \in Strategies
                      /\ Modified(held[i], change(i)).name = held[i].name
    BY <2>1, <2>2, ModifiedType
  <2> HIDE DEF changed, change
  <2> QED
    BY <1>1, <1>2, <1>3, <2>1, <2>3
<1> HIDE DEF becomes, new
<1>6. DOMAIN held' = kept \cup new /\ \A i \in kept \cup new : held'[i] = becomes(i)
  BY <1>1
<1>7. Held'
  <2>1. ids' \in Nat
    BY <1>1, <1>2, <1>3
  <2>2. held' = [i \in DOMAIN held' |-> held'[i]]
    BY <1>1
  <2> QED
    BY <1>4, <1>5, <1>6, <2>1, <2>2 DEF Held
<1> QED
  BY <1>1, <1>2, <1>3, <1>4, <1>5, <1>6, <1>7

-----------------------------------------------------------------------------
(* Where the memory only loses strategies, gains ones with identifiers not  *)
(* given out before, and renames none, what was read stays true.            *)
LEMMA StaysTrue ==
  ASSUME IInv, latest' = latest, ids' \in Nat, ids =< ids',
         \A i \in DOMAIN held' : /\ i \in DOMAIN held => held'[i].name = held[i].name
                                 /\ i \notin DOMAIN held => i > ids
  PROVE  IdsTrue'
<1> SUFFICES ASSUME NEW n \in DOMAIN latest.ids
             PROVE  /\ latest.ids[n] \in Nat /\ latest.ids[n] =< ids'
                    /\ latest.ids[n] \in DOMAIN held' => held'[latest.ids[n]].name = n
  BY DEF IdsTrue
<1>1. /\ latest.ids[n] \in Nat /\ latest.ids[n] =< ids
      /\ latest.ids[n] \in DOMAIN held => held[latest.ids[n]].name = n
  BY DEF IInv, IdsTrue
<1> QED
  BY <1>1 DEF IInv, Held

(* A reconcile that ends forgets what was read.                             *)
LEMMA FinishForgets ==
  ASSUME NEW how, Finish(how)
  PROVE  IdsTrue' /\ desired' \in Seq(Strategies)
BY DEF Finish, Nothing, IdsTrue

(* Every step keeps the invariant. *)
LEMMA IInvStep == IInv /\ [Next]_vars => IInv'
<1> SUFFICES ASSUME IInv, [Next]_vars PROVE IInv'
  OBVIOUS
<1>1. CASE UNCHANGED vars
  BY <1>1 DEF vars, memory, worker, IInv, Held, IdsTrue, Listed
<1>2. CASE Reconcile
  BY <1>2 DEF Reconcile, memory, IInv, Held, IdsTrue, Listed
<1>3. CASE Read
  <2>1. CASE \E how : Finish(how)
    BY <1>3, <2>1, FinishForgets DEF Read, memory, IInv, Held, Listed
  <2>2. CASE UNCHANGED latest /\ UNCHANGED desired
    BY <1>3, <2>2 DEF Read, memory, IInv, Held, IdsTrue, Listed
  <2>3. CASE latest' = Shown /\ UNCHANGED desired
    <3>1. ASSUME NEW n \in DOMAIN latest'.ids
          PROVE  latest'.ids[n] \in DOMAIN held /\ held[latest'.ids[n]].name = n
      BY <2>3, <3>1 DEF Shown
    <3> QED
      BY <1>3, <2>3, <3>1 DEF Read, memory, IInv, Held, IdsTrue, Listed
  <2> QED
    BY <1>3, <2>1, <2>2, <2>3 DEF Read
<1>4. CASE Create
  <2>1. /\ held' = [i \in DOMAIN desired |-> Stored(desired[i])]
        /\ ids' = Len(desired) /\ desired \in Seq(Strategies)
    BY <1>4 DEF Create, IInv, Listed
  <2>2. \A i \in DOMAIN desired : desired[i] \in Strategies /\ i \in Nat /\ i =< Len(desired)
    BY <2>1
  <2>3. Held'
    BY <2>1, <2>2, StoredType DEF Held
  <2> QED
    BY <1>4, <2>3, FinishForgets DEF Create, IInv, Listed
<1>5. CASE Update
  <2>1. PICK how : Finish(how)
    BY <1>5 DEF Update
  <2>2. CASE UNCHANGED memory
    BY <1>5, <2>1, <2>2, FinishForgets DEF Update, memory, IInv, Held, Listed
  <2>3. CASE Apply(Plan)
    BY <1>5, <2>1, <2>3, ApplyKeeps, FinishForgets DEF Update, IInv, Listed
  <2> QED
    BY <1>5, <2>2, <2>3 DEF Update
<1>6. CASE Resync
  BY <1>6 DEF Resync, memory, worker, IInv, Held, IdsTrue, Listed
<1>7. CASE Settle
  BY <1>7 DEF Settle, worker, IInv, Held, IdsTrue, Listed
<1>8. CASE EditStrategies
  <2>1. spec' \in Seq(Strategies)
    BY <1>8, ListsAssumption DEF EditStrategies
  <2> QED
    BY <1>8, <2>1 DEF EditStrategies, memory, worker, IInv, Held, IdsTrue, Listed
<1>9. CASE Drift
  <2>1. UNCHANGED <<spec, latest, desired>>
    BY <1>9 DEF Drift, worker
  <2>2. /\ Held' /\ ids =< ids'
        /\ \A i \in DOMAIN held' : /\ i \in DOMAIN held => held'[i].name = held[i].name
                                   /\ i \notin DOMAIN held => i > ids
    <3>1. CASE \E i \in DOMAIN held :
                 held' = [j \in DOMAIN held \ {i} |-> held[j]] /\ UNCHANGED ids
      BY <3>1 DEF IInv, Held
    <3>2. CASE \E i \in DOMAIN held : \E f \in FieldsOf(held[i].type) :
                 held' = [held EXCEPT ![i].has[f] = 2] /\ UNCHANGED ids
      <4>1. PICK i \in DOMAIN held :
              \E f \in FieldsOf(held[i].type) :
                held' = [held EXCEPT ![i].has[f] = 2] /\ UNCHANGED ids
        BY <3>2
      <4>2. PICK f \in FieldsOf(held[i].type) :
              held' = [held EXCEPT ![i].has[f] = 2] /\ UNCHANGED ids
        BY <4>1
      <4> DEFINE new == [held[i] EXCEPT !.has = [@ EXCEPT ![f] = 2]]
      <4>3. held[i] \in Strategies
        BY DEF IInv, Held
      <4>4. new \in Strategies /\ new.name = held[i].name
        BY <4>3 DEF Strategies, Unset, Default
      <4>5. ids' = ids /\ held' = [held EXCEPT ![i] = new]
        BY <4>2
      <4> HIDE DEF new
      <4>6. /\ DOMAIN held' = DOMAIN held
            /\ \A j \in DOMAIN held : held'[j] = IF j = i THEN new ELSE held[j]
        BY <4>5 DEF IInv, Held
      <4>7. held' = [j \in DOMAIN held' |-> held'[j]]
        BY <4>5
      <4> QED
        BY <4>4, <4>5, <4>6, <4>7 DEF IInv, Held
    <3>3. CASE \E s \in Strangers :
                 /\ ids' = ids + 1
                 /\ held' = [j \in DOMAIN held \cup {ids'} |->
                               IF j = ids' THEN Stored(s) ELSE held[j]]
      <4>1. PICK s \in Strangers :
                 /\ ids' = ids + 1
                 /\ held' = [j \in DOMAIN held \cup {ids'} |->
                               IF j = ids' THEN Stored(s) ELSE held[j]]
        BY <3>3
      <4>2. s \in Strategies
        <5>1. <<s>> \in Seq(Strategies)
          BY ListsAssumption
        <5> QED
          BY <5>1
      <4> QED
        BY <4>1, <4>2, StoredType DEF IInv, Held
    <3> QED
      BY <1>9, <3>1, <3>2, <3>3 DEF Drift
  <2>3. IdsTrue'
    BY <2>1, <2>2, StaysTrue DEF Held
  <2> QED
    BY <2>1, <2>2, <2>3 DEF IInv, Listed
<1> QED
  BY <1>1, <1>2, <1>3, <1>4, <1>5, <1>6, <1>7, <1>8, <1>9 DEF Next, Worker

LEMMA IInvInit == Init => IInv
BY ListsAssumption DEF Init, IInv, Held, IdsTrue, Listed, Nothing

-----------------------------------------------------------------------------
(* No update deletes a strategy whose name is in the spec.                  *)
THEOREM StrategiesKept == Spec => WantedStrategiesKept
<1> DEFINE Keeps == pc = "update" /\ pc' # pc =>
                      \A i \in DOMAIN held :
                        held[i].name \in NamesOf(desired) => i \in DOMAIN held'
<1>1. IInv /\ [Next]_vars => Keeps
  <2> SUFFICES ASSUME IInv, [Next]_vars, pc = "update", pc' # pc,
                      NEW i \in DOMAIN held, held[i].name \in NamesOf(desired)
               PROVE  i \in DOMAIN held'
    OBVIOUS
  <2>1. Update
    BY DEF Next, Worker, Reconcile, Read, Create, Resync, Settle, EditStrategies, Drift,
           At, worker, vars
  <2>2. CASE UNCHANGED memory
    BY <2>2 DEF memory
  <2>3. CASE Apply(Plan)
    <3>1. i \notin Plan.deletes
      BY DEF Plan, buildModifyMemoryStrategies, IInv, IdsTrue
    <3> QED
      BY <2>3, <3>1, ApplyKeeps
  <2> QED
    BY <2>1, <2>2, <2>3 DEF Update
<1>2. IInv /\ [Next]_vars => [Keeps]_vars
  BY <1>1
<1> QED
  BY <1>2, IInvInit, IInvStep, PTL DEF Spec, WantedStrategiesKept


-----------------------------------------------------------------------------
(* The comparison goes by the places of names, the plan by the names.       *)

Distinct(list) == \A i, j \in DOMAIN list : list[i].name = list[j].name => i = j

(* The names of a list are numbers, and as many as it is long.              *)
LEMMA NamesOfList ==
  ASSUME NEW list \in Seq(Strategies)
  PROVE  /\ NamesOf(list) \subseteq Nat /\ IsFiniteSet(NamesOf(list))
         /\ Distinct(list) => Cardinality(NamesOf(list)) = Len(list)
<1> DEFINE name == [i \in 1..Len(list) |-> list[i].name]
<1>1. NamesOf(list) \subseteq Nat
  BY ListsAssumption, OfType DEF NamesOf, Strategies
<1>2. name \in Surjection(1..Len(list), NamesOf(list))
  BY DEF NamesOf, Of, Surjection
<1>3. Len(list) \in Nat /\ IsFiniteSet(1..Len(list)) /\ Cardinality(1..Len(list)) = Len(list)
  <2>1. Len(list) \in Nat /\ Len(list) \in Int /\ 1 \in Int
    OBVIOUS
  <2> QED
    BY <2>1, FS_Interval
<1>4. Distinct(list) => name \in Injection(1..Len(list), NamesOf(list))
  BY <1>2 DEF Distinct, Injection, IsInjective, Surjection
<1> HIDE DEF name
<1> QED
  BY <1>1, <1>2, <1>3, <1>4, FS_Surjection

(* Among the same names, what comes to the same place has the same name.    *)
LEMMA PlaceIsName ==
  ASSUME NEW a \in Seq(Strategies), NEW b \in Seq(Strategies), NamesOf(a) = NamesOf(b),
         NEW s \in Of(a), NEW t \in Of(b), Place(a, s) = Place(b, t)
  PROVE  s.name = t.name
<1> DEFINE N == NamesOf(a)
           Before(x) == {n \in N : n < x}
<1>1. N \subseteq Nat /\ IsFiniteSet(N) /\ s.name \in N /\ t.name \in N
  BY NamesOfList DEF NamesOf
<1>2. Cardinality(Before(s.name)) = Cardinality(Before(t.name))
  BY DEF Place
<1>3. ASSUME NEW x \in N, NEW y \in N, x < y
      PROVE  Cardinality(Before(x)) # Cardinality(Before(y))
  <2>1. x \in Nat /\ y \in Nat /\ IsFiniteSet(Before(y))
    BY <1>1, FS_Subset
  <2>2. Before(x) \in SUBSET Before(y) /\ x \in Before(y) /\ x \notin Before(x)
    BY <1>1, <1>3
  <2> QED
    BY <2>1, <2>2, FS_Subset
<1> HIDE DEF Before, N
<1>4. \A x, y \in N : x # y => x < y \/ y < x
  BY <1>1
<1> QED
  BY <1>1, <1>2, <1>3, <1>4

-----------------------------------------------------------------------------
(* No two strategies of a memory have one name, and what is read of it is   *)
(* each of them once.                                                       *)

NamesApart ==
  /\ \A i, j \in DOMAIN held : held[i].name = held[j].name => i = j
  /\ Distinct(spec) /\ Distinct(desired)

(* Until an update is made, it is due.                                      *)
Compared ==
  At("update") =>
    /\ latest.list \in Seq(Strategies) /\ Distinct(latest.list)
    /\ DOMAIN latest.ids = NamesOf(latest.list)
    /\ compareMemoryStrategies(desired, latest.list)

LEMMA ShownOnce ==
  ASSUME IInv, NamesApart
  PROVE  /\ Shown.list \in Seq(Strategies) /\ Distinct(Shown.list)
         /\ DOMAIN Shown.ids = NamesOf(Shown.list)
<1> DEFINE S == {AsInput(held[i]) : i \in DOMAIN held}
           n == Cardinality(S)
           list == SetToSeq(S)
<1>1. ids \in Nat /\ \A i \in DOMAIN held : i \in Nat /\ i =< ids /\ held[i] \in Strategies
  BY DEF IInv, Held
<1>2. IsFiniteSet(DOMAIN held)
  BY <1>1, FS_BoundedSetOfNaturals
<1>3. \A i \in DOMAIN held : AsInput(held[i]) \in Strategies /\ AsInput(held[i]).name = held[i].name
  BY <1>1 DEF AsInput, Strategies, Unset, Default
<1>4. IsFiniteSet(S) /\ S \subseteq Strategies
  <2> DEFINE input == [i \in DOMAIN held |-> AsInput(held[i])]
  <2>1. input \in Surjection(DOMAIN held, S)
    BY DEF Surjection
  <2> HIDE DEF input
  <2> QED
    BY <1>2, <1>3, <2>1, FS_Surjection
<1>5. \A s, t \in S : s.name = t.name => s = t
  BY <1>3 DEF NamesApart
<1>6. n \in Nat /\ list \in [1..n -> S] /\ IsInjective(list)
  <2>1. n \in Nat /\ ExistsBijection(1..n, S)
    BY <1>4, FS_CardinalityType
  <2>2. \E f \in [1..n -> S] : IsInjective(f)
    BY <2>1 DEF ExistsBijection, Bijection, Injection
  <2> QED
    BY <2>1, <2>2 DEF SetToSeq
<1>7. list \in Surjection(1..n, S)
  <2>1. list \in Injection(1..n, S)
    BY <1>6 DEF Injection
  <2>2. Cardinality(1..n) = n
    BY <1>6, FS_Interval
  <2> HIDE DEF list
  <2> QED
    BY <1>4, <2>1, <2>2, FS_Injection
<1> DEFINE names == {held[i].name : i \in DOMAIN held}
<1>8. Shown.list = list /\ DOMAIN Shown.ids = names
  BY DEF Shown
<1>9. names = {s.name : s \in S}
  BY <1>3
<1> HIDE DEF S, n, list
<1>10. list \in Seq(S) /\ DOMAIN list = 1..n
  BY <1>6
<1>11. Of(list) = S
  BY <1>7, <1>10 DEF Of, Surjection
<1>12. list \in Seq(Strategies) /\ Distinct(list)
  BY <1>4, <1>5, <1>6, <1>10 DEF Distinct, IsInjective
<1> QED
  BY <1>8, <1>9, <1>11, <1>12 DEF NamesOf

(* A difference that was found is something to do.                          *)
LEMMA ToDo == IInv /\ NamesApart /\ Compared => DifferenceMeansPlan
<1> SUFFICES ASSUME IInv, NamesApart, Compared, At("update"),
                    Plan.adds = {}, Plan.modifies = {}, Plan.deletes = {}
             PROVE  FALSE
  BY DEF DifferenceMeansPlan, At
<1> DEFINE shown == latest.list
<1>1. /\ desired \in Seq(Strategies) /\ Distinct(desired)
      /\ shown \in Seq(Strategies) /\ Distinct(shown)
      /\ DOMAIN latest.ids = NamesOf(shown)
      /\ compareMemoryStrategies(desired, shown)
  BY DEF Compared, IInv, Listed, NamesApart
<1>2. NamesOf(desired) \subseteq NamesOf(shown)
  BY DEF Plan, buildModifyMemoryStrategies, NamesOf
<1>3. NamesOf(shown) \subseteq NamesOf(desired)
  <2>1. Plan.deletes = {latest.ids[name] : name \in (NamesOf(shown) \ NamesOf(desired)) \cap DOMAIN latest.ids}
    BY DEF Plan, buildModifyMemoryStrategies
  <2> QED
    BY <1>1, <2>1
<1>4. Len(desired) = Len(shown)
  BY <1>1, <1>2, <1>3, NamesOfList
<1>5. PICK s \in Of(desired), t \in Of(shown) : Place(desired, s) = Place(shown, t) /\ Differ(s, t)
  BY <1>1, <1>4 DEF compareMemoryStrategies
<1>6. t \in Matched(shown, s.name)
  <2>1. NamesOf(desired) = NamesOf(shown)
    BY <1>2, <1>3
  <2>2. s.name = t.name
    BY <1>1, <1>5, <2>1, PlaceIsName
  <2> QED
    BY <1>5, <2>2 DEF Matched
<1> DEFINE modify(d) == {[id |-> latest.ids[d.name], has |-> buildModifyStrategyInput(d, l)] :
                           l \in {l \in Matched(shown, d.name) : Differ(d, l)}}
<1>7. Plan.modifies = UNION {modify(d) : d \in Of(desired)}
  BY DEF Plan, buildModifyMemoryStrategies
<1>8. modify(s) # {}
  BY <1>5, <1>6
<1> HIDE DEF modify
<1> QED
  BY <1>5, <1>7, <1>8


LEMMA ApplyApart ==
  ASSUME IInv, NamesApart, Apply(Plan), ~Clash(Plan)
  PROVE  \A i, j \in DOMAIN held' : held'[i].name = held'[j].name => i = j
<1> DEFINE added == SetToSeq(Plan.adds)
           n     == Cardinality(Plan.adds)
           kept  == DOMAIN held \ Plan.deletes
           new   == (ids + 1)..(ids + n)
           changed(i) == \E m \in Plan.modifies : m.id = i
           change(i)  == (CHOOSE m \in Plan.modifies : m.id = i).has
           becomes(i) == IF i \in new THEN Stored(added[i - ids])
                         ELSE IF changed(i) THEN Modified(held[i], change(i)) ELSE held[i]
<1>1. held' = [i \in kept \cup new |-> becomes(i)]
  BY DEF Apply
<1>2. ids \in Nat /\ \A i \in DOMAIN held : i \in Nat /\ i =< ids /\ held[i] \in Strategies
  BY DEF IInv, Held
<1>3. n \in Nat /\ added \in [1..n -> Plan.adds] /\ IsInjective(added)
  <2>1. n \in Nat /\ ExistsBijection(1..n, Plan.adds)
    BY PlanType, FS_CardinalityType
  <2>2. \E f \in [1..n -> Plan.adds] : IsInjective(f)
    BY <2>1 DEF ExistsBijection, Bijection, Injection
  <2> QED
    BY <2>1, <2>2 DEF SetToSeq
<1>4. Plan.adds \subseteq Strategies /\ \A s, t \in Plan.adds : s.name = t.name => s = t
  <2>1. Plan.adds \subseteq Of(desired)
    BY DEF Plan, buildModifyMemoryStrategies
  <2>2. \A s, t \in Of(desired) : s.name = t.name => s = t
    BY DEF Of, NamesApart, Distinct
  <2> QED
    BY <2>1, <2>2, PlanType
<1> HIDE DEF added, n
<1>5. ASSUME NEW i \in new
      PROVE  i > ids /\ i - ids \in 1..n /\ becomes(i).name = added[i - ids].name
  <2>1. i > ids /\ i - ids \in 1..n
    BY <1>2, <1>3
  <2> QED
    BY <1>3, <1>4, <2>1, StoredType
<1>6. ASSUME NEW i \in kept
      PROVE  i \in Nat /\ i =< ids /\ becomes(i).name = held[i].name
  <2>1. i \notin new /\ i \in Nat /\ i =< ids /\ held[i] \in Strategies
    BY <1>2, <1>3
  <2>2. changed(i) => change(i) \in [Fields -> Unset..Default]
    BY PlanType
  <2>3. changed(i) => Modified(held[i], change(i)).name = held[i].name
    BY <2>1, <2>2, ModifiedType
  <2> HIDE DEF changed, change
  <2> QED
    BY <2>1, <2>3
<1> HIDE DEF becomes
<1>7. ASSUME NEW i \in new, NEW j \in new, becomes(i).name = becomes(j).name PROVE i = j
  <2>1. added[i - ids] = added[j - ids]
    BY <1>3, <1>4, <1>5, <1>7
  <2>2. i - ids = j - ids
    BY <1>3, <1>5, <2>1 DEF IsInjective
  <2> QED
    BY <1>2, <1>3, <2>2
<1>8. ASSUME NEW i \in kept, NEW j \in new PROVE becomes(i).name # becomes(j).name
  <2>1. added[j - ids] \in Plan.adds
    BY <1>3, <1>5
  <2> QED
    BY <1>5, <1>6, <2>1 DEF Clash
<1>9. ASSUME NEW i \in kept, NEW j \in kept, becomes(i).name = becomes(j).name PROVE i = j
  BY <1>6, <1>9 DEF NamesApart
<1> HIDE DEF kept, new
<1> QED
  BY <1>1, <1>7, <1>8, <1>9

LEMMA FinishDistinct ==
  ASSUME NEW how, Finish(how)
  PROVE  Distinct(desired') /\ ~At("update")'
BY DEF Finish, Goto, At, Distinct

LEMMA NamesApartNext == IInv /\ NamesApart /\ [Next]_vars => NamesApart'
<1> SUFFICES ASSUME IInv, NamesApart, [Next]_vars PROVE NamesApart'
  OBVIOUS
<1>1. CASE UNCHANGED <<held, spec, desired>>
  BY <1>1 DEF NamesApart, Distinct
<1>2. CASE UNCHANGED vars
  BY <1>1, <1>2 DEF vars, memory, worker
<1>3. CASE Reconcile
  BY <1>3 DEF Reconcile, memory, NamesApart, Distinct
<1>4. CASE Read
  <2>1. UNCHANGED <<held, spec>>
    BY <1>4 DEF Read, memory
  <2>2. CASE \E how : Finish(how)
    BY <2>1, <2>2, FinishDistinct DEF NamesApart, Distinct
  <2> QED
    BY <1>1, <1>4, <2>1, <2>2 DEF Read
<1>5. CASE Create
  <2>1. /\ held' = [i \in DOMAIN desired |-> Stored(desired[i])]
        /\ desired \in Seq(Strategies) /\ UNCHANGED spec
    BY <1>5 DEF Create, IInv, Listed
  <2>2. \A i \in DOMAIN desired : Stored(desired[i]).name = desired[i].name
    BY <2>1, StoredType
  <2> QED
    BY <1>5, <2>1, <2>2, FinishDistinct DEF Create, NamesApart, Distinct
<1>6. CASE Update
  <2>1. PICK how : Finish(how)
    BY <1>6 DEF Update
  <2>2. UNCHANGED spec
    BY <1>6 DEF Update
  <2>3. CASE UNCHANGED memory
    BY <2>1, <2>2, <2>3, FinishDistinct DEF memory, NamesApart, Distinct
  <2>4. CASE Apply(Plan) /\ ~Clash(Plan)
    BY <2>1, <2>2, <2>4, ApplyApart, FinishDistinct DEF NamesApart, Distinct
  <2> QED
    BY <1>6, <2>3, <2>4 DEF Update
<1>7. CASE Resync \/ Settle
  BY <1>1, <1>7 DEF Resync, Settle, memory, worker
<1>8. CASE EditStrategies
  <2>1. spec' \in Lists
    BY <1>8 DEF EditStrategies
  <2>2. Distinct(spec')
    BY <2>1, ListsAssumption DEF Distinct
  <2> QED
    BY <1>8, <2>2 DEF EditStrategies, memory, worker, NamesApart, Distinct
<1>9. CASE Drift
  <2>1. UNCHANGED <<spec, desired>>
    BY <1>9 DEF Drift, worker
  <2>2. CASE \E i \in DOMAIN held : held' = [j \in DOMAIN held \ {i} |-> held[j]]
    BY <2>1, <2>2 DEF NamesApart, Distinct
  <2>3. CASE \E i \in DOMAIN held : \E f \in FieldsOf(held[i].type) :
               held' = [held EXCEPT ![i].has[f] = 2]
    <3>1. PICK i \in DOMAIN held : \E f \in FieldsOf(held[i].type) :
                                     held' = [held EXCEPT ![i].has[f] = 2]
      BY <2>3
    <3>2. PICK f \in FieldsOf(held[i].type) : held' = [held EXCEPT ![i].has[f] = 2]
      BY <3>1
    <3> DEFINE new == [held[i] EXCEPT !.has = [@ EXCEPT ![f] = 2]]
    <3>3. held[i] \in Strategies
      BY DEF IInv, Held
    <3>4. new.name = held[i].name
      BY <3>3 DEF Strategies
    <3>5. held' = [held EXCEPT ![i] = new]
      BY <3>2
    <3> HIDE DEF new
    <3>6. /\ DOMAIN held' = DOMAIN held
          /\ \A j \in DOMAIN held : held'[j].name = held[j].name
      BY <3>4, <3>5 DEF IInv, Held
    <3> QED
      BY <2>1, <3>6 DEF NamesApart, Distinct
  <2>4. CASE \E s \in Strangers :
               /\ \A i \in DOMAIN held : held[i].name # s.name
               /\ ids' = ids + 1
               /\ held' = [j \in DOMAIN held \cup {ids'} |->
                             IF j = ids' THEN Stored(s) ELSE held[j]]
    <3>1. PICK s \in Strangers :
               /\ \A i \in DOMAIN held : held[i].name # s.name
               /\ ids' = ids + 1
               /\ held' = [j \in DOMAIN held \cup {ids'} |->
                             IF j = ids' THEN Stored(s) ELSE held[j]]
      BY <2>4
    <3>2. s \in Strategies
      <4>1. <<s>> \in Seq(Strategies)
        BY ListsAssumption
      <4> QED
        BY <4>1
    <3>3. Stored(s).name = s.name
      BY <3>2, StoredType
    <3>4. ids' \notin DOMAIN held
      BY <3>1 DEF IInv, Held
    <3> QED
      BY <2>1, <3>1, <3>3, <3>4 DEF NamesApart, Distinct
  <2> QED
    BY <1>9, <2>2, <2>3, <2>4 DEF Drift
<1> QED
  BY <1>2, <1>3, <1>4, <1>5, <1>6, <1>7, <1>8, <1>9 DEF Next, Worker

LEMMA ComparedNext == IInv /\ NamesApart /\ Compared /\ [Next]_vars => Compared'
<1> SUFFICES ASSUME IInv, NamesApart, Compared, [Next]_vars, At("update")' PROVE Compared'
  BY DEF Compared
<1>1. CASE UNCHANGED worker
  BY <1>1 DEF worker, Compared, At
<1>2. CASE Read
  <2>1. latest' = Shown /\ UNCHANGED desired /\ compareMemoryStrategies(desired, Shown.list)
    BY <1>2, FinishDistinct DEF Read, Goto, At
  <2> QED
    BY <2>1, ShownOnce DEF Compared
<1>3. CASE Reconcile \/ Create \/ Update
  BY <1>3, FinishDistinct DEF Reconcile, Create, Update, Goto, At
<1>4. CASE UNCHANGED vars \/ Resync \/ Settle \/ EditStrategies \/ Drift
  BY <1>1, <1>4 DEF vars, Resync, Settle, EditStrategies, Drift
<1> QED
  BY <1>2, <1>3, <1>4 DEF Next, Worker

LEMMA ComparedInit == Init => NamesApart /\ Compared
BY ListsAssumption DEF Init, NamesApart, Compared, Distinct, At

-----------------------------------------------------------------------------
(* An update that is due has something in it: what the comparison of the    *)
(* sorted lists takes for a difference is one by name as well.              *)
THEOREM UpdatesHaveSomething == Spec => []DifferenceMeansPlan
<1>1. Init => IInv /\ NamesApart /\ Compared
  BY IInvInit, ComparedInit
<1>2. (IInv /\ NamesApart /\ Compared) /\ [Next]_vars => (IInv /\ NamesApart /\ Compared)'
  BY IInvStep, NamesApartNext, ComparedNext
<1>3. IInv /\ NamesApart /\ Compared => DifferenceMeansPlan
  BY ToDo
<1> QED
  BY <1>1, <1>2, <1>3, PTL DEF Spec

=============================================================================
