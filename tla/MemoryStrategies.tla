-------------------------- MODULE MemoryStrategies --------------------------
(***************************************************************************)
(* The strategies of a memory: a list in the spec, in any order and        *)
(* without identifiers; a set in the service, each with an identifier, the *)
(* records it has extracted, and fields the service filled in.  They are   *)
(* matched by name, and what differs becomes one UpdateMemory that adds,   *)
(* modifies and deletes.                                                   *)
(*                                                                         *)
(* pkg/resource/memory/hooks.go, and the parts of sdk.go that call it.     *)
(***************************************************************************)
EXTENDS Naturals, Sequences, FiniteSets, SequencesExt

CONSTANTS
  Names,       \* of strategies: numbers, for their order
  Lists,       \* what the user may have in the spec
  Strangers,   \* strategies that others may add
  MaxIds,      \* strategies the account's quota admits
  Budget,      \* how often each thing below may happen
  MaxTogether  \* and how many of them in one behaviour

(* A strategy has a name, a type, and a value for each of the fields of its *)
(* type.  1 and 2 are values that people give.                              *)
Unset   == 0
Empty   == 3     \* an override step without a prompt and a model
Default == 4     \* what the service fills in

Pair       == {"namespaces", "namespaceTemplates"}
Reflection == {"reflectionNamespaces", "reflectionNamespaceTemplates"}
Steps      == {"consolidation", "extraction", "reflection"}
Fields     == {"description", "selfManaged"} \cup Pair \cup Reflection \cup Steps

Partner(f) ==
  CASE f = "namespaces"           -> "namespaceTemplates"
    [] f = "namespaceTemplates"   -> "namespaces"
    [] f = "reflectionNamespaces" -> "reflectionNamespaceTemplates"
    [] OTHER                      -> "reflectionNamespaces"

(* Semantic, summary and user preference strategies are built in; a custom  *)
(* strategy has exactly one of the configurations of its union.             *)
Types == {"builtIn", "episodic", "summaryOverride", "semanticOverride",
          "episodicOverride", "selfManaged"}
FieldsOf(type) ==
  {"description"} \cup Pair \cup
  CASE type = "builtIn"          -> {}
    [] type = "episodic"         -> Reflection
    [] type = "summaryOverride"  -> {"consolidation"}
    [] type = "semanticOverride" -> {"consolidation", "extraction"}  \* user preference too
    [] type = "episodicOverride" -> Steps \cup Reflection
    [] type = "selfManaged"      -> {"selfManaged"}

Strategies == [name: Names, type: Types, has: [Fields -> Unset..Default]]

(* edits of the spec; drifts, changes of the strategies by others; errors,  *)
(* a call refused.                                                          *)
Occasions == {"edits", "drifts", "errors"}

Of(list)      == {list[i] : i \in DOMAIN list}
NamesOf(list) == {s.name : s \in Of(list)}

ASSUME ListsAssumption ==
  /\ Names \subseteq Nat
  /\ \A list \in Lists \cup {<<s>> : s \in Strangers} :
       /\ list \in Seq(Strategies)
       /\ \A i, j \in DOMAIN list : list[i].name = list[j].name => i = j
       /\ \A s \in Of(list), f \in Fields :
            s.has[f] \in IF f \in FieldsOf(s.type) THEN 0..2 ELSE {Unset}
ASSUME BoundsAssumption ==
  MaxIds \in Nat /\ MaxTogether \in Nat /\ Budget \in [Occasions -> Nat]

VARIABLES
  spec,     \* the list in the spec the API server holds
  held,     \* id -> the strategy the service has
  status,   \* of the memory
  ids,      \* how many have been given out
  queued, pc,
  desired,  \* the worker's snapshot of the spec
  latest,   \* what it read: [list, ids by name, status]
  cond,     \* how the last reconcile went
  spent

worker == <<pc, desired, latest>>
memory == <<held, status, ids>>
vars   == <<spec, memory, queued, worker, cond, spent>>

Together == spent.edits + spent.drifts + spent.errors
Spend(occasion) ==
  /\ spent[occasion] < Budget[occasion] /\ Together < MaxTogether
  /\ spent' = [spent EXCEPT ![occasion] = @ + 1]

-----------------------------------------------------------------------------
(* The service.  A strategy is stored with a pair of namespaces: of one the *)
(* other is a copy, and of none both are a default.  An override has all of *)
(* its steps, the missing ones empty.                                       *)
Stored(s) ==
  LET filled(f) ==
        IF f \in Reflection /\ s.type = "episodicOverride" /\ s.has["reflection"] = Unset
        THEN Unset
        ELSE IF f \in Pair \cup Reflection
        THEN IF s.has[Partner(f)] # Unset THEN s.has[Partner(f)] ELSE Default
        ELSE IF f \in Steps THEN Empty ELSE Unset
  IN  [s EXCEPT !.has = [f \in Fields |->
         IF f \in FieldsOf(s.type) /\ s.has[f] = Unset THEN filled(f) ELSE s.has[f]]]

(* A modification changes the fields it has.                                *)
Modified(s, has) ==
  [s EXCEPT !.has = [f \in Fields |->
     IF f \in FieldsOf(s.type) /\ has[f] # Unset THEN has[f] ELSE s.has[f]]]

-----------------------------------------------------------------------------
(* stripAWSDefaults, normalizeCustomConfigDefaults, normalizeNamespacePair: *)
(* what the service may have filled in where desired has nothing.           *)
FilledIn(d, l, f) ==
  /\ d.has[f] = Unset
  /\ \/ f \in Pair
     \/ f \in Reflection /\ (d.type = "episodic" \/ d.has["reflection"] # Unset)
     \/ f \in Steps /\ l.has[f] = Empty
        /\ (f = "reflection" => \A g \in Reflection : l.has[g] = Unset)

(* slip: the default is known, the copy is not *)
stripLegacyDefaults(d, l) ==
  [l EXCEPT !.has = [f \in Fields |->
     IF FilledIn(d, l, f) /\ (f \in Pair => l.has[f] = Default) THEN Unset ELSE l.has[f]]]
stripAWSDefaults(d, l) ==
  [l EXCEPT !.has = [f \in Fields |-> IF FilledIn(d, l, f) THEN Unset ELSE l.has[f]]]

Differ(d, l) == d # stripAWSDefaults(d, l)

(* Where a strategy comes when its list is sorted by name.                  *)
Place(list, s) == Cardinality({name \in NamesOf(list) : name < s.name})

(* slip: the lists are compared as they come *)
compareInOrder(a, b) ==
  Len(a) # Len(b) \/ \E i \in DOMAIN a : Differ(a[i], b[i])
compareMemoryStrategies(a, b) ==
  \/ Len(a) # Len(b)
  \/ \E s \in Of(a), t \in Of(b) : Place(a, s) = Place(b, t) /\ Differ(s, t)

(* The fields a modification has.  What is not set is not sent; nor are the *)
(* namespaces of the reflection of an episodic strategy if they are the     *)
(* same, while the steps of an override all are.                            *)
buildModifyStrategyConfiguration(d, l) ==
  [f \in Fields \ ({"description"} \cup Pair) |->
     IF d.type = "episodic" /\ f \in Reflection /\ d.has[f] = l.has[f]
     THEN Unset ELSE d.has[f]]

(* slip: the configuration is left as it is *)
modifyWithoutConfiguration(d, l) ==
  [f \in Fields |-> IF f \in {"description"} \cup Pair THEN d.has[f] ELSE Unset]
buildModifyStrategyInput(d, l) ==
  [f \in Fields |-> IF f \in {"description"} \cup Pair THEN d.has[f]
                    ELSE buildModifyStrategyConfiguration(d, l)[f]]

(* buildModifyMemoryStrategies.                                             *)
Matched(list, name) == {s \in Of(list) : s.name = name}

(* slip: matched by their places *)
buildModifyInOrder(list, l) ==
  LET both == DOMAIN list \cap DOMAIN l.list IN
  [adds     |-> {list[i] : i \in DOMAIN list \ both},
   modifies |-> {[id |-> l.ids[l.list[i].name],
                  has |-> buildModifyStrategyInput(list[i], l.list[i])] :
                   i \in {i \in both : Differ(list[i], l.list[i])}},
   deletes  |-> {l.ids[l.list[i].name] : i \in DOMAIN l.list \ both}]
buildModifyMemoryStrategies(list, l) ==
  [adds     |-> {s \in Of(list) : s.name \notin NamesOf(l.list)},
   modifies |-> UNION {{[id |-> l.ids[s.name], has |-> buildModifyStrategyInput(s, t)] :
                          t \in {t \in Matched(l.list, s.name) : Differ(s, t)}} :
                         s \in Of(list)},
   deletes  |-> {l.ids[name] : name \in (NamesOf(l.list) \ NamesOf(list)) \cap DOMAIN l.ids}]

-----------------------------------------------------------------------------
At(step)   == pc = step
Goto(step) == pc' = step

Nothing == [list |-> <<>>, ids |-> <<>>, status |-> "none"]

Finish(how) ==
  /\ cond' = how
  /\ queued' = (queued \/ how = "retry")
  /\ Goto("idle") /\ desired' = <<>> /\ latest' = Nothing

Reconcile ==
  /\ At("idle") /\ queued
  /\ queued' = FALSE
  /\ desired' = spec
  /\ Goto("read")
  /\ UNCHANGED <<spec, memory, latest, cond, spent>>

(* sdkStrategyConfigToCustomConfigInput: an input has the fields of its     *)
(* type's member of the union.                                              *)
AsInput(s) ==
  [s EXCEPT !.has = [f \in Fields |-> IF f \in FieldsOf(s.type) THEN s.has[f] ELSE Unset]]

(* GetMemory, in whatever order; sdkStrategiesToMemoryStrategyInputs for    *)
(* the spec and the generated loop for the identifiers in the status.       *)
Shown ==
  [list   |-> SetToSeq({AsInput(held[i]) : i \in DOMAIN held}),
   ids    |-> [n \in {held[i].name : i \in DOMAIN held} |->
                 CHOOSE i \in DOMAIN held : held[i].name = n],
   status |-> status]

(* sdkFind, and newResourceDelta.                                           *)
Read ==
  /\ At("read")
  /\ \/ status = "none" /\ Goto("create") /\ UNCHANGED <<queued, desired, latest, cond>>
     \/ /\ status # "none"
        /\ IF compareMemoryStrategies(desired, Shown.list)
           THEN latest' = Shown /\ Goto("update") /\ UNCHANGED <<queued, desired, cond>>
           ELSE Finish(IF status = "active" THEN "ok" ELSE "retry")
  /\ UNCHANGED <<spec, memory, spent>>

(* CreateMemory, with all strategies (newCreateRequestPayload).             *)
Create ==
  /\ At("create")
  /\ held' = [i \in DOMAIN desired |-> Stored(desired[i])]
  /\ ids' = Len(desired)
  /\ status' = "creating"
  /\ Finish("retry")
  /\ UNCHANGED <<spec, spent>>

(* UpdateMemory: the service refuses a strategy that is not there, and one  *)
(* whose name another has.                                                  *)
Plan == buildModifyMemoryStrategies(desired, latest)

Gone(plan)  == (plan.deletes \cup {m.id : m \in plan.modifies}) \ DOMAIN held # {}
Clash(plan) == \E i \in DOMAIN held \ plan.deletes : \E s \in plan.adds : held[i].name = s.name

Apply(plan) ==
  LET added == SetToSeq(plan.adds)
      kept  == DOMAIN held \ plan.deletes
      new   == (ids + 1)..(ids + Cardinality(plan.adds))
  IN  /\ ids + Cardinality(plan.adds) =< MaxIds
      /\ ids' = ids + Cardinality(plan.adds)
      /\ held' = [i \in kept \cup new |->
           IF i \in new THEN Stored(added[i - ids])
           ELSE IF \E m \in plan.modifies : m.id = i
           THEN Modified(held[i], (CHOOSE m \in plan.modifies : m.id = i).has)
           ELSE held[i]]

(* sdkUpdate.  The answer shows a memory that is updating; the next         *)
(* reconcile reads it.                                                      *)
Update ==
  /\ At("update")
  /\ IF latest.status # "active" THEN Finish("retry") /\ UNCHANGED <<memory, spent>>
     ELSE LET plan == Plan IN
       \/ /\ ~Gone(plan) /\ ~Clash(plan)
          /\ Apply(plan) /\ status' = "updating"
          /\ Finish("retry") /\ UNCHANGED spent
       \/ Gone(plan) /\ Finish("retry") /\ UNCHANGED <<memory, spent>>
       \/ ~Gone(plan) /\ Clash(plan) /\ Finish("terminal") /\ UNCHANGED <<memory, spent>>
       \/ Spend("errors") /\ Finish("retry") /\ UNCHANGED memory
  /\ UNCHANGED spec

Resync ==
  /\ At("idle") /\ ~queued /\ cond = "ok"
  /\ queued' = TRUE
  /\ UNCHANGED <<spec, memory, worker, cond, spent>>

Settle ==
  /\ status \in {"creating", "updating"}
  /\ status' = "active"
  /\ UNCHANGED <<spec, held, ids, queued, worker, cond, spent>>

(* The user, and others.                                                    *)
EditStrategies ==
  /\ \E list \in Lists : spec' = list
  /\ Spend("edits")
  /\ queued' = TRUE
  /\ UNCHANGED <<memory, worker, cond>>

Drift ==
  /\ status = "active"
  /\ Spend("drifts")
  /\ \/ \E i \in DOMAIN held :
          /\ held' = [j \in DOMAIN held \ {i} |-> held[j]]
          /\ UNCHANGED ids
     \/ \E i \in DOMAIN held : \E f \in FieldsOf(held[i].type) :
          /\ held' = [held EXCEPT ![i].has[f] = 2]
          /\ UNCHANGED ids
     \/ \E s \in Strangers :
          /\ \A i \in DOMAIN held : held[i].name # s.name
          /\ ids < MaxIds /\ ids' = ids + 1
          /\ held' = [j \in DOMAIN held \cup {ids'} |-> IF j = ids' THEN Stored(s) ELSE held[j]]
  /\ UNCHANGED <<spec, status, queued, worker, cond>>

-----------------------------------------------------------------------------
Init ==
  /\ spec \in Lists
  /\ held = <<>> /\ status = "none" /\ ids = 0
  /\ queued = TRUE /\ cond = "retry"
  /\ pc = "idle" /\ desired = <<>> /\ latest = Nothing
  /\ spent = [o \in Occasions |-> 0]

Worker == Reconcile \/ Read \/ Create \/ Update

Next == Worker \/ Resync \/ Settle \/ EditStrategies \/ Drift

Spec     == Init /\ [][Next]_vars
FairSpec == Spec /\ WF_vars(Worker) /\ WF_vars(Resync) /\ WF_vars(Settle)

-----------------------------------------------------------------------------
(* Properties.                                                              *)

(* The comparison goes by sorted lists and the update by names: whatever    *)
(* the one reports as a difference, the other has a change for.  Otherwise  *)
(* each reconcile would call UpdateMemory with nothing in it.               *)
DifferenceMeansPlan ==
  pc = "update" => Plan.adds # {} \/ Plan.modifies # {} \/ Plan.deletes # {}

(* A strategy whose name is in the spec, wherever in the list, keeps its    *)
(* identifier and with it the records it extracted: no update deletes it,   *)
(* or makes it out of another.                                              *)
WantedStrategiesKept ==
  [][pc = "update" /\ pc' # pc =>
       \A i \in DOMAIN held : held[i].name \in NamesOf(desired) => i \in DOMAIN held']_vars

(* What no call can take away: a type under a name that is in use, and what *)
(* somebody has given and the spec leaves out, namespaces excepted.         *)
Unclearable ==
  \E s \in Of(spec), i \in DOMAIN held :
    /\ s.name = held[i].name
    /\ \/ s.type # held[i].type
       \/ \E f \in Fields \ (Pair \cup Reflection) :
            s.has[f] = Unset /\ held[i].has[f] \in 1..2
       \/ \E f \in Reflection :
            /\ s.type = "episodicOverride" /\ s.has["reflection"] = Unset
            /\ held[i].has[f] \in 1..2

AsInSpec ==
  /\ \A i \in DOMAIN held : held[i].name \in NamesOf(spec)
  /\ \A s \in Of(spec) : \E i \in DOMAIN held :
       /\ held[i].name = s.name /\ held[i].type = s.type
       /\ \A f \in Fields : s.has[f] # Unset => held[i].has[f] = s.has[f]

(* The strategies of the service end up as the spec has them, whoever       *)
(* changed them in between; where something cannot be cleared the rest of   *)
(* the call is not lost, and its names are right.                           *)
StrategiesSettle ==
  <>[](\/ AsInSpec \/ cond = "terminal"
       \/ Unclearable /\ {held[i].name : i \in DOMAIN held} = NamesOf(spec))

(* And then UpdateMemory is not called any more: nothing the service fills  *)
(* in is taken for a difference.                                            *)
UpdatesEnd == <>[](pc # "update" \/ Unclearable)
=============================================================================
