------------------------ MODULE MCMemoryStrategies --------------------------
(* MemoryStrategies with the lists and the bounds of its run.               *)
EXTENDS MemoryStrategies

Strategy(n, type, given) ==
  [name |-> n, type |-> type,
   has |-> [f \in Fields |-> IF f \in DOMAIN given THEN given[f] ELSE Unset]]

FirstOnes ==
  {Strategy(1, "builtIn", [description |-> 1]),
   Strategy(1, "builtIn", [description |-> 2, namespaces |-> 1])}

SecondOnes ==
  {Strategy(2, "episodic", [reflectionNamespaces |-> 2, reflectionNamespaceTemplates |-> 1]),
   Strategy(2, "summaryOverride", [consolidation |-> 1]),
   Strategy(2, "semanticOverride", [extraction |-> 1]),
   Strategy(2, "semanticOverride", [extraction |-> 2, consolidation |-> 1]),
   Strategy(2, "episodicOverride", [consolidation |-> 1]),
   Strategy(2, "episodicOverride", [reflection |-> 1, reflectionNamespaces |-> 1]),
   Strategy(2, "selfManaged", [selfManaged |-> 1])}

(* A second one comes and goes beside a first; one of them also alone and   *)
(* in the other place.                                                      *)
TheLists ==
  LET Either == {t \in SecondOnes : t.type = "episodic"}
  IN  {<<>>} \cup {<<s>> : s \in FirstOnes \cup Either}
             \cup {<<t, s>> : s \in FirstOnes, t \in SecondOnes}
             \cup {<<s, t>> : s \in FirstOnes, t \in Either}

TheStrangers == {Strategy(n, "builtIn", [description |-> 1]) : n \in {2, 3}}

StrategyBudget == [edits |-> 1, drifts |-> 1, errors |-> 1]
=============================================================================
