------------------------ MODULE MCResourceReconciler ------------------------
(***************************************************************************)
(* ResourceReconciler with the managers of this repository, and the        *)
(* subjects and bounds of its runs.                                        *)
(***************************************************************************)
EXTENDS ResourceReconciler, ResourceKinds

Of(k, fields) == [kind |-> k, tracked |-> fields]

(* Every kind, with a field that brings out how it differs from the others: *)
(* by identifier or by name, guarded or not, with tags, with an Update API  *)
(* or without, renamable, versioned.                                        *)
FaultSubjects ==
  {Of("policy", {"Description"}), Of("workload_identity", {"Tags"}),
   Of("agent_runtime_endpoint", {"Name"}), Of("agent_runtime", {"Description"}),
   Of("gateway_target", {"GatewayIdentifier"}), Of("gateway", {"Description"}),
   Of("gateway_rate_limit", {"RateLimitID"}), Of("browser", {"Recording"}),
   Of("memory", {"Description"})}
    \cup {Of(k, {"Name"}) : k \in {"api_key_credential_provider", "browser_profile",
             "code_interpreter", "harness_endpoint", "policy_engine"}}
    \cup {Of("harness", {"HarnessName"})}

NoBudget == [o \in Occasions |-> 0]
FaultBudget ==
  [NoBudget EXCEPT !.edits = 2, !.rekeys = 1, !.errors = 1, !.losses = 1,
                   !.crashes = 1, !.drifts = 1, !.failures = 1]
(* Every spec field that can be edited, of every kind.  Two fields of one   *)
(* kind that are in the same sets of its manager behave alike, so one of    *)
(* them stands for both; whether a field that can be changed is also        *)
(* required makes no difference.                                            *)
Role(k, f) == LET m == KindTable[k] IN
  <<f = "Tags", f \in m.key.fields, f \in m.reads, f \in m.sends, f \in m.echoes,
    f \in m.update.returns, f \in m.patches, f \in m.compares,
    f \in m.spec.immutable, f \in m.waived, f \in m.late, f \in m.defaults>>
Editable(k) == LET spec == KindTable[k].spec IN
  spec.fields \ (spec.immutable \cap spec.required)
EverySubject ==
  {Of(k, {CHOOSE g \in Editable(k) : Role(k, g) = Role(k, f)}) :
     <<k, f>> \in UNION {{<<k, f>> : f \in Editable(k)} : k \in DOMAIN KindTable}}
(* Fields newResourceDelta compares, the API server lets a user change, and *)
(* no Update request carries: agent_runtime's name, and the encryption keys *)
(* of memories and policy engines, which can be removed and set again.      *)
Unresolvable ==
  {s \in EverySubject : LET m == KindTable[s.kind] IN
     \E f \in s.tracked \ {"Tags"} :
       /\ m.update.mode = "api"
       /\ f \in m.compares \ (m.patches \cup m.key.fields)}
EditBudget ==
  [NoBudget EXCEPT !.edits = 2, !.rekeys = 1, !.drifts = 1, !.failures = 1]
EditSubjects ==
  (EverySubject \ Unresolvable) \cup {Of("policy_engine", {"Description", "Tags"})}

(* The subjects of the runs that show where the code and its documentation  *)
(* part.                                                                    *)
NoFaults           == NoBudget
OneEdit            == [NoBudget EXCEPT !.edits = 1]
OneDrift           == [NoBudget EXCEPT !.drifts = 1]
StaleBudget        == [NoBudget EXCEPT !.edits = 2, !.crashes = 1]
FinalizerSubjects  == {Of("memory", {})}
StaleSubjects      == {Of("policy_engine", {"Description", "Tags"})}
RuntimeSubjects    == {Of("agent_runtime", {"Description"})}
RenameSubjects     == {Of("agent_runtime", {"AgentRuntimeName"})}

=============================================================================
