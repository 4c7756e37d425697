--------------------------- MODULE ResourceKinds ----------------------------
(***************************************************************************)
(* The registry: the managers the controller's main registers, by the name *)
(* of their package (pkg/resource/registry.go; each package's init adds    *)
(* its manager factory, cmd/controller/main.go imports them all).          *)
(***************************************************************************)
EXTENDS RuntimeKinds, GatewayKinds, HarnessKinds, PolicyKinds

KindTable ==
  [agent_runtime |-> AgentRuntime,
   agent_runtime_endpoint |-> AgentRuntimeEndpoint,
   api_key_credential_provider |-> APIKeyCredentialProvider,
   browser |-> Browser,
   browser_profile |-> BrowserProfile,
   code_interpreter |-> CodeInterpreter,
   gateway |-> Gateway,
   gateway_rate_limit |-> GatewayRateLimit,
   gateway_target |-> GatewayTarget,
   harness |-> Harness,
   harness_endpoint |-> HarnessEndpoint,
   memory |-> Memory,
   policy |-> Policy,
   policy_engine |-> PolicyEngine,
   workload_identity |-> WorkloadIdentity]
=============================================================================
