--------------------------- MODULE ReferenceFields --------------------------
(***************************************************************************)
(* The cross-resource references of every kind, function by function of    *)
(* its references.go.  A reference stands beside a concrete field: the     *)
(* user fills in one of the two, and the controller resolves the one into  *)
(* the other while it works on the object.                                 *)
(*                                                                         *)
(*   field   the spec field the concrete value is in, or is part of        *)
(*   place   "top": it is that field; "struct": it is reached through      *)
(*           structs; "list": on the way there is a list                   *)
(*   at      where in the field it is                                      *)
(*   to      the kind of object referred to                                *)
(*   status  what of that object's status is copied                        *)
(*                                                                         *)
(* A referrer has, for ResolveReferences, its references in the order in   *)
(* which they are resolved; the ones ClearResolvedReferences clears and    *)
(* EnsureReferences restores; and what validateReferenceFields refuses:    *)
(* both of a pair, or neither.                                             *)
(***************************************************************************)
EXTENDS ManagerTypes

Top(field, to, status) ==
  [field |-> field, at |-> "", place |-> "top", to |-> to, status |-> status]
InStruct(field, at, to, status) ==
  [field |-> field, at |-> at, place |-> "struct", to |-> to, status |-> status]
InList(field, at, to, status) ==
  [field |-> field, at |-> at, place |-> "list", to |-> to, status |-> status]

(* pkg/resource/agent_runtime *)
AgentRuntimeSecurityGroupsRef ==
  InStruct("NetworkConfiguration", "NetworkModeConfig.SecurityGroups", "SecurityGroup", "ID")
AgentRuntimeSubnetsRef ==
  InStruct("NetworkConfiguration", "NetworkModeConfig.Subnets", "Subnet", "SubnetID")
AgentRuntimeResolves == <<AgentRuntimeSecurityGroupsRef, AgentRuntimeSubnetsRef>>
AgentRuntimeClears   == {AgentRuntimeSecurityGroupsRef, AgentRuntimeSubnetsRef}
AgentRuntimeEnsures  == {AgentRuntimeSecurityGroupsRef, AgentRuntimeSubnetsRef}
AgentRuntimeRefuses  ==
  [both |-> {AgentRuntimeSecurityGroupsRef, AgentRuntimeSubnetsRef}, neither |-> {}]

(* pkg/resource/browser *)
BrowserSecretRef ==
  InList("Certificates", "Location.SecretsManager.SecretARN", "Secret", "ARN")
BrowserRoleRef == Top("ExecutionRoleARN", "Role", "ARN")
BrowserSecurityGroupsRef ==
  InStruct("NetworkConfiguration", "VPCConfig.SecurityGroups", "SecurityGroup", "ID")
BrowserSubnetsRef ==
  InStruct("NetworkConfiguration", "VPCConfig.Subnets", "Subnet", "SubnetID")
BrowserResolves ==
  <<BrowserSecretRef, BrowserRoleRef, BrowserSecurityGroupsRef, BrowserSubnetsRef>>
BrowserClears  == {BrowserSecretRef, BrowserRoleRef, BrowserSecurityGroupsRef, BrowserSubnetsRef}
BrowserEnsures == {BrowserSecurityGroupsRef, BrowserSubnetsRef}
BrowserRefuses ==
  [both |-> {BrowserSecretRef, BrowserRoleRef, BrowserSecurityGroupsRef, BrowserSubnetsRef},
   neither |-> {}]

(* pkg/resource/code_interpreter *)
CodeInterpreterSecretRef ==
  InList("Certificates", "Location.SecretsManager.SecretARN", "Secret", "ARN")
CodeInterpreterRoleRef == Top("ExecutionRoleARN", "Role", "ARN")
CodeInterpreterSecurityGroupsRef ==
  InStruct("NetworkConfiguration", "VPCConfig.SecurityGroups", "SecurityGroup", "ID")
CodeInterpreterSubnetsRef ==
  InStruct("NetworkConfiguration", "VPCConfig.Subnets", "Subnet", "SubnetID")
CodeInterpreterResolves ==
  <<CodeInterpreterSecretRef, CodeInterpreterRoleRef, CodeInterpreterSecurityGroupsRef,
    CodeInterpreterSubnetsRef>>
CodeInterpreterClears ==
  {CodeInterpreterSecretRef, CodeInterpreterRoleRef, CodeInterpreterSecurityGroupsRef,
   CodeInterpreterSubnetsRef}
CodeInterpreterEnsures == {CodeInterpreterSecurityGroupsRef, CodeInterpreterSubnetsRef}
CodeInterpreterRefuses ==
  [both |-> {CodeInterpreterSecretRef, CodeInterpreterRoleRef,
             CodeInterpreterSecurityGroupsRef, CodeInterpreterSubnetsRef},
   neither |-> {}]

(* pkg/resource/gateway *)
GatewayKeyRef  == Top("KMSKeyARN", "Key", "ARN")
GatewayRoleRef == Top("RoleARN", "Role", "ARN")
GatewayResolves == <<GatewayKeyRef, GatewayRoleRef>>
GatewayClears   == {GatewayKeyRef, GatewayRoleRef}
GatewayRefuses  == [both |-> {GatewayKeyRef, GatewayRoleRef}, neither |-> {GatewayRoleRef}]

(* pkg/resource/gateway_rate_limit *)
GatewayRateLimitGatewayRef  == Top("GatewayIdentifier", "Gateway", "GatewayID")
GatewayRateLimitResolves == <<GatewayRateLimitGatewayRef>>
GatewayRateLimitClears   == {GatewayRateLimitGatewayRef}
GatewayRateLimitRefuses  ==
  [both |-> {GatewayRateLimitGatewayRef}, neither |-> {GatewayRateLimitGatewayRef}]

(* pkg/resource/gateway_target *)
GatewayTargetGatewayRef == Top("GatewayIdentifier", "Gateway", "GatewayID")
GatewayTargetSecurityGroupsRef ==
  InStruct("PrivateEndpoint", "ManagedVPCResource.SecurityGroupIDs", "SecurityGroup", "ID")
GatewayTargetSubnetsRef ==
  InStruct("PrivateEndpoint", "ManagedVPCResource.SubnetIDs", "Subnet", "SubnetID")
GatewayTargetVPCRef ==
  InStruct("PrivateEndpoint", "ManagedVPCResource.VPCIdentifier", "VPC", "VPCID")
GatewayTargetRestAPIRef ==
  InStruct("TargetConfiguration", "Mcp.APIGateway.RestAPIID", "RestAPI", "ID")
GatewayTargetResolves ==
  <<GatewayTargetGatewayRef, GatewayTargetSecurityGroupsRef, GatewayTargetSubnetsRef,
    GatewayTargetVPCRef, GatewayTargetRestAPIRef>>
GatewayTargetClears ==
  {GatewayTargetGatewayRef, GatewayTargetSecurityGroupsRef, GatewayTargetSubnetsRef,
   GatewayTargetVPCRef, GatewayTargetRestAPIRef}
GatewayTargetEnsures ==
  {GatewayTargetSecurityGroupsRef, GatewayTargetSubnetsRef, GatewayTargetVPCRef,
   GatewayTargetRestAPIRef}
GatewayTargetRefuses ==
  [both |-> {GatewayTargetGatewayRef, GatewayTargetSecurityGroupsRef,
             GatewayTargetSubnetsRef, GatewayTargetVPCRef, GatewayTargetRestAPIRef},
   neither |-> {GatewayTargetGatewayRef}]

(* pkg/resource/harness *)
HarnessRoleRef == Top("ExecutionRoleARN", "Role", "ARN")
HarnessKeyRef  ==
  InStruct("Memory", "ManagedMemoryConfiguration.EncryptionKeyARN", "Key", "ARN")
HarnessBrowserRef == InList("Tools", "Config.AgentCoreBrowser.BrowserARN", "Browser", "ARN")
HarnessCodeInterpreterRef ==
  InList("Tools", "Config.AgentCoreCodeInterpreter.CodeInterpreterARN",
         "CodeInterpreter", "ARN")
HarnessGatewayRef == InList("Tools", "Config.AgentCoreGateway.GatewayARN", "Gateway", "ARN")
HarnessResolves ==
  <<HarnessRoleRef, HarnessKeyRef, HarnessBrowserRef, HarnessCodeInterpreterRef, HarnessGatewayRef>>
HarnessClears ==
  {HarnessRoleRef, HarnessKeyRef, HarnessBrowserRef, HarnessCodeInterpreterRef, HarnessGatewayRef}
HarnessEnsures == {HarnessKeyRef}
HarnessRefuses ==
  [both |-> {HarnessRoleRef, HarnessKeyRef, HarnessBrowserRef, HarnessCodeInterpreterRef,
             HarnessGatewayRef},
   neither |-> {HarnessRoleRef}]

(* pkg/resource/harness_endpoint *)
HarnessEndpointHarnessRef  == Top("HarnessID", "Harness", "HarnessID")
HarnessEndpointResolves == <<HarnessEndpointHarnessRef>>
HarnessEndpointClears   == {HarnessEndpointHarnessRef}
HarnessEndpointRefuses  ==
  [both |-> {HarnessEndpointHarnessRef}, neither |-> {HarnessEndpointHarnessRef}]

(* pkg/resource/memory *)
MemoryKeyRef   == Top("EncryptionKeyARN", "Key", "ARN")
MemoryRoleRef  == Top("MemoryExecutionRoleARN", "Role", "ARN")
MemoryTopicRef ==
  InList("MemoryStrategies",
         "CustomMemoryStrategy.Configuration.SelfManagedConfiguration.InvocationConfiguration.TopicARN",
         "Topic", "ARN")
MemoryResolves == <<MemoryKeyRef, MemoryRoleRef, MemoryTopicRef>>
MemoryClears   == {MemoryKeyRef, MemoryRoleRef, MemoryTopicRef}
MemoryRefuses  == [both |-> {MemoryKeyRef, MemoryRoleRef, MemoryTopicRef}, neither |-> {}]

(* pkg/resource/policy *)
PolicyPolicyEngineRef == Top("PolicyEngineID", "PolicyEngine", "ID")
PolicyResolves == <<PolicyPolicyEngineRef>>
PolicyClears   == {PolicyPolicyEngineRef}
PolicyRefuses  == [both |-> {PolicyPolicyEngineRef}, neither |-> {PolicyPolicyEngineRef}]

(* pkg/resource/policy_engine *)
PolicyEngineKeyRef   == Top("EncryptionKeyARN", "Key", "ARN")
PolicyEngineResolves == <<PolicyEngineKeyRef>>
PolicyEngineClears   == {PolicyEngineKeyRef}
PolicyEngineRefuses  == [both |-> {PolicyEngineKeyRef}, neither |-> {}]

Referrer(resolves, clears, ensures, refuses) ==
  [resolves |-> resolves, clears |-> clears, ensures |-> ensures, refuses |-> refuses]

(* The kinds without a reference: their functions do nothing. *)
AgentRuntimeEndpointRefers     == Referrer(<<>>, {}, {}, [both |-> {}, neither |-> {}])
APIKeyCredentialProviderRefers == Referrer(<<>>, {}, {}, [both |-> {}, neither |-> {}])
BrowserProfileRefers           == Referrer(<<>>, {}, {}, [both |-> {}, neither |-> {}])
WorkloadIdentityRefers         == Referrer(<<>>, {}, {}, [both |-> {}, neither |-> {}])

ReferrerTable ==
  [agent_runtime |-> Referrer(AgentRuntimeResolves, AgentRuntimeClears,
                              AgentRuntimeEnsures, AgentRuntimeRefuses),
   agent_runtime_endpoint      |-> AgentRuntimeEndpointRefers,
   api_key_credential_provider |-> APIKeyCredentialProviderRefers,
   browser |-> Referrer(BrowserResolves, BrowserClears, BrowserEnsures, BrowserRefuses),
   browser_profile  |-> BrowserProfileRefers,
   code_interpreter |-> Referrer(CodeInterpreterResolves, CodeInterpreterClears,
                                 CodeInterpreterEnsures, CodeInterpreterRefuses),
   gateway |-> Referrer(GatewayResolves, GatewayClears, {}, GatewayRefuses),
   gateway_rate_limit |-> Referrer(GatewayRateLimitResolves, GatewayRateLimitClears,
                                   {}, GatewayRateLimitRefuses),
   gateway_target |-> Referrer(GatewayTargetResolves, GatewayTargetClears,
                               GatewayTargetEnsures, GatewayTargetRefuses),
   harness |-> Referrer(HarnessResolves, HarnessClears, HarnessEnsures, HarnessRefuses),
   harness_endpoint |-> Referrer(HarnessEndpointResolves, HarnessEndpointClears,
                                 {}, HarnessEndpointRefuses),
   memory |-> Referrer(MemoryResolves, MemoryClears, {}, MemoryRefuses),
   policy |-> Referrer(PolicyResolves, PolicyClears, {}, PolicyRefuses),
   policy_engine |-> Referrer(PolicyEngineResolves, PolicyEngineClears,
                              {}, PolicyEngineRefuses),
   workload_identity |-> WorkloadIdentityRefers]
=============================================================================
