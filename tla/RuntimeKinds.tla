---------------------------- MODULE RuntimeKinds ----------------------------
(***************************************************************************)
(* The kinds that run agents and their tools: agent runtimes and their     *)
(* endpoints, browsers, browser profiles and code interpreters.  The last  *)
(* three have no Update API; what their customUpdate does with an edit it  *)
(* cannot make is their update mode.  A runtime's tags are sent when it is *)
(* created and never read back.                                            *)
(***************************************************************************)
EXTENDS ManagerTypes

(* pkg/resource/agent_runtime *)
AgentRuntimeSpec ==
  [fields |-> {"AgentRuntimeArtifact", "AgentRuntimeName",
               "AuthorizerConfiguration", "Description",
               "EnvironmentVariables", "FilesystemConfigurations",
               "LifecycleConfiguration", "NetworkConfiguration",
               "PlatformVersion", "ProtocolConfiguration",
               "RequestHeaderConfiguration", "RoleARN", "Tags"},
   required |-> {"AgentRuntimeArtifact", "AgentRuntimeName", "RoleARN"},
   immutable |-> {}]
AgentRuntimeLife ==
  [creating |-> "CREATING", active |-> "READY", updating |-> "UPDATING",
   deleting |-> "DELETING", createFailed |-> "CREATE_FAILED",
   updateFailed |-> "UPDATE_FAILED", deleteFailed |-> "DELETE_FAILED",
   busy |-> "READY", busyFailed |-> Nil, shows |-> {}]
AgentRuntimeReads == AgentRuntimeSpec.fields \ {"Tags"}
AgentRuntimeKey == [needsID |-> TRUE, fields |-> {}, versioned |-> TRUE]
AgentRuntimeEchoes == {}
AgentRuntimeSends == AgentRuntimeSpec.fields
AgentRuntimeUpdate ==
  [mode |-> "api", tagged |-> TRUE, updatable |-> {Nil, "READY"},
   returns |-> {}]
AgentRuntimePatches == AgentRuntimeSpec.fields \ {"AgentRuntimeName", "Tags"}
AgentRuntimeDeletable == {Nil, "READY", "CREATE_FAILED", "UPDATE_FAILED"}
AgentRuntimeSynced == {"READY", "CREATE_FAILED", "UPDATE_FAILED"}
AgentRuntimeTerminal == {"ValidationException"}
AgentRuntimeCompares == AgentRuntimeSpec.fields
AgentRuntimeWaived   == {"PlatformVersion"}
AgentRuntimeLate     ==
  {"LifecycleConfiguration", "PlatformVersion", "ProtocolConfiguration"}
AgentRuntimeDefaults ==
  {"LifecycleConfiguration", "PlatformVersion", "ProtocolConfiguration"}
AgentRuntime ==
  [spec |-> AgentRuntimeSpec, life |-> AgentRuntimeLife,
   key |-> AgentRuntimeKey, reads |-> AgentRuntimeReads,
   echoes |-> AgentRuntimeEchoes, sends |-> AgentRuntimeSends,
   update |-> AgentRuntimeUpdate, patches |-> AgentRuntimePatches,
   deletable |-> AgentRuntimeDeletable, synced |-> AgentRuntimeSynced,
   terminal |-> AgentRuntimeTerminal, compares |-> AgentRuntimeCompares,
   waived |-> AgentRuntimeWaived, late |-> AgentRuntimeLate,
   defaults |-> AgentRuntimeDefaults]

(* pkg/resource/agent_runtime_endpoint *)
AgentRuntimeEndpointSpec ==
  [fields |-> {"AgentRuntimeID", "AgentRuntimeVersion", "Description", "Name",
               "Tags"},
   required |-> {"AgentRuntimeID"}, immutable |-> {}]
AgentRuntimeEndpointLife ==
  [creating |-> "CREATING", active |-> "READY", updating |-> "UPDATING",
   deleting |-> "DELETING", createFailed |-> "CREATE_FAILED",
   updateFailed |-> "UPDATE_FAILED", deleteFailed |-> "DELETE_FAILED",
   busy |-> "READY", busyFailed |-> Nil, shows |-> {}]
AgentRuntimeEndpointReads == {"Description", "Name"}
AgentRuntimeEndpointKey ==
  [needsID |-> FALSE, fields |-> {"AgentRuntimeID", "Name"},
   versioned |-> FALSE]
AgentRuntimeEndpointEchoes == {"AgentRuntimeID", "Name"}
AgentRuntimeEndpointSends == AgentRuntimeEndpointSpec.fields
AgentRuntimeEndpointUpdate ==
  [mode |-> "api", tagged |-> TRUE, updatable |-> {Nil, "READY"},
   returns |-> {}]
AgentRuntimeEndpointPatches ==
  AgentRuntimeEndpointSpec.fields \ {"Name", "Tags"}
AgentRuntimeEndpointDeletable ==
  {Nil, "READY", "CREATE_FAILED", "UPDATE_FAILED"}
AgentRuntimeEndpointSynced == {"READY", "CREATE_FAILED", "UPDATE_FAILED"}
AgentRuntimeEndpointTerminal == {}
AgentRuntimeEndpointCompares == AgentRuntimeEndpointSpec.fields
AgentRuntimeEndpoint ==
  [spec |-> AgentRuntimeEndpointSpec, life |-> AgentRuntimeEndpointLife,
   key |-> AgentRuntimeEndpointKey, reads |-> AgentRuntimeEndpointReads,
   echoes |-> AgentRuntimeEndpointEchoes, sends |-> AgentRuntimeEndpointSends,
   update |-> AgentRuntimeEndpointUpdate,
   patches |-> AgentRuntimeEndpointPatches,
   deletable |-> AgentRuntimeEndpointDeletable,
   synced |-> AgentRuntimeEndpointSynced,
   terminal |-> AgentRuntimeEndpointTerminal,
   compares |-> AgentRuntimeEndpointCompares,
   waived |-> {}, late |-> {}, defaults |-> {}]

(* pkg/resource/browser *)
BrowserSpec ==
  [fields |-> {"BrowserSigning", "Certificates", "Description",
               "EnterprisePolicies", "ExecutionRoleARN", "Name",
               "NetworkConfiguration", "Recording", "Tags"},
   required |-> {"Name", "NetworkConfiguration"},
   immutable |-> {"BrowserSigning", "Certificates", "Description",
                  "EnterprisePolicies", "ExecutionRoleARN", "Name",
                  "NetworkConfiguration", "Recording"}]
BrowserLife ==
  [creating |-> "CREATING", active |-> "READY", updating |-> "READY",
   deleting |-> "DELETING", createFailed |-> "CREATE_FAILED",
   updateFailed |-> Nil, deleteFailed |-> "DELETE_FAILED",
   busy |-> "READY", busyFailed |-> Nil,
   shows |-> {[op |-> "DELETING", as |-> "DELETED"]}]
BrowserReads == BrowserSpec.fields
BrowserKey == [needsID |-> TRUE, fields |-> {}, versioned |-> FALSE]
BrowserEchoes == {}
BrowserSends == BrowserSpec.fields
BrowserUpdate ==
  [mode |-> "tagsOnly", tagged |-> TRUE, updatable |-> Ungated,
   returns |-> {}]
BrowserDeletable == {Nil, "READY", "CREATE_FAILED", "DELETE_FAILED"}
BrowserSynced == {"READY", "CREATE_FAILED"}
BrowserTerminal == {"ValidationException"}
BrowserCompares == BrowserSpec.fields
Browser ==
  [spec |-> BrowserSpec, life |-> BrowserLife, key |-> BrowserKey,
   reads |-> BrowserReads, echoes |-> BrowserEchoes, sends |-> BrowserSends,
   update |-> BrowserUpdate, patches |-> {}, deletable |-> BrowserDeletable,
   synced |-> BrowserSynced, terminal |-> BrowserTerminal,
   compares |-> BrowserCompares,
   waived |-> {}, late |-> {}, defaults |-> {}]

(* pkg/resource/browser_profile *)
BrowserProfileSpec ==
  [fields |-> {"Description", "Name", "Tags"}, required |-> {"Name"},
   immutable |-> {"Description", "Name"}]
BrowserProfileLife ==
  [creating |-> "READY", active |-> "READY", updating |-> "READY",
   deleting |-> "DELETING", createFailed |-> Nil, updateFailed |-> Nil,
   deleteFailed |-> Nil,
   busy |-> "SAVING", busyFailed |-> Nil,
   shows |-> {[op |-> "DELETING", as |-> "DELETED"]}]
BrowserProfileReads == BrowserProfileSpec.fields
BrowserProfileKey == [needsID |-> TRUE, fields |-> {}, versioned |-> FALSE]
BrowserProfileEchoes == {}
BrowserProfileSends == BrowserProfileSpec.fields
BrowserProfileUpdate ==
  [mode |-> "tagsOnly", tagged |-> TRUE, updatable |-> Ungated,
   returns |-> {}]
BrowserProfileDeletable == {Nil, "READY"}
BrowserProfileSynced == {"READY"}
BrowserProfileTerminal == {"ValidationException"}
BrowserProfileCompares == BrowserProfileSpec.fields
BrowserProfile ==
  [spec |-> BrowserProfileSpec, life |-> BrowserProfileLife,
   key |-> BrowserProfileKey, reads |-> BrowserProfileReads,
   echoes |-> BrowserProfileEchoes, sends |-> BrowserProfileSends,
   update |-> BrowserProfileUpdate, patches |-> {},
   deletable |-> BrowserProfileDeletable, synced |-> BrowserProfileSynced,
   terminal |-> BrowserProfileTerminal, compares |-> BrowserProfileCompares,
   waived |-> {}, late |-> {}, defaults |-> {}]

(* pkg/resource/code_interpreter *)
CodeInterpreterSpec ==
  [fields |-> {"Certificates", "Description", "ExecutionRoleARN", "Name",
               "NetworkConfiguration", "Tags"},
   required |-> {"Name", "NetworkConfiguration"},
   immutable |-> {"Certificates", "Description", "ExecutionRoleARN", "Name",
                  "NetworkConfiguration"}]
CodeInterpreterLife ==
  [creating |-> "CREATING", active |-> "READY", updating |-> "READY",
   deleting |-> "DELETING", createFailed |-> "CREATE_FAILED",
   updateFailed |-> Nil, deleteFailed |-> "DELETE_FAILED",
   busy |-> "READY", busyFailed |-> Nil,
   shows |-> {[op |-> "DELETING", as |-> "DELETED"]}]
CodeInterpreterReads == CodeInterpreterSpec.fields
CodeInterpreterKey == [needsID |-> TRUE, fields |-> {}, versioned |-> FALSE]
CodeInterpreterEchoes == {}
CodeInterpreterSends == CodeInterpreterSpec.fields
CodeInterpreterUpdate ==
  [mode |-> "refuse", tagged |-> TRUE, updatable |-> Ungated, returns |-> {}]
CodeInterpreterDeletable == {Nil, "READY", "CREATE_FAILED", "DELETE_FAILED"}
CodeInterpreterSynced == {"READY", "CREATE_FAILED"}
CodeInterpreterTerminal == {"ValidationException"}
CodeInterpreterCompares == CodeInterpreterSpec.fields
CodeInterpreter ==
  [spec |-> CodeInterpreterSpec, life |-> CodeInterpreterLife,
   key |-> CodeInterpreterKey, reads |-> CodeInterpreterReads,
   echoes |-> CodeInterpreterEchoes, sends |-> CodeInterpreterSends,
   update |-> CodeInterpreterUpdate, patches |-> {},
   deletable |-> CodeInterpreterDeletable, synced |-> CodeInterpreterSynced,
   terminal |-> CodeInterpreterTerminal, compares |-> CodeInterpreterCompares,
   waived |-> {}, late |-> {}, defaults |-> {}]
=============================================================================
