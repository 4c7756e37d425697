---------------------------- MODULE HarnessKinds ----------------------------
(***************************************************************************)
(* Harnesses, their endpoints, and memories.  The fields a hook adds to    *)
(* the Update request (setUpdateWrapperFields, the memory strategies) are  *)
(* among the patched ones.                                                 *)
(***************************************************************************)
EXTENDS ManagerTypes

(* pkg/resource/harness *)
HarnessSpec ==
  [fields |-> {"AllowedTools", "AuthorizerConfiguration", "Environment",
               "EnvironmentArtifact", "EnvironmentVariables",
               "ExecutionRoleARN", "HarnessName", "MaxIterations",
               "MaxTokens", "Memory", "Model", "Skills", "SystemPrompt",
               "Tags", "TimeoutSeconds", "Tools", "Truncation"},
   required |-> {"HarnessName"}, immutable |-> {"HarnessName"}]
HarnessLife ==
  [creating |-> "CREATING", active |-> "READY", updating |-> "UPDATING",
   deleting |-> "DELETING", createFailed |-> "CREATE_FAILED",
   updateFailed |-> "UPDATE_FAILED", deleteFailed |-> "DELETE_FAILED",
   busy |-> "READY", busyFailed |-> Nil, shows |-> {}]
HarnessReads == HarnessSpec.fields
HarnessKey == [needsID |-> TRUE, fields |-> {}, versioned |-> FALSE]
HarnessEchoes == HarnessSpec.fields \ {"Tags"}
HarnessSends == HarnessSpec.fields
HarnessUpdate ==
  [mode |-> "api", tagged |-> TRUE, updatable |-> {Nil, "READY"},
   returns |-> HarnessSpec.fields \ {"AuthorizerConfiguration",
                "EnvironmentArtifact", "Memory", "Tags"}]
HarnessPatches == HarnessSpec.fields \ {"HarnessName", "Tags"}
HarnessDeletable ==
  {Nil, "READY", "CREATE_FAILED", "UPDATE_FAILED", "DELETE_FAILED"}
HarnessSynced == {"READY", "CREATE_FAILED", "UPDATE_FAILED", "DELETE_FAILED"}
HarnessTerminal == {"ValidationException"}
HarnessCompares == HarnessSpec.fields
Harness ==
  [spec |-> HarnessSpec, life |-> HarnessLife, key |-> HarnessKey,
   reads |-> HarnessReads, echoes |-> HarnessEchoes, sends |-> HarnessSends,
   update |-> HarnessUpdate, patches |-> HarnessPatches,
   deletable |-> HarnessDeletable, synced |-> HarnessSynced,
   terminal |-> HarnessTerminal, compares |-> HarnessCompares,
   waived |-> {}, late |-> {}, defaults |-> {}]

(* pkg/resource/harness_endpoint *)
HarnessEndpointSpec ==
  [fields |-> {"Description", "HarnessID", "Name", "Tags", "TargetVersion"},
   required |-> {"Name"}, immutable |-> {"HarnessID", "Name"}]
HarnessEndpointLife ==
  [creating |-> "CREATING", active |-> "READY", updating |-> "UPDATING",
   deleting |-> "DELETING", createFailed |-> "CREATE_FAILED",
   updateFailed |-> "UPDATE_FAILED", deleteFailed |-> "DELETE_FAILED",
   busy |-> "READY", busyFailed |-> Nil, shows |-> {}]
HarnessEndpointReads == HarnessEndpointSpec.fields
HarnessEndpointKey ==
  [needsID |-> FALSE, fields |-> {"HarnessID", "Name"}, versioned |-> FALSE]
HarnessEndpointEchoes == HarnessEndpointSpec.fields \ {"Tags"}
HarnessEndpointSends == HarnessEndpointSpec.fields
HarnessEndpointUpdate ==
  [mode |-> "api", tagged |-> TRUE, updatable |-> {Nil, "READY"},
   returns |-> HarnessEndpointSpec.fields \ {"Tags"}]
HarnessEndpointPatches == HarnessEndpointSpec.fields \ {"Tags"}
HarnessEndpointDeletable ==
  {Nil, "READY", "CREATE_FAILED", "UPDATE_FAILED", "DELETE_FAILED"}
HarnessEndpointSynced ==
  {"READY", "CREATE_FAILED", "UPDATE_FAILED", "DELETE_FAILED"}
HarnessEndpointTerminal == {"ValidationException"}
HarnessEndpointCompares == HarnessEndpointSpec.fields
HarnessEndpoint ==
  [spec |-> HarnessEndpointSpec, life |-> HarnessEndpointLife,
   key |-> HarnessEndpointKey, reads |-> HarnessEndpointReads,
   echoes |-> HarnessEndpointEchoes, sends |-> HarnessEndpointSends,
   update |-> HarnessEndpointUpdate, patches |-> HarnessEndpointPatches,
   deletable |-> HarnessEndpointDeletable, synced |-> HarnessEndpointSynced,
   terminal |-> HarnessEndpointTerminal, compares |-> HarnessEndpointCompares,
   waived |-> {}, late |-> {}, defaults |-> {}]

(* pkg/resource/memory *)
MemorySpec ==
  [fields |-> {"Description", "EncryptionKeyARN", "EventExpiryDuration",
               "MemoryExecutionRoleARN", "MemoryStrategies", "Name",
               "StreamDeliveryResources", "Tags"},
   required |-> {"EventExpiryDuration", "Name"},
   immutable |-> {"EncryptionKeyARN", "Name"}]
MemoryLife ==
  [creating |-> "CREATING", active |-> "ACTIVE", updating |-> "UPDATING",
   deleting |-> "DELETING", createFailed |-> "FAILED",
   updateFailed |-> "FAILED", deleteFailed |-> Nil,
   busy |-> "ACTIVE", busyFailed |-> Nil, shows |-> {}]
MemoryReads == MemorySpec.fields
MemoryKey == [needsID |-> TRUE, fields |-> {}, versioned |-> FALSE]
MemoryEchoes == MemorySpec.fields \ {"MemoryStrategies", "Tags"}
MemorySends == MemorySpec.fields
MemoryUpdate ==
  [mode |-> "api", tagged |-> TRUE, updatable |-> {Nil, "ACTIVE"},
   returns |-> MemorySpec.fields \ {"MemoryStrategies", "Tags"}]
MemoryPatches == MemorySpec.fields \ {"EncryptionKeyARN", "Name", "Tags"}
MemoryDeletable == {Nil, "ACTIVE", "FAILED"}
MemorySynced == {"ACTIVE", "FAILED"}
MemoryTerminal == {"ValidationException", "ConflictException"}
MemoryCompares == MemorySpec.fields
Memory ==
  [spec |-> MemorySpec, life |-> MemoryLife, key |-> MemoryKey,
   reads |-> MemoryReads, echoes |-> MemoryEchoes, sends |-> MemorySends,
   update |-> MemoryUpdate, patches |-> MemoryPatches,
   deletable |-> MemoryDeletable, synced |-> MemorySynced,
   terminal |-> MemoryTerminal, compares |-> MemoryCompares,
   waived |-> {}, late |-> {}, defaults |-> {}]
=============================================================================
