---------------------------- MODULE GatewayKinds ----------------------------
(***************************************************************************)
(* Gateways, their targets and their rate limits.  The two guards of a     *)
(* gateway ask gatewaySettled, which does not admit a nil status; a target *)
(* has no guard at all.                                                    *)
(***************************************************************************)
EXTENDS ManagerTypes

(* pkg/resource/gateway *)
GatewaySpec ==
  [fields |-> {"AuthorizerConfiguration", "AuthorizerType", "Description",
               "ExceptionLevel", "InterceptorConfigurations", "KMSKeyARN",
               "Name", "PolicyEngineConfiguration", "ProtocolConfiguration",
               "ProtocolType", "RoleARN", "Tags"},
   required |-> {"AuthorizerType", "Name", "ProtocolType"},
   immutable |-> {}]
GatewayLife ==
  [creating |-> "CREATING", active |-> "READY", updating |-> "UPDATING",
   deleting |-> "DELETING", createFailed |-> "FAILED",
   updateFailed |-> "UPDATE_UNSUCCESSFUL", deleteFailed |-> Nil,
   busy |-> "READY", busyFailed |-> Nil, shows |-> {}]
GatewayReads == GatewaySpec.fields
GatewayKey == [needsID |-> TRUE, fields |-> {}, versioned |-> FALSE]
GatewayEchoes == GatewaySpec.fields \ {"Tags"}
GatewaySends == GatewaySpec.fields
GatewayUpdate ==
  [mode |-> "api", tagged |-> TRUE,
   updatable |-> {"READY", "FAILED", "UPDATE_UNSUCCESSFUL"},
   returns |-> GatewaySpec.fields \ {"Tags"}]
GatewayPatches == GatewaySpec.fields \ {"Tags"}
GatewayDeletable == {"READY", "FAILED", "UPDATE_UNSUCCESSFUL"}
GatewaySynced == {"READY"}
GatewayTerminal == {"ValidationException"}
GatewayCompares == GatewaySpec.fields
Gateway ==
  [spec |-> GatewaySpec, life |-> GatewayLife, key |-> GatewayKey,
   reads |-> GatewayReads, echoes |-> GatewayEchoes, sends |-> GatewaySends,
   update |-> GatewayUpdate, patches |-> GatewayPatches,
   deletable |-> GatewayDeletable, synced |-> GatewaySynced,
   terminal |-> GatewayTerminal, compares |-> GatewayCompares,
   waived |-> {}, late |-> {}, defaults |-> {}]

(* pkg/resource/gateway_target *)
GatewayTargetSpec ==
  [fields |-> {"CredentialProviderConfigurations", "Description",
               "GatewayIdentifier", "MetadataConfiguration", "Name",
               "PrivateEndpoint", "TargetConfiguration"},
   required |-> {"Name", "TargetConfiguration"}, immutable |-> {}]
GatewayTargetLife ==
  [creating |-> "CREATING", active |-> "READY", updating |-> "UPDATING",
   deleting |-> "DELETING", createFailed |-> "FAILED",
   updateFailed |-> "UPDATE_UNSUCCESSFUL", deleteFailed |-> Nil,
   busy |-> "SYNCHRONIZING", busyFailed |-> "SYNCHRONIZE_UNSUCCESSFUL",
   shows |-> {[op |-> "CREATING", as |-> "CREATE_PENDING_AUTH"],
              [op |-> "UPDATING", as |-> "UPDATE_PENDING_AUTH"],
              [op |-> "SYNCHRONIZING", as |-> "SYNCHRONIZE_PENDING_AUTH"]}]
GatewayTargetReads == GatewayTargetSpec.fields \ {"GatewayIdentifier"}
GatewayTargetKey ==
  [needsID |-> TRUE, fields |-> {"GatewayIdentifier"}, versioned |-> FALSE]
GatewayTargetEchoes == GatewayTargetSpec.fields \ {"GatewayIdentifier"}
GatewayTargetSends == GatewayTargetSpec.fields
GatewayTargetUpdate ==
  [mode |-> "api", tagged |-> FALSE, updatable |-> Ungated,
   returns |-> GatewayTargetSpec.fields \ {"GatewayIdentifier"}]
GatewayTargetPatches == GatewayTargetSpec.fields
GatewayTargetDeletable == Ungated
GatewayTargetSynced == {"READY"}
GatewayTargetTerminal == {"ValidationException"}
GatewayTargetCompares == GatewayTargetSpec.fields
GatewayTarget ==
  [spec |-> GatewayTargetSpec, life |-> GatewayTargetLife,
   key |-> GatewayTargetKey, reads |-> GatewayTargetReads,
   echoes |-> GatewayTargetEchoes, sends |-> GatewayTargetSends,
   update |-> GatewayTargetUpdate, patches |-> GatewayTargetPatches,
   deletable |-> GatewayTargetDeletable, synced |-> GatewayTargetSynced,
   terminal |-> GatewayTargetTerminal, compares |-> GatewayTargetCompares,
   waived |-> {}, late |-> {}, defaults |-> {}]

(* pkg/resource/gateway_rate_limit *)
GatewayRateLimitSpec ==
  [fields |-> {"Description", "DimensionKeys", "Entries", "GatewayIdentifier",
               "RateLimitID"},
   required |-> {"DimensionKeys", "Entries"},
   immutable |-> {"DimensionKeys", "GatewayIdentifier", "RateLimitID"}]
GatewayRateLimitLife ==
  [creating |-> "CREATING", active |-> "ACTIVE", updating |-> "UPDATING",
   deleting |-> "DELETING", createFailed |-> Nil, updateFailed |-> Nil,
   deleteFailed |-> Nil,
   busy |-> "ACTIVE", busyFailed |-> Nil, shows |-> {}]
GatewayRateLimitReads == GatewayRateLimitSpec.fields
GatewayRateLimitKey ==
  [needsID |-> FALSE, fields |-> {"GatewayIdentifier", "RateLimitID"},
   versioned |-> FALSE]
GatewayRateLimitEchoes == GatewayRateLimitSpec.fields
GatewayRateLimitSends == GatewayRateLimitSpec.fields
GatewayRateLimitUpdate ==
  [mode |-> "api", tagged |-> FALSE, updatable |-> {Nil, "ACTIVE"},
   returns |-> GatewayRateLimitSpec.fields]
GatewayRateLimitPatches == GatewayRateLimitSpec.fields \ {"DimensionKeys"}
GatewayRateLimitDeletable == {Nil, "ACTIVE"}
GatewayRateLimitSynced == {"ACTIVE"}
GatewayRateLimitTerminal == {"ValidationException"}
GatewayRateLimitCompares == GatewayRateLimitSpec.fields
GatewayRateLimit ==
  [spec |-> GatewayRateLimitSpec, life |-> GatewayRateLimitLife,
   key |-> GatewayRateLimitKey, reads |-> GatewayRateLimitReads,
   echoes |-> GatewayRateLimitEchoes, sends |-> GatewayRateLimitSends,
   update |-> GatewayRateLimitUpdate, patches |-> GatewayRateLimitPatches,
   deletable |-> GatewayRateLimitDeletable, synced |-> GatewayRateLimitSynced,
   terminal |-> GatewayRateLimitTerminal,
   compares |-> GatewayRateLimitCompares,
   waived |-> {}, late |-> {}, defaults |-> {}]
=============================================================================
