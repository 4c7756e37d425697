---------------------------- MODULE PolicyKinds -----------------------------
(***************************************************************************)
(* Policies and their engines, and the two identity kinds, which have no   *)
(* status: they are found or they are not.  The secret of an API key       *)
(* credential provider is sent and never read back.                        *)
(***************************************************************************)
EXTENDS ManagerTypes

(* pkg/resource/policy *)
PolicySpec ==
  [fields |-> {"Definition", "Description", "EnforcementMode", "Name",
               "PolicyEngineID", "ValidationMode"},
   required |-> {"Definition", "Name"},
   immutable |-> {"Name", "PolicyEngineID"}]
PolicyLife ==
  [creating |-> "CREATING", active |-> "ACTIVE", updating |-> "UPDATING",
   deleting |-> "DELETING", createFailed |-> "CREATE_FAILED",
   updateFailed |-> "UPDATE_FAILED", deleteFailed |-> "DELETE_FAILED",
   busy |-> "ACTIVE", busyFailed |-> Nil, shows |-> {}]
PolicyReads == PolicySpec.fields \ {"ValidationMode"}
PolicyKey ==
  [needsID |-> TRUE, fields |-> {"PolicyEngineID"}, versioned |-> FALSE]
PolicyEchoes == PolicySpec.fields \ {"ValidationMode"}
PolicySends == PolicySpec.fields
PolicyUpdate ==
  [mode |-> "api", tagged |-> FALSE, updatable |-> {Nil, "ACTIVE"},
   returns |-> PolicySpec.fields \ {"ValidationMode"}]
PolicyPatches == PolicySpec.fields \ {"Name"}
PolicyDeletable ==
  {Nil, "ACTIVE", "CREATE_FAILED", "UPDATE_FAILED", "DELETE_FAILED"}
PolicySynced == {"ACTIVE", "CREATE_FAILED", "UPDATE_FAILED", "DELETE_FAILED"}
PolicyTerminal == {"ValidationException"}
PolicyCompares == PolicySpec.fields \ {"ValidationMode"}
Policy ==
  [spec |-> PolicySpec, life |-> PolicyLife, key |-> PolicyKey,
   reads |-> PolicyReads, echoes |-> PolicyEchoes, sends |-> PolicySends,
   update |-> PolicyUpdate, patches |-> PolicyPatches,
   deletable |-> PolicyDeletable, synced |-> PolicySynced,
   terminal |-> PolicyTerminal, compares |-> PolicyCompares,
   waived |-> {}, late |-> {}, defaults |-> {"EnforcementMode"}]

(* pkg/resource/policy_engine *)
PolicyEngineSpec ==
  [fields |-> {"Description", "EncryptionKeyARN", "Name", "Tags"},
   required |-> {"Name"}, immutable |-> {"EncryptionKeyARN", "Name"}]
PolicyEngineLife ==
  [creating |-> "CREATING", active |-> "ACTIVE", updating |-> "UPDATING",
   deleting |-> "DELETING", createFailed |-> "CREATE_FAILED",
   updateFailed |-> "UPDATE_FAILED", deleteFailed |-> "DELETE_FAILED",
   busy |-> "ACTIVE", busyFailed |-> Nil, shows |-> {}]
PolicyEngineReads == PolicyEngineSpec.fields
PolicyEngineKey == [needsID |-> TRUE, fields |-> {}, versioned |-> FALSE]
PolicyEngineEchoes == PolicyEngineSpec.fields \ {"Tags"}
PolicyEngineSends == PolicyEngineSpec.fields
PolicyEngineUpdate ==
  [mode |-> "api", tagged |-> TRUE, updatable |-> {Nil, "ACTIVE"},
   returns |-> PolicyEngineSpec.fields \ {"Tags"}]
PolicyEnginePatches == {"Description"}
PolicyEngineDeletable ==
  {Nil, "ACTIVE", "CREATE_FAILED", "UPDATE_FAILED", "DELETE_FAILED"}
PolicyEngineSynced ==
  {"ACTIVE", "CREATE_FAILED", "UPDATE_FAILED", "DELETE_FAILED"}
PolicyEngineTerminal == {"ValidationException"}
PolicyEngineCompares == PolicyEngineSpec.fields
PolicyEngine ==
  [spec |-> PolicyEngineSpec, life |-> PolicyEngineLife,
   key |-> PolicyEngineKey, reads |-> PolicyEngineReads,
   echoes |-> PolicyEngineEchoes, sends |-> PolicyEngineSends,
   update |-> PolicyEngineUpdate, patches |-> PolicyEnginePatches,
   deletable |-> PolicyEngineDeletable, synced |-> PolicyEngineSynced,
   terminal |-> PolicyEngineTerminal, compares |-> PolicyEngineCompares,
   waived |-> {}, late |-> {}, defaults |-> {}]

(* pkg/resource/workload_identity *)
WorkloadIdentitySpec ==
  [fields |-> {"AllowedResourceOauth2ReturnURLs", "Name", "Tags"},
   required |-> {"Name"}, immutable |-> {"Name"}]
WorkloadIdentityReads == WorkloadIdentitySpec.fields
WorkloadIdentityKey ==
  [needsID |-> FALSE, fields |-> {"Name"}, versioned |-> FALSE]
WorkloadIdentityEchoes == WorkloadIdentitySpec.fields \ {"Tags"}
WorkloadIdentitySends == WorkloadIdentitySpec.fields
WorkloadIdentityUpdate ==
  [mode |-> "api", tagged |-> TRUE, updatable |-> Ungated,
   returns |-> WorkloadIdentitySpec.fields \ {"Tags"}]
WorkloadIdentityPatches == WorkloadIdentitySpec.fields \ {"Tags"}
WorkloadIdentityDeletable == Ungated
WorkloadIdentitySynced == {Nil}
WorkloadIdentityTerminal == {"ValidationException"}
WorkloadIdentityCompares == WorkloadIdentitySpec.fields
WorkloadIdentity ==
  [spec |-> WorkloadIdentitySpec, life |-> Statusless,
   key |-> WorkloadIdentityKey, reads |-> WorkloadIdentityReads,
   echoes |-> WorkloadIdentityEchoes, sends |-> WorkloadIdentitySends,
   update |-> WorkloadIdentityUpdate, patches |-> WorkloadIdentityPatches,
   deletable |-> WorkloadIdentityDeletable, synced |-> WorkloadIdentitySynced,
   terminal |-> WorkloadIdentityTerminal,
   compares |-> WorkloadIdentityCompares,
   waived |-> {}, late |-> {}, defaults |-> {}]

(* pkg/resource/api_key_credential_provider *)
APIKeyCredentialProviderSpec ==
  [fields |-> {"APIKey", "Name", "Tags"}, required |-> {"APIKey", "Name"},
   immutable |-> {"Name"}]
APIKeyCredentialProviderReads ==
  APIKeyCredentialProviderSpec.fields \ {"APIKey"}
APIKeyCredentialProviderKey ==
  [needsID |-> FALSE, fields |-> {"Name"}, versioned |-> FALSE]
APIKeyCredentialProviderEchoes == {"Name"}
APIKeyCredentialProviderSends == APIKeyCredentialProviderSpec.fields
APIKeyCredentialProviderUpdate ==
  [mode |-> "api", tagged |-> TRUE, updatable |-> Ungated,
   returns |-> {"Name"}]
APIKeyCredentialProviderPatches ==
  APIKeyCredentialProviderSpec.fields \ {"Tags"}
APIKeyCredentialProviderDeletable == Ungated
APIKeyCredentialProviderSynced == {Nil}
APIKeyCredentialProviderTerminal == {"ValidationException"}
APIKeyCredentialProviderCompares == APIKeyCredentialProviderSpec.fields
APIKeyCredentialProvider ==
  [spec |-> APIKeyCredentialProviderSpec, life |-> Statusless,
   key |-> APIKeyCredentialProviderKey,
   reads |-> APIKeyCredentialProviderReads,
   echoes |-> APIKeyCredentialProviderEchoes,
   sends |-> APIKeyCredentialProviderSends,
   update |-> APIKeyCredentialProviderUpdate,
   patches |-> APIKeyCredentialProviderPatches,
   deletable |-> APIKeyCredentialProviderDeletable,
   synced |-> APIKeyCredentialProviderSynced,
   terminal |-> APIKeyCredentialProviderTerminal,
   compares |-> APIKeyCredentialProviderCompares,
   waived |-> {}, late |-> {}, defaults |-> {}]
=============================================================================
