---------------------------- MODULE ManagerTypes ----------------------------
(***************************************************************************)
(* What a resource manager of this controller is, as data.  The fifteen    *)
(* packages under pkg/resource are generated from one template: the order  *)
(* of calls is the same in each and is modelled once, in                   *)
(* ResourceReconciler.  What differs from kind to kind is which fields a   *)
(* call carries, which statuses a guard admits and which errors are        *)
(* terminal; a manager record holds exactly that, and the modules          *)
(* RuntimeKinds, GatewayKinds, HarnessKinds and PolicyKinds give one per   *)
(* kind, function by function.                                             *)
(***************************************************************************)

(* A nil pointer: no status, no value. *)
Nil == "<nil>"

(* Every status a kind of this controller can report, with nil: what a call *)
(* with no guard lets through.                                              *)
Ungated ==
  {Nil, "CREATING", "READY", "ACTIVE", "UPDATING", "DELETING", "DELETED",
   "SAVING", "SYNCHRONIZING", "CREATE_PENDING_AUTH", "UPDATE_PENDING_AUTH",
   "SYNCHRONIZE_PENDING_AUTH", "FAILED", "CREATE_FAILED", "UPDATE_FAILED",
   "DELETE_FAILED", "UPDATE_UNSUCCESSFUL", "SYNCHRONIZE_UNSUCCESSFUL"}

(* Statuses of a resource that does not exist, before and after its life. *)
Absent == "absent"
Gone   == "gone"

Statuses == Ungated \cup {Absent, Gone}

(***************************************************************************)
(* spec      the fields of the spec, those the CRD requires, and those it  *)
(*           refuses to change once they are set                           *)
(* life      the statuses the service moves a resource through.  A failed  *)
(*           one it does not have is Nil, an operation it does not have is *)
(*           shown as the active status.  busy: that of an operation the   *)
(*           controller has no call for.  shows: what an operation may be  *)
(*           shown as further on                                           *)
(* key       whether ReadOne needs an identifier the service assigned, the *)
(*           spec fields that are part of the Get request, and whether the *)
(*           version in the object's status is part of it                  *)
(* reads     spec fields sdkFind overwrites with what it observed          *)
(* sends     spec fields of the Create request                             *)
(* echoes    spec fields sdkCreate overwrites from the Create response     *)
(* update    mode: "api", sdkUpdate calls an Update API; "tagsOnly", it    *)
(*           returns success without one; "refuse", it fails with a        *)
(*           TerminalError.  tagged: it starts by synchronising the tags.  *)
(*           updatable: the statuses its guard lets through.  returns: the *)
(*           spec fields it overwrites from the Update response            *)
(* patches   spec fields of the Update request                             *)
(* deletable statuses the guard of sdkDelete lets through                  *)
(* synced    statuses for which IsSynced answers true                      *)
(* terminal  error codes terminalAWSError recognises                       *)
(* compares  spec fields newResourceDelta compares                         *)
(* waived    those whose difference customPostCompare drops if the spec    *)
(*           leaves them unset                                             *)
(* late      spec fields LateInitialize copies from what it reads          *)
(* defaults  spec fields the service fills in if a Create leaves them out  *)
(***************************************************************************)
Names == SUBSET STRING

Lifecycle ==
  [creating: Statuses, active: Statuses, updating: Statuses,
   deleting: Statuses, createFailed: Statuses, updateFailed: Statuses,
   deleteFailed: Statuses, busy: Statuses, busyFailed: Statuses,
   shows: SUBSET [op: Statuses, as: Statuses]]

Manager ==
  [spec: [fields: Names, required: Names, immutable: Names],
   life: Lifecycle,
   key: [needsID: BOOLEAN, fields: Names, versioned: BOOLEAN],
   reads: Names, sends: Names, echoes: Names,
   update: [mode: {"api", "tagsOnly", "refuse"}, tagged: BOOLEAN,
            updatable: SUBSET Statuses, returns: Names],
   patches: Names, deletable: SUBSET Statuses, synced: SUBSET Statuses,
   terminal: Names,
   compares: Names, waived: Names, late: Names, defaults: Names]

(* A kind whose Get response carries no status: it is there or it is not. *)
Statusless ==
  [creating |-> Nil, active |-> Nil, updating |-> Nil, deleting |-> Gone,
   createFailed |-> Nil, updateFailed |-> Nil, deleteFailed |-> Nil,
   busy |-> Nil, busyFailed |-> Nil, shows |-> {}]
=============================================================================
