----------------------------- MODULE MCReferences ---------------------------
(***************************************************************************)
(* References with the managers and the references of this repository, and *)
(* the subjects and bounds of its runs.                                    *)
(***************************************************************************)
EXTENDS References, ReferenceFields, ResourceKinds

Of(k, rs) == [kind |-> k, refs |-> rs]

(* References that the functions of their kinds treat alike: one of them,   *)
(* of any kind, stands for all.                                             *)
RefRole(k, r) == LET m == KindTable[k] t == ReferrerTable[k] IN
  <<r.place, r \in t.ensures, r \in t.refuses.neither, r.field \in m.key.fields,
    m.key.needsID, k = "gateway_target", m.update.mode,
    r.field \in m.reads, r.field \in m.sends, r.field \in m.echoes,
    r.field \in m.update.returns, r.field \in m.patches, r.field \in m.compares,
    r.field \in m.spec.immutable>>
AllRefs == UNION {{<<k, r>> : r \in RefsOf(k)} : k \in DOMAIN ReferrerTable}
EverySubject ==
  {LET x == CHOOSE x \in AllRefs : RefRole(x[1], x[2]) = role IN Of(x[1], {x[2]}) :
     role \in {RefRole(x[1], x[2]) : x \in AllRefs}}

(* A reference that names the resource beside one that does not.            *)
TwoReferences == Of("gateway_target", {GatewayTargetGatewayRef, GatewayTargetSubnetsRef})

ReferenceSubjects == EverySubject \cup {TwoReferences}
ReferenceBudget   == [edits |-> 1, touches |-> 1, returns |-> 1, errors |-> 1]

(* The pair begins as two references: each given otherwise, or beside a     *)
(* value, is a subject of its own, and an edit makes that of them later.    *)
ReferenceInit ==
  Init /\ (refs = TwoReferences.refs => \A r \in refs : cr.ref[r] /\ cr.val[r] = 0)
ReferenceSpec == ReferenceInit /\ [][Next]_vars /\ Fairness

NoEdits == [edits |-> 0, touches |-> 0, returns |-> 0, errors |-> 0]
CertificateSubjects == {Of("code_interpreter", {CodeInterpreterSecretRef})}
=============================================================================
