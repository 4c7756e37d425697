SPECIFICATION Spec
CONSTANTS
  Managers <- KindTable
  Referrers <- ReferrerTable
  Subjects <- CertificateSubjects
  MaxMade = 2
  Budget <- NoEdits
  MaxTogether = 0
INVARIANTS
  RefusedOnlyIfEdited
CHECK_DEADLOCK FALSE
