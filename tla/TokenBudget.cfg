SPECIFICATION Spec
CONSTANTS
  Texts <- MCTexts
  MaxMessages = 3
  Contexts <- MCContexts
  Outputs <- MCOutputs
INVARIANTS
  AdmittedFits
  PoliciesAgree
  TruncationMinimal
CHECK_DEADLOCK FALSE
