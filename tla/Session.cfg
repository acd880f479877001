\* Two jobs of one target, one entry, two polls; two tokens, two revalidations,
\* two changes and one save at a time.
SPECIFICATION Spec
CONSTANTS
  Job = {"x", "y"}
  Target = {"a"}
  TargetOf <- MCTargetOf
  MaxEntries = 1
  MaxAttempts = 2
  Token = {a, b}
  None = None
  Revalidation = {1, 2}
  MaxChanges = 2
  MaxSaves = 1
CHECK_DEADLOCK FALSE
INVARIANTS OutcomeShown OneOperationPerTarget AdmittedWasAccepted LockedOnlyWithReason
PROPERTIES OperationEnds EveryEndReloads ChecksEnd
