CONSTANTS
  None = None
  Budgets <- ReceivesThenCopies
SPECIFICATION FairSpec
CHECK_DEADLOCK FALSE
PROPERTIES
  CopiedFilesAreReported
