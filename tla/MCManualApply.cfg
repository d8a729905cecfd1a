CONSTANTS
  Edits = {e1, e2}
  Agents = {a1}
  MaxText = 1
  MaxCommits = 2
  MaxRepairs = 1
  ChunkSize = 1
  None = None
  Troubles = {"timeout", "restart", "race", "tab", "reload"}
SPECIFICATION FairSpec
INVARIANTS
  TypeOK
  NoEditIsLost
  OutcomeIsAtomic
  ChangesAreCovered
PROPERTIES
  CommitEnds
CHECK_DEADLOCK FALSE
