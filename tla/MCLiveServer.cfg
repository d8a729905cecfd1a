\* One session, two polling agents; an agent or the server dies once, and the
\* page leaves and returns once.
CONSTANTS
  Sessions = {s1}
  Agents = {a1, a2}
  MaxRevision = 1
  MaxFaults = 1
  MaxEpisodes = 1
  ScriptsFail = TRUE
SPECIFICATION Spec
INVARIANTS
  TypeOK
  NoLostWakeup
  JournalPendingIsQueued
PROPERTIES
  OverIsOver
SYMMETRY AgentSymmetry
