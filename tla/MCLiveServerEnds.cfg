\* One agent and no deaths, under fairness.
CONSTANTS
  Sessions = {s1}
  Agents = {a1}
  MaxRevision = 1
  MaxFaults = 0
  MaxEpisodes = 1
  ScriptsFail = TRUE
SPECIFICATION FairSpec
PROPERTIES
  QueuedIsServed
  
