CONSTANTS
  p1 = p1 p2 = p2 a = a b = b s1 = s1 s2 = s2 u1 = u1 u2 = u2 k1 = k1 k2 = k2
  None = None
  Procs = {p1, p2}
  Names = {a, b}
  Servers = {s1, s2}
  Users = {u1, u2}
  Secrets = {k1, k2}
  Creds <- MCCreds
  Sha1Only = {s2}
  HostName <- MCHostName
  Commands <- MCCommands
  Envs <- MCEnvs
  Answers <- MCAnswers
  Guided <- MCGuided
  Seeds <- MCSeeds
  MaxCommands = 2
SPECIFICATION ProfilesSpec
INVARIANTS ConnectsAsAsked Reconnects
CHECK_DEADLOCK FALSE
