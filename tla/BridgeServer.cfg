SPECIFICATION Spec
CONSTANTS
  stranger = stranger
  agent = agent
  Strangers <- MCStrangers
  Agents <- MCAgents
  User = "strycher"
  MaxTtl = 0
  SessionTTL = 1
  MaxPushes = 2
  MaxRestarts = 1
INVARIANTS
  SecretsStayOut
  SilentSessionBound
PROPERTIES
  CalendarSurvives
  ConfigSurvives
