CONSTANTS
  NPorts = 2
  Pins <- MCPins
  Port <- MCPort
  Descriptions <- MCDescriptions
  defined <- MCdefined
  settings <- MCsettings
  Configurations <- MCConfigurations
  ISSP <- MCISSP
  Faults <- MCFaults
  Modes = {"plain", "-a"}
SPECIFICATION Spec
INVARIANTS NoStrongOnTheWay PinsAsWanted NoFalseAlarm ShortsFound NoFight
