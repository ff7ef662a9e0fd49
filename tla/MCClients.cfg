\* Every way to combine up to two loaded key stores and the settings of each constructor.
CONSTANTS
  KeyStores <- MCKeyStores
  JKSConfigs <- MCJKSConfigs
  Sizes <- MCSizes
  Durations <- MCDurations
  BalancerLists <- MCBalancerLists
  MaxLoads = 2
SPECIFICATION Spec
INVARIANTS
  LoadedIdentityUsable
  TLSAsConfigured
  SettingsHonoured
CHECK_DEADLOCK FALSE
