\* Every set of three files with names of up to two characters, and every
\* small environment.
SPECIFICATION BootSpec
CONSTANTS
  Files = {1, 2, 3}
  Chars = {"a", "b", "A", "B", "F", "-", "_", ":"}
  Letters = {"a", "b"}
  Upper <- MCUpper
  ModuleNames <- MCModuleNames
  EnvKeys <- MCEnvKeys
  StoreKeys <- MCStoreKeys
  ReservedName <- MCReservedName
  FileSuffix <- MCFileSuffix
  Contents <- MCContents
  Daemons <- MCDaemons
  Setups <- MCSetups
INVARIANTS
  BootTypeOK
  EnvViewsDisjoint
  StoreViewsDisjoint
  GateAgreesWithLoader
  ConfigPrecedence
PROPERTY
  ServerComesUp
\* A command ends, and a server listens.
CHECK_DEADLOCK FALSE
