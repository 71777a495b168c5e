SPECIFICATION Spec
CONSTANTS
  Place <- MCPlace
  Numeral <- MCNumeral
  Joined <- MCJoined
  Suffix <- MCSuffix
  Apis <- MCApis
  Variants <- MCVariants
  ServersModule <- MCServersModule
  TypesModule <- MCTypesModule
  ClientMethods <- MCClientMethods
  Reexports <- MCReexports
  PoolTypes = 4
  PoolOps = 3
INVARIANTS NamesDiffer OrderRenamesNothing AdditionsRenameNothing
CHECK_DEADLOCK FALSE
