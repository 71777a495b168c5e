SPECIFICATION ReleaseSpec
CONSTANTS
  Place <- MCPlace
  Numeral <- MCNumeral
  Joined <- MCJoined
  Suffix <- MCSuffix
  ServersModule <- MCServersModule
  TypesModule <- MCTypesModule
  ClientMethods <- MCClientMethods
  Reexports <- MCReexports
  PoolNames = {"params", "responses", "types", "names", "servers"}
  Pools <- Chosen
INVARIANTS CallersKeep
