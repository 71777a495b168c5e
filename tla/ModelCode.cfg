CONSTANTS
  Int32 <- MCInt32
  Int64 <- MCInt64
  UInt8 <- MCUInt8
  Formatted <- MCFormatted
  Base64Texts <- MCBase64Texts
  Mapped <- MCMapped
  Components <- MCComponents
  Written <- MCWritten
  Payloads <- MCPayloads
SPECIFICATION Spec
INVARIANTS ValidDecodes DecodedValid EmptyRefused
