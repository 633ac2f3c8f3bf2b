SPECIFICATION Spec
CONSTANTS
  Width = 2
  SmallConstant = 3
  AccumulatorWidth = 8
  FieldPrime = 67
  Generator <- MCGenerator
  TableSize = 4
  GroupOrder = 79
  FieldSamples <- MCFieldSamples
  Alphabet <- MCAlphabet
  Letters <- MCLetters
  Lower <- MCLower
  Swapped <- MCSwapped
  AllowedFirst <- MCAllowedFirst
  AddressLength = 5
  Checksums = 32
  MainnetT = "T"
  RequestedPrefixes <- MCPrefixes
  RequestedSuffixes <- MCSuffixes
  Payloads <- MCPayloads
CHECK_DEADLOCK FALSE
INVARIANTS FieldAgrees PointsAgree PatternsAgree
