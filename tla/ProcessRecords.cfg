\* Types of 4 and 8 bits; values at the limits of the signed and the unsigned types.
CONSTANTS
  Width32 = 16
  Width64 = 256
  Kilo = 4
  Uint32Values = {0, 7, 8, 15}
  Uint64Values = {0, 15, 16, 255}
  MaxRecords = 2
  Null = Null
  Throws = Throws
SPECIFICATION Spec
INVARIANTS
  TypeOK
  NumbersAreTheHosts
  FailsOnlyWithoutADate
