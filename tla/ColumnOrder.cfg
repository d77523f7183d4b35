\* Every table of up to three rows: names up to two characters long, sizes, dates, numbers.
CONSTANTS
  Chars = {1, 2}
  MaxLength = 2
  Sizes <- BoundarySizes
  HalvesUp = FALSE
  MaxRows = 3
SPECIFICATION Spec
INVARIANTS
  SortInv
  PredicateIsAnOrder
  InDictionaryOrder
  KeepsEarlierOrder
  ReadsInOrder
