CONSTANTS
  MaxInt = 15
  MaxLen = 5
  Width = 5
  Exact = 8
  Letters = 2
  Rounded <- MCRounded
  Assignables <- MCAssignables
  Operands <- MCOperands
SPECIFICATION ExpressionsSpec
CHECK_DEADLOCK FALSE
INVARIANTS
  SliceIsSelected
  IndexAgreesWithSlice
  IntegerLaws
  MinusUndoesPlus
  OrderIsCoherent
