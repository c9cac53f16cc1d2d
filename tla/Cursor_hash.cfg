\* Three statements of up to two rows, and a domain switched twice.
CONSTANTS
  MaxStatements = 3
  MaxRows = 2
  MaxSwitches = 2
SPECIFICATION Spec
INVARIANTS
  OneHashPerStatement
  HashedUnderItsUid
  FactoryRestored
