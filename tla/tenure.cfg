CONSTANTS
  Agreement = {"a"}
  Listing = "listing"
  Inherited = {"listing"}
  OfferLife = 2
  Life = 5
  LongLife = 8
  Interval = 1
  Late = 0
  Delay = 1
  Forgiven = 1
  MaxHead = 8
  MaxFaults = 1
SPECIFICATION Spec
INVARIANTS TypeOK RefusalExplained KeptAlive ExtendedMeansExtended
CHECK_DEADLOCK FALSE
