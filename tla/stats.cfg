CONSTANTS
  Provider = {"p"}
  Lb = "lb"
  Hours = 2
  MaxHour = 4
  MaxAnswers = 2
  MaxStarts = 2
  MaxJoins = 2
  MaxLate = 0
SPECIFICATION Spec
INVARIANTS TypeOK CountedOnce OneBucketAnHour WholeMeansWhole
PROPERTY FileKeeps
CHECK_DEADLOCK FALSE
