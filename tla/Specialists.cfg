\* Up to two teachers of two generations, two observations and two students; one answer is kept.
SPECIFICATION StudentSpec
CONSTANTS
  TeacherRows <- TwoSets
  Rows <- SomeRows
  Noted <- NotedRows
  StudentRows <- OneSet
  Asked <- SomeQueries
  Weights = {"sure", "unsure"}
  Score <- TheScore
  Generations = {"g0", "g1"}
  MaxTeachers = 2
  MaxObservations = 2
  MaxStudents = 2
CHECK_DEADLOCK FALSE
INVARIANTS TaughtByVerified FallbackToOwnTeacher
PROPERTIES RefinementKeepsClass CalibrationHolds
