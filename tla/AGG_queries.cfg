CONSTANTS
  N = 3
  Ratings <- MCRatings
  RrIntervals = {0, 5}
SPECIFICATION Spec
INVARIANT StatusQueriesMatchSpec
INVARIANT QualityIsAverageOfRated
INVARIANT AvpfQueriesMatch
