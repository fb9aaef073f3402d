SPECIFICATION Spec
CONSTANTS
  Cases <- MCCases
INVARIANTS
  RoutesToEveryMatch
  QueryAnswersAsOneTable
  
  RowsAreAtHome
