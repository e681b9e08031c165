SPECIFICATION Spec
CONSTANTS
  Nothing = Nothing
  Star = Star
  Schema <- TwoTables
  Alphabet <- Order
  Documents <- AllDocuments
  Queries <- AllQueries
INVARIANTS TypeOK ReferencesAreOccurrences ReportsAreTheMistakes
\* The visit of a document ends.
CHECK_DEADLOCK FALSE
