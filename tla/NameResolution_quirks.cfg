SPECIFICATION Spec
CONSTANTS
  Nothing = Nothing
  Star = Star
  Schema <- TwoTables
  Alphabet <- Order
  Documents <- AllDocuments
  Queries <- AllQueries
\* Each of them has a counterexample, when it is checked by itself.
INVARIANTS AliasedLocalsAreKnown ReusedNamesAreKnown DerivedColumnsAreKnown
           UnqualifiedColumnsAreFound
\* The visit of a document ends.
CHECK_DEADLOCK FALSE
