SPECIFICATION CompletionSpec
CONSTANTS
  Schema <- TwoTables
  Keywords <- SomeKeywords
  Punctuation <- SomePunctuation
  Documents <- PlainDocuments
INVARIANTS OffersAreKnown OffersJustWhatFits OffersAllInScope
