SPECIFICATION CompletionSpec
CONSTANTS
  Schema <- WithEvent
  Keywords <- WithEventKeyword
  Punctuation <- SomePunctuation
  Documents <- QuirkDocuments
INVARIANTS OffersAreKnown OffersJustWhatFits OffersAllInScope
