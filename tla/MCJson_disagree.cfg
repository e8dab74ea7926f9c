CONSTANTS
  Documents <- AnyString
  Additions <- SomeAdditions
  MaxAppends = 2
  MaxWalks = 2
  Injectors <- SomeInjectors
  Queries <- SomeQueries
  Extractors <- SomeExtractors
  Texts <- SomeTexts
  Quotes <- SomeQuotes
  Scans <- SomeScans
  ScanTexts <- SomeScanTexts
  Lone <- TheLone
  Strings <- SomeStrings
  Received <- SomeReceived
  Characters <- SomeCharacters
  Values = {"a", "b"}
  MaxLength = 3
  MaxBlocks = 3
SPECIFICATION Spec
CHECK_DEADLOCK FALSE
INVARIANTS ClonesAreParsed NoTokenBeyond
