SPECIFICATION Spec
CONSTANTS
  None = None
  Delim <- At
  Lower <- NoUpper
  Words <- TestWords
  MaxWords = 4
  Delims <- TestDelims
  Strings <- TestStrings
  LongStrings <- TestLongStrings
  Keys <- TestKeys
  Lengths <- TestLengths
  Filters <- TestFilters
  Templates <- TestTemplates
  Hosts <- TestHosts
  FirstTag <- flim07
  MaxTags = 150
INVARIANTS
  ReadsBackWhatItWrote
  EditsKeepTheRest
  BuffersSuffice
PROPERTIES
  TagsDoNotRepeat
