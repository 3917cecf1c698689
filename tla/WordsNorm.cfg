\* Texts of up to five words, phrases of up to three, at most four per call.
SPECIFICATION NormSpec
CONSTANTS
  Texts <- SomeTexts
  Searched <- SomePhrases
  Digits = {"7"}
  StopWords = {"the", "will"}
  Stem <- StemTable
  maxPhraseLen = 4
CHECK_DEADLOCK FALSE
INVARIANTS
  FirstOccurrences
  OwnWordsFind
