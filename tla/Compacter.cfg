\* Two threads compact and expand, a third expands a stray string.
SPECIFICATION FairSpec
CONSTANTS
  Threads = {t1, t2, t3}
  Strays = {t3}
  NoThread = none
  Letters = {"a", "b"}
  Digits <- BinaryDigits
  Others = {"(", ")"}
  Sources <- SomeSources
  Bytes <- StrayBytes
INVARIANTS
  TypeOK
  DictionaryIsBijective
  RoundTrip
PROPERTIES
  NumbersAreForEver
  ImplementsDictionary
  AllReturn
