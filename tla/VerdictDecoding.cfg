\* The deployed grammar with one character per class (a digit is a flag
\* character too).  The shortest verdict has nine pieces; twelve tokens of up to
\* two are enough for three flags, for a flag of three characters and to break
\* off in either; a prompt of 93 tokens leaves too little room for most verdicts.
\* Grammars that are only read stop once they are loaded: no deadlock check.
CONSTANTS
  Sources <- MCSources
  Deployed <- VerdictGbnf
  Picks = {"0"}
  Alphabet = {"a", "b"}
  Prompts = {80, 93, 101}
  Context = 100
  MaxNewTokens = 12
  MaxPieces = 2
  MaxRaw = 21
  MaxFlags = 2
  MaxFlagLen = 2
  ProbeLen = 3
  BodyLen = 5
SPECIFICATION Spec
INVARIANTS ParserExact AcceptorExact AcceptorFollowsDecoder OnlySentencesPass SentencesAreRead
PROPERTIES Decodes
CHECK_DEADLOCK FALSE
