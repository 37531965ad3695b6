CONSTANTS
  Programs <- MCPrograms
  Body <- MCBody
  Names <- MCNames
  Integer <- MCInteger
  Characters <- MCCharacters
  Declared <- MCDeclared
  Signatures <- MCSignatures
  Layout <- MCLayout
  Worth <- MCWorth
  Storage <- MCStorage
SPECIFICATION Spec
INVARIANTS TypeOK AcceptsGrammar DiagnosesExactly CodeComputesTree FaultyCodeIsWhole
PROPERTY ParsingEnds
