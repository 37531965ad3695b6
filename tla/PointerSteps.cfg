CONSTANTS
  Programs <- PointerPrograms
  Body <- MCBody
  Names <- MCNames
  Integer <- MCInteger
  Characters <- MCCharacters
  Declared <- MCDeclared
  Signatures <- MCSignatures
  Layout <- MCLayout
  Worth <- MCWorth
  Storage <- MCStorage
SPECIFICATION Spec
INVARIANT PointersStep
