\* Texts as written and texts damaged: MCWhole and two scripts of four statements.
SPECIFICATION Spec
CONSTANTS
  Names <- MCNames
  Literals <- MCLiterals
  Integrals <- MCIntegrals
  Strings <- MCStrings
  Reads <- MCReads
  Number <- MCNumber
  Contents <- MCContents
  Scripts <- MCScripts
  MaxRows = 3
INVARIANTS TreeOfTheText DamageIsLocal SameAnswer
PROPERTY AlwaysAhead
