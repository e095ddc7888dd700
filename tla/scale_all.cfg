CONSTANTS
  Originals <- MCOriginals
  Queries <- MCQueries
  Settings <- MCSettings
  TypeList <- MCTypeList
  NoType = "-"
  Spells <- MCSpells
  NoneFormats = {"none", "nonesuch"}
  MaxInt = 200
  MaxKept = 1
SPECIFICATION Spec
INVARIANT TypeOK KeptAsMade SizeAsAsked NotEnlarged ThumbsFit RefusedForCause
