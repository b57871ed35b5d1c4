SPECIFICATION Spec
CONSTANTS
  Fields <- SomeFields
  Numbers <- SomeNumbers
  Flags <- SomeFlags
  Place <- SourceOrder
  Texts <- SomeTexts
  Yes = "true"
  No = "false"
  Stoi <- Number
  Trim <- Trimmed
  Cuts <- CutShort
  Default <- SomeDefaults
  Offered <- SomeOffered
  Missing = Missing
INVARIANTS
  TypeOK
  FreshUpToFirstBad
  SuccessIsCoherent
  RestoredAfterSave
  StartsFromFileOrDefault
