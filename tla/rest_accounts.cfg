SPECIFICATION Spec
CONSTANTS
  Logins = {ann}
  Passwords = {old, new}
  Names = {x, y, z}
  MaxCharacters = 2
  MaxAccounts = 2
  Sessions = {s1, s2}
  Lengths = {0, 2}
  TooLong = TooLong
CHECK_DEADLOCK FALSE
INVARIANTS
  TypeOK
  UniqueLogin
  OwnCharacters
  CharactersBounded
  WholeBody
PROPERTIES
  ErrorsChangeNothing
  Answered
