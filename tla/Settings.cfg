SPECIFICATION Spec
CONSTANTS
  slashed = slashed
  bare = bare
  absent = absent
  Dir <- DirDef
  Existing = {slashed, bare}
  Slashed = {slashed}
  Heading = Heading
  NoFile = NoFile
  Name <- NameDef
  Listed <- ListedDef
  Regular <- RegularDef
  HashLen = 2
  Byte = {0, 1}
  MaxFile = 3
  MaxDirs = 2
INVARIANTS SettingsKept SharedExactly
PROPERTY ImplementsStore
