SPECIFICATION Spec
CONSTANTS
  Searches = {s1, s2}
  Vaults = {v1}
  Notes = {n1}
  Texts = {short, other, binary}
  Binary = {binary}
  Empty = {}
  v1 = v1
  blank = blank
  VaultOf <- MCVaultOf
  SizeOf <- MCSizeOf
  NoText = NoText
  NoFp = NoFp
  NoFile = NoFile
  NoOne = NoOne
  Pass = Pass
  SameSecond = FALSE
  IndexFails = TRUE
  EmbedFails = TRUE
  MaxEdits = 3
  MaxCrashes = 1
SYMMETRY MCSymmetry
INVARIANTS
  PresentNotesAreExact
