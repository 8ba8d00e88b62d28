SPECIFICATION FairSpec
CONSTANTS
  Searches = {s1}
  Vaults = {v1, v2}
  Notes = {n1, n2}
  Texts = {blank, short}
  Binary = {}
  Empty = {blank}
  v1 = v1
  blank = blank
  VaultOf <- MCVaultOf
  SizeOf <- MCSizeOf
  NoText = NoText
  NoFp = NoFp
  NoFile = NoFile
  NoOne = NoOne
  Pass = Pass
  SameSecond = FALSE
  IndexFails = FALSE
  EmbedFails = TRUE
  MaxEdits = 3
  MaxCrashes = 0
INVARIANTS
  FreshSearchIsExact
  VectorsInLockstep
PROPERTIES
  EmbeddingsCatchUp
