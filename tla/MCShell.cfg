CONSTANTS
  Slots = {1, 2, 3}
  Root = 1
  Codes = {0}
  Components = {"", ".", "..", "a", "b", "f", "n", "run", "tmp", "txt"}
  Arguments <- MCArguments
  DirNodes <- MCDirNodes
  Archive <- MCArchive
  Programs <- MCPrograms
  FreeHandles = 1
  PathCap = 4
SPECIFICATION Spec
INVARIANTS
  CwdMeansDirectory
  PromptClean
