SPECIFICATION Spec
CONSTANTS
  Names <- SomeNames
  KernelLinks = 3
  ResolveLinks = 4
  Trees <- LinkTrees
  Arguments <- SortArguments
  UserFiles = {"f1", "f2"}
  ShortPaths <- SomePaths
INVARIANTS PreflightPrevents
