SPECIFICATION Spec
CONSTANTS
  Names <- SomeNames
  KernelLinks = 3
  ResolveLinks = 4
  Trees <- SomeTrees
  Arguments <- SomeArguments
  UserFiles = {"f1", "f2"}
  ShortPaths <- SomePaths
INVARIANTS Inv ResolveAgrees ProductsKeptApart
