SPECIFICATION Spec
CONSTANTS
  Files = {"a", "b", "c"}
  Paths = {"./a", "lib/../a", "./b", "./c"}
  Canon <- MCCanon
  Content <- MCContent
  Programs <- MCPrograms
  Fragile = {"b", "c"}
  Builtins = {"+", "-"}
  MaxDepth = 9
INVARIANTS SplicedOnce NeededIsThere
PROPERTY CompileEnds
