SPECIFICATION Spec
CONSTANTS
  Files = {"a", "b", "c"}
  Paths = {"./a", "lib/../a", "./b", "./c"}
  Canon <- MCCanon
  Content <- MCTwins
  Programs <- MCBoth
  Fragile = {}
  Builtins = {"+", "-"}
  MaxDepth = 6
INVARIANT CallsItsOwn
