CONSTANTS
  Vectors = {v}
  Elements = {"a", "b"}
  MaxSize = 3
SPECIFICATION KernelSpec
INVARIANT ErasesElementAtIndex
