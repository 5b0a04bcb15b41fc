SPECIFICATION Spec
CONSTANTS
  n1 = n1
  n2 = n2
  v1 = v1
  v2 = v2
  b1 = b1
  b2 = b2
  b3 = b3
  vertex = vertex
  Names <- MCNames
  Values <- MCValues
  Blocks <- MCBlocks
  Patches <- MCPatches
  Arrays <- OneArray
  MaxLen = 2
  Index = Index
  Client = Client
  Unset = Unset
  Wild = Wild
  Nothing = Nothing
  Null = Null
  Free = Free
  Garbage = Garbage
SYMMETRY Alike
INVARIANT CopiesAreOwned
PROPERTY DrawsWhatGLWould
