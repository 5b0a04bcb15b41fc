SPECIFICATION SelectionSpec
CONSTANTS
  Nothing = Nothing
  Files = {1, 2, 3, 4, 5, 6, 7, 8, 9, 10, 11, 12}
  NumDirs = 2
  MaxPut = 3
  ABIs = {1, 2}
  Source <- MCSource
  Recipes <- MCRecipes
  Size <- MCSize
  Fold <- MCFold
  Down <- MCDown
INVARIANTS
  TheOnlyPayload
  RefusesForAReason
  OnePackage
