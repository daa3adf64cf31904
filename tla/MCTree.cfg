\* Both trees, through restarts and losses.
SPECIFICATION Spec
CONSTANTS
  v1 = v1
  v2 = v2
  Branch <- MCBranch
  Depth = 3
  Key <- MCKey
  Data <- MCData
  MaxLosses = 2
SYMMETRY MCSymmetry
INVARIANTS
  TypeOK
  MerkleLinks
  UniqueHash
  LookupsFindLeaves
  NoFault
  WholeOrNothing
PROPERTIES
  IsDurableStore
