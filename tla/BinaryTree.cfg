CONSTANTS
  NULL = NULL
  Nodes = {1, 2, 3, 4}
  Values = {1, 2, 3}
SPECIFICATION FairSpec
PROPERTIES ImplementsSorted CallsReturn
