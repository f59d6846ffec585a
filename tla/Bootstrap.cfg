CONSTANTS
  n1 = n1
  n2 = n2
  n3 = n3
  Nodes <- ThreeNodes
  Names <- TwoIndexes
  Opendistro = "opendistro"
SPECIFICATION Spec
SYMMETRY AllNodesAlike
INVARIANTS
  TypeOK
  StartedFindsEverything
  IndexesHaveMappings
  CollisionsAreHarmless
  DocumentsHaveMappings
