SPECIFICATION Spec
CONSTANTS
  begin = begin
  s1 = s1
  a1 = a1
  a2 = a2
  t1 = t1
  g1 = g1
  i1 = i1
  p1 = p1
  Ids = {begin, s1, a1, a2, t1, g1, i1, p1}
  Label <- LabelOf
  GroupStart = i1
  NoNode = NoNode
  Cases <- OneCase
  MaxSelect = 1
  MaxNodes = 4
  MaxEdges = 3
SYMMETRY Symmetry
CHECK_DEADLOCK FALSE
INVARIANTS
  TypeOK
  Acyclic
  EdgesStayInGroup
  SuccessorsExist
PROPERTIES
  EntriesLeaveWithGroup
  PlaceholderLeavesWithList
