SPECIFICATION Spec
CONSTANTS
  Crowd1 = Crowd1
  Crowd2 = Crowd2
  Actor = Actor
  SourceA = SourceA
  SourceB = SourceB
  SourceC = SourceC
  Null = Null
  Bases <- MCBases
  Sources <- TwoSources
  Publishers = {P1}
  Readers = {R1}
  Capacity = 4
  Limit = 2
  StartIndex <- MCStartIndex
  SourceStartIndex <- TwoSourceStarts
  IdentityOf <- MCIdentityOf
INVARIANTS
  ReverseAgrees
PROPERTIES
  ImplementsBindings
