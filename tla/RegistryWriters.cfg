SPECIFICATION Spec
CONSTANTS
  Crowd1 = Crowd1
  Crowd2 = Crowd2
  Actor = Actor
  SourceA = SourceA
  SourceB = SourceB
  SourceC = SourceC
  Null = Null
  Bases <- MCBases
  Sources <- MCSources
  Publishers = {P1, P2}
  Readers = {}
  Capacity = 4
  Limit = 2
  StartIndex <- MCStartIndex
  SourceStartIndex <- MCSourceStartIndex
  IdentityOf <- MCIdentityOf
INVARIANTS
  TypeOK
  KeysAreReachable
  SourcesAreReachable
  PublishedIsReferenced
  LimitLeavesGap
