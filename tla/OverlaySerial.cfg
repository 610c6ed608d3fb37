SPECIFICATION FairSpec
CONSTANTS
  Actor = Actor
  Crowd = Crowd
  ActorRef = ActorRef
  CrowdRef = CrowdRef
  CrowdRef2 = CrowdRef2
  Main = Main
  Worker = Worker
  None = None
  Bases <- MCBases
  Refs <- AllRefsRefs
  Configured <- MCConfigured
  Generated <- MCGenerated
  Tinted <- MCTinted
  BaseOf <- AllRefs
  Extras <- MCExtras
  Threads <- MainOnly
  Drainer = Main
  Pumper = Main
  Faults <- Delays
INVARIANTS
  TypeOK
  OnlyDocumentedKills
  CaughtUp
  FallbackReadsVanilla
PROPERTIES
  StartedBasesSettle
