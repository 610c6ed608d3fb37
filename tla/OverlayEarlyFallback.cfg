SPECIFICATION Spec
CONSTANTS
  Actor = Actor
  Crowd = Crowd
  ActorRef = ActorRef
  CrowdRef = CrowdRef
  CrowdRef2 = CrowdRef2
  Main = Main
  Worker = Worker
  None = None
  Bases <- MCBases
  Refs <- CrowdOnlyRefs
  Configured <- MCConfigured
  Generated <- MCGenerated
  Tinted <- MCTinted
  BaseOf <- CrowdOnly
  Extras <- MCExtras
  Threads <- TwoThreads
  Drainer = Main
  Pumper = Main
  Faults <- NoFaults
INVARIANTS
  FallbackReadsVanilla

