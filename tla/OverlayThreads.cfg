SPECIFICATION Spec
CONSTANTS
  Actor = Actor
  Crowd = Crowd
  ActorRef = ActorRef
  CrowdRef = CrowdRef
  CrowdRef2 = CrowdRef2
  Main = Main
  Worker = Worker
  None = None
  Bases <- MCBases
  Refs <- OneEachRefs
  Configured <- MCConfigured
  Generated <- MCGenerated
  Tinted <- MCTinted
  BaseOf <- OneEach
  Extras <- MCExtras
  Threads <- TwoThreads
  Drainer = Main
  Pumper = Worker
  Faults <- AllFaults
INVARIANTS
  SingleFlight
  ExactlyOneTask
  NoLostWakeup
  ReadyIsComposed
PROPERTIES
  WaitersAreServed
  ChecksTripOnlyOvertaken
  ImplementsLifecycle
  ImplementsStages
