SPECIFICATION FairSpec
CONSTANTS
  NoName = NoName
  MaxID = 65535
  MaxByte = 255
  Loaded <- MCLoaded
  Forms <- MCForms
  EditorIDs <- MCEditorIDs
  Races = {"Human", "Alien"}
  HeadParts <- MCHeadParts
  PartType <- MCPartType
  PartRaces <- MCPartRaces
  Descriptors <- MCDescriptors
  BoneGroups <- MCBoneGroups
  BoneSliders <- MCBoneSliders
  Avm <- MCAvm
  Palette <- MCPalette
  EyeColors = {"blue"}
  Documents <- MCDocuments
  Targets <- MCTargets
  Losses <- MCLosses
  Faults = {"allocation", "constructor", "inexact", "shared", "exception", "memory", "output",
            "outputContract", "refused", "existing", "noRequests", "finalize", "activate",
            "kill", "touch", "structure"}
  Extras <- MCExtras
  Sound <- MCSound
  MaxType = 11
  MaxRoots = 6
  MaxExtras = 3
  MaxReachable = 8
  MaxHeld = 1
  MaxRevision = 1
INVARIANTS
  TypeOK
  PresetIsSound
  DependenciesAgree
  PublishedShowsPreset
  CleanPresetAccepted
  NeverFreedInUse
  StructureIsClosed
  FailureIsContained
PROPERTIES
  CanonicalIsRead
  ObjectsAreOwned
  ImplementsStages
  PreparationEnds
CHECK_DEADLOCK FALSE
