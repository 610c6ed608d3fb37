SPECIFICATION Spec
INVARIANTS
  ThunkContract
  RefusedMeansUntouched
  PublishedOnlyWhenRedirected
