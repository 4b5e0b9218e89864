\* One configuration, built in every way, and two updates of its engine; a
\* constructor may fail and a configuration is destroyed for good.
SPECIFICATION FairSpec
CONSTANTS
  Apps = {a}
  Bridges = {"live", "registry"}
  Kinds = {"TCP", "gRPC", "REST"}
  Contents <- SomeContents
  Candidates <- SomeCandidates
  FileContents <- SomeFiles
  DirectArgs <- SomeDirectArgs
  CommandLines <- SomeCommandLines
  Numerals <- SomeNumerals
  NoValue = "no value"
  Program = "svc"
  Nobody = nobody
  MaxUpdates = 2
INVARIANTS TypeOK HierarchyOfTruth NoUpdateForgotten
PROPERTIES StartsUnique MirrorCatchesUp
CHECK_DEADLOCK FALSE
