SPECIFICATION Spec
CONSTANTS
  ChunkIds = {"a", "b"}
  Invented = "z"
  TopN = 1
  Confidences = {0, 6, 7}
  Threshold = 7
  RequestedRetries <- SomeRetries
  PlannedRetries = {0, 1, 3, 4}
INVARIANT UnrecognizedIsReject
