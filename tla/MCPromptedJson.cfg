SPECIFICATION MCSpec
CONSTANTS
  c1 = c1
  c2 = c2
  Callers = {c1, c2}
  Prompts = {"q1", "q2"}
  Schemas <- MCSchemas
  SchemaOf <- MCSchemaOf
  Texts = {"good", "bad"}
  Fits <- MCFits
  Distance <- MCDistance
  Threshold = 0
  MaxCandidates = 2
  MaxAttempts = 3
SYMMETRY Symmetry
INVARIANTS
  AnswersBelong
  FailureIsRepaired
  TrailSound
