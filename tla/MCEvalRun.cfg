SPECIFICATION Spec
CONSTANTS
  a = a
  b = b
  c = c
  Ghost = ghost
  Corpus = {a, b, c}
  Golden <- MCGolden
  Gain <- MCGain
  KValues = {1, 2, 4}
  Samples = {2}
  Pool = {a, b}
  MaxCited = 2
INVARIANTS
  MetricsAgree
  ReportExact
