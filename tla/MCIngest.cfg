SPECIFICATION Spec
CONSTANTS
  Documents <- MCDocuments
  Editions <- MCEditions
  Caps <- MCCaps
INVARIANTS
  DocumentWhole
  ChunksFaithful
