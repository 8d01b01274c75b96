SPECIFICATION Spec
CONSTANTS
  Node = {n1, n2, n3, n4}
  Faulty = {n4}
  Round = {1, 2}
  Block = {a, b}
  Total = 4
  GrowsAt = {3}
  NoCertificate = NoCertificate
SYMMETRY Symmetry
INVARIANTS
  CertificateBacked
  Agreement
