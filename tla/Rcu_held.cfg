SPECIFICATION Spec
CONSTANTS
  Cpus = {c1, c2, c3}
  Objects = {o1, o2}
INVARIANTS
  SafeFree
