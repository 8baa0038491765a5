SPECIFICATION LiveSpec
CONSTANTS
  Procs = {p1, p2, p3}
  Projects = {x1, x2}
  MaxRuns = 1
INVARIANTS
  OneWriter
  NoTornFile
PROPERTY
  SaveEnds
