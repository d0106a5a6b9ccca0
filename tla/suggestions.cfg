CONSTANTS
  Subjects = {e1, e2}
  Fields = {f1, f2}
  Values = {x}
  Blank = Blank
  Suggestions = {s1, s2}
  Askers = {a1}
  Approvals = {v1, v2}
  MaxFaults = 1
  Absent = Absent
  Unset = Unset
SPECIFICATION AISpec
SYMMETRY Symmetry
INVARIANTS StatusTellsOutcome
CHECK_DEADLOCK FALSE
