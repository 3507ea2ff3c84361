SPECIFICATION Spec
CONSTANTS
  c1 = c1
  s1 = s1
  s2 = s2
  e1 = e1
  e2 = e2
  o1 = o1
  NoText = NoText
  Room = Room
  Callers = {c1}
  Sockets = {s1, s2}
  RestEdits = {e1, e2}
  OpEdits = {o1}
INVARIANT EditsSurvive
CHECK_DEADLOCK FALSE
SYMMETRY Alike
VIEW Owed
