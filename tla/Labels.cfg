CONSTANTS
  u = u
  UserLabels = {u}
  Initial <- MCInitial
  Toggled = {"TRASH"}
  Bodies <- MCBodies
  Makings <- MCMakings
  Hooks = {h1}
  Requests = {r1}
  Reconcilers = {c1}
  MaxChanges = 1
SPECIFICATION Spec
CHECK_DEADLOCK FALSE
INVARIANTS TypeOK StatusCoherent SerialMirror
