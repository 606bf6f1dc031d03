SPECIFICATION Spec
CONSTANTS
  in1 = in1
  in2 = in2
  near = near
  far = far
  p1 = p1
  p2 = p2
  Inputs = {in1, in2}
  Queued = {in1}
  Timed = {in2}
  Locals = {near}
  Remotes = {far}
  NoSource = NoSource
  Wirings <- MCWirings
  Pullers = {p1, p2}
  Contexts = {1, NoCtx}
  NoCtx = NoCtx
  QueueSize = 2
  MaxValues = 3
  MaxGraphs = 2
INVARIANT TypeOK BuffersFollowRoutes NeverBackwards FrameByFrame WaitingIsFlushed
PROPERTY CallbackOrder
SYMMETRY Symmetry
CHECK_DEADLOCK FALSE
