\* A framebuffer buffer may be freed while another is allocated or freed.
SPECIFICATION Spec
CONSTANTS
  Pages = {p1}
  Cells = {c1, c2, c3}
  Threads = {t1, t2}
  Poster = t1
  NumSlots = 2
  XRes = 32
  YRes = 2
  LineLength = 64
  MaxDevices = 1
  Shapes <- MCShapes
  ScreenShapes <- MCScreen
  PeerLocked = FALSE
  Habits = {"overlap"}
  Faults = {}
SYMMETRY MCSymmetry
INVARIANT OneOwner
