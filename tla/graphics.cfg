\* Two threads, three handles and two pages; nothing is freed or locked while another call uses it.
SPECIFICATION Spec
CONSTANTS
  Pages = {p1, p2}
  Cells = {c1, c2, c3}
  Threads = {t1, t2}
  Poster = t1
  NumSlots = 2
  XRes = 32
  YRes = 2
  LineLength = 64
  MaxDevices = 1
  Shapes <- MCShapes
  ScreenShapes <- MCSmaller
  PeerLocked = FALSE
  Habits = {"close"}
  Faults = {"ion", "map", "flip", "vsync"}
SYMMETRY MCSymmetry
INVARIANTS TypeOK NeverStale MappingsTracked NoSlotLost InBounds
PROPERTIES KeepsSlots
