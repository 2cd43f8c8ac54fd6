CONSTANTS
  c0 = c0
  c1 = c1
  r1 = r1
  f1 = f1
  f2 = f2
  CPUs = {c0, c1}
  Roots = {r1}
  KernelRoot = KernelRoot
  UserPages = {u}
  KernelPages = {k}
  u = u
  k = k
  Frames = {f1, f2}
  Pcids = {0, 1}
  Pcid <- PcidOf
  None = None
SPECIFICATION FairSpec
INVARIANTS
  NoStaleTranslation
  NoUseAfterFree
PROPERTIES
  ShootdownEnds
CHECK_DEADLOCK TRUE
