CONSTANTS
  Path = {p1}
  Writer = {w1}
  Reader = {r1}
  Retention = retention
  Lock = {l1, l2, l3, l4}
  Cell = {c1, c2, c3, c4, c5}
  Inode = {i1, i2, i3, i4}
  Nil = Nil
SPECIFICATION LiveSpec
INVARIANTS OnePerPath CachedIsUsable
PROPERTIES UnlinkedIsClosed Linearizable EveryCallReturns
