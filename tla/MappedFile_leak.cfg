CONSTANTS
  Objects = {o1, o2, o3}
  Addresses = {p, q, r}
  Handles = {h1, h2, h3, h4}
  Sizes = {0, 1, 2}
  Nil = Nil
SYMMETRY Symmetry
SPECIFICATION FileSpec
INVARIANTS NothingLeaks
