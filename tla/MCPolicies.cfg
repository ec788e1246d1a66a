\* One kind of policy with two versions, and two administrators who may publish
\* them at once, or whose request may die between its two updates.
CONSTANTS
  Types = {x1}
  Editors = {r1, r2}
  MaxRows = 2
SPECIFICATION PolicySpec
SYMMETRY Symmetry
INVARIANT ExactlyOneInForce
CHECK_DEADLOCK FALSE
