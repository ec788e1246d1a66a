\* Two users, one of whose first handles the other may take, and two requests.
CONSTANTS
  u1 = u1
  u2 = u2
  h1 = h1
  h2 = h2
  Users = {u1, u2}
  Requests = {r1, r2}
  Handles = {h1, h2}
  FirstHandle <- First
  NameParts = {"firstName"}
  Names = {n1}
  NoName = NoName
  MaxLinks = 1
  Keep = Keep
  MaxOps = 2
SPECIFICATION Spec
SYMMETRY Symmetry
INVARIANTS
  TypeOK
PROPERTIES
  LostUpdateNeedsOverlap
  LeakNeedsOverlap
  EditsStopAtFreeze
  MixedLinksNeedOverlap
