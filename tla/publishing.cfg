\* The gate: two pages and the copies made of them, one publish under way, health
\* data.  The targets: two overlapping calls, one of which may die.
CONSTANTS
  Pages = {p, q}
  Types = {a, b}
  Taxonomies = {default, x, y}
  Default = default
  Tags = {t}
  Classes = {2}
  None = None
  Jobs = {j}
  Slugs = {a, b}
  TagIds = {1, 2}
  PageRows = {page}
  Calls = {x, y}
  Chunk = 1
  MaxLost = 1
  MaxStamp = 3
SPECIFICATION Parts
SYMMETRY Symmetry
INVARIANTS FloorIsHighestSeen TargetsSound
PROPERTIES TypesNeverWeaken HealthDataStays AloneLands
CHECK_DEADLOCK FALSE
CONSTRAINT EditedOrPublished
