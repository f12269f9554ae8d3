SPECIFICATION Spec
CONSTANTS
  here = here
  near = near
  there = there
  Places <- MCPlaces
  Truncated <- MCTruncated
  Outlines <- MCOutlines
  MaxEntities = 3
INVARIANTS UniqueIds ReferencesSound SharedVertices BugOnlyForFirst
CHECK_DEADLOCK FALSE
