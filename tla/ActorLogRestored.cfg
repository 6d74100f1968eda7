SPECIFICATION Spec
INVARIANTS NoKnownFork
PROPERTIES PublishedOnlyGrows
CONSTANTS
  Clones = {c1, c2}
  Writers = {"w1", "w2"}
  Home <- TwoHomes
  Owner = c1
  Serial = TRUE
  MaxEvents = 3
  MaxRestores = 2
