SPECIFICATION FairSpec
INVARIANTS AckedAppendsKept
PROPERTIES SignedIsPublished ImplementsOwnedHistory
CONSTANTS
  Clones = {c1, c2}
  Writers = {"w1", "w2"}
  Home <- OneHome
  Owner = c1
  Serial = FALSE
  MaxEvents = 3
  MaxRestores = 0
