SPECIFICATION DurableSpec
CONSTANTS
  s1 = s1
  s2 = s2
  c1 = c1
  c2 = c2
  o1 = o1
  o2 = o2
  m1 = m1
  m2 = m2
  Encoders = {"svtAv1", "x265"}
  Source = {s1, s2}
  Chunk = {c1, c2}
  Settings = {"slow", "fast"}
  Others = {o1, o2}
  Manager = {m1, m2}
  MaxWrite = 5
  MaxReset = 2
  MaxRestart = 2
  MaxSave = 3
SYMMETRY Alike
INVARIANT SavedProgressUsable
INVARIANT OutputOfOneSource
INVARIANT ManifestRemovedLast
INVARIANT OneRecipe
INVARIANT KeptChunksUsable
INVARIANT NothingLost
INVARIANT LastSaveKept
PROPERTY NothingElseRemoved
PROPERTY ImplementsSavedProgress
PROPERTY AnswersHold
