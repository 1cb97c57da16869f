SPECIFICATION PartsSpec
CONSTANTS
  j1 = j1
  j2 = j2
  j3 = j3
  j4 = j4
  p1 = p1
  p2 = p2
  c1 = c1
  c2 = c2
  l1 = l1
  l2 = l2
  l3 = l3
  l4 = l4
  Jobs = {j1, j2, j3, j4}
  Version <- MCVersion
  Package <- MCPackage
  Commit <- MCCommit
  Data <- MCData
  Foreign = Foreign
  Absent = Absent
  MaxFailures = 3
  Size = 2
  MaxReviews = 6
  MaxRemoved = 1
  Kinds = {"branch", "tag", "oci"}
  MaxNotes = 2
  MaxCommit = 4
  MaxVersion = 3
  MaxEvents = 1
INVARIANTS DoneIsPublished AssetIsOfTaggedCommit LookupCorrect NotesCorrect
PROPERTIES RerunsComplete NeverBackwards
CHECK_DEADLOCK FALSE
