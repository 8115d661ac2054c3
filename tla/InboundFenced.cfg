SPECIFICATION Spec
CONSTANTS
  w1 = w1
  w2 = w2
  a1 = a1
  a2 = a2
  c1 = c1
  c2 = c2
  Workers = {w1, w2}
  Attachments = {a1}
  Announcements <- GrowingAnnouncement
  BodyKinds = {"html", "txt"}
  Contents = {c1, c2}
  LeaseStale = 1
  MaxProcessing = 2
  NoContent = NoContent
  NoOwner = NoOwner
SYMMETRY Interchangeable
INVARIANT
  RowsMatchObjects
PROPERTY
  ImplementsInbox
