SPECIFICATION LiveSpec
CONSTANTS
  w1 = w1
  w2 = w2
  a1 = a1
  a2 = a2
  c1 = c1
  c2 = c2
  Workers = {w1, w2}
  Attachments = {a1, a2}
  Announcements <- TwoAnnouncements
  BodyKinds = {"html", "empty"}
  Contents = {c1}
  LeaseStale = 2
  MaxProcessing = 1
  NoContent = NoContent
  NoOwner = NoOwner
INVARIANTS
  OneProcessor
PROPERTIES
  ImplementsInbox
  EventuallyStored
