\* An entity, the same under another type, and a third.
SPECIFICATION Spec
CONSTANTS
  a = a  b = b  c = c  x = x  y = y  d = d  e1 = e1  s1 = s1  s2 = s2
  Live = Live  Absent = Absent  Nowhere = Nowhere
  Uri <- ThreeUris
  Known <- AandC
  Name <- TwoNames
  NameOf <- Names
  Retyped <- Types
  Doc <- OneDoc
  Event <- OneEvent
  DocOf <- EventDoc
  UriOf <- EventUri
  Slot = {s1}
  MaxLog = 4  MaxMentions = 2  MaxFacts = 1  MaxMergeChain = 3
INVARIANTS TypeOK MentionsAreKept LinksNameLive ResolvesToLive UndoIsExact Findable
CHECK_DEADLOCK FALSE
