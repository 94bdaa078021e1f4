SPECIFICATION MCSpec
CONSTANTS
  MaxIterations = 5
  MaxRuns = 2
  MaxCancels = 1
  Replies <- MCReplies
  Members = {m1, m2}
  LeadInbox = LeadInbox
  MaxPolls = 2
  MaxTeamMail = 2
CHECK_DEADLOCK FALSE
INVARIANTS
  PublicationBarsCancel
  PairedUnlessCut
  NoTeardownUnderWork
PROPERTIES
  StopsOrMutualAwait
  RunEnds
