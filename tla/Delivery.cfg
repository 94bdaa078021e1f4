SPECIFICATION MCSpec
CONSTANTS
  Attempts = {a1, a2}
  NoRef = NoRef
  Foreign = Foreign
  MaxTouches = 2
  Ordinary = {"p", "q"}
  Env = "env"
  Hub = "hub"
  Modules = "modules"
  Temp = "temp"
  Texts = {"a", "b"}
  BaseTrees <- MCBaseTrees
  MaxFiles = 2
  MaxWork = 2
  Preparations = {"p1", "p2"}
  Submissions = {"s1"}
  Nobody = "nobody"
  Tries = 2
  Life = 3
  Margin = 1
  IssueTime = 1
  MaxTime = 3
SYMMETRY Symmetry
INVARIANTS
  OneDelivery
  ConvergesUnlessDisturbed
  CommitIsTheWorkspace
  TokenIsFresh
  UnreadWorkIsDelivered
CHECK_DEADLOCK FALSE
