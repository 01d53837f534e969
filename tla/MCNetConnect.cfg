SPECIFICATION FairSpec
CONSTANTS
  Panes = {p1, p2}
  Knowing = {p1}
  Strangers = {s1, s2}
  Timeout = 3
  Pause = 1
  Backlog = 3
INVARIANTS ServedOnce DelayedOnlyBehind
PROPERTIES PanesConnect DeafPaneLeaves
