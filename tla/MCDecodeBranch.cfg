SPECIFICATION Spec
CONSTANTS
  Heads <- MCHeads
  Seconds <- MCSeconds
INVARIANT
  WideBranchesIgnored
