SPECIFICATION MCSpec
CONSTANTS
  Ops = {p1, p2, p3, p4}
  MaxEpoch = 5
  Zones = {z1, z2}
  Checkpoints <- MCCheckpoints
  NoId = "none"
  MaxRecent = 2
SYMMETRY Symmetry
INVARIANTS NoStraddle CountIsExact EvidenceAccounts MirrorsDisk RecentIsHistory
PROPERTIES TransitionIsBarrier NeverRollsBack
