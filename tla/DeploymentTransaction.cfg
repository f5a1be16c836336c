SPECIFICATION Spec
CONSTANTS
  Operators = {o1, o2}
  Releases = {r1, r2, r3}
  MaxTransactions = 2
  MaxFaults = 3
  Nobody = Nobody
  NoRelease = NoRelease
SYMMETRY Symmetry
INVARIANTS SwitchIsCovered Recoverable ServiceIsAccepted AcceptedIsEvidenced PassedReportIsTrue
