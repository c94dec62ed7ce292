SPECIFICATION RouterSpec
CONSTANTS
  p1 = p1  p2 = p2  p3 = p3
  p4 = p4  p5 = p5  p6 = p6
  Provider = {p1, p2, p3, p4, p5, p6}
  Weight <- MCWeight
  Group <- MCGroup
  MaxPicks = 8
  Configs <- MCConfigs
  Rules <- MCRules
  Categories <- MCCategories
  Similar = 2
  Requests <- MCRequests
CHECK_DEADLOCK FALSE
INVARIANTS RouterTypeOK FairShare SlotsStayBounded FirstServedWins MostSimilarCategory
