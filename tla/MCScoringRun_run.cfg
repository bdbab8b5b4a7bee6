CONSTANTS
  o1 = o1  o2 = o2  x1 = x1
  OMRSegments <- MCChoices
  TextSegments <- MCBlanks
  PaperSegments = {}
  Attempts = 2
  MaxFaults = 1
SPECIFICATION FairSpec
CHECK_DEADLOCK FALSE
 
PROPERTIES OnlyLateGradesReopen 
