CONSTANTS
  Words <- MCWords
  Texts <- MCTexts
  Worlds <- MCWorlds
  Argvs <- MCArgvs
  None = None
  Unreadable = Unreadable
  MaxArgs = 3
SPECIFICATION MCSpec
INVARIANTS ParseExact ExitExact ReportExact JsonKept
