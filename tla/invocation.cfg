\* The request has an end, and is not repeated.
CONSTANTS
  Scripts <- AllScripts
SPECIFICATION FairSpec
INVARIANTS TypeOK AnswerExact
PROPERTIES NoLateWrites Released
CHECK_DEADLOCK FALSE
