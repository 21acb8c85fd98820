\* Three requests and two responses, in segments of any length
CONSTANTS
  Types <- MCTypes
  Script <- MCScript
  SizeCells = 2
  Query = Query
  Other = Other
SPECIFICATION FairSpec
INVARIANTS ForwardsFaithfully LoggedFirst
PROPERTIES SessionConcludes
CHECK_DEADLOCK FALSE
