CONSTANTS
  Networks <- SmallAndLarge
  MaxRuns <- RunsOfSmall
SPECIFICATION Spec
INVARIANTS
  StartsOnlyWhole
  SameGenesisOnceCreated
  CleanEnd
PROPERTIES
  StopsTogether
CHECK_DEADLOCK FALSE
