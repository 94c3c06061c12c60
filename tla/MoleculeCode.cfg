SPECIFICATION Spec
CONSTANTS
  Base = 256
  Code <- CheckedInCode
  Schemas <- CheckedInSchemas
  Inputs <- CallerInputs
  Values <- CallerValues
  MaxEdits = 1
  Draws <- GeneratorDraws
INVARIANTS CodeTypeOK NeverPanics HeldVerifies FollowsSchema OneEncoding DefaultsAgree LengthsExpected GeneratorsAgree
PROPERTIES EditsAreLocal
CHECK_DEADLOCK FALSE
