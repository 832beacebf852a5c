SPECIFICATION Spec
CONSTANTS
  Operators = {o1, o2}
  Commands <- MCCommands
  MaxGrants = 2
INVARIANTS RolesSurvive PasswordStands
PROPERTY Answered
CHECK_DEADLOCK FALSE
