SPECIFICATION Spec
CONSTANTS
  Agents = {a1}
  Callers = {c1, c2, c3}
  MaxTokens = 1
CHECK_DEADLOCK FALSE
PROPERTY RevokedIsRevokedAtCa
