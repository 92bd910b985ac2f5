SPECIFICATION MCSpec
CONSTANTS
  Requests = {r1, r2}
  Emails = {e1, e2}
  Passwords = {p1, p2}
  Subjects = {s1}
  EmailOf <- MCEmailOf
  Limit = 2
  None = None
  MaxAccounts = 2
  MaxSecrets = 3
  MaxRequests = 4
INVARIANTS SessionsEarned FactorsProved
PROPERTY DenialsEnd
CHECK_DEADLOCK FALSE
