\* One request, one code, one guess more than the limit.
SPECIFICATION SignupSpec
CONSTANTS
  Requests = {r1}
  Cooldown = 2
  OtpLifetime = 2
  FlowTokenLifetime = 3
  SendBudgetWindow = 5
  MaxSendsPerWindow = 2
  MaxVerifyAttempts = 3
  Lockout = 2
  ProviderTimeout = 1
  MaxChallenges = 1
  MaxCodes = 1
  MaxTime = 4
  MaxWrongGuesses = 4
INVARIANTS
  WrongGuessesLockTheChallenge
CHECK_DEADLOCK FALSE
