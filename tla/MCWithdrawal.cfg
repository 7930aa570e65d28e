SPECIFICATION WithdrawalSpec
CONSTANTS
  Members = {m1}
  Balances = {3}
  MIN_STAKE = 2
  SLASH_PERCENT = 50
  StakeAmounts = {2, 3}
  MaxTime = 0
  WITHDRAW_COOLDOWN = 2
  None = None
PROPERTIES StakeReturned
CHECK_DEADLOCK FALSE
