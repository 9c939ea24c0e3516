SPECIFICATION MCSpec
CONSTANTS
  Discounts = {1, 2, 3}
  Paid = {1, 2}
  latte = latte
  Drinks = {latte}
  DrinkOf <- MCDrinkOf
  AnyDrink = AnyDrink
  Runners = {r1}
  Prices = Prices
  Admin = Admin
  None = None
  MaxDeployments = 4
  MaxRung = 1
  MaxFailed = 1
CHECK_DEADLOCK FALSE
INVARIANTS
  OneActive
  QueueKeepsMoving
  NewestMenuMatches
  RefundedOnce
  
PROPERTIES
  KeepsContract
