SPECIFICATION BothSpec
CONSTANTS
  Discounts = {1}
  Paid = {1}
  latte = latte
  Drinks = {latte}
  DrinkOf <- MCDrinkOf
  AnyDrink = AnyDrink
  Runners = {s1}
  Prices = Prices
  Admin = Admin
  None = None
  MaxDeployments = 4
  MaxRung = 0
  MaxFailed = 1
CHECK_DEADLOCK FALSE
PROPERTIES
  KeepsQueue
  PaidDiscountSettles
