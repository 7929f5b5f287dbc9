CONSTANTS
  buyer = buyer
  seller = seller
  a1 = a1
  a2 = a2
  boat = boat
  None = None
  Every = Every
  User = {buyer, seller}
  Ad = {a1, a2}
  Owner <- MCOwner
  AdView <- MCAdView
  Category = {boat}
  Text = {a1}
  Replica = {1, 2}
  Request = {1, 2, 3}
  Field = {"name", "city"}
  Group = {"review", "saved_search", "ad_status"}
  MaxDeliver = 2
  MaxSavedSearches = 2
  Throttle = 2
  CacheTTL = 1
  Budgets <- MCBudgets
SPECIFICATION Spec
CHECK_DEADLOCK FALSE
INVARIANTS ProfilesAreTrue NotificationsAreTrue 
PROPERTIES SwitchesAreObeyed MailIsEmptied
