CONSTANTS
  a1 = a1
  a2 = a2
  shop = shop
  boats = boats
  cars = cars
  None = None
  Request = {1, 2, 3, 4}
  Goroutine = {1, 2}
  Flusher = {1, 2}
  PreviewSizes = {1, 2}
  AllowedTypes = {"image/png"}
  MaxSizeBytes = 1
  MaxPerAd = 1
  MaxDeliver = 2
  Batch = 1
  Slug = {shop, boats, cars}
  Label = {"old", "new"}
  ViewedAd = {a1, a2}
  Budgets <- MCBudgets
SPECIFICATION Spec
CHECK_DEADLOCK FALSE
INVARIANTS MediaIsWhole CatalogIsCoherent ViewsAreConserved
PROPERTIES StoredAdsFit StoresConverge
