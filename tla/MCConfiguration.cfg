CONSTANTS
  Apps = {"p1", "p2"}
  Keys = {"k2"}
  Override <- MCOverride
  FirstFile <- MCFirstFile
  MaxSaves = 1
  CatalogIds <- MCCatalogIds
  AnswersOf <- MCAnswersOf
  Setups <- MCSetups
  MaxJobs = 6
  Deployments = {"direct", "bedrock", "openrouter"}
  ProviderOf <- MCProviderOf
  ProviderOrder <- MCOrder
  DefaultModel <- MCDefaultModel
  Alias <- MCAlias
  Offerings <- MCOfferings
  CanonicalNames <- MCNames
  Catalogs <- MCCatalogs
  FirstConfigs <- MCFirstConfigs
  Deciders = {"direct", "openrouter"}
  MaxEdits = 2
SPECIFICATION MCSpec
INVARIANTS
  SettingsInv
  CatalogInv
PROPERTIES
  RoutingHolds
CHECK_DEADLOCK FALSE
