CONSTANTS
  Apps = {"p1"}
  Keys = {"k2"}
  Override <- MCLeakOverride
  FirstFile <- MCOldKeyFile
  MaxSaves = 1
  CatalogIds <- MCCatalogIds
  AnswersOf <- MCAnswersOf
  Setups <- MCSetups
  MaxJobs = 7
  Deployments = {"direct", "bedrock", "openrouter"}
  ProviderOf <- MCProviderOf
  ProviderOrder <- MCOrder
  DefaultModel <- MCDefaultModel
  Alias <- MCAlias
  Offerings <- MCOfferings
  CanonicalNames <- MCNames
  Catalogs <- MCCatalogs
  FirstConfigs <- MCFirstConfigs
  Deciders = {"direct", "openrouter"}
  MaxEdits = 2
SPECIFICATION MCSpec
INVARIANTS
  OverridesStayInRun
CHECK_DEADLOCK FALSE
