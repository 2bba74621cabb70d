SPECIFICATION Spec
CONSTANTS
  Aliases <- MCAliases
  BackendOf <- MCBackendOf
  Injections = {"z"}
  Environments <- MCEnvironments
  Providers = {"custom"}
  Ports = {143}
  Secrets = {"x", "y"}
  Processes = {p1, p2}
  MaxCommands = 2
  Keyrings <- MCKeyrings
INVARIANTS TypeOK  OutcomeIsTrue
SYMMETRY Symmetry
CHECK_DEADLOCK FALSE
