CONSTANTS
  Names = {"APP_ENV", "svc.addr"}
  Environments = {"development", "production", "test"}
  Unset = Unset
SPECIFICATION EnvSpec
INVARIANTS
  LocalOfEnvironmentWins
CHECK_DEADLOCK FALSE
