SPECIFICATION LiveWorkerSpec
CONSTANTS
  Types = {"minimax_coding", "kimi_coding", "kimi_api", "deepseek_api", "codex_usage", "grok_usage", "opencode_go", "prometheus", "grafana", "portainer", "mock"}
  Outages = {"odd", "rate_limited"}
  MaxSeries = 2
  MaxRows = 2
  Queries = 1
  Online = 1
  RetryAfters = {0, 2, 3}
  MaxLogins = 2
  Interval = 1
  MinBackoff = 1
  MaxBackoff = 2
  AuthBackoff = 1
  UnsupportedBackoff = 1
  JitterDivisor = 2
  FastRetries = 1
  MaxSeconds = 2
  FailureCap = 2
INVARIANTS TokenIsWhole BatchIsSound RetryAfterHolds
PROPERTY Recovers
CHECK_DEADLOCK FALSE
