SPECIFICATION MCSpec
CONSTANTS
  Keys = {k1, k2, k3}
  Texts = {t1, t2}
  NoKey = NoKey
  anEnvVar = anEnvVar
  aProvider = aProvider
  aModule = aModule
  Rows <- MCRows
  TableOf <- MCTableOf
  Instances = {i1, i2}
  Dispatches = {d1, d2}
  Writers = {w1, w2}
  CacheTTL = 2
  MaxTime = 3
  None = None
SYMMETRY Symmetric
INVARIANTS
  SecretsSurvive
  TemplateFresh
CHECK_DEADLOCK FALSE
