CONSTANTS
  Resources = {rk, rw}
  PrivateKey = rk
  WebhookSecret = rw
  Values = {a1, a2}
  Ids = {i1, i2, i3}
  Calls = {c1, c2}
  MaxKeys = 3
SPECIFICATION AppSpec
SYMMETRY Symmetry
INVARIANTS
  SecretsAreReadable
  ConfiguredHasItsSecrets
  UndisturbedMeansWhole
