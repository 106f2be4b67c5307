SPECIFICATION Spec
CONSTANTS
  None = None
  Replicas = {r1, r2}
  Ids = {i1, i2}
  MaxQueue = 1
  MaxEdits = 0
  MaxRestarts = 0
PROPERTY
  StoredUntilEnded
