\* A write to the keyring that fails.
SPECIFICATION Spec
CONSTANTS
  p1 = p1
  p2 = p2
  r1 = r1
  r2 = r2
  t1 = t1
  t2 = t2
  None = None
  Runs = {r1, r2}
  Passwords = {p1, p2}
  Uploads <- MCUploads
  Threads = {t1}
  Kinds = {"unlock", "rotate"}
  MaxActive = 1
  MaxFaults = 1
  EnvPassword = None
INVARIANT ManualEntryPossible
