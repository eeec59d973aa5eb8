SPECIFICATION Spec
CONSTANTS
  Root = root
  Victim = phone
  Thief = thief
  Device = {root, phone}
  Guests = {phone}
  Writers = {phone}
  Stopped = {thief}
  Skews <- McSkews
  MaxVersions = 5
  MaxSeq = 1
  MaxTime = 2
  MaxKits = 1
  MaxCerts = 2
  MaxRuns = 2
INVARIANTS
  Followable
  ThiefShutOut
  CutStillVerifies
PROPERTIES
  EndedAtLapse
CHECK_DEADLOCK FALSE
