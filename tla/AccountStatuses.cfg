SPECIFICATION Spec
CONSTANTS
  Accounts = {a1, a2}
  Identity = identity
  Descriptions = {"none"}
  NoDescription = "none"
  UserTypes = {"Online", "Invisible", "Offline"}
  UserModes = {"NoChange", "Busy", "Offline"}
SYMMETRY Symmetry
INVARIANTS
  NeverMoreAvailable
PROPERTY IdlenessIsNotStored
