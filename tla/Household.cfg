SPECIFICATION Spec
CONSTANTS
  Items = {i1, i2, i3}
  Readers = {r1}
  Tuners = {d1, d2}
  SourceNames = {"a"}
  MaxSources = 2
  Slots <- Broadcasts
  MaxBookings = 3
  UserIds = {1, 2}
  Names = {"n1", "n2"}
  Passwords = {"pw"}
  Requests = {h1, h2}
  DeviceIds = {1, 2}
  BasePort = 5003
  UserPorts = {5004}
  GroupSets <- MCGroupSets
  MaxServers = 3
  Handlers = {h1, h2}
  NoDevice = NoDevice
  AccessExpiry = 1
  RefreshExpiry = 3
  InviteExpiry = 1
  MaxTime = 3
  None = None
CHECK_DEADLOCK FALSE
SYMMETRY Symmetry
INVARIANTS
  AccountsSound
  StoresSound
  TunersServed
  FilesSound
PROPERTIES
  OthersKept
