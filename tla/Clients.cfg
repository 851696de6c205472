SPECIFICATION ClientsSpec
CONSTANTS
  Pair = {h1, h2}
  Profiles <- MCProfiles
  Streams <- MCStreams
  Channels <- MCChannels
  Files <- MCFiles
  Clients <- MCClientRules
  Viewers = {h1, h2}
  MaxSessions = 2
  None = None
  Configs = {"c1", "c2"}
  NoConfig = ""
  Actors = {h1, h2}
  MaxTunnels = 3
  NoTunnel = NoTunnel
  Order <- MCOrder
  Hosts <- MCHosts
  RouteAll = {"p"}
  Workers = {h1, h2}
  PoolUsers = {h1, h2}
  Penalty = 1
  MaxMade = 4
  MaxFails = 3
  NoEntry = NoEntry
  Users = {"u1", "u2"}
  BaseNames <- MCBaseNames
  Exts = {"ts", "mp4"}
  Deleters = {h1, h2}
  MaxIds = 2
  Nobody = Nobody
CHECK_DEADLOCK FALSE
SYMMETRY Symmetry
INVARIANTS
  JellyfinSound
  ListsAgree
  PlaysAsTold
  TunnelSound
  TunnelsSound

  
