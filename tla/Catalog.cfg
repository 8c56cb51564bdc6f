SPECIFICATION Spec
CONSTANTS
  u = u
  v = v
  a1 = a1
  a2 = a2
  m = m
  None = None
  Urls = {u, v}
  Servers = {a1, a2}
  Manuals = {m}
  Place <- MCPlace
  Offers <- MCOffers
  Installed <- MCInstalled
  Posts <- MCPosts
  MaxEvents = 3
INVARIANTS TypeOK FilesFollowMemory RestartKeepsSelection
PROPERTIES ChoicesKept UserEntriesKept RefreshKeepsSelection SelectionResolves
