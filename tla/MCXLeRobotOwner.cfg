SPECIFICATION OwnerSpec
CONSTANTS
  c1 = c1
  c2 = c2
  Clients = {c1, c2}
  ScopeChoices <- MCScopeChoices
  MaxEnables <- MCMaxEnables
  MaxLate <- MCMaxLate
  Nobody = Nobody
INVARIANTS DoubtStopsEverything OneDriver
PROPERTIES CommandsAreOwn SilenceDisarms
