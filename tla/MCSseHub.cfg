SPECIFICATION FairSpec
CONSTANTS
  c1 = c1
  c2 = c2
  ticker = ticker
  api = api
  Senders = {ticker, api}
  Ticker = ticker
  NoClient = NoClient
  Clients = {c1, c2}
  BufCap = 2
  MaxEvents <- MCMaxEvents
INVARIANT NoPanic
PROPERTIES ImplementsFeed BroadcastsEnd EndedStreamsLeave
CHECK_DEADLOCK FALSE
