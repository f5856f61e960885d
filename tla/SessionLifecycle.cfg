SPECIFICATION FairSpec
CHECK_DEADLOCK FALSE
CONSTANTS
  Client = Client
  Listener = Listener
  s1 = s1
  s2 = s2
  Sessions = {s1, s2}
  ChannelMax = 1
  Buffer = 1
  Cancellable = {s2}
  Refusable = {s2}
  LinkFrames <- MCFrames
  EndRequests <- MCEnds
INVARIANTS RoutedToPartner ConnectionOutlivesSessions NoChannelLost
PROPERTIES EndsComplete
