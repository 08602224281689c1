SPECIFICATION FairSpec
CONSTANTS
  Sender = {app, timer, stack}
  App = app
  IoSize = 2
  GapSize = 2
  MaxPosts = 2
INVARIANTS
  TypeOK
  RefusedNeverQueued
  EventFindsMessage
PROPERTIES
  ImplementsChannel
CHECK_DEADLOCK FALSE
