\* Two reports share a channel, with one mishap; the channel changes only between deliveries.
SPECIFICATION FairSpec
CONSTANTS
  Keys = {lunch, dinner}
  group = group
  Channels = {group}
  ChannelOf <- OneChannel
  Scheduled = {lunch, dinner}
  Callers = {c1}
  Limit = 1
  Races = FALSE
  MaxMishaps = 1
INVARIANTS TypeOK HonestRecord
PROPERTIES KeepsLedger Settles
