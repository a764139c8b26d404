CONSTANTS
  Container = {c1}
  EventCap = 1
SPECIFICATION ObserverLiveSpec
INVARIANTS NoChangeIsLost NoStartIsLost
PROPERTIES FollowedAgain
