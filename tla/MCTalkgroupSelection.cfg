SPECIFICATION FairSpec
CONSTANTS
  Talkgroups = {1, 2, 3}
  Callsigns = {"YO6SAY", "K1A", "W1AB"}
  Me = "W1AB"
  Short = {"K1A"}
  Long = {"YO6SAY"}
  Profiles <- MCProfiles
  MaxPriority = 2
  MaxEvents = 7
INVARIANTS
  ServerKnows
  ChoiceHolds
  NameIsTheirs
PROPERTIES
  Parks
CHECK_DEADLOCK FALSE
