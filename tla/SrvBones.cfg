CONSTANTS
  s1 = s1
  s2 = s2
  Slaves = {s1, s2}
  Overload = 1
  ReqsMax = 2
  Modulus = 4
  MaxConns = 5
  MaxConnsFaulty = 3
  MaxDeaths = 1
  Exposures = {{}, {"dies", "dies_taking", "send_fails", "sig_race"}}
SPECIFICATION FairSpec
INVARIANTS QueueBounded
PROPERTIES EveryoneTaken
CHECK_DEADLOCK FALSE
