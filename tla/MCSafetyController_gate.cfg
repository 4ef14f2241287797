CONSTANTS
  Null = Null
  Modalities = {"audio"}
  Proposals = {"p1"}
  TicketIds = {"k1"}
  Qualities = {1}
  Uncertainties = {0}
  Tickets <- GateTickets
  InitialDoses = {}
  MinimumConfidence = 1
  SensorMaxAge = 3
  HeartbeatTimeout = 2
  ChallengeMaxAge = 2
  MaxClockUncertainty = 1
  ChallengeCapacity = 1
  TicketCapacity = 2
  DoseCapacity = 2
  ReceiptRetention = 2
  RollingWindow = 3
  MaxDuration <- OneDuration
  Cooldown <- OneCooldown
  MaxCumulative <- OneCumulative
  UsPerMs = 1
  MaxUs = 4
  MaxSequence = 1
  MaxLag = 1
  MaxBoots = 0
  MaxChallenges = 1
  MaxEpoch = 1
SPECIFICATION FairSpec
INVARIANT ReceiptsOrdered
PROPERTY CueClosure
PROPERTY GateSpec
PROPERTY CueEnds
