CONSTANTS
  Null = Null
  Modalities = {"audio"}
  Proposals = {"p1"}
  TicketIds = {"k1"}
  Qualities = {1}
  Uncertainties = {0}
  Tickets <- UnsoundTickets
  InitialDoses = {}
  MinimumConfidence = 1
  SensorMaxAge = 3
  HeartbeatTimeout = 2
  ChallengeMaxAge = 2
  MaxClockUncertainty = 1
  ChallengeCapacity = 1
  TicketCapacity = 2
  DoseCapacity = 2
  ReceiptRetention = 1
  RollingWindow = 3
  MaxDuration <- OneDuration
  Cooldown <- OneCooldown
  MaxCumulative <- OneCumulative
  UsPerMs = 1
  MaxUs = 4
  MaxSequence = 1
  MaxLag = 1
  MaxBoots = 1
  MaxChallenges = 0
  MaxEpoch = 2
SPECIFICATION Spec
VIEW WithoutReceipts
INVARIANT ArmedIsHealthy
INVARIANT StandingToArm
PROPERTY StopIsLatched
