CONSTANTS
  Null = Null
  Modalities = {"audio"}
  Proposals = {"p1"}
  TicketIds = {"k1", "k2", "k3"}
  Qualities = {1}
  Uncertainties = {0}
  Tickets <- DoseTickets
  InitialDoses = {}
  MinimumConfidence = 1
  SensorMaxAge = 9
  HeartbeatTimeout = 9
  ChallengeMaxAge = 1
  MaxClockUncertainty = 1
  ChallengeCapacity = 1
  TicketCapacity = 2
  DoseCapacity = 2
  ReceiptRetention = 1
  RollingWindow = 3
  MaxDuration <- DoseDuration
  Cooldown <- DoseCooldown
  MaxCumulative <- DoseCumulative
  UsPerMs = 1
  MaxUs = 5
  MaxSequence = 0
  MaxLag = 0
  MaxBoots = 1
  MaxChallenges = 3
  MaxEpoch = 1
SPECIFICATION Spec
INVARIANT DoseConserved
INVARIANT CooldownSpacing
INVARIANT DoseBudget
VIEW WithoutReceipts
CONSTRAINT Refreshed
INVARIANT SingleUse
