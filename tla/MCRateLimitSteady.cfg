\* One datagram per tick, four times the rate.
CONSTANTS
  Cost = 4
  Burst = 20
  PruneAge = 24
  Gap = 1
SPECIFICATION SteadySpec
PROPERTY SteadySourceIsServed
