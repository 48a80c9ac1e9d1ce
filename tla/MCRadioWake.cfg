SPECIFICATION MCSpec
CONSTANTS
  Size = 4
  Packets <- MCPackets
  MaxBuffer = 2
  Bandwidths <- MCBandwidths
  Rates <- MCRates
  Factors <- MCFactors
  Gains <- MCGains
  Levels <- MCLevels
PROPERTY DoneNoticed
