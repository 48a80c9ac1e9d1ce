SPECIFICATION MCSpecTimer
CONSTANTS
  Size = 4
  Packets <- MCPackets
  MaxBuffer = 2
  Bandwidths <- MCBandwidths
  Rates <- MCRates
  Factors <- MCFactors
  Gains <- MCGains
  Levels <- MCLevels
INVARIANTS TypeOK FieldsIndependent SettingsConsistent
PROPERTIES ReceivedIntact SentBeforeReturn DoneNoticed
