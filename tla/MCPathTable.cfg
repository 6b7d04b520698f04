SPECIFICATION Spec
CONSTANTS
  i1 = i1
  i2 = i2
  Destinations = {d1}
  Transports = {t1}
  Interfaces <- MCInterfaces
  Gravity <- MCGravity
  Bitrate <- MCBitrate
  Times = {1, 2, 3}
  Nonces = {1, 2}
  MaxHops = 3
  MAX_RANDOM_BLOBS = 2
INVARIANTS EmissionsRecorded
PROPERTIES TimebaseNeverRegresses ConvergesOnClosest
