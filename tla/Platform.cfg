SPECIFICATION PlatformSpec
CONSTANTS
  COUNTER = 64
  MAX_COUNT = 255
  RATE = 2
  femtosecond = 1
  counter_tick_period = 100
  MaxDelay = 2
PROPERTY TablesRead
 
PROPERTY I2cWriteSound
PROPERTY DriversGoOn
