SPECIFICATION FullSpec
CONSTANTS
    MaxReadings = 3
    Size = 2
PROPERTIES
    DeviceReady
    TimerOutlivesJoin
    TaskSeesItsReading
CHECK_DEADLOCK FALSE
