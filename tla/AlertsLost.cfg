SPECIFICATION Spec
CONSTANTS
    Capacity = 2
    MaxReadings = 2
    MaxRetries = 3
PROPERTY QueuedAlerted
