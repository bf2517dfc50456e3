CONSTANTS
    e1 = e1
    e2 = e2
    Encoders = {e1, e2}
    None = none
    MaxOwed = 2
SPECIFICATION Spec
PROPERTIES SampleIsHandled
CHECK_DEADLOCK FALSE
