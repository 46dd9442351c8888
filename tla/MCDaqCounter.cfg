SPECIFICATION Spec
CONSTANTS
    Callers = {acq, op1}
    Handles = {h1, h2}
    None = None
    AnalogRetries = 2
    CounterRetries = 0
PROPERTIES
    CounterRead
