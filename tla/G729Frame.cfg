SPECIFICATION FrameSpec
CONSTANTS
    Lags = {20, 35, 36, 143}
    Gains = {0, 7}
    Fixed = {0, 8191}
    Codes = {0, 9}
INVARIANT FrameSurvives
CHECK_DEADLOCK FALSE
