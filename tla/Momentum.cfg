\* The weights and thresholds of MomentumV04Config.
SPECIFICATION Spec
CONSTANTS
    MaxPerOrder = 2400000
    MinPerOrder = 20000
    MaxPctOfEquity = 50
    MaxIterations = 10
INVARIANT SpreadGivesNoDirection
