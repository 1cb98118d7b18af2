SPECIFICATION BitmapSpec
CONSTANTS
    StepSize = 3
    Size = 8
INVARIANTS SearchAdvances SummaryIsUsed
