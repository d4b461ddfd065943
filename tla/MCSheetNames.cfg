SPECIFICATION Spec
CONSTANTS
    Labels <- MCLabels
    Room <- MCRoom
    MaxSheets = 3
    MaxCounter = 12
    None = none
PROPERTY EverySheetIsNamed
CHECK_DEADLOCK FALSE
