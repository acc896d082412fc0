\* Two texts, one path, a ring of three slots, two copies under way.
\* Small ranges of the form, and texts with numbers around and beyond their
\* ends, whole, broken or none.
SPECIFICATION Spec
CONSTANTS
    Texts = {"", "t"}
    DataPaths = {"a"}
    HistorySize = 3
    MaxCopies = 2
    MinLow = 0
    MinHigh = 1
    MaxLow = 1
    MaxHigh = 3
    LimitLow = 1
    LimitHigh = 2
    TypedNumbers <- const_TypedNumbers
INVARIANTS ClipTypeOK ShownIsSelected 
PROPERTY KeepsRecentTexts
