\* The root, its $writable, a child and its display name: deep enough for rows
\* within rows, for a flag that is inherited and for names shown in the parent's
\* row. Two requests under way, two rows with one id, two clicks in a hurry.
SPECIFICATION Spec
CONSTANTS
    Paths <- const_Paths
    Databases <- const_Databases
    MaxCalls = 2
    MaxRows = 2
    MaxHurry = 2
INVARIANTS TypeOK WritesWhereAsked ButtonsActOnTheirRow TreeShowsServer
