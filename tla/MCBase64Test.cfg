CONSTANTS
    Absent = Absent
    Flags <- MCFlags
    Exits <- MCExits
SPECIFICATION Spec
INVARIANT TypeOK
INVARIANT TestTargetsPass
INVARIANT HandlersFindTheirCode
INVARIANT OptionsDecide
PROPERTY ProcessEnds
