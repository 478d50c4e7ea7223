SPECIFICATION Spec
CONSTANTS
    Forms = {"mqtt"}
    Stored <- MCStored
    MaxEdits = 2
    MaxSaves = 2
    Undefined = Undefined
    Absent = Absent
    NaN = NaN
    Fraction = Fraction
INVARIANTS KeepAliveInRange
