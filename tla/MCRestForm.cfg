SPECIFICATION Spec
CONSTANTS
    Forms = {"wifi", "ap", "mqtt", "ntp", "ota", "lightMqtt", "light"}
    Stored <- MCStored
    MaxEdits = 2
    MaxSaves = 2
    Undefined = Undefined
    Absent = Absent
    NaN = NaN
    Fraction = Fraction
INVARIANTS SettingsLegal ShownIsStored SelectionKept
PROPERTIES Settles
