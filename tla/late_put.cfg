CONSTANTS
    op1 = op1
    op2 = op2
    member = member
    other = other
    x = x
    Absent = Absent
    None = None
    Operators <- MCOperators
    Leaves <- MCLeaves
    Values <- MCValues
    Targets <- MCTargets
    Guided <- MCGuided
    Fields <- MCFields
    Required <- MCNothing
    Suspect <- MCNothing
    Start <- MCStart
    Keep = 1
    MaxPosts = 2
    MaxForeign = 0
    MaxLate = 1
SPECIFICATION Spec
PROPERTIES NothingClobbered
