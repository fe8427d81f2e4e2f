SPECIFICATION Spec
CONSTANTS
    Aps <- const_Aps
    MaxRoams = 1
INVARIANT CountsOnlyRoams
