SPECIFICATION FairSpec
CONSTANTS
    Instance <- One
    None = None
    Grace = 1
    Repeat = 2
    Gap = 2
    MaxEvents = 3
    MaxMishaps = 1
PROPERTIES AlertsAreGrounded RepeatsAreDue TruthIsToldInTheEnd
