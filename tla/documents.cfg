\* Histories of three requests over every kind of path and key.
CONSTANTS
    Strings <- MCStrings
    Values = {"v", "<"}
    Escaped <- MCEscaped
    ParamKeys <- MCParamKeys
    MaxRequests = 3
SPECIFICATION Spec
INVARIANTS TypeOK PlainValuesAreListed
PROPERTIES PatchIsLocal PatchIsReadable
CHECK_DEADLOCK FALSE
