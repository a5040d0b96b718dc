\* The documented patch URLs, which end with a slash.
CONSTANTS
    Strings <- MCPlainStrings
    Values = {"v"}
    Escaped <- MCEscaped
    ParamKeys <- MCPlainParamKeys
    MaxRequests = 2
SPECIFICATION Spec
PROPERTY TrailingSlashIsIgnored
CHECK_DEADLOCK FALSE
