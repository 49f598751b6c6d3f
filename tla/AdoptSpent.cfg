CONSTANTS
    c1 = c1
    c2 = c2
    Client = {c1, c2}
    None = None
    ApiKey = ApiKey
    MaxExpiry = 2
    MaxLogins = 2
    MaxFailures = 1
SPECIFICATION Spec
PROPERTY AdoptsOnlyRotated
CHECK_DEADLOCK FALSE
