SPECIFICATION AuthSpec
CONSTANTS
    h1 = h1
    h2 = h2
    Handlers <- MCHandlers
    Emails = {"ann"}
    AdminEmail = "root"
    Mistyped = {"ann"}
    LoginMaxAttempts = 1
    LoginWindow = 2
    MaxTokens = 3
    MaxFaults = 1
SYMMETRY HandlerSymmetry
INVARIANTS
    OneAccountPerEmail
    AttemptsBounded
    DeactivatedIsShut
CHECK_DEADLOCK FALSE
