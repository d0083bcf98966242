\* Two requests at a time, two accounts, three tokens; one replica start among them.
CONSTANTS
    Handler = {h1, h2}
    Email = {e1, e2}
    MaxUsers = 2
    MaxTokens = 3
    MaxRows = 4
    MaxExpired = 1
    FirstAdmin = {e1, e2, None}
    Serial = {"token", "admin", "setup"}
    None = None
SPECIFICATION Spec
SYMMETRY Symmetry
VIEW View
INVARIANTS
    TypeOK
    OneAccountPerEmail
    EverySessionHasOwner
    SignOutIsComplete
    InactiveHasNoSession
    SingleUse
    SpentTokenIsRemembered
    AdminRemains
    OneSelfMadeAdmin
