\* Two requests that present one refresh token: two tabs, or a retry.
CONSTANTS
    Handler = {h1, h2}
    Email = {e1, e2}
    MaxUsers = 1
    MaxTokens = 3
    MaxRows = 4
    MaxExpired = 0
    FirstAdmin = {e1, e2, None}
    Serial = {"admin", "setup"}
    None = None
SPECIFICATION Spec
SYMMETRY Symmetry
VIEW View
INVARIANT SingleUse
