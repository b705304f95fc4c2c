CONSTANTS
    root = root
    guest = guest
    p0 = p0
    p1 = p1
    f1 = f1
    f2 = f2
    Requests = {r1, r2}
    Ids = {s1, s2}
    Local = {root}
    Federated = {guest}
    Claims = {"operator", "staff"}
    Names = {"c1"}
    Passwords = {p0, p1}
    Initial = p0
    Fields <- MCFields
    Secret = "secret"
    AdminEmail = "admin"
    Flags <- MCFlags
    Forms <- MCForms
    Empty = Empty
    Failing = {}
    NoOne = NoOne
    MaxRestarts = 0
SYMMETRY Symmetry
SPECIFICATION Spec
INVARIANTS
    OldSessionsEnd
