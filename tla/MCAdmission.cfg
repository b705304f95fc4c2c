CONSTANTS
    Window = 1
    Guessers = {g1, g2}
    Depositors = {d1, d2}
    Sources = {ip}
    Secrets = {code}
    Products = {p}
    PerSource = 2
    PerSecret = 1
    PerProduct = 1
    Slots = 1
    MaxTime = 2
SYMMETRY Symmetry
SPECIFICATION Spec
INVARIANTS
    TypeOK
    AdmissionIsBounded
PROPERTIES
    WindowsAreFixed
