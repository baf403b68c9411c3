SPECIFICATION Spec
CONSTANTS
    None = None
    Requests = {q1, q2}
    Bases = {acme}
    MaxSuffix = 1
    Emails = {ann}
    Kinds = {"reviewed", "automatic", "paid"}
    Workers = {w1, w2}
SYMMETRY MCSymmetry
INVARIANTS
    CompletedIsUsable
    OneTenantPerRequest
    TenantIsGranted
CHECK_DEADLOCK FALSE
