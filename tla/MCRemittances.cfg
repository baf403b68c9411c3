SPECIFICATION Spec
CONSTANTS
    Sessions = {k1, k2}
    Remittances = {c1, c2}
    SiteRemittances = {s1, s2}
    Amounts = {2}
    Workers = {w1, w2}
    None = None
SYMMETRY MCSymmetry
INVARIANTS
    AcknowledgedIsRemitted
    SiteTotalCoversLinks
CHECK_DEADLOCK FALSE
