SPECIFICATION Spec
SYMMETRY Interchangeable
CONSTANTS
    Genesis = Genesis
    User = {u1, u2, u3}
    Founder = {u1, u2}
    OWNER = OWNER
    Custom = {c1, c2}
    Given = {c1}
    Invitation = {i1}
    Branch = {b1, b2}
    Tenant = Tenant
    Permission = {manage, other}
    Manage = manage
    Everything = Everything
    Nobody = Nobody
    Request = {q1, q2, q3}
    Reader = {q3}
INVARIANTS
    CacheIsCurrent
    
    ChainVerifies
PROPERTIES
    DecidedOnce
CHECK_DEADLOCK FALSE
