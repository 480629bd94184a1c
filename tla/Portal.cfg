\* One operator, two products of one tenant each, two requests in flight.
SPECIFICATION PortalFairSpec
CONSTANTS
    Products = {p1, p2}
    First = p1
    Tenants = {t1, t2}
    ProductOf <- TenantEach
    None = None
    Typed <- Addresses
    Slots = {1, 2}
    MaxSessions = 2
    MaxPieces = 5
INVARIANTS
    PortalTypeOK
    SeenIsActedOn
    AddressSettled
PROPERTIES
    SessionLossNoticed
