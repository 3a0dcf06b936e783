SPECIFICATION FairSpec
CONSTANTS
    Policies <- AnyPolicy
    Certified <- AnyCertificate
    MaxOffers = 3
    MaxFaults = 2
INVARIANTS
    RolesAreOpposite
    ReportedRoleIsReal
    NeverRefused
    NothingInTheClear
PROPERTY HandshakeCompletes
CHECK_DEADLOCK FALSE
