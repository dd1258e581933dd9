CONSTANTS
    n1 = n1
    n2 = n2
    n3 = n3
    Node = {n1, n2, n3}
    Author = {n1}
    Round = {0, 1, 2}
    Tag = {1, 2}
    RetentionRounds = 1
    MaxAttestations = 3
    GroupSizes = {4, 5}
    InitialGroupSize = 4
SPECIFICATION ObserverSpec
SYMMETRY Symmetry
INVARIANTS
    ObserverTypeOK
    PendingNotCertified
    OneCertificatePerSlot
    PendingBelowQuorum
PROPERTIES
    NewCertificatesHaveQuorum
    AttestationsKept
    CertifiedSlotsRetained
