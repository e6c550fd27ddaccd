CONSTANTS
    p1 = p1
    p2 = p2
    ann = ann
    bob = bob
    old = old
    new = new
    Replica <- TwoReplicas
    User <- TwoUsers
    NoUser = NoUser
    Content <- TwoContents
    NoContent = NoContent
    MaxEdits = 1
    MaxApplies = 2
    MaxFaults = 1
SPECIFICATION DraftSpec
INVARIANTS
    DraftInvariant
    LeaseIsExclusive
    AppliedToItsBase
    AnnouncedUnlessFault
    SchemasAreOfTheDocument
PROPERTIES
    ApplyHonoursTheLock
    PublishedIsNotRewritten
