SPECIFICATION Spec
CONSTANTS
    ann = ann
    bob = bob
    owner = owner
    clerk = clerk
    letter = letter
    exception = exception
    root = root
    sam = sam
    admin = admin
    support = support
    acorn = acorn
    birch = birch
    visit = visit
    home = home
    work = work
    gullish = gullish
    heronish = heronish
    gull = gull
    heron = heron
    left = left
    right = right
    Requests = {left, right}
    Rows <- AccessRows
    UseCases <- Everything
    MaxRequests = 3
    Members = {ann, bob}
    SystemRoles = {owner}
    CustomRoles = {clerk}
    Permissions <- TenantCodes
    SystemCodes <- McSystemCodes
    Rank <- McRank
    Customizable <- McCustomizable
    Invitations = {letter}
    Overrides = {exception}
    Addressee <- McAddressee
    MaxHierarchyDepth = 8
    Staff = {root, sam}
    PlatformSystemRoles = {admin}
    PlatformCustomRoles = {support}
    PlatformPermissions <- PlatformCodes
    PlatformSystemCodes <- McPlatformCodes
    PlatformRank <- McPlatformRank
    Tenants = {acorn, birch}
    Impersonations = {visit}
    Addresses = {home, work, gullish, heronish}
    Subjects = {gull, heron}
    Placeholder <- McPlaceholder
    MaxFailedAttempts = 2
    Scenes <- McScenes
SYMMETRY Symmetric
INVARIANTS
    NoPowerFromNowhere
    CyclesNeedOverlap
    WaysInNeedOverlap
    LockoutNeedsOverlap
PROPERTIES
    StatusMovesOnPurpose
    InvitationAcceptedOnce
CHECK_DEADLOCK FALSE
