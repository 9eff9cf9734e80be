SPECIFICATION Spec
CONSTANTS
    ann = ann
    bob = bob
    small = small
    large = large
    ours = ours
    nobodys = nobodys
    helper = helper
    front = front
    side = side
    manuals = manuals
    prices = prices
    desk = desk
    night = night
    first = first
    second = second
    phone = phone
    kept = kept
    fresh = fresh
    left = left
    right = right
    Requests = {left, right}
    Rows <- ConsoleRows
    UseCases <- Everything
    MaxRequests = 3
    People = {ann, bob}
    Managers = {}
    Models = {small, large}
    Keys = {ours}
    NoKey = nobodys
    Assistants = {helper}
    Widgets = {front, side}
    Bases = {manuals, prices}
    Teams = {desk, night}
    Ratings = {first, second}
    Limits = {1, 2}
    TeamNames = {"Support", "Nights"}
    DefaultTeamName = "Support"
    Endpoints = {phone}
    MaxFeedback = 1
    Conversations = {kept, fresh}
    Nobody = Nobody
    RecentTurns = 1
    CompactAfter = 2
    SummaryLines = 2
    MaxSeq = 8
    Scenes <- McScenes
SYMMETRY Symmetric
INVARIANTS
    LimitsNeedOverlap
    LittleIsUntold
    ReferencesHold
PROPERTIES
    OffOnPurpose
    KeptWhileUsed
    RosterIsAsSaved
CHECK_DEADLOCK FALSE
