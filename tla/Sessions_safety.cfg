CONSTANTS
    Requests = {p1, p2}
    User = User  Credential = Credential  ResetLink = ResetLink  EmailLink = EmailLink
    Sessions = {s1, s2, s3, s4}
    Tokens = {t1, t2, t3, t4}
    None = None
    Rows <- AllRows
    UseCases = {"login", "mfa", "refresh", "logout", "suspend", "reactivate", "delete", "verify",
                "change", "reset"}
    MaxRequests = 3
    MaxFailures = 1
SPECIFICATION Spec
CHECK_DEADLOCK FALSE
SYMMETRY Renaming
INVARIANTS FamilyHasHead SessionsFollowPassword
PROPERTIES DeadTokensStayDead StatusMovesOnPurpose ReplayEndsEverything
