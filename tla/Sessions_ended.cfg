CONSTANTS
    Requests = {p1, p2}
    User = User  Credential = Credential  ResetLink = ResetLink  EmailLink = EmailLink
    Sessions = {s1, s2, s3, s4}
    Tokens = {t1, t2, t3, t4}
    None = None
    Rows <- AllRows
    UseCases = {"refresh", "logout"}
    MaxRequests = 3
    MaxFailures = 0
SPECIFICATION Spec
CHECK_DEADLOCK FALSE
PROPERTY EndedSessionsStayEnded
