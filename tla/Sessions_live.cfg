CONSTANTS
    Requests = {p1, p2}
    User = User  Credential = Credential  ResetLink = ResetLink  EmailLink = EmailLink
    Sessions = {s1, s2, s3}
    Tokens = {t1, t2, t3}
    None = None
    Rows <- AllRows
    UseCases <- Everything
    MaxRequests = 2
    MaxFailures = 1
SPECIFICATION FairSpec
CHECK_DEADLOCK FALSE
PROPERTY RequestsEnd
