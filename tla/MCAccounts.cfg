SPECIFICATION Spec
CONSTANTS
    Callers = {r1, r2}
    r1 = r1
    r2 = r2
    Forms <- MCForms
    Cooldown = 1
    CodeTtl = 1
    VerifiedWindow = 1
    MaxAttempts = 2
    MaxClock = 3
    MaxCodes = 2
    RequestLife = 1
    Retention = 1
    MaxRequests = 2
    ResetTokenTtl = 1
    Handlers = {r1, r2}
    Passwords = {"p1", "p2"}
    MaxLogins = 2
    MaxVersion = 3
    MaxTickets = 1
    Staff = {"a", "b"}
    Founder = "a"
    Agents = {r1, r2}
    MaxAudit = 3
    PageLimit = 1
    Addresses = {"i", "j"}
    People = {"m"}
    Clients = {r1, r2}
    Few = 1
    Many = 2
    Span = 2
    MaxNow = 2
    MaxAsked = 3
    Pages = {r1, r2}
    MaxSignIns = 3
    MaxLapses = 1
    Ids = {"u1", "u2"}
    Mails = {"e1", "e2"}
    MaxVerifying = 2
    Boxes = {"e1", "e2"}
    Wait = 2
    MaxMailed = 2
    Users = {"me", "a", "b"}
    Own = "me"
    MaxDetails = 6
SYMMETRY Symmetric
INVARIANTS CodesAreSpentOnce ApprovalMakesOneAccount OneSessionUnlessOverlapped TicketsOpenOneConnection AdministrationIsSafe LimitsAreKept
PROPERTIES SignedOutOnlyWithCause FormsActOnWhatIsShown
CHECK_DEADLOCK FALSE
