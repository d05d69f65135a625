\* An account deleted by the admin site on the company's host.
SPECIFICATION Spec
CONSTANTS
    lower = lower
    upper = upper
    other = other
    Emails <- SomeEmails
    NoEmail = NoEmail
    NewEmails <- HiredEmails
    EditEmails <- EditedEmails
    Normalize <- LowerCase
    Workers = {w1, w2}
    Files <- ShortFiles
    MaxEmployees = 2
    MaxUsers = 1
    MaxRequests = 2
INVARIANTS
    MutationsRecorded
CHECK_DEADLOCK FALSE
