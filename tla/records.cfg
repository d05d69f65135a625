\* Three requests, two at a time, over two employees and two accounts.
SPECIFICATION Spec
CONSTANTS
    lower = lower
    upper = upper
    other = other
    Emails <- SomeEmails
    NoEmail = NoEmail
    NewEmails <- HiredEmails
    EditEmails <- EditedEmails
    Normalize <- LowerCase
    Workers = {w1, w2}
    Files <- ShortFiles
    MaxEmployees = 2
    MaxUsers = 2
    MaxRequests = 3
SYMMETRY Symmetry
INVARIANTS
    TypeOK
    LinksSound
    AccountsDistinct
    ImportAccounted
    EntriesTrue
    ChangesRecorded
PROPERTIES
    LinkKept
CHECK_DEADLOCK FALSE
