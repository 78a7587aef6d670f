\* Two questions about three names, one of them too deep for a whole walk, and
\* DNS that changes once.
SPECIFICATION FairSpec
CONSTANTS
    Names <- Tree
    MaxLabels = 2
    NoRecord = NoRecord
    Malformed = Malformed
    NoName = NoName
    Views <- SmallViews
    Subjects <- Senders
    Unknown = Unknown
    MaxCalls = 2
    MaxChanges = 1
INVARIANTS TypeOK OneView OneOrganization PolicyMatchesOrg
PROPERTIES EveryQuestionReturns
CHECK_DEADLOCK FALSE
