SPECIFICATION Spec
CONSTANTS
    Calls = {c1}
    PostIds = {"1"}
    UserIds = {"1"}
    Author <- MCAuthor
    CommentLists = {"of 1"}
    PostsOf <- MCPostsOf
    Null = Null
    Unknown = Unknown
    NoResponse = NoResponse
    ForeignData = {"malformed", "scalar"}
    MaxLaunches = 2
INVARIANTS
    GroupCountsOutstandingLegs
    ClosuresMatchPhase
    NoNilUnwrap
    CompletionOnce
PROPERTY
    ImplementsRetrieval
