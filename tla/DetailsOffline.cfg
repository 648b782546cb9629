SPECIFICATION Spec
CONSTANTS
    Calls = {c1}
    PostIds = {"1", "2"}
    UserIds = {"1"}
    Author <- MCAuthor
    CommentLists = {"of 1", "of 2", "of 1 and 2"}
    PostsOf <- MCPostsOf
    Null = Null
    Unknown = Unknown
    NoResponse = NoResponse
    ForeignData = {}
    MaxLaunches = 2
INVARIANT
    DownloadedDetailsReadable
