SPECIFICATION Spec
CONSTANTS
    PostsCall = posts
    Taps = {tap1, tap2}
INVARIANT
    HudShownWhileLoading
CHECK_DEADLOCK FALSE
