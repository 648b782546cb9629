---------------------------- MODULE DataProvider ----------------------------
(***************************************************************************)
(* DataProvider over its two back ends: every retrieval asks the network   *)
(* first, and on failure the Firebase database, which every successful     *)
(* download is written to.                                                 *)
(*                                                                         *)
(* The module composes VanillaNetworkingService (N) and                    *)
(* FirebaseDatabaseService (F) and models the code between them:           *)
(* BabylonHealthNetworkingAPI, BabylonHealthDatabaseAPI and DataProvider.  *)
(* A completion is called synchronously, so one main-queue block and every *)
(* closure it runs through is one action.                                  *)
(*                                                                         *)
(* Data.  A posts body is "posts" or EmptyArray; a users body is the id of *)
(* its first user or EmptyArray; a comments body is EmptyArray or a list l *)
(* with the postIds PostsOf[l].  The query key "postid" is not the key of  *)
(* a comment ("postId"), so the comments need not be those of the post,    *)
(* nor all of one post.                                                    *)
(***************************************************************************)
EXTENDS Integers, Sequences, FiniteSets, ResponseType

CONSTANTS
    Calls,        \* identities of the calls of retrieveAllPosts / -PostDetails
    PostIds,      \* the posts whose details can be retrieved
    UserIds,      \* their authors
    Author,       \* Author[p]: the userId of post p
    CommentLists, \* the arrays of comments, none of them empty, that there may be
    PostsOf,      \* PostsOf[l]: the postIds of the comments of l, in their order
    Null, Unknown, NoResponse,  \* see FirebaseDatabaseService
    ForeignData,  \* what other clients of the database may have put there
    MaxLaunches   \* bound on the number of launches (model bound only)

AllPosts == "all posts"
EmptyArray == "[]"
Malformed == "malformed"   \* a value that does not decode into the model type
Scalar == "scalar"         \* a database value that is neither an array nor an object

ASSUME DataAssumption ==
    /\ Author \in [PostIds -> UserIds]
    /\ MaxLaunches \in Nat \ {0}
    /\ ForeignData \subseteq {Malformed, Scalar}
    /\ AllPosts \notin PostIds
    /\ PostsOf \in [CommentLists -> Seq(PostIds) \ {<< >>}]
    /\ {EmptyArray, Malformed, Scalar} \cap (UserIds \cup CommentLists) = {}

VARIABLES
    call,        \* call[c]: the state a retrieval's closures share
    trap,        \* the runtime error the process died of, or "none"
    launches,    \* how often the process has been launched
    downloaded,  \* history: what completions received from the network
    rejected,    \* history: the nodes the server refused a write to
    inherited,   \* history: the comments of each post on the server at first
    task, isNetworkActivityIndicatorVisible,   \* networking service
    synced, pending, remote, online, reads     \* Firebase client and service

Legs == {"posts", "user", "comments"}
Requests == Calls \X Legs

PostsNode == <<"posts">>
UserNode(userId) == <<"users", userId>>
CommentsNode(postId) == <<"comments", postId>>

Nodes == {PostsNode} \cup {UserNode(u) : u \in UserIds}
                     \cup {CommentsNode(p) : p \in PostIds}

(* The lists whose first comment is one of this post. *)
FirstPost(list) == Head(PostsOf[list])
ListsOf(postId) == {list \in CommentLists : FirstPost(list) = postId}

(***************************************************************************)
(* What a node may hold: what the app, here or on other devices, writes    *)
(* there, and foreign data, the database being open to other clients.      *)
(***************************************************************************)
Own(n) == IF n = PostsNode THEN {"posts", EmptyArray}
          ELSE IF n \in {UserNode(u) : u \in UserIds} THEN {n[2]} ELSE ListsOf(n[2])
Values == [n \in Nodes |-> ForeignData \cup Own(n)]

(***************************************************************************)
(* The bodies the web service may answer with: not JSON of the expected    *)
(* shape (an HTTP error page included), an empty array, or data.  Nothing  *)
(* in the app checks that users and comments are the requested ones.       *)
(***************************************************************************)
Payloads == [q \in Requests |->
               {Malformed, EmptyArray} \cup
               (CASE q[2] = "posts" -> {"posts"}
                  [] q[2] = "user" -> UserIds
                  [] q[2] = "comments" -> CommentLists)]

N == INSTANCE VanillaNetworkingService
F == INSTANCE FirebaseDatabaseService
       WITH Reads <- Requests, EmptyCollection <- EmptyArray, MaxPending <- 0

ASSUME MarkersAssumption == F!StoreAssumption

networkVars == <<task, isNetworkActivityIndicatorVisible>>
databaseVars == <<synced, pending, remote, online, reads>>
historyVars == <<downloaded, rejected, inherited>>
vars == <<call, trap, launches, historyVars, networkVars, databaseVars>>

alive == trap = "none"

-----------------------------------------------------------------------------
(***************************************************************************)
(* An Optional, e.g. User?                                                 *)
(***************************************************************************)
Nil == << >>

Some(value) == <<value>>

Unwrapped(optional) == optional[1]

(***************************************************************************)
(* The DispatchGroup that joins the user and the comments, and the three   *)
(* variables its closures share.                                           *)
(***************************************************************************)
NewGroup == [user |-> Nil, comments |-> Nil, responseError |-> Nil,
             count |-> 0, notify |-> FALSE]

Enter(group) == [group EXCEPT !.count = @ + 1]

(* Variant: a failed leg returns before leave().                           *)
LeaveOnSuccessOnly(group, leg, response) ==
    IF ~IsSuccess(response) THEN [group EXCEPT !.responseError = Some(response.value)]
    ELSE LET left == [group EXCEPT !.count = @ - 1]
         IN  IF leg = "user" THEN [left EXCEPT !.user = Some(response.value)]
                             ELSE [left EXCEPT !.comments = Some(response.value)]

(* Variant: only the user's closure keeps the error.                       *)
LeaveForgettingError(group, leg, response) ==
    LET left == [group EXCEPT !.count = @ - 1]
    IN  IF ~IsSuccess(response)
        THEN IF leg = "user" THEN [left EXCEPT !.responseError = Some(response.value)] ELSE left
        ELSE IF leg = "user" THEN [left EXCEPT !.user = Some(response.value)]
                             ELSE [left EXCEPT !.comments = Some(response.value)]

Leave(group, leg, response) ==
    LET left == [group EXCEPT !.count = @ - 1]
    IN  IF ~IsSuccess(response)
        THEN [left EXCEPT !.responseError = Some(response.value)]
        ELSE IF leg = "user" THEN [left EXCEPT !.user = Some(response.value)]
                             ELSE [left EXCEPT !.comments = Some(response.value)]

(***************************************************************************)
(* The group once the body of loadPostDetails has run.  The legs in refused *)
(* have no URL, so their completions run before the next enter().          *)
(***************************************************************************)
LoadGroup(refused) ==
    LET Request(group, leg) ==
            IF leg \in refused THEN Leave(Enter(group), leg, Failure("urlError"))
                               ELSE Enter(group)
    IN  [Request(Request(NewGroup, "user"), "comments") EXCEPT !.notify = TRUE]

ReadGroup == [Enter(Enter(NewGroup)) EXCEPT !.notify = TRUE]

(* Variant: one enter() is missing, so the first leave() runs the notify block. *)
GroupDoneEarly(group) == group.notify /\ group.count <= 1

GroupDone(group) == group.notify /\ group.count = 0

GroupFilled(group) == group.user # Nil /\ group.comments # Nil

Details(group) == <<Unwrapped(group.user), Unwrapped(group.comments)>>

-----------------------------------------------------------------------------
NotStarted == [phase |-> "idle", target |-> AllPosts, group |-> NewGroup,
               response |-> NoResponse, completions |-> 0]

Completed(c, response) ==
    [c EXCEPT !.phase = "done", !.group = NewGroup,
              !.response = response, !.completions = @ + 1]

ReadingDatabase(c, group) == [c EXCEPT !.phase = "database", !.group = group]

(* Variant: a body that does not decode is passed on.                      *)
DecodedBodyUnchecked(response) == response

(***************************************************************************)
(* The JSON decoding of a response body (networking API).                  *)
(***************************************************************************)
DecodedBody(response) ==
    IF IsSuccess(response) /\ response.value = Malformed
    THEN Failure("jsonDecodingError") ELSE response

(***************************************************************************)
(* The conversion of a database value (database API).                      *)
(***************************************************************************)
DecodedValue(response) ==
    IF IsSuccess(response) /\ response.value = Malformed
    THEN Failure("conversionError") ELSE response

WritePosts(posts) ==
    pending' = [pending EXCEPT ![PostsNode] = Append(@, F!Stored(posts))]

(***************************************************************************)
(* The comments are filed, all of them, under the post of the first one;   *)
(* without a first one they are not written.                               *)
(***************************************************************************)
WritePostDetails(user, comments) ==
    pending' = [n \in Nodes |->
                  IF n = UserNode(user) THEN Append(pending[n], F!Stored(user))
                  ELSE IF comments # EmptyArray /\ n = CommentsNode(FirstPost(comments))
                       THEN Append(pending[n], F!Stored(comments))
                  ELSE pending[n]]

-----------------------------------------------------------------------------
(***************************************************************************)
(* The closure retrieveAllPosts hands to loadPosts.                        *)
(***************************************************************************)
PostsLoaded(c, response) ==
    IF IsSuccess(response)
    THEN /\ call' = [call EXCEPT ![c] = Completed(@, response)]
         /\ WritePosts(response.value)
         /\ downloaded' = downloaded \cup {[target |-> AllPosts, value |-> <<response.value>>]}
         /\ UNCHANGED reads
    ELSE /\ call' = [call EXCEPT ![c] = ReadingDatabase(@, NewGroup)]
         /\ reads' = [reads EXCEPT ![<<c, "posts">>] = F!Called(PostsNode)]
         /\ UNCHANGED <<pending, downloaded>>

(* Variant: readPostDetails is given the two ids the wrong way round for    *)
(* the comments.                                                           *)
DetailsLoadedSwapped(c) ==
    LET group == call[c].group
        post  == call[c].target
    IN  IF GroupFilled(group)
        THEN /\ call' = [call EXCEPT ![c] =
                           Completed(@, Success(Details(group)))]
             /\ WritePostDetails(Unwrapped(group.user), Unwrapped(group.comments))
             /\ downloaded' = downloaded \cup {[target |-> post, value |-> Details(group)]}
             /\ UNCHANGED reads
        ELSE /\ call' = [call EXCEPT ![c] = ReadingDatabase(@, ReadGroup)]
             /\ reads' = [reads EXCEPT
                            ![<<c, "user">>] = F!Called(UserNode(Author[post])),
                            ![<<c, "comments">>] = F!Called(CommentsNode(Author[post]))]
             /\ UNCHANGED <<pending, downloaded>>

(***************************************************************************)
(* The closure retrievePostDetails hands to loadPostDetails.               *)
(***************************************************************************)
DetailsLoaded(c) ==
    LET group == call[c].group
        post  == call[c].target
    IN  IF GroupFilled(group)
        THEN /\ call' = [call EXCEPT ![c] =
                           Completed(@, Success(Details(group)))]
             /\ WritePostDetails(Unwrapped(group.user), Unwrapped(group.comments))
             /\ downloaded' = downloaded \cup {[target |-> post, value |-> Details(group)]}
             /\ UNCHANGED reads
        ELSE /\ call' = [call EXCEPT ![c] = ReadingDatabase(@, ReadGroup)]
             /\ reads' = [reads EXCEPT
                            ![<<c, "user">>] = F!Called(UserNode(Author[post])),
                            ![<<c, "comments">>] = F!Called(CommentsNode(post))]
             /\ UNCHANGED <<pending, downloaded>>

-----------------------------------------------------------------------------
Init ==
    /\ N!Init
    /\ F!Init
    /\ call = [c \in Calls |-> NotStarted]
    /\ trap = "none"
    /\ launches = 1
    /\ downloaded = {}
    /\ rejected = {}
    /\ inherited = [p \in PostIds |-> remote[CommentsNode(p)]]

RetrieveAllPosts(c) ==
    /\ alive
    /\ call[c].phase = "idle"
    /\ N!SendRequest(<<c, "posts">>)
    /\ call' = [call EXCEPT ![c].phase = "network"]
    /\ UNCHANGED <<trap, launches, historyVars, databaseVars>>

(***************************************************************************)
(* The URL guard fails: the whole fallback is entered synchronously.       *)
(***************************************************************************)
RetrieveAllPostsWithoutURL(c) ==
    /\ alive
    /\ call[c].phase = "idle"
    /\ N!RefuseRequest(<<c, "posts">>)
    /\ PostsLoaded(c, Failure("urlError"))
    /\ UNCHANGED <<trap, launches, rejected, inherited, synced, remote, online>>

RetrievePostDetails(c, post, refused) ==
    /\ alive
    /\ call[c].phase = "idle"
    /\ call' = [call EXCEPT ![c].phase = "network", ![c].target = post,
                            ![c].group = LoadGroup(refused)]
    /\ task' = [q \in Requests |->
                  IF q \in {<<c, "user">>, <<c, "comments">>}
                  THEN IF q[2] \in refused THEN N!Refused(task[q]) ELSE N!Sent(task[q])
                  ELSE task[q]]
    /\ isNetworkActivityIndicatorVisible' =
         (isNetworkActivityIndicatorVisible \/ refused # {"user", "comments"})
    /\ UNCHANGED <<trap, launches, historyVars, databaseVars>>

NetworkReply(q) ==
    /\ alive
    /\ N!Handler(q)
    /\ UNCHANGED <<call, trap, launches, historyVars, databaseVars>>

(***************************************************************************)
(* The main-queue block of a finished request, through the closures of the *)
(* networking API.  An empty array of users is force-unwrapped: the        *)
(* process traps.                                                          *)
(***************************************************************************)
NetworkCompletion(q) ==
    LET c        == q[1]
        leg      == q[2]
        response == DecodedBody(N!ResponseTo(task[q].reply))
    IN  /\ alive
        /\ N!MainBlock(q)
        /\ UNCHANGED <<launches, rejected, inherited, synced, remote, online>>
        /\ \/ /\ leg = "user" /\ task[q].reply = EmptyArray
              /\ trap' = "users.first!"
              /\ UNCHANGED <<call, downloaded, pending, reads>>
           \/ /\ leg = "posts"
              /\ PostsLoaded(c, response)
              /\ UNCHANGED trap
           \/ /\ leg \in {"user", "comments"}
              /\ ~(leg = "user" /\ task[q].reply = EmptyArray)
              /\ call' = [call EXCEPT ![c].group = Leave(@, leg, response)]
              /\ UNCHANGED <<trap, downloaded, pending, reads>>

(***************************************************************************)
(* The notify block of loadPostDetails: responseError! traps on nil.       *)
(***************************************************************************)
LoadPostDetailsNotify(c) ==
    LET group == call[c].group
    IN  /\ alive
        /\ call[c].phase = "network"
        /\ GroupDone(group)
        /\ IF ~GroupFilled(group) /\ group.responseError = Nil
           THEN /\ trap' = "responseError!"
                /\ UNCHANGED <<call, downloaded, pending, reads>>
           ELSE /\ DetailsLoaded(c)
                /\ UNCHANGED trap
        /\ UNCHANGED <<launches, rejected, inherited, networkVars, synced, remote, online>>

-----------------------------------------------------------------------------
(***************************************************************************)
(* What the completion called in a step of the database service on read q, *)
(* if one is, does: readPosts ends the retrieval, readPostUser and         *)
(* readPostComments leave the group.  What is not an array or an object    *)
(* makes JSONSerialization.data raise an exception that try? does not      *)
(* catch: the process dies.                                                *)
(***************************************************************************)
AfterRead(q) ==
    LET c   == q[1]
        leg == q[2]
        response == DecodedValue(reads'[q].response)
    IN  IF reads'[q].completions = reads[q].completions THEN UNCHANGED <<call, trap>>
        ELSE IF response = Success(Scalar)
        THEN trap' = "JSONSerialization.data" /\ UNCHANGED call
        ELSE /\ call' = IF leg = "posts"
                        THEN [call EXCEPT ![c] = Completed(@,
                                IF IsSuccess(response) THEN response
                                ELSE Failure("unableToReadAllPostsData"))]
                        ELSE [call EXCEPT ![c].group = Leave(@, leg, response)]
             /\ UNCHANGED trap

DatabaseObserve(q) ==
    /\ alive
    /\ F!Observe(q)
    /\ AfterRead(q)
    /\ UNCHANGED <<launches, historyVars, networkVars>>

DatabaseTimeout(q) ==
    /\ alive
    /\ F!Timeout(q)
    /\ AfterRead(q)
    /\ UNCHANGED <<launches, historyVars, networkVars>>

(***************************************************************************)
(* The notify block of readPostDetails.                                    *)
(***************************************************************************)
ReadPostDetailsNotify(c) ==
    LET group == call[c].group
    IN  /\ alive
        /\ call[c].phase = "database"
        /\ GroupDone(group)
        /\ IF ~GroupFilled(group) /\ group.responseError = Nil
           THEN trap' = "responseError!" /\ UNCHANGED call
           ELSE /\ call' = [call EXCEPT ![c] = Completed(@,
                              IF GroupFilled(group)
                              THEN Success(Details(group))
                              ELSE Failure("unableToReadPostDetailsData"))]
                /\ UNCHANGED trap
        /\ UNCHANGED <<launches, historyVars, networkVars, databaseVars>>

-----------------------------------------------------------------------------
ServerCommits(n) ==
    /\ alive
    /\ F!Commit(n)
    /\ UNCHANGED <<call, trap, launches, historyVars, networkVars>>

ServerRejects(n) ==
    /\ alive
    /\ F!Reject(n)
    /\ rejected' = rejected \cup {n}
    /\ UNCHANGED <<call, trap, launches, downloaded, inherited, networkVars>>

Reconnect ==
    /\ F!Reconnect
    /\ UNCHANGED <<call, trap, launches, historyVars, networkVars>>

(***************************************************************************)
(* The process is killed at any moment, or has trapped, and starts again.  *)
(***************************************************************************)
Relaunch ==
    /\ launches < MaxLaunches
    /\ launches' = launches + 1
    /\ trap' = "none"
    /\ call' = [c \in Calls |-> NotStarted]
    /\ task' = [q \in Requests |-> N!NotRequested]
    /\ isNetworkActivityIndicatorVisible' = FALSE
    /\ F!Relaunch
    /\ UNCHANGED historyVars

Next ==
    \/ \E c \in Calls :
         \/ RetrieveAllPosts(c)
         \/ RetrieveAllPostsWithoutURL(c)
         \/ \E post \in PostIds, refused \in SUBSET {"user", "comments"} :
              RetrievePostDetails(c, post, refused)
         \/ LoadPostDetailsNotify(c)
         \/ ReadPostDetailsNotify(c)
    \/ \E q \in Requests :
         \/ NetworkReply(q)
         \/ NetworkCompletion(q)
         \/ DatabaseObserve(q)
         \/ DatabaseTimeout(q)
    \/ \E n \in Nodes : ServerCommits(n) \/ ServerRejects(n)
    \/ Reconnect
    \/ Relaunch

(***************************************************************************)
(* URLSession ends every task; the main queue serves its blocks (the       *)
(* asyncAfter block of read() and the group's notify block included).      *)
(***************************************************************************)
Fairness ==
    /\ \A q \in Requests : /\ WF_vars(NetworkReply(q))
                           /\ WF_vars(NetworkCompletion(q))
                           /\ WF_vars(DatabaseTimeout(q))
    /\ \A c \in Calls : /\ WF_vars(LoadPostDetailsNotify(c))
                        /\ WF_vars(ReadPostDetailsNotify(c))

Spec == Init /\ [][Next]_vars /\ Fairness

-----------------------------------------------------------------------------
DetailLegs == {"user", "comments"}

DataErrors == {"unableToReadAllPostsData", "unableToReadPostDetailsData"}

Optional(S) == {Some(value) : value \in S} \cup {Nil}

GroupType == [user : Optional(UserIds), comments : Optional(CommentLists \cup {EmptyArray}),
              responseError : Optional(NetworkErrors \cup DatabaseErrors),
              count : Int, notify : BOOLEAN]

Answers(target) ==
    IF target = AllPosts
    THEN {Success(posts) : posts \in {"posts", EmptyArray}}
    ELSE {Success(details) : details \in UserIds \X (CommentLists \cup {EmptyArray})}

CallType == [phase : {"idle", "network", "database", "done"},
             target : PostIds \cup {AllPosts}, group : GroupType,
             response : (UNION {Answers(t) : t \in PostIds \cup {AllPosts}})
                        \cup {Failure(e) : e \in DataErrors} \cup {NoResponse},
             completions : Nat]

(* The types of the retrievals' state, and that of the two services.       *)
TypeOK ==
    /\ DOMAIN call = Calls
    /\ \A c \in Calls :
         /\ [call[c] EXCEPT !.response = NoResponse] \in CallType
         /\ call[c].response \in {NoResponse} \cup Answers(call[c].target)
                                    \cup {Failure(e) : e \in DataErrors}
    /\ trap \in {"none", "users.first!", "responseError!", "JSONSerialization.data"}
    /\ launches \in 1..MaxLaunches
    /\ \A d \in downloaded : Success(d.value) \in
         IF d.target = AllPosts THEN {Success(<<posts>>) : posts \in {"posts", EmptyArray}}
                                ELSE Answers(d.target)
    /\ rejected \subseteq Nodes
    /\ \A p \in PostIds : inherited[p] \in Values[CommentsNode(p)] \cup {Null}
    /\ N!TypeOK
    /\ F!TypeOK

Waiting(c, leg) ==
    IF call[c].phase = "network" THEN N!Busy(<<c, leg>>)
                                 ELSE reads[<<c, leg>>].completions = 0

(***************************************************************************)
(* While details are being retrieved, the DispatchGroup's count is the     *)
(* number of legs whose completion is still to come, in whichever order    *)
(* they finish and whether they finish inside performRequest, by a         *)
(* snapshot or by the timeout block: no leave() is missing (notify would   *)
(* never run) and none is surplus (libdispatch would trap).                *)
(***************************************************************************)
GroupCountsOutstandingLegs ==
    \A c \in Calls :
        alive /\ call[c].target # AllPosts /\ call[c].phase \in {"network", "database"} =>
            call[c].group.count = Cardinality({leg \in DetailLegs : Waiting(c, leg)})

(***************************************************************************)
(* What a leg leaves behind in the group when it is over.                  *)
(***************************************************************************)
Settled(group, leg) ==
    \/ group.responseError # Nil
    \/ leg = "user" /\ group.user # Nil
    \/ leg = "comments" /\ group.comments # Nil

(***************************************************************************)
(* A read() whose completion is still to come.                             *)
(***************************************************************************)
Outstanding(q) ==
    reads[q].completions = 0 /\ (reads[q].observing \/ reads[q].timer)

LegOf(c, leg) == leg = "posts" <=> call[c].target = AllPosts

(***************************************************************************)
(* The closures that can still run belong to the phase the retrieval is    *)
(* in, so that no late answer of one phase meets the other: a request only *)
(* while the network is asked, a read only while the database is, and      *)
(* none once the completion has been called.  Legs that are over have left *)
(* a value or an error in the group.                                       *)
(***************************************************************************)
ClosuresMatchPhase ==
    alive => \A c \in Calls :
        /\ \A leg \in Legs :
             /\ N!Busy(<<c, leg>>) => call[c].phase = "network" /\ LegOf(c, leg)
             /\ Outstanding(<<c, leg>>) => call[c].phase = "database" /\ LegOf(c, leg)
        /\ call[c].completions = IF call[c].phase = "done" THEN 1 ELSE 0
        /\ call[c].group.notify =>
             /\ call[c].target # AllPosts
             /\ \A leg \in DetailLegs : ~Waiting(c, leg) => Settled(call[c].group, leg)

(***************************************************************************)
(* The force-unwrapped responseError! of the two notify blocks never meets *)
(* nil: a leg that is over has left its value or an error.                 *)
(***************************************************************************)
NoNilUnwrap == trap # "responseError!"

(***************************************************************************)
(* A retrieval calls the view controller's completion at most once, the    *)
(* network's answer and the database fallback taken together.              *)
(***************************************************************************)
CompletionOnce == \A c \in Calls : call[c].completions <= 1

AnsweredByDatabase(c) ==
    call[c].phase = "done" /\ reads[<<c, "user">>].completions > 0

(* What the database may hold as the comments of a post: a list that was   *)
(* downloaded, or that another device had left on the server.              *)
KnownLists(post) ==
    {list \in ListsOf(post) :
        \/ inherited[post] = list
        \/ \E d \in downloaded : d.target # AllPosts /\ d.value[2] = list}

(***************************************************************************)
(* Details that come from the database are the author of the post that was *)
(* selected and, whole and under no other post, a list of comments that a  *)
(* download brought or another device had left there and that begins with  *)
(* a comment of the post: writePostDetails and readPostDetails agree on    *)
(* the keys, whatever was retrieved or refused before.  The code looks at  *)
(* the first comment only: a list that goes on with comments of another    *)
(* post, as the unfiltered query may bring it, is given back with them.    *)
(***************************************************************************)
DatabaseDetailsMatchPost ==
    \A c \in Calls :
        AnsweredByDatabase(c) /\ IsSuccess(call[c].response) =>
            call[c].response.value \in {Author[call[c].target]} \X KnownLists(call[c].target)

ReadableDetails(post) ==
    /\ F!View(UserNode(Author[post])) = Author[post]
    /\ F!View(CommentsNode(post)) \in ListsOf(post)

(***************************************************************************)
(* Details that were downloaded with the author and with comments that     *)
(* begin with one of the post can be read from the local database ever     *)
(* after, offline and in later launches, unless the server refused one of  *)
(* the two writes.                                                         *)
(***************************************************************************)
DownloadedStaysReadable ==
    \A d \in downloaded :
        /\ d.target # AllPosts
        /\ d.value \in {Author[d.target]} \X ListsOf(d.target)
        /\ {UserNode(Author[d.target]), CommentsNode(d.target)} \cap rejected = {}
        => ReadableDetails(d.target)

(***************************************************************************)
(* What the error of retrievePostDetails suggests, "If you are offline,    *)
(* the item may not have been downloaded yet": details that were           *)
(* downloaded, and whose writes were not refused, are readable offline.    *)
(***************************************************************************)
DownloadedDetailsReadable ==
    \A d \in downloaded :
        d.target # AllPosts /\ rejected = {} => ReadableDetails(d.target)

(***************************************************************************)
(* loadPostDetails turns every failure of its user request into a failure  *)
(* response; the process never dies of an answer of the web service.       *)
(***************************************************************************)
NoTrapOnEmptyUsers == trap # "users.first!"

(***************************************************************************)
(* The abstract retrieval this module implements; a process that has       *)
(* trapped has forgotten its retrievals.                                   *)
(***************************************************************************)
StatusOf(c) ==
    IF ~alive \/ call[c].phase = "idle" THEN "idle"
    ELSE IF call[c].phase # "done" THEN "pending"
    ELSE IF IsSuccess(call[c].response) THEN "succeeded"
    ELSE "failed"

R == INSTANCE Retrieval WITH status <- [c \in Calls |-> StatusOf(c)]

(***************************************************************************)
(* Every retrieval that is started ends, while the process lives, in one   *)
(* success or failure that never changes again: the promise of DataProvider *)
(* to the view controllers, liveness included.                             *)
(***************************************************************************)
ImplementsRetrieval == R!Spec

=============================================================================
