------------------------ MODULE DataProvider_proofs ------------------------
(***************************************************************************)
(* Proofs about DataProvider, for any number of retrievals, posts, users   *)
(* and launches: dispatch groups stay balanced, late closures meet nobody, *)
(* and no error is unwrapped that is not there.                            *)
(***************************************************************************)
EXTENDS DataProvider, FiniteSetTheorems, TLAPS

(***************************************************************************)
(* What the proofs need to know of the records: their fields, and for a    *)
(* read() that the completion has been called once exactly when a flag is  *)
(* set, and that a closure that is still to run finds its own flag unset.  *)
(***************************************************************************)
GroupShape(group) ==
    /\ DOMAIN group = {"user", "comments", "responseError", "count", "notify"}
    /\ group.count \in Int
    /\ group.notify \in BOOLEAN

ReadDomain(read) ==
    DOMAIN read = {"node", "observing", "timer", "didTimeout", "didComplete",
                   "response", "completions"}

ReadShape(read) ==
    /\ ReadDomain(read)
    /\ read.observing \in BOOLEAN /\ read.timer \in BOOLEAN
    /\ read.didTimeout \in BOOLEAN /\ read.didComplete \in BOOLEAN
    /\ read.completions = IF read.didTimeout \/ read.didComplete THEN 1 ELSE 0
    /\ read.observing => ~read.didComplete
    /\ read.timer => ~read.didTimeout

(***************************************************************************)
(* A value that was stored in an Optional is not nil.                      *)
(***************************************************************************)
LEMMA OptionalsDiffer == \A value : Some(value) # Nil
BY DEF Some, Nil

(***************************************************************************)
(* The end of a leg's closure: one leave(), and a value or an error.       *)
(***************************************************************************)
LEMMA LeaveFields ==
    ASSUME NEW group, GroupShape(group), NEW leg \in DetailLegs, NEW response
    PROVE  LET after == Leave(group, leg, response)
           IN  /\ GroupShape(after)
               /\ after.count = group.count - 1
               /\ after.notify = group.notify
               /\ Settled(after, leg)
               /\ \A other \in DetailLegs : Settled(group, other) => Settled(after, other)
<1> USE OptionalsDiffer DEF GroupShape, Settled, DetailLegs
<1>1. CASE ~IsSuccess(response)
  BY <1>1 DEF Leave
<1>2. CASE IsSuccess(response)
  BY <1>2 DEF Leave
<1> QED
  BY <1>1, <1>2

(***************************************************************************)
(* A new read(), and each of the two closures that may answer it.          *)
(***************************************************************************)
LEMMA CalledFields ==
    ASSUME NEW n
    PROVE  /\ ReadShape(F!Called(n))
           /\ F!Called(n).completions = 0
           /\ F!Called(n).observing
BY DEF ReadShape, ReadDomain, F!Called, F!NotCalled

LEMMA CompletedFields ==
    ASSUME NEW read, ReadDomain(read), read.completions = 0, NEW response
    PROVE  LET after == F!Completed(read, response)
           IN /\ ReadDomain(after)
              /\ after.observing = read.observing
              /\ after.timer = read.timer
              /\ after.didTimeout = read.didTimeout
              /\ after.didComplete = read.didComplete
              /\ after.completions = 1
BY DEF ReadDomain, F!Completed

LEMMA TimerFiredFields ==
    ASSUME NEW read, ReadShape(read), read.timer
    PROVE  LET after == F!TimerFired(read)
           IN /\ ReadShape(after)
              /\ after.completions = 1
<1> DEFINE fired == [read EXCEPT !.timer = FALSE]
           late == [fired EXCEPT !.didTimeout = TRUE]
<1>1. /\ ReadDomain(fired)
      /\ fired.observing = read.observing /\ fired.timer = FALSE
      /\ fired.didTimeout = read.didTimeout /\ fired.didComplete = read.didComplete
      /\ fired.completions = read.completions
  BY DEF ReadShape, ReadDomain
<1>2. F!TimerFired(read) =
        IF ~read.didTimeout /\ ~read.didComplete
        THEN F!Completed(late, F!Failure("databaseReadError")) ELSE fired
  BY DEF F!TimerFired
<1> HIDE DEF fired
<1>3. /\ ReadDomain(late)
      /\ late.observing = read.observing /\ late.timer = FALSE
      /\ late.didTimeout = TRUE /\ late.didComplete = read.didComplete
      /\ late.completions = read.completions
  BY <1>1 DEF ReadDomain
<1> HIDE DEF late
<1>4. CASE read.didComplete
  BY <1>1, <1>2, <1>4 DEF ReadShape
<1>5. CASE ~read.didComplete
  <2>1. read.completions = 0 /\ ~read.didTimeout
    BY <1>5 DEF ReadShape
  <2> DEFINE after == F!Completed(late, F!Failure("databaseReadError"))
  <2>2. /\ ReadDomain(after)
        /\ after.observing = read.observing /\ after.timer = FALSE
        /\ after.didTimeout = TRUE /\ after.didComplete = read.didComplete
        /\ after.completions = 1
    BY <1>3, <2>1, CompletedFields
  <2>3. F!TimerFired(read) = after
    BY <1>2, <1>5, <2>1
  <2> HIDE DEF after
  <2> QED
    BY <1>5, <2>2, <2>3 DEF ReadShape
<1> QED
  BY <1>4, <1>5

LEMMA SnapshotTakenFields ==
    ASSUME NEW read, ReadShape(read), read.observing, NEW value
    PROVE  LET after == F!SnapshotTaken(read, value)
           IN /\ ReadShape(after)
              /\ after.completions = 1
<1> DEFINE seen == [read EXCEPT !.observing = FALSE, !.didComplete = TRUE]
           response == IF value # Null THEN F!Success(value) ELSE F!Failure("databaseReadError")
<1>1. /\ ReadDomain(seen)
      /\ seen.observing = FALSE /\ seen.timer = read.timer
      /\ seen.didTimeout = read.didTimeout /\ seen.didComplete = TRUE
      /\ seen.completions = read.completions
  BY DEF ReadShape, ReadDomain
<1>2. F!SnapshotTaken(read, value) =
        IF read.didTimeout THEN seen ELSE F!Completed(seen, response)
  BY DEF F!SnapshotTaken
<1> HIDE DEF seen, response
<1>3. CASE read.didTimeout
  BY <1>1, <1>2, <1>3 DEF ReadShape
<1>4. CASE ~read.didTimeout
  <2>1. read.completions = 0
    BY <1>4 DEF ReadShape
  <2> DEFINE after == F!Completed(seen, response)
  <2>2. /\ ReadDomain(after)
        /\ after.observing = FALSE /\ after.timer = read.timer
        /\ after.didTimeout = read.didTimeout /\ after.didComplete = TRUE
        /\ after.completions = 1
    BY <1>1, <2>1, CompletedFields
  <2>3. F!SnapshotTaken(read, value) = after
    BY <1>2, <1>4
  <2> HIDE DEF after
  <2> QED
    BY <1>4, <2>2, <2>3 DEF ReadShape
<1> QED
  BY <1>3, <1>4

-----------------------------------------------------------------------------
(***************************************************************************)
(* The shape of the state.                                                 *)
(***************************************************************************)
CallDomain(k) ==
    /\ DOMAIN k = {"phase", "target", "group", "response", "completions"}
    /\ GroupShape(k.group)

TaskDomain(t) == DOMAIN t = {"phase", "reply", "completions"}

Shapes ==
    /\ DOMAIN call = Calls /\ \A c \in Calls : CallDomain(call[c])
    /\ DOMAIN task = Requests /\ \A q \in Requests : TaskDomain(task[q])
    /\ DOMAIN reads = Requests /\ \A q \in Requests : ReadShape(reads[q])

(***************************************************************************)
(* The number of detail legs that are still to complete.                   *)
(***************************************************************************)
WaitingLegs(c) ==
    (IF Waiting(c, "user") THEN 1 ELSE 0) + (IF Waiting(c, "comments") THEN 1 ELSE 0)

(***************************************************************************)
(* ClosuresMatchPhase and GroupCountsOutstandingLegs for one retrieval,    *)
(* and what makes them inductive.                                          *)
(***************************************************************************)
CallConsistent(c) ==
    /\ \A leg \in Legs :
         /\ N!Busy(<<c, leg>>) => call[c].phase = "network" /\ LegOf(c, leg)
         /\ Outstanding(<<c, leg>>) => call[c].phase = "database" /\ LegOf(c, leg)
    /\ call[c].completions = IF call[c].phase = "done" THEN 1 ELSE 0
    /\ call[c].phase = "idle" => call[c].target = AllPosts
    /\ call[c].group.notify =>
         /\ call[c].target # AllPosts
         /\ \A leg \in DetailLegs : ~Waiting(c, leg) => Settled(call[c].group, leg)
    /\ call[c].target # AllPosts /\ call[c].phase \in {"network", "database"} =>
         call[c].group.notify /\ call[c].group.count = WaitingLegs(c)

(***************************************************************************)
(* The inductive invariant.  A process that has trapped runs no closure,   *)
(* so nothing is asked of its retrievals any more.                         *)
(***************************************************************************)
Inv ==
    /\ Shapes
    /\ NoNilUnwrap
    /\ CompletionOnce
    /\ alive => \A c \in Calls : CallConsistent(c)

(***************************************************************************)
(* A step of the closures of c: no other retrieval is touched.             *)
(***************************************************************************)
OnlyCall(c) ==
    \A d \in Calls \ {c} :
        /\ call'[d] = call[d]
        /\ \A leg \in Legs : /\ task'[<<d, leg>>] = task[<<d, leg>>]
                             /\ reads'[<<d, leg>>] = reads[<<d, leg>>]

(***************************************************************************)
(* A retrieval whose state is left alone stays consistent.                 *)
(***************************************************************************)
LEMMA UntouchedCall ==
    ASSUME NEW d \in Calls, CallConsistent(d), call'[d] = call[d],
           \A leg \in Legs : /\ task'[<<d, leg>>] = task[<<d, leg>>]
                             /\ reads'[<<d, leg>>] = reads[<<d, leg>>]
    PROVE  CallConsistent(d)'
<1>1. \A leg \in Legs : /\ N!Busy(<<d, leg>>)' <=> N!Busy(<<d, leg>>)
                        /\ Outstanding(<<d, leg>>)' <=> Outstanding(<<d, leg>>)
                        /\ Waiting(d, leg)' <=> Waiting(d, leg)
                        /\ LegOf(d, leg)' <=> LegOf(d, leg)
  BY DEF N!Busy, Outstanding, Waiting, LegOf
<1>2. DetailLegs \subseteq Legs /\ "user" \in Legs /\ "comments" \in Legs
  BY DEF DetailLegs, Legs
<1>3. WaitingLegs(d)' = WaitingLegs(d)
  BY <1>1, <1>2 DEF WaitingLegs
<1> QED
  BY <1>1, <1>2, <1>3 DEF CallConsistent

LEMMA StepOfOneCall ==
    ASSUME Inv, alive, NEW c \in Calls, Shapes', trap' = trap,
           OnlyCall(c), CallConsistent(c)'
    PROVE  Inv'
<1>1. \A d \in Calls : CallConsistent(d)'
  BY UntouchedCall DEF Inv, OnlyCall
<1>2. CompletionOnce'
  BY <1>1 DEF CompletionOnce, CallConsistent
<1> QED
  BY <1>1, <1>2 DEF Inv, NoNilUnwrap

-----------------------------------------------------------------------------
(***************************************************************************)
(* A process that has just been launched.                                  *)
(***************************************************************************)
LEMMA FreshShapes ==
    /\ CallDomain(NotStarted) /\ GroupShape(NewGroup)
    /\ TaskDomain(N!NotRequested)
    /\ ReadShape(F!NotCalled)
<1>1. GroupShape(NewGroup)
  BY DEF GroupShape, NewGroup
<1>2. CallDomain(NotStarted)
  BY <1>1 DEF CallDomain, NotStarted
<1>3. TaskDomain(N!NotRequested)
  BY DEF TaskDomain, N!NotRequested
<1>4. ReadShape(F!NotCalled)
  BY DEF ReadShape, ReadDomain, F!NotCalled
<1> QED
  BY <1>1, <1>2, <1>3, <1>4

LEMMA FreshIsConsistent ==
    ASSUME NEW c \in Calls, call[c] = NotStarted,
           \A leg \in Legs : /\ task[<<c, leg>>] = N!NotRequested
                             /\ reads[<<c, leg>>] = F!NotCalled
    PROVE  CallConsistent(c)
<1>1. \A leg \in Legs : ~N!Busy(<<c, leg>>) /\ ~Outstanding(<<c, leg>>)
  BY DEF N!Busy, N!NotRequested, Outstanding, F!NotCalled
<1>2. /\ call[c].phase = "idle" /\ call[c].target = AllPosts
      /\ call[c].completions = 0 /\ call[c].group.notify = FALSE
  BY DEF NotStarted, NewGroup
<1> QED
  BY <1>1, <1>2 DEF CallConsistent

LEMMA InitEstablishesInv == Init => Inv
<1> SUFFICES ASSUME Init PROVE Inv
  OBVIOUS
<1>1. /\ call = [c \in Calls |-> NotStarted]
      /\ task = [q \in Requests |-> N!NotRequested]
      /\ reads = [q \in Requests |-> F!NotCalled]
      /\ trap = "none"
  BY DEF Init, N!Init, F!Init
<1>2. Shapes
  BY <1>1, FreshShapes DEF Shapes
<1>3. \A c \in Calls : CallConsistent(c)
  BY <1>1, FreshIsConsistent DEF Requests
<1>4. CompletionOnce /\ NoNilUnwrap
  BY <1>1, <1>3 DEF CompletionOnce, CallConsistent, NoNilUnwrap
<1> QED
  BY <1>2, <1>3, <1>4 DEF Inv

(***************************************************************************)
(* One lemma for each action.  retrieveAllPosts starts its one request.    *)
(***************************************************************************)
LEMMA RetrieveAllPostsKeepsInv ==
    ASSUME Inv, NEW c \in Calls, RetrieveAllPosts(c)
    PROVE  Inv'
<1> DEFINE q == <<c, "posts">>
<1>1. /\ alive /\ Shapes /\ CallConsistent(c) /\ call[c].phase = "idle"
      /\ q \in Requests /\ "posts" \in Legs
  BY DEF RetrieveAllPosts, Inv, Requests, Legs
<1>2. /\ task' = [task EXCEPT ![q] = N!Sent(task[q])]
      /\ call' = [call EXCEPT ![c].phase = "network"]
      /\ trap' = trap /\ reads' = reads
  BY <1>1 DEF RetrieveAllPosts, N!SendRequest, databaseVars, Shapes
<1>3. TaskDomain(N!Sent(task[q])) /\ N!Sent(task[q]).phase = "running"
  BY <1>1 DEF Shapes, TaskDomain, N!Sent
<1>4. /\ call'[c].phase = "network" /\ call'[c].target = call[c].target
      /\ call'[c].group = call[c].group /\ call'[c].completions = call[c].completions
      /\ CallDomain(call'[c])
  BY <1>1, <1>2 DEF Shapes, CallDomain
<1>5. OnlyCall(c)
  BY <1>1, <1>2 DEF OnlyCall, Shapes, Requests
<1>6. Shapes'
  BY <1>1, <1>2, <1>3, <1>4 DEF Shapes
<1>7. /\ \A leg \in Legs : /\ ~N!Busy(<<c, leg>>) /\ ~Outstanding(<<c, leg>>)
                           /\ ~Outstanding(<<c, leg>>)'
                           /\ N!Busy(<<c, leg>>)' => leg = "posts"
      /\ call[c].target = AllPosts /\ call[c].completions = 0 /\ ~call[c].group.notify
  BY <1>1, <1>2 DEF CallConsistent, Outstanding, N!Busy, Shapes, Requests
<1>8. CallConsistent(c)'
  BY <1>4, <1>7 DEF CallConsistent, LegOf
<1> QED
  BY <1>1, <1>2, <1>5, <1>6, <1>8, StepOfOneCall

-----------------------------------------------------------------------------
(***************************************************************************)
(* The two ways a phase ends: the completion is called, or the database is *)
(* read.                                                                   *)
(***************************************************************************)
LEMMA CompletedCall ==
    ASSUME NEW k, CallDomain(k), k.completions = 0, NEW response
    PROVE  LET after == Completed(k, response)
           IN  /\ CallDomain(after)
               /\ after.phase = "done"
               /\ after.target = k.target
               /\ after.group.notify = FALSE
               /\ after.completions = 1
<1>1. NewGroup.notify = FALSE
  BY DEF NewGroup
<1> QED
  BY <1>1, FreshShapes DEF CallDomain, Completed

LEMMA ReadingDatabaseCall ==
    ASSUME NEW k, CallDomain(k), NEW group, GroupShape(group)
    PROVE  LET after == ReadingDatabase(k, group)
           IN  /\ CallDomain(after)
               /\ after.phase = "database"
               /\ after.target = k.target
               /\ after.group = group
               /\ after.completions = k.completions
BY DEF CallDomain, ReadingDatabase

LEMMA ReadGroupFields ==
    GroupShape(ReadGroup) /\ ReadGroup.notify /\ ReadGroup.count = 2
<1>1. GroupShape(Enter(NewGroup)) /\ Enter(NewGroup).count = 1
  BY DEF Enter, NewGroup, GroupShape
<1>2. GroupShape(Enter(Enter(NewGroup))) /\ Enter(Enter(NewGroup)).count = 2
  BY <1>1 DEF Enter, GroupShape
<1> QED
  BY <1>2 DEF ReadGroup, GroupShape

(***************************************************************************)
(* loadPosts has answered: the retrieval is over, or reads the database.   *)
(***************************************************************************)
LEMMA PostsLoadedKeepsInv ==
    ASSUME Inv, alive, NEW c \in Calls, NEW response, PostsLoaded(c, response),
           call[c].phase \in {"idle", "network"}, call[c].target = AllPosts,
           NEW t, TaskDomain(t), t.phase = "done",
           task' = [task EXCEPT ![<<c, "posts">>] = t], trap' = trap
    PROVE  Inv'
<1> DEFINE q == <<c, "posts">>
<1>1. /\ Shapes /\ CallConsistent(c) /\ CallDomain(call[c])
      /\ q \in Requests /\ "posts" \in Legs
  BY DEF Inv, Shapes, Requests, Legs
<1>2. call[c].completions = 0
  BY <1>1 DEF CallConsistent
<1>3. \A leg \in Legs : ~Outstanding(<<c, leg>>) /\ ~N!Busy(<<c, leg>>)'
  BY <1>1 DEF CallConsistent, N!Busy, LegOf, Shapes, Requests
<1>4. CASE IsSuccess(response)
  <2>1. call' = [call EXCEPT ![c] = Completed(call[c], response)] /\ reads' = reads
    BY <1>1, <1>4 DEF PostsLoaded, Shapes
  <2>2. /\ CallDomain(call'[c]) /\ call'[c].phase = "done"
        /\ call'[c].group.notify = FALSE /\ call'[c].completions = 1
    BY <1>1, <1>2, <2>1, CompletedCall DEF Shapes
  <2>3. Shapes'
    BY <1>1, <2>1, <2>2 DEF Shapes
  <2>4. OnlyCall(c)
    BY <1>1, <2>1 DEF OnlyCall, Shapes, Requests
  <2>5. \A leg \in Legs : ~Outstanding(<<c, leg>>)'
    BY <1>3, <2>1 DEF Outstanding
  <2>6. CallConsistent(c)'
    BY <1>3, <2>2, <2>5 DEF CallConsistent
  <2> QED
    BY <1>1, <2>3, <2>4, <2>6, StepOfOneCall
<1>5. CASE ~IsSuccess(response)
  <2>1. /\ call' = [call EXCEPT ![c] = ReadingDatabase(call[c], NewGroup)]
        /\ reads' = [reads EXCEPT ![q] = F!Called(PostsNode)]
    BY <1>1, <1>5 DEF PostsLoaded, Shapes
  <2>2. /\ CallDomain(call'[c]) /\ call'[c].phase = "database"
        /\ call'[c].group.notify = FALSE /\ call'[c].completions = 0
        /\ call'[c].target = AllPosts
    BY <1>1, <1>2, <2>1, ReadingDatabaseCall, FreshShapes DEF Shapes, NewGroup
  <2>3. Shapes'
    BY <1>1, <2>1, <2>2, CalledFields DEF Shapes
  <2>4. OnlyCall(c)
    BY <1>1, <2>1 DEF OnlyCall, Shapes, Requests
  <2>5. \A leg \in Legs : Outstanding(<<c, leg>>)' => leg = "posts"
    BY <1>1, <1>3, <2>1 DEF Outstanding, Shapes, Requests
  <2>6. CallConsistent(c)'
    BY <1>3, <2>2, <2>5 DEF CallConsistent, LegOf
  <2> QED
    BY <1>1, <2>3, <2>4, <2>6, StepOfOneCall
<1> QED
  BY <1>4, <1>5

LEMMA RetrieveAllPostsWithoutURLKeepsInv ==
    ASSUME Inv, NEW c \in Calls, RetrieveAllPostsWithoutURL(c)
    PROVE  Inv'
<1> DEFINE q == <<c, "posts">>
<1>1. /\ alive /\ Shapes /\ CallConsistent(c) /\ call[c].phase = "idle"
      /\ q \in Requests
  BY DEF RetrieveAllPostsWithoutURL, Inv, Requests, Legs
<1>2. task' = [task EXCEPT ![q] = N!Refused(task[q])] /\ trap' = trap
  BY <1>1 DEF RetrieveAllPostsWithoutURL, N!RefuseRequest, Shapes
<1>3. TaskDomain(N!Refused(task[q])) /\ N!Refused(task[q]).phase = "done"
  BY <1>1 DEF Shapes, TaskDomain, N!Refused
<1>4. call[c].target = AllPosts /\ PostsLoaded(c, Failure("urlError"))
  BY <1>1 DEF CallConsistent, RetrieveAllPostsWithoutURL
<1> QED
  BY <1>1, <1>2, <1>3, <1>4, PostsLoadedKeepsInv

-----------------------------------------------------------------------------
(***************************************************************************)
(* The group of loadPostDetails counts the legs that were sent, and those  *)
(* that were refused have left their error in it.                          *)
(***************************************************************************)
LEMMA EnterFields ==
    ASSUME NEW group, GroupShape(group)
    PROVE  LET after == Enter(group)
           IN  /\ GroupShape(after)
               /\ after.count = group.count + 1
               /\ \A leg \in DetailLegs : Settled(group, leg) => Settled(after, leg)
BY DEF GroupShape, Enter, Settled

LEMMA LoadGroupFields ==
    ASSUME NEW refused \in SUBSET DetailLegs
    PROVE  LET group == LoadGroup(refused)
           IN  /\ GroupShape(group)
               /\ group.notify
               /\ group.count = (IF "user" \in refused THEN 0 ELSE 1)
                                + (IF "comments" \in refused THEN 0 ELSE 1)
               /\ \A leg \in refused : Settled(group, leg)
<1> DEFINE Request(group, leg) ==
             IF leg \in refused THEN Leave(Enter(group), leg, Failure("urlError"))
                                ELSE Enter(group)
           one == Request(NewGroup, "user")
           two == Request(one, "comments")
<1>1. LoadGroup(refused) = [two EXCEPT !.notify = TRUE]
  BY DEF LoadGroup
<1>2. "user" \in DetailLegs /\ "comments" \in DetailLegs
  BY DEF DetailLegs
<1>3. ASSUME NEW group, GroupShape(group), NEW leg \in DetailLegs
      PROVE  /\ GroupShape(Request(group, leg))
             /\ Request(group, leg).count = group.count + (IF leg \in refused THEN 0 ELSE 1)
             /\ leg \in refused => Settled(Request(group, leg), leg)
             /\ \A other \in DetailLegs :
                  Settled(group, other) => Settled(Request(group, leg), other)
  <2>1. CASE leg \in refused
    <3> DEFINE entered == Enter(group)
               left == Leave(entered, leg, Failure("urlError"))
    <3>1. /\ GroupShape(entered) /\ entered.count = group.count + 1
          /\ \A other \in DetailLegs : Settled(group, other) => Settled(entered, other)
      BY <1>3, EnterFields
    <3> HIDE DEF entered
    <3>2. /\ GroupShape(left) /\ left.count = entered.count - 1 /\ Settled(left, leg)
          /\ \A other \in DetailLegs : Settled(entered, other) => Settled(left, other)
      BY <1>3, <3>1, LeaveFields
    <3>3. Request(group, leg) = left
      BY <2>1 DEF entered
    <3>4. left.count = group.count + 0
      BY <1>3, <3>1, <3>2 DEF GroupShape
    <3> HIDE DEF left, Request
    <3> QED
      BY <2>1, <3>1, <3>2, <3>3, <3>4
  <2>2. CASE leg \notin refused
    BY <1>3, <2>2, EnterFields
  <2> QED
    BY <2>1, <2>2
<1> HIDE DEF Request
<1>4. NewGroup.count = 0
  BY DEF NewGroup
<1>5. /\ GroupShape(one)
      /\ one.count = IF "user" \in refused THEN 0 ELSE 1
      /\ "user" \in refused => Settled(one, "user")
  BY <1>2, <1>3, <1>4, FreshShapes
<1> HIDE DEF one
<1>6. /\ GroupShape(two)
      /\ two.count = (IF "user" \in refused THEN 0 ELSE 1)
                     + (IF "comments" \in refused THEN 0 ELSE 1)
      /\ \A leg \in refused : Settled(two, leg)
  BY <1>2, <1>3, <1>5 DEF DetailLegs
<1> HIDE DEF two
<1> QED
  BY <1>1, <1>6 DEF GroupShape, Settled

LEMMA RetrievePostDetailsKeepsInv ==
    ASSUME Inv, NEW c \in Calls, NEW post \in PostIds, NEW refused \in SUBSET DetailLegs,
           RetrievePostDetails(c, post, refused)
    PROVE  Inv'
<1> DEFINE group == LoadGroup(refused)
<1>1. /\ alive /\ Shapes /\ CallConsistent(c) /\ call[c].phase = "idle"
      /\ CallDomain(call[c]) /\ post # AllPosts
  BY DataAssumption DEF RetrievePostDetails, Inv, Shapes
<1>2. /\ GroupShape(group) /\ group.notify
      /\ group.count = (IF "user" \in refused THEN 0 ELSE 1)
                       + (IF "comments" \in refused THEN 0 ELSE 1)
      /\ \A leg \in refused : Settled(group, leg)
  BY LoadGroupFields
<1> HIDE DEF group
<1>3. /\ call' = [call EXCEPT ![c].phase = "network", ![c].target = post, ![c].group = group]
      /\ trap' = trap /\ reads' = reads
  BY DEF RetrievePostDetails, databaseVars, group
<1>4. /\ call'[c].phase = "network" /\ call'[c].target = post
      /\ call'[c].group = group /\ call'[c].completions = call[c].completions
      /\ CallDomain(call'[c])
  BY <1>1, <1>2, <1>3 DEF Shapes, CallDomain
<1>5. /\ DOMAIN task' = Requests
      /\ \A d \in Calls \ {c}, leg \in Legs : task'[<<d, leg>>] = task[<<d, leg>>]
      /\ \A leg \in DetailLegs :
           task'[<<c, leg>>] = IF leg \in refused THEN N!Refused(task[<<c, leg>>])
                                                  ELSE N!Sent(task[<<c, leg>>])
      /\ task'[<<c, "posts">>] = task[<<c, "posts">>]
  BY DEF RetrievePostDetails, Requests, Legs, DetailLegs
<1>6. \A q \in Requests : /\ TaskDomain(N!Refused(task[q])) /\ N!Refused(task[q]).phase = "done"
                          /\ TaskDomain(N!Sent(task[q])) /\ N!Sent(task[q]).phase = "running"
  BY <1>1 DEF Shapes, TaskDomain, N!Refused, N!Sent
<1>7. /\ Legs = DetailLegs \cup {"posts"} /\ "posts" \notin DetailLegs
      /\ \A leg \in Legs : <<c, leg>> \in Requests
  BY DEF Legs, DetailLegs, Requests
<1>8. \A leg \in DetailLegs : N!Busy(<<c, leg>>)' <=> leg \notin refused
  BY <1>5, <1>6, <1>7 DEF N!Busy
<1>9. /\ ~N!Busy(<<c, "posts">>)'
      /\ \A leg \in Legs : ~Outstanding(<<c, leg>>)'
      /\ call[c].completions = 0
  BY <1>1, <1>3, <1>5, <1>7 DEF N!Busy, Outstanding, CallConsistent
<1>10. \A q \in Requests : TaskDomain(task'[q])
  <2> SUFFICES ASSUME NEW d \in Calls, NEW leg \in Legs PROVE TaskDomain(task'[<<d, leg>>])
    BY DEF Requests
  <2>1. <<d, leg>> \in Requests
    BY DEF Requests
  <2> QED
    BY <1>1, <1>5, <1>6, <1>7, <2>1 DEF Shapes
<1>11. Shapes'
  BY <1>1, <1>3, <1>4, <1>5, <1>10 DEF Shapes
<1>12. OnlyCall(c)
  BY <1>1, <1>3, <1>5 DEF OnlyCall, Shapes
<1>13. /\ \A leg \in DetailLegs : Waiting(c, leg)' <=> leg \notin refused
       /\ "user" \in DetailLegs /\ "comments" \in DetailLegs
  BY <1>4, <1>8 DEF Waiting, DetailLegs
<1>14. call'[c].group.count = WaitingLegs(c)'
  BY <1>2, <1>4, <1>13 DEF WaitingLegs
<1>15. CallConsistent(c)'
  BY <1>1, <1>2, <1>4, <1>7, <1>9, <1>13, <1>14 DEF CallConsistent, LegOf
<1> QED
  BY <1>1, <1>3, <1>11, <1>12, <1>15, StepOfOneCall

-----------------------------------------------------------------------------
(***************************************************************************)
(* The completion of one detail leg, in either phase: the leg stops        *)
(* waiting, the group is left once, and the leg is settled.                *)
(***************************************************************************)
LEMMA LegCompletionKeepsInv ==
    ASSUME Inv, alive, trap' = trap, NEW c \in Calls, NEW leg \in DetailLegs, NEW response,
           call[c].target # AllPosts,
           call' = [call EXCEPT ![c].group = Leave(call[c].group, leg, response)],
           DOMAIN task' = Requests, \A q \in Requests : TaskDomain(task'[q]),
           DOMAIN reads' = Requests, \A q \in Requests : ReadShape(reads'[q]),
           \A q \in Requests \ {<<c, leg>>} : task'[q] = task[q] /\ reads'[q] = reads[q],
           \/ /\ call[c].phase = "network" /\ reads' = reads
              /\ task[<<c, leg>>].phase = "queued" /\ task'[<<c, leg>>].phase = "done"
           \/ /\ call[c].phase = "database" /\ task' = task
              /\ reads[<<c, leg>>].completions = 0 /\ reads'[<<c, leg>>].completions = 1
    PROVE  Inv'
<1> DEFINE after == Leave(call[c].group, leg, response)
<1>1. Shapes /\ CallConsistent(c) /\ CallDomain(call[c]) /\ GroupShape(call[c].group)
  BY DEF Inv, Shapes, CallDomain
<1>2. /\ GroupShape(after) /\ after.count = call[c].group.count - 1
      /\ after.notify = call[c].group.notify /\ Settled(after, leg)
      /\ \A other \in DetailLegs : Settled(call[c].group, other) => Settled(after, other)
  BY <1>1, LeaveFields
<1> HIDE DEF after
<1>3. /\ call'[c].phase = call[c].phase /\ call'[c].target = call[c].target
      /\ call'[c].group = after /\ call'[c].completions = call[c].completions
      /\ CallDomain(call'[c])
  BY <1>1, <1>2 DEF Shapes, CallDomain, after
<1>4. /\ \A l \in Legs : <<c, l>> \in Requests /\ (l # leg => <<c, l>> # <<c, leg>>)
      /\ DetailLegs = {"user", "comments"} /\ DetailLegs \subseteq Legs
  BY DEF Requests, DetailLegs, Legs
<1>5. \A l \in Legs \ {leg} : /\ N!Busy(<<c, l>>)' <=> N!Busy(<<c, l>>)
                              /\ Outstanding(<<c, l>>)' <=> Outstanding(<<c, l>>)
                              /\ Waiting(c, l)' <=> Waiting(c, l)
  BY <1>3, <1>4 DEF N!Busy, Outstanding, Waiting
<1>6. /\ Waiting(c, leg) /\ ~Waiting(c, leg)'
      /\ N!Busy(<<c, leg>>)' => N!Busy(<<c, leg>>)
      /\ Outstanding(<<c, leg>>)' => Outstanding(<<c, leg>>)
  BY <1>3 DEF Waiting, N!Busy, Outstanding
<1>7. Shapes'
  BY <1>1, <1>3 DEF Shapes
<1>8. OnlyCall(c)
  BY <1>1 DEF OnlyCall, Shapes, Requests
<1>9. \A l \in Legs : LegOf(c, l)' <=> LegOf(c, l)
  BY <1>3 DEF LegOf
<1>10. call[c].group.notify /\ call[c].group.count = WaitingLegs(c)
  BY <1>1 DEF CallConsistent
<1>11. after.count = WaitingLegs(c)'
  <2>1. WaitingLegs(c)' = WaitingLegs(c) - 1
    <3>1. CASE leg = "user"
      BY <1>4, <1>5, <1>6, <3>1 DEF WaitingLegs, Waiting, N!Busy
    <3>2. CASE leg = "comments"
      BY <1>4, <1>5, <1>6, <3>2 DEF WaitingLegs, Waiting, N!Busy
    <3> QED
      BY <1>4, <3>1, <3>2
  <2> QED
    BY <1>2, <1>10, <2>1
<1>12. \A l \in DetailLegs : ~Waiting(c, l)' => Settled(after, l)
  BY <1>1, <1>2, <1>4, <1>5, <1>10 DEF CallConsistent
<1>13. CallConsistent(c)'
  BY <1>1, <1>2, <1>3, <1>4, <1>5, <1>6, <1>9, <1>10, <1>11, <1>12 DEF CallConsistent
<1> QED
  BY <1>7, <1>8, <1>13, StepOfOneCall

LEMMA NetworkReplyKeepsInv ==
    ASSUME Inv, NEW q \in Requests, NetworkReply(q)
    PROVE  Inv'
<1>1. PICK reply : task' = [task EXCEPT ![q] = N!Answered(task[q], reply)]
  BY DEF NetworkReply, N!Handler, N!HandlerCalled, Inv, Shapes
<1>2. /\ alive /\ Shapes /\ TaskDomain(task[q]) /\ task[q].phase = "running"
      /\ call' = call /\ trap' = trap /\ reads' = reads
  BY DEF NetworkReply, N!Handler, N!HandlerCalled, Inv, Shapes, databaseVars
<1>3. TaskDomain(task'[q]) /\ task'[q].phase = "queued"
  BY <1>1, <1>2 DEF Shapes, TaskDomain, N!Answered
<1>4. Shapes'
  BY <1>1, <1>2, <1>3 DEF Shapes
<1>5. \A p \in Requests : N!Busy(p)' <=> N!Busy(p)
  BY <1>1, <1>2, <1>3 DEF N!Busy, Shapes
<1>6. ASSUME NEW c \in Calls PROVE CallConsistent(c)'
  <2>1. \A leg \in Legs : /\ N!Busy(<<c, leg>>)' <=> N!Busy(<<c, leg>>)
                          /\ Outstanding(<<c, leg>>)' <=> Outstanding(<<c, leg>>)
                          /\ Waiting(c, leg)' <=> Waiting(c, leg)
                          /\ LegOf(c, leg)' <=> LegOf(c, leg)
    BY <1>2, <1>5 DEF Outstanding, Waiting, LegOf, Requests
  <2>2. DetailLegs \subseteq Legs /\ "user" \in Legs /\ "comments" \in Legs
    BY DEF DetailLegs, Legs
  <2>3. WaitingLegs(c)' = WaitingLegs(c)
    BY <2>1, <2>2 DEF WaitingLegs
  <2>4. CallConsistent(c)
    BY <1>2 DEF Inv
  <2> QED
    BY <1>2, <2>1, <2>2, <2>3, <2>4 DEF CallConsistent
<1>7. CompletionOnce' /\ NoNilUnwrap'
  BY <1>2 DEF Inv, CompletionOnce, NoNilUnwrap
<1> QED
  BY <1>4, <1>6, <1>7 DEF Inv

LEMMA NetworkCompletionKeepsInv ==
    ASSUME Inv, NEW q \in Requests, NetworkCompletion(q)
    PROVE  Inv'
<1>1. PICK c \in Calls, leg \in Legs : q = <<c, leg>>
  BY DEF Requests
<1> DEFINE response == DecodedBody(N!ResponseTo(task[q].reply))
<1>2. /\ alive /\ Shapes /\ CallConsistent(c) /\ task[q].phase = "queued"
      /\ task' = [task EXCEPT ![q] = N!Finished(task[q])]
  BY <1>1 DEF NetworkCompletion, N!MainBlock, Inv, Shapes
<1>3. TaskDomain(N!Finished(task[q])) /\ N!Finished(task[q]).phase = "done"
  BY DEF TaskDomain, N!Finished
<1>4. N!Busy(<<c, leg>>) /\ call[c].phase = "network" /\ LegOf(c, leg)
  BY <1>1, <1>2 DEF N!Busy, CallConsistent
<1>5. CASE trap' = "users.first!" /\ call' = call /\ reads' = reads
  <2>1. Shapes'
    BY <1>2, <1>3, <1>5 DEF Shapes
  <2> QED
    BY <1>5, <2>1 DEF Inv, NoNilUnwrap, CompletionOnce, alive
<1>6. CASE leg = "posts" /\ PostsLoaded(c, response) /\ trap' = trap
  <2>1. call[c].target = AllPosts
    BY <1>4, <1>6 DEF LegOf
  <2> QED
    BY <1>1, <1>2, <1>3, <1>4, <1>6, <2>1, PostsLoadedKeepsInv
<1>7. CASE /\ leg \in DetailLegs
           /\ call' = [call EXCEPT ![c].group = Leave(call[c].group, leg, response)]
           /\ trap' = trap /\ reads' = reads
  <2>1. /\ DOMAIN task' = Requests /\ \A p \in Requests : TaskDomain(task'[p])
        /\ DOMAIN reads' = Requests /\ \A p \in Requests : ReadShape(reads'[p])
        /\ \A p \in Requests \ {<<c, leg>>} : task'[p] = task[p] /\ reads'[p] = reads[p]
        /\ task'[<<c, leg>>].phase = "done"
    BY <1>1, <1>2, <1>3, <1>7 DEF Shapes
  <2>2. call[c].target # AllPosts /\ call'[c].phase = "network"
    BY <1>2, <1>4, <1>7 DEF LegOf, DetailLegs, Shapes, CallDomain
  <2> QED
    BY <1>1, <1>2, <1>4, <1>7, <2>1, <2>2, LegCompletionKeepsInv
<1>8. \/ trap' = "users.first!" /\ call' = call /\ reads' = reads
      \/ leg = "posts" /\ PostsLoaded(c, response) /\ trap' = trap
      \/ /\ leg \in DetailLegs
         /\ call' = [call EXCEPT ![c].group = Leave(call[c].group, leg, response)]
         /\ trap' = trap /\ reads' = reads
  BY <1>1, <1>2 DEF NetworkCompletion, DetailLegs, Shapes
<1> QED
  BY <1>5, <1>6, <1>7, <1>8

-----------------------------------------------------------------------------
(***************************************************************************)
(* When a notify block runs no leg is waiting, so both are settled and     *)
(* responseError! has something to unwrap.                                 *)
(***************************************************************************)
LEMMA NotifyFindsSettledLegs ==
    ASSUME NEW c \in Calls, CallConsistent(c), GroupDone(call[c].group),
           call[c].phase \in {"network", "database"}
    PROVE  /\ call[c].target # AllPosts /\ call[c].completions = 0
           /\ \A leg \in DetailLegs : ~Waiting(c, leg)
           /\ GroupFilled(call[c].group) \/ call[c].group.responseError # Nil
<1>1. /\ call[c].target # AllPosts /\ call[c].completions = 0
      /\ WaitingLegs(c) = 0
  BY DEF CallConsistent, GroupDone
<1>2. ~Waiting(c, "user") /\ ~Waiting(c, "comments")
  BY <1>1 DEF WaitingLegs
<1>3. Settled(call[c].group, "user") /\ Settled(call[c].group, "comments")
  BY <1>2 DEF CallConsistent, GroupDone, DetailLegs
<1> QED
  BY <1>1, <1>2, <1>3 DEF Settled, GroupFilled, DetailLegs

LEMMA LoadPostDetailsNotifyKeepsInv ==
    ASSUME Inv, NEW c \in Calls, LoadPostDetailsNotify(c)
    PROVE  Inv'
<1> DEFINE group == call[c].group
           post == call[c].target
           uq == <<c, "user">>
           cq == <<c, "comments">>
<1>1. /\ alive /\ Shapes /\ CallConsistent(c) /\ CallDomain(call[c])
      /\ call[c].phase = "network" /\ GroupDone(group) /\ task' = task
  BY DEF LoadPostDetailsNotify, Inv, Shapes, networkVars
<1>2. /\ post # AllPosts /\ call[c].completions = 0
      /\ \A leg \in DetailLegs : ~Waiting(c, leg)
      /\ GroupFilled(group) \/ group.responseError # Nil
  BY <1>1, NotifyFindsSettledLegs
<1>3. DetailsLoaded(c) /\ trap' = trap
  BY <1>2 DEF LoadPostDetailsNotify
<1>4. /\ Legs = {"posts", "user", "comments"} /\ DetailLegs = {"user", "comments"}
      /\ uq \in Requests /\ cq \in Requests
  BY DEF Legs, DetailLegs, Requests
<1>5. \A leg \in Legs : ~N!Busy(<<c, leg>>) /\ ~Outstanding(<<c, leg>>)
  BY <1>1, <1>2, <1>4 DEF CallConsistent, LegOf, Waiting
<1>6. \A leg \in Legs : ~N!Busy(<<c, leg>>)'
  BY <1>1, <1>5 DEF N!Busy
<1>7. CASE GroupFilled(group)
  <2>1. PICK response : call' = [call EXCEPT ![c] = Completed(call[c], response)]
    BY <1>1, <1>3, <1>7 DEF DetailsLoaded, Shapes
  <2>2. reads' = reads
    BY <1>3, <1>7 DEF DetailsLoaded
  <2>3. /\ CallDomain(call'[c]) /\ call'[c].phase = "done"
        /\ call'[c].group.notify = FALSE /\ call'[c].completions = 1
    BY <1>1, <1>2, <2>1, CompletedCall DEF Shapes
  <2>4. Shapes'
    BY <1>1, <2>1, <2>2, <2>3 DEF Shapes
  <2>5. OnlyCall(c)
    BY <1>1, <2>1, <2>2 DEF OnlyCall, Shapes
  <2>6. \A leg \in Legs : ~Outstanding(<<c, leg>>)'
    BY <1>5, <2>2 DEF Outstanding
  <2>7. CallConsistent(c)'
    BY <1>6, <2>3, <2>6 DEF CallConsistent
  <2> QED
    BY <1>1, <1>3, <2>4, <2>5, <2>7, StepOfOneCall
<1>8. CASE ~GroupFilled(group)
  <2> DEFINE userRead == F!Called(UserNode(Author[post]))
             commentsRead == F!Called(CommentsNode(post))
  <2>1. /\ call' = [call EXCEPT ![c] = ReadingDatabase(call[c], ReadGroup)]
        /\ reads' = [reads EXCEPT ![uq] = userRead, ![cq] = commentsRead]
    BY <1>1, <1>3, <1>8 DEF DetailsLoaded, Shapes
  <2>2. /\ ReadShape(userRead) /\ userRead.completions = 0
        /\ ReadShape(commentsRead) /\ commentsRead.completions = 0
    BY CalledFields
  <2> HIDE DEF userRead, commentsRead
  <2>3. /\ CallDomain(call'[c]) /\ call'[c].phase = "database"
        /\ call'[c].group = ReadGroup /\ call'[c].completions = 0
        /\ call'[c].target = post
    BY <1>1, <1>2, <2>1, ReadingDatabaseCall, ReadGroupFields DEF Shapes
  <2>4. /\ DOMAIN reads' = Requests
        /\ reads'[uq] = userRead /\ reads'[cq] = commentsRead
        /\ \A q \in Requests \ {uq, cq} : reads'[q] = reads[q]
    BY <1>1, <1>4, <2>1 DEF Shapes
  <2>5. Shapes'
    BY <1>1, <2>1, <2>2, <2>3, <2>4 DEF Shapes
  <2>6. OnlyCall(c)
    BY <1>1, <2>1, <2>4 DEF OnlyCall, Shapes, Requests
  <2>7. ~Outstanding(<<c, "posts">>)'
    <3>1. <<c, "posts">> \in Requests \ {uq, cq}
      BY DEF Requests, Legs
    <3> QED
      BY <1>4, <1>5, <2>4, <3>1 DEF Outstanding
  <2>8. \A leg \in DetailLegs : Waiting(c, leg)'
    BY <1>4, <2>2, <2>3, <2>4 DEF Waiting
  <2>9. WaitingLegs(c)' = 2
    BY <2>2, <2>3, <2>4 DEF WaitingLegs, Waiting
  <2>10. CallConsistent(c)'
    BY <1>2, <1>4, <1>6, <2>3, <2>7, <2>8, <2>9, ReadGroupFields DEF CallConsistent, LegOf
  <2> QED
    BY <1>1, <1>3, <2>5, <2>6, <2>10, StepOfOneCall
<1> QED
  BY <1>7, <1>8

LEMMA ReadPostDetailsNotifyKeepsInv ==
    ASSUME Inv, NEW c \in Calls, ReadPostDetailsNotify(c)
    PROVE  Inv'
<1>1. /\ alive /\ Shapes /\ CallConsistent(c) /\ CallDomain(call[c])
      /\ call[c].phase = "database" /\ GroupDone(call[c].group)
      /\ task' = task /\ reads' = reads
  BY DEF ReadPostDetailsNotify, Inv, Shapes, networkVars, databaseVars
<1>2. /\ call[c].target # AllPosts /\ call[c].completions = 0
      /\ \A leg \in DetailLegs : ~Waiting(c, leg)
      /\ GroupFilled(call[c].group) \/ call[c].group.responseError # Nil
  BY <1>1, NotifyFindsSettledLegs
<1>3. /\ \E response : call' = [call EXCEPT ![c] = Completed(call[c], response)]
      /\ trap' = trap
  BY <1>1, <1>2 DEF ReadPostDetailsNotify, Shapes
<1>4. PICK response : call' = [call EXCEPT ![c] = Completed(call[c], response)]
  BY <1>3
<1>5. \A leg \in Legs : ~N!Busy(<<c, leg>>)' /\ ~Outstanding(<<c, leg>>)'
  <2>1. \A leg \in Legs : ~N!Busy(<<c, leg>>) /\ ~Outstanding(<<c, leg>>)
    BY <1>1, <1>2 DEF CallConsistent, LegOf, Waiting, Outstanding, Legs, DetailLegs
  <2> QED
    BY <1>1, <2>1 DEF N!Busy, Outstanding
<1>6. /\ CallDomain(call'[c]) /\ call'[c].phase = "done"
      /\ call'[c].group.notify = FALSE /\ call'[c].completions = 1
  BY <1>1, <1>2, <1>4, CompletedCall DEF Shapes
<1>7. Shapes'
  BY <1>1, <1>4, <1>6 DEF Shapes
<1>8. OnlyCall(c)
  BY <1>1, <1>4 DEF OnlyCall, Shapes
<1>9. CallConsistent(c)'
  BY <1>5, <1>6 DEF CallConsistent
<1> QED
  BY <1>1, <1>3, <1>7, <1>8, <1>9, StepOfOneCall

-----------------------------------------------------------------------------
(***************************************************************************)
(* What a read() that does not kill the process leaves to the retrieval.   *)
(***************************************************************************)
ReadContinues(q) ==
    LET c   == q[1]
        leg == q[2]
        response == DecodedValue(reads'[q].response)
    IN  /\ trap' = trap
        /\ \/ reads'[q].completions = reads[q].completions /\ call' = call
           \/ /\ reads'[q].completions # reads[q].completions
              /\ response # Success(Scalar)
              /\ call' = IF leg = "posts"
                         THEN [call EXCEPT ![c] = Completed(@,
                                 IF IsSuccess(response) THEN response
                                 ELSE Failure("unableToReadAllPostsData"))]
                         ELSE [call EXCEPT ![c].group = Leave(@, leg, response)]

LEMMA AfterReadCases ==
    ASSUME NEW q, AfterRead(q)
    PROVE  ReadContinues(q) \/ (trap' = "JSONSerialization.data" /\ call' = call)
BY Zenon DEF AfterRead, ReadContinues

(***************************************************************************)
(* A process that dies of a read()'s value runs no closure any more.       *)
(***************************************************************************)
LEMMA DeadReadKeepsInv ==
    ASSUME Inv, trap' = "JSONSerialization.data", call' = call, task' = task,
           NEW q \in Requests, NEW after, ReadShape(after),
           reads' = [reads EXCEPT ![q] = after]
    PROVE  Inv'
<1>1. Shapes'
  BY DEF Inv, Shapes
<1> QED
  BY <1>1 DEF Inv, NoNilUnwrap, CompletionOnce, alive

(***************************************************************************)
(* One of the two closures of a read() has run.  If it is the second one,  *)
(* the completion is not called again and the retrieval does not notice.   *)
(***************************************************************************)
LEMMA AfterReadKeepsInv ==
    ASSUME Inv, alive, task' = task, NEW q \in Requests, NEW after,
           reads[q].observing \/ reads[q].timer,
           ReadShape(after), after.completions = 1,
           reads' = [reads EXCEPT ![q] = after], ReadContinues(q)
    PROVE  Inv'
<1>1. PICK c \in Calls, leg \in Legs : q = <<c, leg>>
  BY DEF Requests
<1>2. /\ Shapes /\ CallConsistent(c) /\ CallDomain(call[c]) /\ ReadShape(reads[q])
      /\ reads'[q] = after
      /\ DOMAIN reads' = Requests /\ \A p \in Requests : ReadShape(reads'[p])
      /\ \A p \in Requests \ {q} : reads'[p] = reads[p]
      /\ trap' = trap
  BY <1>1 DEF Inv, Shapes, ReadContinues
<1>3. CASE reads[q].completions = 1
  <2>1. call' = call
    BY <1>2, <1>3 DEF ReadContinues
  <2>2. Shapes' /\ OnlyCall(c)
    BY <1>1, <1>2, <2>1 DEF Shapes, OnlyCall, Requests
  <2>3. \A p \in Requests : /\ N!Busy(p)' <=> N!Busy(p)
                            /\ Outstanding(p)' <=> Outstanding(p)
                            /\ reads'[p].completions = reads[p].completions
    BY <1>2, <1>3 DEF N!Busy, Outstanding
  <2>4. \A l \in Legs : /\ N!Busy(<<c, l>>)' <=> N!Busy(<<c, l>>)
                        /\ Outstanding(<<c, l>>)' <=> Outstanding(<<c, l>>)
                        /\ Waiting(c, l)' <=> Waiting(c, l)
                        /\ LegOf(c, l)' <=> LegOf(c, l)
    BY <2>1, <2>3 DEF Waiting, LegOf, Requests
  <2>5. DetailLegs \subseteq Legs /\ "user" \in Legs /\ "comments" \in Legs
    BY DEF DetailLegs, Legs
  <2>6. WaitingLegs(c)' = WaitingLegs(c)
    BY <2>4, <2>5 DEF WaitingLegs
  <2>7. CallConsistent(c)'
    BY <1>2, <2>1, <2>4, <2>5, <2>6 DEF CallConsistent
  <2> QED
    BY <1>2, <2>2, <2>7, StepOfOneCall
<1>4. CASE reads[q].completions = 0
  <2>1. call[c].phase = "database" /\ LegOf(c, leg) /\ call[c].completions = 0
    BY <1>1, <1>2, <1>4 DEF CallConsistent, Outstanding
  <2>2. CASE leg = "posts"
    <3>1. after.completions # reads[q].completions
      BY <1>4
    <3>2. PICK response : call' = [call EXCEPT ![c] = Completed(call[c], response)]
      BY <1>1, <1>2, <2>2, <3>1, Zenon DEF ReadContinues
    <3>3. /\ CallDomain(call'[c]) /\ call'[c].phase = "done"
          /\ call'[c].group.notify = FALSE /\ call'[c].completions = 1
      <4> DEFINE done == Completed(call[c], response)
      <4>1. /\ CallDomain(done) /\ done.phase = "done"
            /\ done.group.notify = FALSE /\ done.completions = 1
        <5>1. CallDomain(call[c]) /\ call[c].completions = 0
          BY <1>2, <2>1
        <5> QED
          BY <5>1, CompletedCall
      <4> HIDE DEF done
      <4>2. call'[c] = done
        BY <1>2, <3>2 DEF Shapes, done
      <4> QED
        BY <4>1, <4>2
    <3>4. Shapes'
      BY <1>2, <3>2, <3>3 DEF Shapes
    <3>5. OnlyCall(c)
      BY <1>1, <1>2, <3>2 DEF OnlyCall, Shapes, Requests
    <3>6. \A l \in Legs : ~N!Busy(<<c, l>>)' /\ ~Outstanding(<<c, l>>)'
      <4>1. \A l \in Legs : ~N!Busy(<<c, l>>) /\ (l # leg => ~Outstanding(<<c, l>>))
        BY <1>2, <2>1, <2>2 DEF CallConsistent, LegOf
      <4>2. \A l \in Legs : /\ <<c, l>> \in Requests
                            /\ l # leg => reads'[<<c, l>>] = reads[<<c, l>>]
        BY <1>1, <1>2 DEF Requests
      <4> QED
        BY <1>1, <1>2, <4>1, <4>2 DEF N!Busy, Outstanding
    <3>7. CallConsistent(c)'
      BY <3>3, <3>6 DEF CallConsistent
    <3> QED
      BY <1>2, <3>4, <3>5, <3>7, StepOfOneCall
  <2>3. CASE leg # "posts"
    <3>2. leg \in DetailLegs /\ call[c].target # AllPosts
      BY <2>1, <2>3 DEF Legs, DetailLegs, LegOf
    <3>1. after.completions # reads[q].completions
      BY <1>4
    <3>3. PICK response :
            call' = [call EXCEPT ![c].group = Leave(call[c].group, leg, response)]
      BY <1>1, <1>2, <2>3, <3>1, Zenon DEF ReadContinues
    <3>4. /\ DOMAIN task' = Requests /\ \A p \in Requests : TaskDomain(task'[p])
          /\ \A p \in Requests \ {<<c, leg>>} : task'[p] = task[p] /\ reads'[p] = reads[p]
          /\ reads[<<c, leg>>].completions = 0 /\ reads'[<<c, leg>>].completions = 1
      BY <1>1, <1>2, <1>4 DEF Shapes
    <3> QED
      BY <1>2, <2>1, <3>2, <3>3, <3>4, LegCompletionKeepsInv
  <2> QED
    BY <2>2, <2>3
<1> QED
  BY <1>2, <1>3, <1>4 DEF ReadShape

LEMMA DatabaseObserveKeepsInv ==
    ASSUME Inv, NEW q \in Requests, DatabaseObserve(q)
    PROVE  Inv'
<1> DEFINE value == F!SnapshotValue(reads[q].node)
<1>1. /\ alive /\ Shapes /\ ReadShape(reads[q]) /\ reads[q].observing
      /\ task' = task /\ AfterRead(q)
      /\ reads' = [reads EXCEPT ![q] = F!SnapshotTaken(reads[q], value)]
  BY DEF DatabaseObserve, F!Observe, Inv, Shapes, networkVars
<1> HIDE DEF value
<1>2. /\ ReadShape(F!SnapshotTaken(reads[q], value))
      /\ F!SnapshotTaken(reads[q], value).completions = 1
  BY <1>1, SnapshotTakenFields
<1> QED
  BY <1>1, <1>2, AfterReadCases, AfterReadKeepsInv, DeadReadKeepsInv

LEMMA DatabaseTimeoutKeepsInv ==
    ASSUME Inv, NEW q \in Requests, DatabaseTimeout(q)
    PROVE  Inv'
<1>1. /\ alive /\ Shapes /\ ReadShape(reads[q]) /\ reads[q].timer
      /\ task' = task /\ AfterRead(q)
      /\ reads' = [reads EXCEPT ![q] = F!TimerFired(reads[q])]
  BY DEF DatabaseTimeout, F!Timeout, Inv, Shapes, networkVars
<1>2. ReadShape(F!TimerFired(reads[q])) /\ F!TimerFired(reads[q]).completions = 1
  BY <1>1, TimerFiredFields
<1> QED
  BY <1>1, <1>2, AfterReadCases, AfterReadKeepsInv, DeadReadKeepsInv

-----------------------------------------------------------------------------
(***************************************************************************)
(* The servers, the connection and a new process.                          *)
(***************************************************************************)
LEMMA UnchangedKeepsInv ==
    ASSUME Inv, call' = call, task' = task, reads' = reads, trap' = trap
    PROVE  Inv'
<1>1. Shapes' /\ CompletionOnce' /\ NoNilUnwrap' /\ (alive' <=> alive)
  BY DEF Inv, Shapes, CompletionOnce, NoNilUnwrap, alive
<1>2. alive => \A c \in Calls : CallConsistent(c)'
  BY UntouchedCall DEF Inv
<1> QED
  BY <1>1, <1>2 DEF Inv

LEMMA RelaunchEstablishesInv ==
    ASSUME Relaunch
    PROVE  Inv'
<1>1. /\ call' = [c \in Calls |-> NotStarted]
      /\ task' = [q \in Requests |-> N!NotRequested]
      /\ reads' = [q \in Requests |-> F!NotCalled]
      /\ trap' = "none"
  BY DEF Relaunch, F!Relaunch
<1>2. Shapes'
  BY <1>1, FreshShapes DEF Shapes
<1>3. ASSUME NEW c \in Calls PROVE CallConsistent(c)'
  <2>1. \A leg \in Legs : ~N!Busy(<<c, leg>>)' /\ ~Outstanding(<<c, leg>>)'
    BY <1>1 DEF N!Busy, N!NotRequested, Outstanding, F!NotCalled, Requests
  <2>2. /\ call'[c].phase = "idle" /\ call'[c].target = AllPosts
        /\ call'[c].completions = 0 /\ call'[c].group.notify = FALSE
    BY <1>1 DEF NotStarted, NewGroup
  <2> QED
    BY <2>1, <2>2 DEF CallConsistent
<1>4. CompletionOnce' /\ NoNilUnwrap'
  BY <1>1, <1>3 DEF CompletionOnce, CallConsistent, NoNilUnwrap
<1> QED
  BY <1>2, <1>3, <1>4 DEF Inv

LEMMA StepKeepsInv == Inv /\ [Next]_vars => Inv'
<1> SUFFICES ASSUME Inv, [Next]_vars PROVE Inv'
  OBVIOUS
<1>1. ASSUME NEW c \in Calls,
             \/ RetrieveAllPosts(c) \/ RetrieveAllPostsWithoutURL(c)
             \/ \E post \in PostIds, refused \in SUBSET {"user", "comments"} :
                  RetrievePostDetails(c, post, refused)
             \/ LoadPostDetailsNotify(c) \/ ReadPostDetailsNotify(c)
      PROVE  Inv'
  <2>1. DetailLegs = {"user", "comments"}
    BY DEF DetailLegs
  <2> QED
    BY <1>1, <2>1, RetrieveAllPostsKeepsInv, RetrieveAllPostsWithoutURLKeepsInv,
       RetrievePostDetailsKeepsInv, LoadPostDetailsNotifyKeepsInv,
       ReadPostDetailsNotifyKeepsInv
<1>2. ASSUME NEW q \in Requests,
             \/ NetworkReply(q) \/ NetworkCompletion(q)
             \/ DatabaseObserve(q) \/ DatabaseTimeout(q)
      PROVE  Inv'
  BY <1>2, NetworkReplyKeepsInv, NetworkCompletionKeepsInv, DatabaseObserveKeepsInv,
     DatabaseTimeoutKeepsInv
<1>3. ASSUME \/ \E n \in Nodes : ServerCommits(n) \/ ServerRejects(n)
             \/ Reconnect
             \/ UNCHANGED vars
      PROVE  Inv'
  <2>1. call' = call /\ task' = task /\ reads' = reads /\ trap' = trap
    BY <1>3 DEF ServerCommits, ServerRejects, Reconnect, F!Commit, F!Reject, F!Reconnect,
                networkVars, databaseVars, vars
  <2> QED
    BY <2>1, UnchangedKeepsInv
<1>4. CASE Relaunch
  BY <1>4, RelaunchEstablishesInv
<1> QED
  BY <1>1, <1>2, <1>3, <1>4 DEF Next

LEMMA InvAlways == Spec => []Inv
BY InitEstablishesInv, StepKeepsInv, PTL DEF Spec

-----------------------------------------------------------------------------
(***************************************************************************)
(* responseError! of loadPostDetails and readPostDetails never unwraps nil, *)
(* for any number of retrievals, posts and launches.                       *)
(***************************************************************************)
THEOREM ErrorIsNeverNil == Spec => []NoNilUnwrap
<1>1. Inv => NoNilUnwrap
  BY DEF Inv
<1> QED
  BY <1>1, InvAlways, PTL

(***************************************************************************)
(* retrieveAllPosts and retrievePostDetails call their completion at most  *)
(* once.                                                                   *)
(***************************************************************************)
THEOREM RetrievalCompletesOnce == Spec => []CompletionOnce
<1>1. Inv => CompletionOnce
  BY DEF Inv
<1> QED
  BY <1>1, InvAlways, PTL

(***************************************************************************)
(* No closure of a phase that is over can still run and be noticed: late   *)
(* answers of the web service and of the database meet nobody.             *)
(***************************************************************************)
THEOREM NoStrayClosure == Spec => []ClosuresMatchPhase
<1>1. Inv => ClosuresMatchPhase
  BY DEF Inv, ClosuresMatchPhase, CallConsistent
<1> QED
  BY <1>1, InvAlways, PTL

(***************************************************************************)
(* Every enter() of a dispatch group is matched by the leave() of exactly  *)
(* one leg that is still to complete.                                      *)
(***************************************************************************)
THEOREM GroupsBalanced == Spec => []GroupCountsOutstandingLegs
<1>1. ASSUME NEW c \in Calls
      PROVE  Cardinality({leg \in DetailLegs : Waiting(c, leg)}) = WaitingLegs(c)
  <2> DEFINE W == {leg \in DetailLegs : Waiting(c, leg)}
  <2>1. W = (IF Waiting(c, "user") THEN {"user"} ELSE {})
            \cup (IF Waiting(c, "comments") THEN {"comments"} ELSE {})
    BY DEF DetailLegs
  <2>2. /\ Cardinality({}) = 0
        /\ Cardinality({"user"}) = 1 /\ IsFiniteSet({"user"})
        /\ Cardinality({"comments"}) = 1
    BY FS_EmptySet, FS_Singleton
  <2>3. Cardinality({"user"} \cup {"comments"}) = 2
    <3>1. Cardinality({"user"} \cup {"comments"}) = Cardinality({"user"}) + 1
      <4>1. "comments" \notin {"user"}
        OBVIOUS
      <4> QED
        BY <2>2, <4>1, FS_AddElement, Zenon
    <3> QED
      BY <2>2, <3>1
  <2> HIDE DEF W
  <2>4. CASE Waiting(c, "user") /\ Waiting(c, "comments")
    <3>1. W = {"user"} \cup {"comments"}
      BY <2>1, <2>4
    <3> QED
      BY <2>3, <2>4, <3>1 DEF WaitingLegs, W
  <2>5. CASE Waiting(c, "user") /\ ~Waiting(c, "comments")
    <3>1. W = {"user"}
      BY <2>1, <2>5
    <3> QED
      BY <2>2, <2>5, <3>1 DEF WaitingLegs, W
  <2>6. CASE ~Waiting(c, "user") /\ Waiting(c, "comments")
    <3>1. W = {"comments"}
      BY <2>1, <2>6
    <3> QED
      BY <2>2, <2>6, <3>1 DEF WaitingLegs, W
  <2>7. CASE ~Waiting(c, "user") /\ ~Waiting(c, "comments")
    <3>1. W = {}
      BY <2>1, <2>7
    <3> QED
      BY <2>2, <2>7, <3>1 DEF WaitingLegs, W
  <2> QED
    BY <2>4, <2>5, <2>6, <2>7
<1>2. Inv => GroupCountsOutstandingLegs
  BY <1>1 DEF Inv, CallConsistent, GroupCountsOutstandingLegs
<1> QED
  BY <1>2, InvAlways, PTL

-----------------------------------------------------------------------------
(***************************************************************************)
(* The refinement of Retrieval.  abs is the status function DataProvider   *)
(* substitutes for the variable of Retrieval.                              *)
(***************************************************************************)
abs == [c \in Calls |-> StatusOf(c)]

LEMMA SameCallsStutter ==
    ASSUME call' = call, trap' = trap
    PROVE  abs' = abs
BY DEF abs, StatusOf, alive

(***************************************************************************)
(* A step of the closures of one retrieval of a living process.            *)
(***************************************************************************)
LEMMA OneStatusChanges ==
    ASSUME alive, trap' = trap, NEW c \in Calls, \A d \in Calls \ {c} : call'[d] = call[d]
    PROVE  abs' = [abs EXCEPT ![c] = StatusOf(c)']
<1>1. \A d \in Calls \ {c} : StatusOf(d)' = StatusOf(d)
  BY DEF StatusOf, alive
<1> QED
  BY <1>1 DEF abs

LEMMA SamePhaseStutters ==
    ASSUME alive, trap' = trap, NEW c \in Calls, \A d \in Calls \ {c} : call'[d] = call[d],
           call[c].phase \in {"network", "database"}, call'[c].phase \in {"network", "database"}
    PROVE  abs' = abs
<1>1. StatusOf(c)' = "pending" /\ StatusOf(c) = "pending"
  BY DEF StatusOf, alive
<1> QED
  BY <1>1, OneStatusChanges DEF abs

LEMMA StartRefined ==
    ASSUME alive, trap' = trap, NEW c \in Calls, \A d \in Calls \ {c} : call'[d] = call[d],
           call[c].phase = "idle", call'[c].phase \in {"network", "database"}
    PROVE  R!Next
<1>1. StatusOf(c)' = "pending" /\ StatusOf(c) = "idle"
  BY DEF StatusOf, alive
<1>2. R!Start(c)
  BY <1>1, OneStatusChanges DEF R!Start, abs
<1> QED
  BY <1>2 DEF R!Next

LEMMA CompletionRefined ==
    ASSUME alive, trap' = trap, NEW c \in Calls, DOMAIN call = Calls, CallDomain(call[c]),
           call[c].phase \in {"network", "database"}, NEW response,
           call' = [call EXCEPT ![c] = Completed(call[c], response)]
    PROVE  R!Next
<1>1. call'[c].phase = "done" /\ StatusOf(c) = "pending"
  BY DEF StatusOf, alive, Completed, CallDomain
<1>2. StatusOf(c)' = "succeeded" \/ StatusOf(c)' = "failed"
  BY <1>1 DEF StatusOf, alive
<1>3. R!Succeed(c) \/ R!Fail(c)
  BY <1>1, <1>2, OneStatusChanges DEF R!Succeed, R!Fail, abs
<1> QED
  BY <1>3 DEF R!Next, R!Complete

LEMMA DeathRefined ==
    ASSUME \/ trap' # "none"
           \/ call' = [c \in Calls |-> NotStarted]
    PROVE  R!Next
<1>1. \A c \in Calls : StatusOf(c)' = "idle"
  BY DEF StatusOf, alive, NotStarted
<1>2. R!Die
  BY <1>1 DEF R!Die
<1> QED
  BY <1>2 DEF R!Next

LEMMA PostsLoadedRefined ==
    ASSUME Inv, alive, trap' = trap, NEW c \in Calls, NEW response, PostsLoaded(c, response),
           call[c].phase = "network" \/ (call[c].phase = "idle" /\ ~IsSuccess(response))
    PROVE  [R!Next]_abs
<1>1. DOMAIN call = Calls /\ CallDomain(call[c])
  BY DEF Inv, Shapes
<1>2. CASE IsSuccess(response)
  <2>1. call' = [call EXCEPT ![c] = Completed(call[c], response)]
    BY <1>1, <1>2 DEF PostsLoaded
  <2> QED
    BY <1>1, <1>2, <2>1, CompletionRefined
<1>3. CASE ~IsSuccess(response)
  <2>1. call' = [call EXCEPT ![c] = ReadingDatabase(call[c], NewGroup)]
    BY <1>1, <1>3 DEF PostsLoaded
  <2>2. call'[c].phase = "database" /\ \A d \in Calls \ {c} : call'[d] = call[d]
    BY <1>1, <2>1 DEF ReadingDatabase, CallDomain
  <2> QED
    BY <2>2, StartRefined, SamePhaseStutters
<1> QED
  BY <1>2, <1>3

(***************************************************************************)
(* One of the closures of a read() has run.                                *)
(***************************************************************************)
LEMMA AfterReadRefined ==
    ASSUME Inv, alive, NEW q \in Requests, AfterRead(q),
           reads'[q].completions = 1, reads[q].observing \/ reads[q].timer
    PROVE  [R!Next]_abs
<1>1. PICK c \in Calls, leg \in Legs : q = <<c, leg>>
  BY DEF Requests
<1>2. DOMAIN call = Calls /\ CallDomain(call[c]) /\ CallConsistent(c) /\ ReadShape(reads[q])
  BY <1>1 DEF Inv, Shapes
<1>3. CASE trap' = "JSONSerialization.data"
  BY <1>3, DeathRefined
<1>4. CASE ReadContinues(q) /\ reads[q].completions = 1
  <2>1. call' = call /\ trap' = trap
    BY <1>4 DEF ReadContinues
  <2> QED
    BY <2>1, SameCallsStutter
<1>5. CASE ReadContinues(q) /\ reads[q].completions = 0
  <2>0. trap' = trap
    BY <1>5 DEF ReadContinues
  <2>1. call[c].phase = "database"
    BY <1>1, <1>2, <1>5 DEF CallConsistent, Outstanding
  <2>2. reads'[q].completions # reads[q].completions
    BY <1>5
  <2>3. CASE leg = "posts"
    <3>1. PICK response : call' = [call EXCEPT ![c] = Completed(call[c], response)]
      BY <1>1, <1>2, <1>5, <2>2, <2>3, Zenon DEF ReadContinues
    <3> QED
      BY <1>2, <2>0, <2>1, <3>1, CompletionRefined
  <2>4. CASE leg # "posts"
    <3>1. PICK response :
            call' = [call EXCEPT ![c].group = Leave(call[c].group, leg, response)]
      BY <1>1, <1>2, <1>5, <2>2, <2>4, Zenon DEF ReadContinues
    <3>2. call'[c].phase = "database" /\ \A d \in Calls \ {c} : call'[d] = call[d]
      BY <1>2, <2>1, <3>1 DEF CallDomain
    <3> QED
      BY <2>0, <2>1, <3>2, SamePhaseStutters
  <2> QED
    BY <2>3, <2>4
<1> QED
  BY <1>2, <1>3, <1>4, <1>5, AfterReadCases DEF ReadShape

LEMMA StepRefined ==
    ASSUME Inv, [Next]_vars
    PROVE  [R!Next]_abs
<1>0. Shapes /\ DOMAIN call = Calls /\ \A c \in Calls : CallDomain(call[c])
  BY DEF Inv, Shapes
<1>1. ASSUME NEW c \in Calls, RetrieveAllPosts(c) PROVE R!Next
  <2>1. /\ alive /\ trap' = trap /\ call[c].phase = "idle"
        /\ call' = [call EXCEPT ![c].phase = "network"]
    BY <1>1 DEF RetrieveAllPosts
  <2>2. call'[c].phase = "network" /\ \A d \in Calls \ {c} : call'[d] = call[d]
    BY <1>0, <2>1 DEF CallDomain
  <2> QED
    BY <2>1, <2>2, StartRefined
<1>2. ASSUME NEW c \in Calls, RetrieveAllPostsWithoutURL(c) PROVE [R!Next]_abs
  <2>1. ~IsSuccess(Failure("urlError"))
    BY DEF IsSuccess, Failure
  <2>2. /\ alive /\ trap' = trap /\ call[c].phase = "idle"
        /\ PostsLoaded(c, Failure("urlError"))
    BY <1>2 DEF RetrieveAllPostsWithoutURL
  <2> QED
    BY <2>1, <2>2, PostsLoadedRefined
<1>3. ASSUME NEW c \in Calls, NEW post \in PostIds, NEW refused \in SUBSET {"user", "comments"},
             RetrievePostDetails(c, post, refused)
      PROVE  R!Next
  <2>1. /\ alive /\ trap' = trap /\ call[c].phase = "idle"
        /\ call' = [call EXCEPT ![c].phase = "network", ![c].target = post,
                                ![c].group = LoadGroup(refused)]
    BY <1>3 DEF RetrievePostDetails
  <2>2. call'[c].phase = "network" /\ \A d \in Calls \ {c} : call'[d] = call[d]
    BY <1>0, <2>1 DEF CallDomain
  <2> QED
    BY <2>1, <2>2, StartRefined
<1>4. ASSUME NEW q \in Requests, NetworkCompletion(q) PROVE [R!Next]_abs
  <2>1. PICK c \in Calls, leg \in Legs : q = <<c, leg>>
    BY DEF Requests
  <2> DEFINE response == DecodedBody(N!ResponseTo(task[q].reply))
  <2>2. alive /\ task[q].phase = "queued" /\ CallConsistent(c)
    BY <1>4, <2>1 DEF NetworkCompletion, N!MainBlock, Inv
  <2>3. call[c].phase = "network"
    BY <2>1, <2>2 DEF CallConsistent, N!Busy
  <2>4. \/ trap' = "users.first!"
        \/ leg = "posts" /\ PostsLoaded(c, response) /\ trap' = trap
        \/ /\ call' = [call EXCEPT ![c].group = Leave(call[c].group, leg, response)]
           /\ trap' = trap
    BY <1>0, <1>4, <2>1 DEF NetworkCompletion
  <2> HIDE DEF response
  <2>5. CASE trap' = "users.first!"
    BY <2>5, DeathRefined
  <2>6. CASE PostsLoaded(c, response) /\ trap' = trap
    BY <2>2, <2>3, <2>6, PostsLoadedRefined
  <2>7. CASE /\ call' = [call EXCEPT ![c].group = Leave(call[c].group, leg, response)]
             /\ trap' = trap
    <3>1. call'[c].phase = "network" /\ \A d \in Calls \ {c} : call'[d] = call[d]
      BY <1>0, <2>3, <2>7 DEF CallDomain
    <3> QED
      BY <2>2, <2>3, <2>7, <3>1, SamePhaseStutters
  <2> QED
    BY <2>4, <2>5, <2>6, <2>7
<1>5. ASSUME NEW c \in Calls, LoadPostDetailsNotify(c) PROVE [R!Next]_abs
  <2>1. /\ alive /\ call[c].phase = "network"
        /\ \/ trap' = "responseError!"
           \/ DetailsLoaded(c) /\ trap' = trap
    BY <1>5 DEF LoadPostDetailsNotify
  <2>2. CASE trap' = "responseError!"
    BY <2>2, DeathRefined
  <2>3. CASE DetailsLoaded(c) /\ trap' = trap
    <3>1. \/ \E response : call' = [call EXCEPT ![c] = Completed(call[c], response)]
          \/ call' = [call EXCEPT ![c] = ReadingDatabase(call[c], ReadGroup)]
      BY <1>0, <2>3 DEF DetailsLoaded
    <3>2. CASE call' = [call EXCEPT ![c] = ReadingDatabase(call[c], ReadGroup)]
      <4>1. call'[c].phase = "database" /\ \A d \in Calls \ {c} : call'[d] = call[d]
        BY <1>0, <3>2 DEF ReadingDatabase, CallDomain
      <4> QED
        BY <2>1, <2>3, <4>1, SamePhaseStutters
    <3> QED
      BY <1>0, <2>1, <2>3, <3>1, <3>2, CompletionRefined
  <2> QED
    BY <2>1, <2>2, <2>3
<1>6. ASSUME NEW c \in Calls, ReadPostDetailsNotify(c) PROVE [R!Next]_abs
  <2>1. /\ alive /\ call[c].phase = "database"
        /\ \/ trap' = "responseError!"
           \/ /\ \E response : call' = [call EXCEPT ![c] = Completed(call[c], response)]
              /\ trap' = trap
    BY <1>0, <1>6 DEF ReadPostDetailsNotify
  <2> QED
    BY <1>0, <2>1, DeathRefined, CompletionRefined
<1>7. ASSUME NEW q \in Requests, DatabaseObserve(q) PROVE [R!Next]_abs
  <2> DEFINE value == F!SnapshotValue(reads[q].node)
  <2>1. /\ alive /\ ReadShape(reads[q]) /\ reads[q].observing /\ AfterRead(q)
        /\ reads'[q] = F!SnapshotTaken(reads[q], value)
    BY <1>0, <1>7 DEF DatabaseObserve, F!Observe, Shapes
  <2> HIDE DEF value
  <2>2. reads'[q].completions = 1
    BY <2>1, SnapshotTakenFields
  <2> QED
    BY <2>1, <2>2, AfterReadRefined
<1>8. ASSUME NEW q \in Requests, DatabaseTimeout(q) PROVE [R!Next]_abs
  <2>1. /\ alive /\ ReadShape(reads[q]) /\ reads[q].timer /\ AfterRead(q)
        /\ reads'[q] = F!TimerFired(reads[q])
    BY <1>0, <1>8 DEF DatabaseTimeout, F!Timeout, Shapes
  <2>2. reads'[q].completions = 1
    BY <2>1, TimerFiredFields
  <2> QED
    BY <2>1, <2>2, AfterReadRefined
<1>9. ASSUME \/ \E q \in Requests : NetworkReply(q)
             \/ \E n \in Nodes : ServerCommits(n) \/ ServerRejects(n)
             \/ Reconnect
             \/ UNCHANGED vars
      PROVE  abs' = abs
  <2>1. call' = call /\ trap' = trap
    BY <1>9 DEF NetworkReply, ServerCommits, ServerRejects, Reconnect, vars
  <2> QED
    BY <2>1, SameCallsStutter
<1>10. CASE Relaunch
  <2>1. call' = [c \in Calls |-> NotStarted]
    BY <1>10 DEF Relaunch
  <2> QED
    BY <2>1, DeathRefined
<1> QED
  BY <1>1, <1>2, <1>3, <1>4, <1>5, <1>6, <1>7, <1>8, <1>9, <1>10 DEF Next

(***************************************************************************)
(* The safety half of ImplementsRetrieval, for any number of retrievals:   *)
(* however the web service, the database and the process behave, what a    *)
(* view controller sees of DataProvider is a behaviour of Retrieval.  Late *)
(* answers are stutters, and a success or a failure never changes again    *)
(* before the process dies.                                                *)
(***************************************************************************)
THEOREM RetrievalIsRefined == Spec => R!Safety
<1>1. Init => R!Init
  <2>1. ASSUME Init PROVE \A c \in Calls : StatusOf(c) = "idle"
    BY <2>1 DEF Init, StatusOf, NotStarted
  <2> QED
    BY <2>1 DEF R!Init
<1>2. Inv /\ [Next]_vars => [R!Next]_abs
  BY StepRefined
<1> QED
  BY <1>1, <1>2, InvAlways, PTL DEF Spec, R!Safety, abs

-----------------------------------------------------------------------------
(***************************************************************************)
(* What the data is.  The values of a node, once foreign data has failed   *)
(* to decode, are the ones the app writes there.                           *)
(***************************************************************************)
LegNode(c, leg) ==
    IF leg = "posts" THEN PostsNode
    ELSE IF leg = "user" THEN UserNode(Author[call[c].target]) ELSE CommentsNode(call[c].target)

LegValues(leg) ==
    IF leg = "posts" THEN {"posts", EmptyArray}
    ELSE IF leg = "user" THEN UserIds ELSE CommentLists \cup {EmptyArray}

LEMMA LastOfSeq ==
    ASSUME NEW S, NEW s \in Seq(S), s # << >>
    PROVE  s[Len(s)] \in S /\ Head(s) \in S /\ Tail(s) \in Seq(S)
<1>1. Len(s) \in 1 .. Len(s)
  OBVIOUS
<1> QED
  BY <1>1

LEMMA FirstPosts ==
    \A list \in CommentLists : FirstPost(list) \in PostIds /\ list \in ListsOf(FirstPost(list))
<1> SUFFICES ASSUME NEW list \in CommentLists
             PROVE  FirstPost(list) \in PostIds /\ list \in ListsOf(FirstPost(list))
  OBVIOUS
<1>1. PostsOf[list] \in Seq(PostIds) /\ PostsOf[list] # << >>
  BY DataAssumption
<1>2. Head(PostsOf[list]) \in PostIds
  BY <1>1, LastOfSeq
<1> QED
  BY <1>2 DEF FirstPost, ListsOf

LEMMA NodeValues ==
    /\ PostsNode \in Nodes /\ \A u \in UserIds : UserNode(u) \in Nodes
    /\ \A p \in PostIds : CommentsNode(p) \in Nodes
    /\ Own(PostsNode) = {"posts", EmptyArray}
    /\ \A u \in UserIds : /\ Own(UserNode(u)) = {u}
                          /\ UserNode(u) # PostsNode
                          /\ \A p \in PostIds : UserNode(u) # CommentsNode(p)
    /\ \A p \in PostIds : /\ Own(CommentsNode(p)) = ListsOf(p)
                          /\ CommentsNode(p) # PostsNode /\ CommentsNode(p)[2] = p
    /\ \A n \in Nodes : /\ Values[n] = ForeignData \cup Own(n)
                        /\ Values[n] \ {Malformed, Scalar} = Own(n)
                        /\ n # PostsNode => EmptyArray \notin Own(n)
<1>1. /\ PostsNode \in Nodes /\ \A u \in UserIds : UserNode(u) \in Nodes
      /\ \A p \in PostIds : CommentsNode(p) \in Nodes
      /\ \A n \in Nodes : \/ n = PostsNode \/ \E u \in UserIds : n = UserNode(u)
                          \/ \E p \in PostIds : n = CommentsNode(p)
  BY DEF Nodes
<1>2. /\ \A u \in UserIds : UserNode(u) # PostsNode /\ UserNode(u)[1] = "users" /\ UserNode(u)[2] = u
      /\ \A p \in PostIds : /\ CommentsNode(p) # PostsNode /\ CommentsNode(p)[1] = "comments"
                            /\ CommentsNode(p)[2] = p
  BY DEF UserNode, CommentsNode, PostsNode
<1>3. \A u \in UserIds, p \in PostIds : UserNode(u) # CommentsNode(p)
  BY <1>2
<1>4. Own(PostsNode) = {"posts", EmptyArray}
  BY DEF Own
<1>5. ASSUME NEW u \in UserIds PROVE Own(UserNode(u)) = {u}
  BY <1>2 DEF Own
<1>6. ASSUME NEW p \in PostIds PROVE Own(CommentsNode(p)) = ListsOf(p)
  BY <1>2, <1>3 DEF Own
<1>7. ASSUME NEW n \in Nodes
      PROVE  /\ Values[n] = ForeignData \cup Own(n)
             /\ Values[n] \ {Malformed, Scalar} = Own(n)
             /\ n # PostsNode => EmptyArray \notin Own(n)
  <2>1. /\ ForeignData \subseteq {Malformed, Scalar}
        /\ Malformed \notin {"posts", EmptyArray} /\ Scalar \notin {"posts", EmptyArray}
        /\ {EmptyArray, Malformed, Scalar} \cap (UserIds \cup CommentLists) = {}
    BY DataAssumption DEF Malformed, Scalar, EmptyArray
  <2>2. /\ Malformed \notin Own(n) /\ Scalar \notin Own(n)
        /\ n # PostsNode => EmptyArray \notin Own(n)
    BY <1>1, <1>4, <1>5, <1>6, <2>1 DEF ListsOf
  <2>3. Values[n] = ForeignData \cup Own(n)
    BY DEF Values
  <2> QED
    BY <2>1, <2>2, <2>3
<1> QED
  BY <1>1, <1>2, <1>3, <1>4, <1>5, <1>6, <1>7

(***************************************************************************)
(* What the database can hold at a node: the comments are lists that are   *)
(* known, and a list once known stays known.                               *)
(***************************************************************************)
Held(n) == IF n \in {CommentsNode(p) : p \in PostIds} THEN ForeignData \cup KnownLists(n[2])
           ELSE Values[n]

KnownListsStay == \A p \in PostIds : KnownLists(p) \subseteq KnownLists(p)'

LEMMA HeldValues ==
    /\ \A n \in Nodes : Held(n) \subseteq Values[n]
    /\ \A p \in PostIds : Held(CommentsNode(p)) = ForeignData \cup KnownLists(p)
    /\ \A u \in UserIds : Held(UserNode(u)) = Values[UserNode(u)]
    /\ Held(PostsNode) = Values[PostsNode]
<1>1. \A p \in PostIds : KnownLists(p) \subseteq ListsOf(p)
  BY DEF KnownLists
<1>2. \A p \in PostIds : Held(CommentsNode(p)) = ForeignData \cup KnownLists(p)
  BY NodeValues DEF Held
<1>3. \A u \in UserIds : Held(UserNode(u)) = Values[UserNode(u)]
  BY NodeValues DEF Held
<1>4. Held(PostsNode) = Values[PostsNode]
  BY NodeValues DEF Held
<1>5. ASSUME NEW n \in Nodes PROVE Held(n) \subseteq Values[n]
  <2>1. CASE n \in {CommentsNode(p) : p \in PostIds}
    <3>1. PICK p \in PostIds : n = CommentsNode(p)
      BY <2>1
    <3> QED
      BY <1>1, <1>2, <3>1, NodeValues
  <2>2. CASE n \notin {CommentsNode(p) : p \in PostIds}
    BY <2>2 DEF Held
  <2> QED
    BY <2>1, <2>2
<1> QED
  BY <1>2, <1>3, <1>4, <1>5

LEMMA HeldStays ==
    ASSUME KnownListsStay, NEW n \in Nodes
    PROVE  Held(n) \subseteq Held(n)'
<1>1. CASE n \in {CommentsNode(p) : p \in PostIds}
  <2>1. PICK p \in PostIds : n = CommentsNode(p)
    BY <1>1
  <2>2. n[2] = p
    BY <2>1, NodeValues
  <2>3. KnownLists(n[2]) \subseteq KnownLists(n[2])'
    BY <2>2 DEF KnownListsStay
  <2> QED
    BY <1>1, <2>3 DEF Held
<1>2. CASE n \notin {CommentsNode(p) : p \in PostIds}
  BY <1>2 DEF Held
<1> QED
  BY <1>1, <1>2

LEMMA StepKeepsKnownLists ==
    ASSUME [Next]_vars
    PROVE  inherited' = inherited /\ downloaded \subseteq downloaded' /\ KnownListsStay
<1>1. inherited' = inherited /\ downloaded \subseteq downloaded'
  BY DEF Next, RetrieveAllPosts, RetrieveAllPostsWithoutURL, RetrievePostDetails, PostsLoaded,
         LoadPostDetailsNotify, DetailsLoaded, ReadPostDetailsNotify, NetworkReply,
         NetworkCompletion, DatabaseObserve, DatabaseTimeout, ServerCommits, ServerRejects,
         Reconnect, Relaunch, historyVars, vars
<1>2. KnownListsStay
  BY <1>1 DEF KnownListsStay, KnownLists
<1> QED
  BY <1>1, <1>2

(***************************************************************************)
(* The response of a leg of the network, and of one of the database.       *)
(***************************************************************************)
LEMMA BodyType ==
    ASSUME NEW c \in Calls, NEW leg \in Legs, NEW reply \in N!Replies(<<c, leg>>),
           leg = "user" => reply # EmptyArray
    PROVE  LET response == DecodedBody(N!ResponseTo(reply))
           IN  \/ IsSuccess(response) /\ \E v \in LegValues(leg) : response = Success(v)
               \/ ~IsSuccess(response) /\ \E e \in NetworkErrors : response = Failure(e)
<1> USE DEF IsSuccess, Success, Failure, N!Success, N!Failure
<1>1. /\ \A e : ~IsSuccess(Failure(e)) /\ Failure(e).value = e
      /\ \A v : IsSuccess(Success(v)) /\ Success(v).value = v
  OBVIOUS
<1>2. CASE reply = "error"
  BY <1>1, <1>2 DEF N!ResponseTo, DecodedBody, NetworkErrors
<1>3. CASE reply = "noData"
  BY <1>1, <1>3 DEF N!ResponseTo, DecodedBody, NetworkErrors
<1>4. CASE reply \notin {"error", "noData"}
  <2>1. <<c, leg>> \in Requests /\ <<c, leg>>[2] = leg
    BY DEF Requests
  <2>2. reply \in Payloads[<<c, leg>>]
    BY <1>4 DEF N!Replies
  <2>3. reply \in {Malformed, EmptyArray} \cup LegValues(leg)
    <3>1. CASE leg = "posts"
      BY <2>1, <2>2, <3>1 DEF Payloads, LegValues
    <3>2. CASE leg = "user"
      BY <2>1, <2>2, <3>2 DEF Payloads, LegValues
    <3>3. CASE leg = "comments"
      BY <2>1, <2>2, <3>3 DEF Payloads, LegValues
    <3> QED
      BY <3>1, <3>2, <3>3 DEF Legs
  <2>4. N!ResponseTo(reply) = Success(reply)
    BY <1>4 DEF N!ResponseTo
  <2>5. CASE reply = Malformed
    BY <1>1, <2>4, <2>5 DEF DecodedBody, NetworkErrors
  <2>6. CASE reply # Malformed
    <3>1. reply \in LegValues(leg)
      BY <2>3, <2>6 DEF LegValues, Legs
    <3>2. DecodedBody(N!ResponseTo(reply)) = Success(reply)
      BY <1>1, <2>4, <2>6 DEF DecodedBody
    <3> QED
      BY <1>1, <3>1, <3>2
  <2> QED
    BY <2>5, <2>6
<1> QED
  BY <1>2, <1>3, <1>4

ReadResponses(n) == {Failure("databaseReadError")} \cup {Success(v) : v \in Held(n)}

LEMMA ValueType ==
    ASSUME NEW n, NEW answer \in ReadResponses(n)
    PROVE  LET response == DecodedValue(answer)
           IN  \/ /\ IsSuccess(response)
                  /\ \E v \in Held(n) \ {Malformed} : response = Success(v)
               \/ ~IsSuccess(response) /\ \E e \in DatabaseErrors : response = Failure(e)
<1> USE DEF IsSuccess, Success, Failure
<1>1. CASE answer = Failure("databaseReadError")
  BY <1>1 DEF DecodedValue, DatabaseErrors
<1>2. ASSUME NEW v \in Held(n), answer = Success(v), v = Malformed
      PROVE  DecodedValue(answer) = Failure("conversionError")
  BY <1>2 DEF DecodedValue
<1>3. ASSUME NEW v \in Held(n), answer = Success(v), v # Malformed
      PROVE  DecodedValue(answer) = Success(v)
  BY <1>3 DEF DecodedValue
<1> QED
  BY <1>1, <1>2, <1>3 DEF ReadResponses, DatabaseErrors

-----------------------------------------------------------------------------
(***************************************************************************)
(* The groups.                                                             *)
(***************************************************************************)
LEMMA LeaveType ==
    ASSUME NEW group \in GroupType, NEW leg \in DetailLegs, NEW response,
           \/ IsSuccess(response) /\ \E v \in LegValues(leg) : response = Success(v)
           \/ /\ ~IsSuccess(response)
              /\ \E e \in NetworkErrors \cup DatabaseErrors : response = Failure(e)
    PROVE  LET after == Leave(group, leg, response)
           IN  /\ after \in GroupType
               /\ after.user = IF leg = "user" /\ IsSuccess(response)
                               THEN Some(response.value) ELSE group.user
               /\ after.comments = IF leg = "comments" /\ IsSuccess(response)
                                   THEN Some(response.value) ELSE group.comments
<1> DEFINE left == [group EXCEPT !.count = @ - 1]
<1>1. left \in GroupType /\ left.user = group.user /\ left.comments = group.comments
  BY DEF GroupType
<1>2. Leave(group, leg, response) =
        IF ~IsSuccess(response) THEN [left EXCEPT !.responseError = Some(response.value)]
        ELSE IF leg = "user" THEN [left EXCEPT !.user = Some(response.value)]
                             ELSE [left EXCEPT !.comments = Some(response.value)]
  BY DEF Leave
<1> HIDE DEF left
<1>3. CASE ~IsSuccess(response)
  <2>1. Some(response.value) \in Optional(NetworkErrors \cup DatabaseErrors)
    BY <1>3 DEF Optional, Failure
  <2> QED
    BY <1>1, <1>2, <1>3, <2>1 DEF GroupType
<1>4. CASE IsSuccess(response) /\ leg = "user"
  <2>1. Some(response.value) \in Optional(UserIds)
    BY <1>4 DEF Optional, Success, LegValues
  <2> QED
    BY <1>1, <1>2, <1>4, <2>1 DEF GroupType
<1>5. CASE IsSuccess(response) /\ leg = "comments"
  <2>1. Some(response.value) \in Optional(CommentLists \cup {EmptyArray})
    BY <1>5 DEF Optional, Success, LegValues
  <2> QED
    BY <1>1, <1>2, <1>5, <2>1 DEF GroupType
<1> QED
  BY <1>3, <1>4, <1>5 DEF DetailLegs

LEMMA NewGroupsType ==
    /\ NewGroup \in GroupType
    /\ ReadGroup \in GroupType /\ ReadGroup.user = Nil /\ ReadGroup.comments = Nil
    /\ \A refused \in SUBSET DetailLegs : LoadGroup(refused) \in GroupType
<1>0. "user" \in DetailLegs /\ "comments" \in DetailLegs
  BY DEF DetailLegs
<1>1. NewGroup \in GroupType /\ NewGroup.user = Nil /\ NewGroup.comments = Nil
  BY DEF NewGroup, GroupType, Optional
<1>2. ASSUME NEW group \in GroupType
      PROVE  /\ Enter(group) \in GroupType
             /\ Enter(group).user = group.user /\ Enter(group).comments = group.comments
             /\ [group EXCEPT !.notify = TRUE] \in GroupType
             /\ [group EXCEPT !.notify = TRUE].user = group.user
             /\ [group EXCEPT !.notify = TRUE].comments = group.comments
  <2>1. /\ Enter(group) \in GroupType
        /\ Enter(group).user = group.user /\ Enter(group).comments = group.comments
    BY DEF Enter, GroupType
  <2>2. /\ [group EXCEPT !.notify = TRUE] \in GroupType
        /\ [group EXCEPT !.notify = TRUE].user = group.user
        /\ [group EXCEPT !.notify = TRUE].comments = group.comments
    BY DEF GroupType
  <2> QED
    BY <2>1, <2>2
<1>3. ReadGroup \in GroupType /\ ReadGroup.user = Nil /\ ReadGroup.comments = Nil
  BY <1>1, <1>2 DEF ReadGroup
<1>4. ASSUME NEW group \in GroupType, NEW leg \in DetailLegs
      PROVE  Leave(group, leg, Failure("urlError")) \in GroupType
  <2>1. ~IsSuccess(Failure("urlError")) /\ "urlError" \in NetworkErrors
    BY DEF IsSuccess, Failure, NetworkErrors
  <2> QED
    BY <2>1, LeaveType
<1>5. ASSUME NEW refused \in SUBSET DetailLegs PROVE LoadGroup(refused) \in GroupType
  <2> DEFINE Request(group, leg) ==
               IF leg \in refused THEN Leave(Enter(group), leg, Failure("urlError"))
                                  ELSE Enter(group)
  <2>1. \A group \in GroupType, leg \in DetailLegs : Request(group, leg) \in GroupType
    BY <1>2, <1>4
  <2>2. LoadGroup(refused) =
          [Request(Request(NewGroup, "user"), "comments") EXCEPT !.notify = TRUE]
    BY DEF LoadGroup
  <2> HIDE DEF Request
  <2> QED
    BY <1>0, <1>1, <1>2, <2>1, <2>2
<1> QED
  BY <1>1, <1>3, <1>5

(***************************************************************************)
(* The details of a filled group.                                          *)
(***************************************************************************)
LEMMA DetailsType ==
    ASSUME NEW group \in GroupType, GroupFilled(group)
    PROVE  \E user \in UserIds, comments \in CommentLists \cup {EmptyArray} :
             /\ group.user = Some(user) /\ group.comments = Some(comments)
             /\ Unwrapped(group.user) = user /\ Unwrapped(group.comments) = comments
             /\ Details(group) = <<user, comments>>
<1>1. PICK user \in UserIds : group.user = Some(user)
  BY DEF GroupType, GroupFilled, Optional
<1>2. PICK comments \in CommentLists \cup {EmptyArray} : group.comments = Some(comments)
  BY DEF GroupType, GroupFilled, Optional
<1>3. Unwrapped(group.user) = user /\ Unwrapped(group.comments) = comments
  BY <1>1, <1>2 DEF Unwrapped, Some
<1> QED
  BY <1>1, <1>2, <1>3 DEF Details

(***************************************************************************)
(* A read() and its two closures.                                          *)
(***************************************************************************)
LEMMA ReadTypes ==
    /\ F!NotCalled \in F!ReadRecord /\ ~F!NotCalled.observing /\ ~F!NotCalled.timer
    /\ F!NotCalled.completions = 0
    /\ \A n \in Nodes : /\ F!Called(n) \in F!ReadRecord
                        /\ F!Called(n).node = n /\ F!Called(n).response = NoResponse
BY DEF F!NotCalled, F!Called, F!ReadRecord

LEMMA ReadCompletedType ==
    ASSUME NEW read \in F!ReadRecord, NEW response \in F!Responses
    PROVE  LET after == F!Completed(read, response)
           IN  /\ after \in F!ReadRecord /\ after.node = read.node
               /\ after.response = response
<1> DEFINE after == F!Completed(read, response)
<1>1. after = [read EXCEPT !.response = response, !.completions = read.completions + 1]
  BY DEF F!Completed, F!ReadRecord
<1>2. read.completions + 1 \in Nat
  BY DEF F!ReadRecord
<1> HIDE DEF after
<1>3. after \in F!ReadRecord /\ after.node = read.node /\ after.response = response
  BY <1>1, <1>2 DEF F!ReadRecord
<1> QED
  BY <1>3 DEF after

LEMMA AnswersAreResponses ==
    ASSUME NEW n \in Nodes
    PROVE  ReadResponses(n) \subseteq F!Responses
BY HeldValues DEF ReadResponses, F!Responses, F!AllValues, F!DatabaseErrors, Success, Failure

LEMMA SnapshotTakenType ==
    ASSUME NEW read \in F!ReadRecord, NEW n \in Nodes, read.node = n,
           NEW value \in Held(n) \cup {Null}
    PROVE  LET after == F!SnapshotTaken(read, value)
           IN  /\ after \in F!ReadRecord /\ after.node = n
               /\ \/ after.response = read.response /\ after.completions = read.completions
                  \/ after.response \in ReadResponses(n)
<1> DEFINE seen == [read EXCEPT !.observing = FALSE, !.didComplete = TRUE]
           response == IF value # Null THEN F!Success(value) ELSE F!Failure("databaseReadError")
<1>1. /\ seen \in F!ReadRecord /\ seen.node = n /\ seen.response = read.response
      /\ seen.completions = read.completions
  BY DEF F!ReadRecord
<1>2. response \in ReadResponses(n)
  BY DEF ReadResponses, F!Success, F!Failure, Success, Failure
<1>3. F!SnapshotTaken(read, value) =
        IF read.didTimeout THEN seen ELSE F!Completed(seen, response)
  BY DEF F!SnapshotTaken
<1> HIDE DEF seen, response
<1> QED
  BY <1>1, <1>2, <1>3, ReadCompletedType, AnswersAreResponses

LEMMA TimerFiredType ==
    ASSUME NEW read \in F!ReadRecord, NEW n \in Nodes, read.node = n
    PROVE  LET after == F!TimerFired(read)
           IN  /\ after \in F!ReadRecord /\ after.node = n
               /\ \/ after.response = read.response /\ after.completions = read.completions
                  \/ after.response \in ReadResponses(n)
<1> DEFINE fired == [read EXCEPT !.timer = FALSE]
           late == [fired EXCEPT !.didTimeout = TRUE]
           response == F!Failure("databaseReadError")
<1>1. /\ fired \in F!ReadRecord /\ fired.node = n /\ fired.response = read.response
      /\ fired.completions = read.completions
  BY DEF F!ReadRecord
<1>2. F!TimerFired(read) =
        IF ~read.didTimeout /\ ~read.didComplete THEN F!Completed(late, response) ELSE fired
  BY DEF F!TimerFired
<1> HIDE DEF fired
<1>3. late \in F!ReadRecord /\ late.node = n
  BY <1>1 DEF F!ReadRecord
<1>4. response \in ReadResponses(n)
  BY DEF ReadResponses, F!Failure, Failure
<1> HIDE DEF late, response
<1> QED
  BY <1>1, <1>2, <1>3, <1>4, ReadCompletedType, AnswersAreResponses

-----------------------------------------------------------------------------
(***************************************************************************)
(* The invariant of the data.  A read() that was made is one of its        *)
(* retrieval's own legs, on the node that belongs to the selected post;    *)
(* what the group of a retrieval holds while the database is read can only *)
(* be the author and a known list that begins with a comment of the post.  *)
(***************************************************************************)
CallResponses(target) ==
    {NoResponse} \cup Answers(target) \cup {Failure(e) : e \in DataErrors}

ReadOf(c, leg) ==
    \/ reads[<<c, leg>>] = F!NotCalled
    \/ /\ call[c].phase \in {"database", "done"}
       /\ LegOf(c, leg)
       /\ reads[<<c, leg>>].node = LegNode(c, leg)

GroupOfPost(group, post) ==
    /\ group.user \in {Nil, Some(Author[post])}
    /\ group.comments \in Optional(KnownLists(post))

CallOK(c) ==
    /\ call[c] \in CallType
    /\ call[c].response \in CallResponses(call[c].target)
    /\ call[c].phase # "done" => call[c].response = NoResponse
    /\ \A leg \in Legs : ReadOf(c, leg)
    /\ call[c].phase = "database" /\ call[c].target # AllPosts =>
         GroupOfPost(call[c].group, call[c].target)
    /\ AnsweredByDatabase(c) /\ IsSuccess(call[c].response) =>
         call[c].response.value \in {Author[call[c].target]} \X KnownLists(call[c].target)

CallsOK ==
    /\ reads \in [Requests -> F!ReadRecord]
    /\ \A c \in Calls : CallOK(c)

LEMMA DatabaseAnswersDetails ==
    ASSUME NEW c \in Calls, CallOK(c), AnsweredByDatabase(c)
    PROVE  call[c].target \in PostIds
<1>1. "user" \in Legs /\ reads[<<c, "user">>].completions > 0
  BY DEF Legs, AnsweredByDatabase
<1>2. reads[<<c, "user">>] # F!NotCalled
  BY <1>1, ReadTypes
<1>3. LegOf(c, "user") /\ call[c].target \in PostIds \cup {AllPosts}
  BY <1>1, <1>2 DEF CallOK, ReadOf, CallType
<1> QED
  BY <1>3 DEF LegOf

LEMMA UntouchedCallOK ==
    ASSUME KnownListsStay, NEW d \in Calls, CallOK(d), call'[d] = call[d],
           \A leg \in Legs : reads'[<<d, leg>>] = reads[<<d, leg>>]
    PROVE  CallOK(d)'
<1>1. "user" \in Legs
  BY DEF Legs
<1>2. /\ \A leg \in Legs : ReadOf(d, leg)' <=> ReadOf(d, leg)
      /\ AnsweredByDatabase(d)' <=> AnsweredByDatabase(d)
  BY <1>1 DEF ReadOf, LegOf, LegNode, AnsweredByDatabase
<1>3. ASSUME call[d].phase = "database", call[d].target # AllPosts
      PROVE  GroupOfPost(call[d].group, call[d].target)'
  <2>1. call[d].target \in PostIds /\ GroupOfPost(call[d].group, call[d].target)
    BY <1>3 DEF CallOK, CallType
  <2> QED
    BY <2>1 DEF GroupOfPost, KnownListsStay, Optional
<1>4. ASSUME AnsweredByDatabase(d), IsSuccess(call[d].response)
      PROVE  (call[d].response.value \in {Author[call[d].target]} \X KnownLists(call[d].target))'
  <2>1. /\ call[d].target \in PostIds
        /\ call[d].response.value \in {Author[call[d].target]} \X KnownLists(call[d].target)
    BY <1>4, DatabaseAnswersDetails DEF CallOK
  <2> QED
    BY <2>1 DEF KnownListsStay
<1>5. call'[d] \in CallType /\ call'[d].response \in CallResponses(call'[d].target)
      /\ (call'[d].phase # "done" => call'[d].response = NoResponse)
  BY DEF CallOK
<1> QED
  BY <1>2, <1>3, <1>4, <1>5 DEF CallOK

(***************************************************************************)
(* A step of the closures of c that makes no read().                       *)
(***************************************************************************)
LEMMA CallStep ==
    ASSUME KnownListsStay, CallsOK, NEW c \in Calls, reads' = reads, CallOK(c)',
           \A d \in Calls \ {c} : call'[d] = call[d]
    PROVE  CallsOK'
BY UntouchedCallOK DEF CallsOK

LEMMA CompletedType ==
    ASSUME NEW k \in CallType, NEW response \in CallResponses(k.target)
    PROVE  LET after == Completed(k, response)
           IN  /\ after \in CallType
               /\ after.phase = "done" /\ after.target = k.target /\ after.response = response
<1> DEFINE after == Completed(k, response)
<1>1. /\ after = [k EXCEPT !.phase = "done", !.group = NewGroup, !.response = response,
                           !.completions = k.completions + 1]
      /\ k.completions + 1 \in Nat
  BY DEF Completed, CallType
<1> HIDE DEF after
<1>2. response \in (UNION {Answers(t) : t \in PostIds \cup {AllPosts}})
                   \cup {Failure(e) : e \in DataErrors} \cup {NoResponse}
  <2> DEFINE U == UNION {Answers(t) : t \in PostIds \cup {AllPosts}}
  <2>1. k.target \in PostIds \cup {AllPosts}
    BY DEF CallType
  <2>2. Answers(k.target) \subseteq U
    BY <2>1
  <2> HIDE DEF U
  <2>3. response \in U \cup {Failure(e) : e \in DataErrors} \cup {NoResponse}
    BY <2>2 DEF CallResponses
  <2> QED
    BY <2>3 DEF U
<1>3. /\ after \in CallType
      /\ after.phase = "done" /\ after.target = k.target /\ after.response = response
  BY <1>1, <1>2, NewGroupsType DEF CallType
<1> QED
  BY <1>3 DEF after

LEMMA ReadingDatabaseType ==
    ASSUME NEW k \in CallType, NEW group \in GroupType
    PROVE  LET after == ReadingDatabase(k, group)
           IN  /\ after \in CallType
               /\ after.phase = "database" /\ after.target = k.target
               /\ after.group = group /\ after.response = k.response
BY DEF ReadingDatabase, CallType

(***************************************************************************)
(* Until the network has answered, no read() has been made.                *)
(***************************************************************************)
LEMMA NoReadsYet ==
    ASSUME NEW c \in Calls, CallOK(c), call[c].phase \in {"idle", "network"}
    PROVE  \A leg \in Legs : reads[<<c, leg>>] = F!NotCalled
BY DEF CallOK, ReadOf

(***************************************************************************)
(* Completed by the network.                                               *)
(***************************************************************************)
LEMMA NetworkAnswerKeepsCallsOK ==
    ASSUME KnownListsStay, CallsOK, NEW c \in Calls, DOMAIN call = Calls, call[c].phase \in {"idle", "network"},
           NEW response \in CallResponses(call[c].target), reads' = reads,
           call' = [call EXCEPT ![c] = Completed(call[c], response)]
    PROVE  CallsOK'
<1>1. CallOK(c) /\ call[c] \in CallType
  BY DEF CallsOK, CallOK
<1>2. /\ call'[c] \in CallType /\ call'[c].phase = "done"
      /\ call'[c].target = call[c].target /\ call'[c].response = response
  BY <1>1, CompletedType
<1>3. "user" \in Legs /\ \A leg \in Legs : reads'[<<c, leg>>] = F!NotCalled
  BY <1>1, NoReadsYet DEF Legs
<1>4. ~AnsweredByDatabase(c)'
  BY <1>3, ReadTypes DEF AnsweredByDatabase
<1>5. CallOK(c)'
  BY <1>2, <1>3, <1>4 DEF CallOK, ReadOf
<1> QED
  BY <1>5, CallStep

LEMMA PostsLoadedKeepsCallsOK ==
    ASSUME KnownListsStay, Inv, CallsOK, NEW c \in Calls, NEW response, PostsLoaded(c, response),
           call[c].phase \in {"idle", "network"}, call[c].target = AllPosts,
           IsSuccess(response) => \E v \in LegValues("posts") : response = Success(v)
    PROVE  CallsOK'
<1>1. DOMAIN call = Calls /\ DOMAIN reads = Requests /\ CallOK(c) /\ call[c] \in CallType
  BY DEF CallsOK, CallOK, Inv, Shapes
<1>2. CASE IsSuccess(response)
  <2>1. call' = [call EXCEPT ![c] = Completed(call[c], response)] /\ reads' = reads
    BY <1>1, <1>2 DEF PostsLoaded
  <2>2. response \in CallResponses(AllPosts)
    BY <1>2 DEF CallResponses, Answers, LegValues
  <2> QED
    BY <1>1, <2>1, <2>2, NetworkAnswerKeepsCallsOK
<1>3. CASE ~IsSuccess(response)
  <2> DEFINE q == <<c, "posts">>
  <2>1. /\ call' = [call EXCEPT ![c] = ReadingDatabase(call[c], NewGroup)]
        /\ reads' = [reads EXCEPT ![q] = F!Called(PostsNode)]
    BY <1>1, <1>3 DEF PostsLoaded
  <2>2. /\ call'[c] \in CallType /\ call'[c].phase = "database" /\ call'[c].target = AllPosts
        /\ call'[c].response = call[c].response
        /\ \A d \in Calls \ {c} : call'[d] = call[d]
    BY <1>1, <2>1, ReadingDatabaseType, NewGroupsType
  <2>3. /\ q \in Requests /\ "posts" \in Legs /\ PostsNode \in Nodes
        /\ \A leg \in Legs : <<c, leg>> \in Requests
    BY NodeValues DEF Requests, Legs
  <2>4. /\ reads' \in [Requests -> F!ReadRecord]
        /\ reads'[q].node = PostsNode /\ reads'[q].response = NoResponse
        /\ \A p \in Requests \ {q} : reads'[p] = reads[p]
    BY <1>1, <2>1, <2>3, ReadTypes DEF CallsOK
  <2>5. \A leg \in Legs : reads[<<c, leg>>] = F!NotCalled
    BY <1>1, NoReadsYet
  <2>6. \A leg \in Legs : ReadOf(c, leg)'
    <3>1. LegNode(c, "posts")' = PostsNode /\ LegOf(c, "posts")'
      BY <2>2 DEF LegNode, LegOf
    <3>2. ReadOf(c, "posts")'
      BY <2>2, <2>4, <3>1 DEF ReadOf
    <3>3. ASSUME NEW leg \in Legs, leg # "posts" PROVE ReadOf(c, leg)'
      <4>1. <<c, leg>> \in Requests \ {q}
        BY <2>3, <3>3
      <4> QED
        BY <2>4, <2>5, <4>1 DEF ReadOf
    <3> QED
      BY <3>2, <3>3
  <2>7. CallOK(c)'
    BY <1>1, <2>2, <2>6 DEF CallOK, AnsweredByDatabase
  <2>8. \A d \in Calls \ {c} : CallOK(d)'
    <3>1. ASSUME NEW d \in Calls \ {c}, NEW leg \in Legs PROVE reads'[<<d, leg>>] = reads[<<d, leg>>]
      <4>1. <<d, leg>> \in Requests \ {q}
        BY DEF Requests
      <4> QED
        BY <2>4, <4>1
    <3> QED
      BY <2>2, <3>1, UntouchedCallOK DEF CallsOK
  <2> QED
    BY <2>4, <2>7, <2>8 DEF CallsOK
<1> QED
  BY <1>2, <1>3

LEMMA DetailsLoadedKeepsCallsOK ==
    ASSUME KnownListsStay, Inv, CallsOK, NEW c \in Calls, DetailsLoaded(c),
           call[c].phase = "network", call[c].target # AllPosts
    PROVE  CallsOK'
<1> DEFINE group == call[c].group
           post == call[c].target
<1>1. /\ DOMAIN call = Calls /\ DOMAIN reads = Requests /\ CallOK(c) /\ call[c] \in CallType
      /\ group \in GroupType /\ post \in PostIds
  BY DEF CallsOK, CallOK, Inv, Shapes, CallType
<1>2. CASE GroupFilled(group)
  <2>1. /\ call' = [call EXCEPT ![c] = Completed(call[c], Success(Details(group)))]
        /\ reads' = reads
    BY <1>1, <1>2 DEF DetailsLoaded
  <2>2. Success(Details(group)) \in CallResponses(post)
    <3>1. Details(group) \in UserIds \X (CommentLists \cup {EmptyArray})
      BY <1>1, <1>2, DetailsType
    <3> QED
      BY <1>1, <3>1 DEF CallResponses, Answers
  <2> QED
    BY <1>1, <2>1, <2>2, NetworkAnswerKeepsCallsOK
<1>3. CASE ~GroupFilled(group)
  <2> DEFINE uq == <<c, "user">>
             cq == <<c, "comments">>
             un == UserNode(Author[post])
             cn == CommentsNode(post)
  <2>1. /\ call' = [call EXCEPT ![c] = ReadingDatabase(call[c], ReadGroup)]
        /\ reads' = [reads EXCEPT ![uq] = F!Called(un), ![cq] = F!Called(cn)]
    BY <1>1, <1>3 DEF DetailsLoaded
  <2>2. /\ call'[c] \in CallType /\ call'[c].phase = "database" /\ call'[c].target = post
        /\ call'[c].response = call[c].response /\ call'[c].group = ReadGroup
        /\ \A d \in Calls \ {c} : call'[d] = call[d]
    BY <1>1, <2>1, ReadingDatabaseType, NewGroupsType
  <2>3. /\ uq \in Requests /\ cq \in Requests /\ uq # cq /\ un \in Nodes /\ cn \in Nodes
        /\ Legs = {"posts", "user", "comments"}
        /\ \A leg \in Legs : <<c, leg>> \in Requests
    BY <1>1, NodeValues, DataAssumption DEF Requests, Legs
  <2> HIDE DEF un, cn
  <2>4. /\ reads' \in [Requests -> F!ReadRecord]
        /\ reads'[uq].node = un /\ reads'[uq].response = NoResponse
        /\ reads'[cq].node = cn /\ reads'[cq].response = NoResponse
        /\ \A p \in Requests \ {uq, cq} : reads'[p] = reads[p]
    BY <1>1, <2>1, <2>3, ReadTypes DEF CallsOK
  <2>5. \A leg \in Legs : reads[<<c, leg>>] = F!NotCalled
    BY <1>1, NoReadsYet
  <2>6. \A leg \in Legs : ReadOf(c, leg)'
    <3>1. /\ LegNode(c, "user")' = un /\ LegOf(c, "user")'
          /\ LegNode(c, "comments")' = cn /\ LegOf(c, "comments")'
      BY <2>2 DEF LegNode, LegOf, un, cn
    <3>2. ReadOf(c, "user")' /\ ReadOf(c, "comments")'
      BY <2>2, <2>4, <3>1 DEF ReadOf
    <3>3. ReadOf(c, "posts")'
      <4>1. <<c, "posts">> \in Requests \ {uq, cq}
        BY <2>3
      <4> QED
        BY <2>3, <2>4, <2>5, <4>1 DEF ReadOf
    <3> QED
      BY <2>3, <3>2, <3>3
  <2>7. CallOK(c)'
    BY <1>1, <2>2, <2>6, NewGroupsType DEF CallOK, AnsweredByDatabase, GroupOfPost, Optional
  <2>8. \A d \in Calls \ {c} : CallOK(d)'
    <3>1. ASSUME NEW d \in Calls \ {c}, NEW leg \in Legs PROVE reads'[<<d, leg>>] = reads[<<d, leg>>]
      <4>1. <<d, leg>> \in Requests \ {uq, cq}
        BY DEF Requests
      <4> QED
        BY <2>4, <4>1
    <3> QED
      BY <2>2, <3>1, UntouchedCallOK DEF CallsOK
  <2> QED
    BY <2>4, <2>7, <2>8 DEF CallsOK
<1> QED
  BY <1>2, <1>3

(***************************************************************************)
(* The closures of the two phases.                                         *)
(***************************************************************************)
LEMMA StartKeepsCallsOK ==
    ASSUME KnownListsStay, CallsOK, NEW c \in Calls, call[c].phase = "idle", reads' = reads,
           call'[c] \in CallType, call'[c].phase = "network", call'[c].response = call[c].response,
           \A d \in Calls \ {c} : call'[d] = call[d]
    PROVE  CallsOK'
<1>1. CallOK(c)
  BY DEF CallsOK
<1>2. call'[c].response = NoResponse
  BY <1>1 DEF CallOK
<1>3. \A leg \in Legs : ReadOf(c, leg)'
  BY <1>1, NoReadsYet DEF ReadOf
<1>4. CallOK(c)'
  BY <1>2, <1>3 DEF CallOK, CallResponses, AnsweredByDatabase
<1> QED
  BY <1>4, CallStep

LEMMA NetworkLegKeepsCallsOK ==
    ASSUME KnownListsStay, Inv, CallsOK, NEW c \in Calls, NEW leg \in DetailLegs, NEW response,
           call[c].phase = "network", reads' = reads,
           call' = [call EXCEPT ![c].group = Leave(call[c].group, leg, response)],
           \/ IsSuccess(response) /\ \E v \in LegValues(leg) : response = Success(v)
           \/ ~IsSuccess(response) /\ \E e \in NetworkErrors : response = Failure(e)
    PROVE  CallsOK'
<1> DEFINE after == Leave(call[c].group, leg, response)
<1>1. DOMAIN call = Calls /\ CallOK(c) /\ call[c] \in CallType /\ call[c].group \in GroupType
  BY DEF CallsOK, CallOK, Inv, Shapes, CallType
<1>2. after \in GroupType
  BY <1>1, LeaveType
<1>3. call'[c] = [call[c] EXCEPT !.group = after] /\ \A d \in Calls \ {c} : call'[d] = call[d]
  BY <1>1
<1> HIDE DEF after
<1>4. /\ call'[c] \in CallType /\ call'[c].phase = "network"
      /\ call'[c].target = call[c].target /\ call'[c].response = call[c].response
  BY <1>1, <1>2, <1>3 DEF CallType
<1>5. \A l \in Legs : ReadOf(c, l)'
  BY <1>1, NoReadsYet DEF ReadOf
<1>6. CallOK(c)'
  BY <1>1, <1>4, <1>5 DEF CallOK, AnsweredByDatabase
<1> QED
  BY <1>3, <1>6, CallStep

LEMMA NotifyKeepsCallsOK ==
    ASSUME KnownListsStay, Inv, CallsOK, NEW c \in Calls, ReadPostDetailsNotify(c)
    PROVE  CallsOK'
<1> DEFINE group == call[c].group
           post == call[c].target
           response == IF GroupFilled(group) THEN Success(Details(group))
                       ELSE Failure("unableToReadPostDetailsData")
<1>1. /\ DOMAIN call = Calls /\ CallOK(c) /\ call[c] \in CallType /\ group \in GroupType
      /\ call[c].phase = "database" /\ GroupDone(group) /\ CallConsistent(c) /\ reads' = reads
      /\ downloaded' = downloaded /\ inherited' = inherited
  BY DEF CallsOK, CallOK, Inv, Shapes, CallType, ReadPostDetailsNotify, databaseVars, historyVars
<1>2. post # AllPosts /\ post \in PostIds /\ (GroupFilled(group) \/ group.responseError # Nil)
  BY <1>1, NotifyFindsSettledLegs DEF CallType
<1>3. call' = [call EXCEPT ![c] = Completed(call[c], response)]
  BY <1>1, <1>2 DEF ReadPostDetailsNotify
<1>4. ASSUME GroupFilled(group) PROVE Details(group) \in {Author[post]} \X KnownLists(post)
  <2>1. GroupOfPost(group, post)
    BY <1>1, <1>2 DEF CallOK
  <2>2. group.user = Some(Author[post])
    BY <1>4, <2>1 DEF GroupOfPost, GroupFilled
  <2>3. PICK list \in KnownLists(post) : group.comments = Some(list)
    BY <1>4, <2>1 DEF GroupOfPost, GroupFilled, Optional
  <2>4. Unwrapped(group.user) = Author[post] /\ Unwrapped(group.comments) = list
    BY <2>2, <2>3 DEF Unwrapped, Some
  <2> QED
    BY <2>3, <2>4 DEF Details
<1>5. /\ response \in CallResponses(post)
      /\ IsSuccess(response) => response.value \in {Author[post]} \X KnownLists(post)
  <2>1. CASE GroupFilled(group)
    <3>1. response = Success(Details(group)) /\ response.value = Details(group)
      BY <2>1 DEF Success
    <3>2. Details(group) \in UserIds \X (CommentLists \cup {EmptyArray})
      BY <1>2, <1>4, <2>1, DataAssumption DEF KnownLists, ListsOf
    <3>3. response \in Answers(post)
      BY <1>2, <3>1, <3>2 DEF Answers
    <3> QED
      BY <1>4, <2>1, <3>1, <3>3 DEF CallResponses
  <2>2. CASE ~GroupFilled(group)
    BY <2>2 DEF CallResponses, DataErrors, IsSuccess, Failure
  <2> QED
    BY <2>1, <2>2
<1> HIDE DEF response
<1>6. /\ call'[c] \in CallType /\ call'[c].phase = "done"
      /\ call'[c].target = post /\ call'[c].response = response
      /\ \A d \in Calls \ {c} : call'[d] = call[d]
  BY <1>1, <1>3, <1>5, CompletedType
<1>7. \A leg \in Legs : ReadOf(c, leg)'
  BY <1>1, <1>6 DEF CallOK, ReadOf, LegOf, LegNode
<1>8. CallOK(c)'
  <2>1. KnownLists(post)' = KnownLists(post)
    BY <1>1, <1>6 DEF KnownLists
  <2> QED
    BY <1>5, <1>6, <1>7, <2>1 DEF CallOK
<1> QED
  BY <1>1, <1>6, <1>8, CallStep

(***************************************************************************)
(* One of the closures of a read() runs.                                   *)
(***************************************************************************)
LEMMA AfterReadKeepsCallsOK ==
    ASSUME KnownListsStay, Inv, CallsOK, alive, NEW q \in Requests, NEW after,
           reads[q].observing \/ reads[q].timer,
           after.completions = 1, after \in F!ReadRecord, after.node = reads[q].node,
           \/ after.response = reads[q].response /\ after.completions = reads[q].completions
           \/ after.response \in ReadResponses(reads[q].node),
           reads' = [reads EXCEPT ![q] = after], downloaded' = downloaded, inherited' = inherited,
           ReadContinues(q) \/ call' = call
    PROVE  CallsOK'
<1>1. PICK c \in Calls, leg \in Legs : q = <<c, leg>>
  BY DEF Requests
<1>2. /\ DOMAIN call = Calls /\ DOMAIN reads = Requests
      /\ CallOK(c) /\ CallConsistent(c) /\ call[c] \in CallType /\ call[c].group \in GroupType
      /\ ReadShape(reads[q]) /\ ReadOf(c, leg)
  BY <1>1 DEF CallsOK, CallOK, Inv, Shapes, CallType
<1>3. /\ reads' \in [Requests -> F!ReadRecord] /\ reads'[q] = after
      /\ \A p \in Requests \ {q} : reads'[p] = reads[p]
  BY <1>2 DEF CallsOK
<1>4. /\ call[c].phase \in {"database", "done"} /\ LegOf(c, leg)
      /\ reads[q].node = LegNode(c, leg)
  BY <1>1, <1>2, ReadTypes DEF ReadOf
<1>5. \A p : KnownLists(p)' = KnownLists(p)
  BY DEF KnownLists
<1>6. \A l \in Legs \ {leg} : /\ <<c, l>> \in Requests \ {q}
                              /\ reads'[<<c, l>>] = reads[<<c, l>>]
  BY <1>1, <1>3 DEF Requests
<1>7. ASSUME call'[c].phase \in {"database", "done"}, call[c].phase = "done" => call'[c].phase = "done",
             call'[c].target = call[c].target
      PROVE  \A l \in Legs : ReadOf(c, l)'
  <2>1. \A l \in Legs : /\ LegOf(c, l)' <=> LegOf(c, l)
                        /\ LegNode(c, l)' = LegNode(c, l)
    BY <1>7 DEF LegOf, LegNode
  <2>2. ReadOf(c, leg)'
    BY <1>1, <1>3, <1>4, <1>7, <2>1 DEF ReadOf
  <2>3. \A l \in Legs \ {leg} : ReadOf(c, l)'
    BY <1>2, <1>6, <1>7, <2>1 DEF CallOK, ReadOf
  <2> QED
    BY <2>2, <2>3
<1>8. ASSUME \A d \in Calls \ {c} : call'[d] = call[d], CallOK(c)'
      PROVE  CallsOK'
  <2>1. ASSUME NEW d \in Calls \ {c}, NEW l \in Legs PROVE reads'[<<d, l>>] = reads[<<d, l>>]
    <3>1. <<d, l>> \in Requests \ {q}
      BY <1>1 DEF Requests
    <3> QED
      BY <1>3, <3>1
  <2> QED
    BY <1>3, <1>8, <2>1, UntouchedCallOK DEF CallsOK
<1>9. CASE call' = call
  <2>1. call[c].phase = "done" => reads'[q].completions = reads[q].completions
    BY <1>1, <1>2, <1>3 DEF CallConsistent, Outstanding, ReadShape
  <2>2. \A l \in Legs : ReadOf(c, l)'
    BY <1>4, <1>7, <1>9
  <2>3. AnsweredByDatabase(c)' <=> AnsweredByDatabase(c)
    <3>1. CASE call[c].phase = "done"
      <4>1. "user" \in Legs /\ (leg = "user" => reads'[<<c, "user">>].completions = reads[<<c, "user">>].completions)
        BY <1>1, <2>1, <3>1 DEF Legs
      <4>2. reads'[<<c, "user">>].completions = reads[<<c, "user">>].completions
        BY <1>6, <4>1
      <4> QED
        BY <1>9, <4>2 DEF AnsweredByDatabase
    <3>2. CASE call[c].phase # "done"
      BY <1>9, <3>2 DEF AnsweredByDatabase
    <3> QED
      BY <3>1, <3>2
  <2>4. /\ call'[c] \in CallType /\ call'[c].response \in CallResponses(call'[c].target)
        /\ (call'[c].phase # "done" => call'[c].response = NoResponse)
    BY <1>2, <1>9 DEF CallOK
  <2>5. CallOK(c)'
    BY <1>2, <1>5, <1>9, <2>2, <2>3, <2>4 DEF CallOK, GroupOfPost
  <2> QED
    BY <1>8, <1>9, <2>5
<1>10. CASE ReadContinues(q) /\ reads[q].completions = 0
  <2> DEFINE response == DecodedValue(reads'[q].response)
  <2>1. call[c].phase = "database"
    BY <1>1, <1>2, <1>10 DEF CallConsistent, Outstanding
  <2>2. reads'[q].completions # reads[q].completions /\ reads'[q].response \in ReadResponses(LegNode(c, leg))
    BY <1>3, <1>4, <1>10
  <2>6. \/ /\ IsSuccess(response)
           /\ \E v \in Held(LegNode(c, leg)) \ {Malformed} : response = Success(v)
        \/ ~IsSuccess(response) /\ \E e \in DatabaseErrors : response = Failure(e)
    BY <2>2, ValueType
  <2>7. response # Success(Scalar)
    BY <1>10, <2>2, Zenon DEF ReadContinues
  <2>3. \/ /\ IsSuccess(response)
           /\ \E v \in Held(LegNode(c, leg)) \ {Malformed, Scalar} : response = Success(v)
        \/ ~IsSuccess(response) /\ \E e \in DatabaseErrors : response = Failure(e)
    BY <2>6, <2>7
  <2>4. CASE leg = "posts"
    <3> DEFINE final == IF IsSuccess(response) THEN response
                        ELSE Failure("unableToReadAllPostsData")
    <3>1. call' = [call EXCEPT ![c] = Completed(call[c], final)]
      BY <1>1, <1>2, <1>10, <2>2, <2>4, Zenon DEF ReadContinues
    <3>2. call[c].target = AllPosts /\ LegNode(c, leg) = PostsNode
      BY <1>4, <2>4 DEF LegOf, LegNode
    <3>3. final \in CallResponses(AllPosts)
      <4>1. CASE IsSuccess(response)
        BY <2>3, <3>2, <4>1, NodeValues, HeldValues DEF CallResponses, Answers
      <4>2. CASE ~IsSuccess(response)
        BY <4>2 DEF CallResponses, DataErrors
      <4> QED
        BY <4>1, <4>2
    <3> HIDE DEF final, response
    <3>4. /\ call'[c] \in CallType /\ call'[c].phase = "done"
          /\ call'[c].target = AllPosts /\ call'[c].response = final
          /\ \A d \in Calls \ {c} : call'[d] = call[d]
      BY <1>2, <3>1, <3>2, <3>3, CompletedType
    <3>5. \A l \in Legs : ReadOf(c, l)'
      BY <1>7, <3>2, <3>4
    <3>6. ~AnsweredByDatabase(c)'
      <4>1. "user" \in Legs \ {leg} /\ reads[<<c, "user">>] = F!NotCalled
        BY <1>2, <2>4, <3>2 DEF CallOK, ReadOf, LegOf, Legs
      <4> QED
        BY <1>6, <4>1, ReadTypes DEF AnsweredByDatabase
    <3>7. CallOK(c)'
      BY <3>3, <3>4, <3>5, <3>6 DEF CallOK
    <3> QED
      BY <1>8, <3>4, <3>7
  <2>5. CASE leg # "posts"
    <3> DEFINE group == Leave(call[c].group, leg, response)
               post == call[c].target
    <3>1. leg \in DetailLegs /\ post # AllPosts /\ post \in PostIds
      BY <1>2, <1>4, <2>5 DEF Legs, DetailLegs, LegOf, CallType
    <3>2. call' = [call EXCEPT ![c].group = group]
      BY <1>1, <1>2, <1>10, <2>2, <2>5, Zenon DEF ReadContinues
    <3> DEFINE fit == IF leg = "user" THEN {Author[post]} ELSE KnownLists(post)
    <3>3. Held(LegNode(c, leg)) \ {Malformed, Scalar} \subseteq fit
      <4>1. CASE leg = "user"
        <5>1. Author[post] \in UserIds /\ LegNode(c, leg) = UserNode(Author[post])
          BY <3>1, <4>1, DataAssumption DEF LegNode
        <5> QED
          BY <4>1, <5>1, NodeValues, HeldValues
      <4>2. CASE leg = "comments"
        <5>1. Held(LegNode(c, leg)) = ForeignData \cup KnownLists(post)
          BY <3>1, <4>2, HeldValues DEF LegNode
        <5> QED
          BY <4>2, <5>1, DataAssumption
      <4> QED
        BY <3>1, <4>1, <4>2 DEF DetailLegs
    <3>4. /\ IsSuccess(response) => response.value \in fit
          /\ \/ IsSuccess(response) /\ \E v \in LegValues(leg) : response = Success(v)
             \/ ~IsSuccess(response) /\ \E e \in NetworkErrors \cup DatabaseErrors : response = Failure(e)
      <4>1. fit \subseteq LegValues(leg)
        BY <3>1, DataAssumption DEF LegValues, DetailLegs, KnownLists, ListsOf
      <4> HIDE DEF fit
      <4>2. CASE IsSuccess(response)
        <5>1. PICK v \in fit : response = Success(v)
          BY <2>3, <3>3, <4>2
        <5> QED
          BY <4>1, <4>2, <5>1 DEF Success
      <4>3. CASE ~IsSuccess(response)
        BY <2>3, <4>3
      <4> QED
        BY <4>2, <4>3
    <3> HIDE DEF response
    <3>5. /\ group \in GroupType
          /\ group.user = IF leg = "user" /\ IsSuccess(response)
                          THEN Some(response.value) ELSE call[c].group.user
          /\ group.comments = IF leg = "comments" /\ IsSuccess(response)
                              THEN Some(response.value) ELSE call[c].group.comments
      BY <1>2, <3>1, <3>4, LeaveType
    <3>6. GroupOfPost(group, post)
      <4>1. GroupOfPost(call[c].group, post)
        BY <1>2, <2>1, <3>1 DEF CallOK
      <4> QED
        BY <3>1, <3>4, <3>5, <4>1 DEF GroupOfPost, DetailLegs, Optional
    <3> HIDE DEF group
    <3>7. /\ call'[c] \in CallType /\ call'[c].phase = "database" /\ call'[c].target = post
          /\ call'[c].response = call[c].response /\ call'[c].group = group
          /\ \A d \in Calls \ {c} : call'[d] = call[d]
      BY <1>2, <2>1, <3>2, <3>5 DEF CallType
    <3>8. \A l \in Legs : ReadOf(c, l)'
      BY <1>7, <2>1, <3>7
    <3>9. CallOK(c)'
      <4>1. call[c].response = NoResponse /\ call[c].response \in CallResponses(post)
        BY <1>2, <2>1 DEF CallOK
      <4>2. ~AnsweredByDatabase(c)'
        BY <3>7 DEF AnsweredByDatabase
      <4> QED
        BY <1>5, <3>6, <3>7, <3>8, <4>1, <4>2 DEF CallOK, GroupOfPost
    <3> QED
      BY <1>8, <3>7, <3>9
  <2> QED
    BY <2>4, <2>5
<1> QED
  <2>1. CASE reads[q].completions = 1
    BY <1>3, <1>9, <2>1 DEF ReadContinues
  <2> QED
    BY <1>2, <1>9, <1>10, <2>1 DEF ReadShape

-----------------------------------------------------------------------------
(***************************************************************************)
(* The tasks: a handler that is queued holds a body its server can send.   *)
(***************************************************************************)
TaskType == [phase : {"idle", "running", "queued", "done"},
             reply : {"none", "error", "noData"} \cup UNION {Payloads[q] : q \in Requests},
             completions : Nat]

TasksOK ==
    /\ task \in [Requests -> TaskType]
    /\ isNetworkActivityIndicatorVisible \in BOOLEAN
    /\ \A q \in Requests : task[q].phase = "queued" => task[q].reply \in N!Replies(q)

LEMMA TaskTypes ==
    /\ N!NotRequested \in TaskType /\ N!NotRequested.phase # "queued"
    /\ \A t \in TaskType :
         /\ N!Sent(t) \in TaskType /\ N!Sent(t).phase # "queued"
         /\ N!Refused(t) \in TaskType /\ N!Refused(t).phase # "queued"
         /\ N!Finished(t) \in TaskType /\ N!Finished(t).phase # "queued"
    /\ \A t \in TaskType, q \in Requests : \A reply \in N!Replies(q) :
         N!Answered(t, reply) \in TaskType /\ N!Answered(t, reply).reply = reply
<1> DEFINE Bodies == {"none", "error", "noData"} \cup UNION {Payloads[q] : q \in Requests}
<1>1. \A q \in Requests : N!Replies(q) \subseteq Bodies
  BY DEF N!Replies
<1>2. TaskType = [phase : {"idle", "running", "queued", "done"}, reply : Bodies, completions : Nat]
  BY DEF TaskType
<1>3. "none" \in Bodies
  OBVIOUS
<1> HIDE DEF Bodies
<1>4. N!NotRequested \in TaskType /\ N!NotRequested.phase # "queued"
  BY <1>2, <1>3 DEF N!NotRequested
<1>5. ASSUME NEW t \in TaskType
      PROVE  /\ N!Sent(t) \in TaskType /\ N!Sent(t).phase # "queued"
             /\ N!Finished(t) \in TaskType /\ N!Finished(t).phase # "queued"
  BY <1>2, <1>3 DEF N!Sent, N!Finished
<1>6. ASSUME NEW t \in TaskType
      PROVE  N!Refused(t) \in TaskType /\ N!Refused(t).phase # "queued"
  <2>1. N!Refused(t) = [t EXCEPT !.phase = "done", !.completions = t.completions + 1]
        /\ t.completions + 1 \in Nat
    BY <1>2 DEF N!Refused
  <2> QED
    BY <1>2, <2>1
<1>7. ASSUME NEW t \in TaskType, NEW q \in Requests, NEW reply \in N!Replies(q)
      PROVE  N!Answered(t, reply) \in TaskType /\ N!Answered(t, reply).reply = reply
  BY <1>1, <1>2 DEF N!Answered
<1> QED
  BY <1>4, <1>5, <1>6, <1>7

LEMMA TaskStep ==
    ASSUME TasksOK, NEW q \in Requests, NEW t \in TaskType,
           t.phase = "queued" => t.reply \in N!Replies(q),
           task' = [task EXCEPT ![q] = t], isNetworkActivityIndicatorVisible' \in BOOLEAN
    PROVE  TasksOK'
BY DEF TasksOK, N!Replies

LEMMA StepKeepsTasksOK ==
    ASSUME TasksOK, [Next]_vars
    PROVE  TasksOK'
<1>0. task \in [Requests -> TaskType] /\ isNetworkActivityIndicatorVisible \in BOOLEAN
  BY DEF TasksOK
<1>1. ASSUME networkVars' = networkVars PROVE TasksOK'
  BY <1>1 DEF networkVars, TasksOK, N!Replies
<1>2. ASSUME NEW q \in Requests, N!SendRequest(q) \/ N!RefuseRequest(q) \/ N!Handler(q) \/ N!MainBlock(q)
      PROVE  TasksOK'
  <2>1. CASE N!SendRequest(q)
    <3>1. /\ task' = [task EXCEPT ![q] = N!Sent(task[q])]
          /\ isNetworkActivityIndicatorVisible' \in BOOLEAN
      BY <1>0, <2>1 DEF N!SendRequest
    <3> QED
      BY <1>0, <3>1, TaskStep, TaskTypes
  <2>2. CASE N!RefuseRequest(q)
    <3>1. /\ task' = [task EXCEPT ![q] = N!Refused(task[q])]
          /\ isNetworkActivityIndicatorVisible' \in BOOLEAN
      BY <1>0, <2>2 DEF N!RefuseRequest
    <3> QED
      BY <1>0, <3>1, TaskStep, TaskTypes
  <2>3. CASE N!Handler(q)
    <3>1. PICK reply \in N!Replies(q) : task' = [task EXCEPT ![q] = N!Answered(task[q], reply)]
      BY <1>0, <2>3 DEF N!Handler, N!HandlerCalled
    <3>2. isNetworkActivityIndicatorVisible' \in BOOLEAN
      BY <1>0, <2>3 DEF N!Handler, N!HandlerCalled
    <3> DEFINE t == N!Answered(task[q], reply)
    <3>3. t \in TaskType /\ t.reply \in N!Replies(q)
      BY <1>0, TaskTypes
    <3>4. task' = [task EXCEPT ![q] = t]
      BY <3>1
    <3> HIDE DEF t
    <3> QED
      BY <3>2, <3>3, <3>4, TaskStep
  <2>4. CASE N!MainBlock(q)
    <3>1. /\ task' = [task EXCEPT ![q] = N!Finished(task[q])]
          /\ isNetworkActivityIndicatorVisible' \in BOOLEAN
      BY <1>0, <2>4 DEF N!MainBlock
    <3> QED
      BY <1>0, <3>1, TaskStep, TaskTypes
  <2> QED
    BY <1>2, <2>1, <2>2, <2>3, <2>4
<1>3. ASSUME NEW c \in Calls, RetrieveAllPosts(c) \/ RetrieveAllPostsWithoutURL(c) PROVE TasksOK'
  <2>1. <<c, "posts">> \in Requests
    BY DEF Requests, Legs
  <2> QED
    BY <1>2, <1>3, <2>1 DEF RetrieveAllPosts, RetrieveAllPostsWithoutURL
<1>4. ASSUME NEW c \in Calls, NEW post \in PostIds, NEW refused \in SUBSET {"user", "comments"},
             RetrievePostDetails(c, post, refused)
      PROVE  TasksOK'
  <2>1. task' = [q \in Requests |->
                   IF q \in {<<c, "user">>, <<c, "comments">>}
                   THEN IF q[2] \in refused THEN N!Refused(task[q]) ELSE N!Sent(task[q])
                   ELSE task[q]]
    BY <1>4 DEF RetrievePostDetails
  <2>2. \A q \in Requests :
          /\ task'[q] \in TaskType
          /\ task'[q].phase = "queued" => task'[q] = task[q]
    BY <1>0, <2>1, TaskTypes
  <2>3. task' \in [Requests -> TaskType]
    BY <2>1, <2>2
  <2>4. \A q \in Requests : N!Replies(q)' = N!Replies(q)
    BY DEF N!Replies
  <2>5. isNetworkActivityIndicatorVisible' \in BOOLEAN
    BY <1>0, <1>4, Zenon DEF RetrievePostDetails
  <2> QED
    BY <2>2, <2>3, <2>4, <2>5 DEF TasksOK
<1>5. ASSUME NEW q \in Requests, NetworkReply(q) \/ NetworkCompletion(q) PROVE TasksOK'
  BY <1>2, <1>5 DEF NetworkReply, NetworkCompletion
<1>6. ASSUME \/ \E c \in Calls : LoadPostDetailsNotify(c) \/ ReadPostDetailsNotify(c)
             \/ \E q \in Requests : DatabaseObserve(q) \/ DatabaseTimeout(q)
             \/ \E n \in Nodes : ServerCommits(n) \/ ServerRejects(n)
             \/ Reconnect
             \/ UNCHANGED vars
      PROVE  TasksOK'
  <2>1. networkVars' = networkVars
    BY <1>6 DEF LoadPostDetailsNotify, ReadPostDetailsNotify, DatabaseObserve, DatabaseTimeout,
                ServerCommits, ServerRejects, Reconnect, networkVars, vars
  <2> QED
    BY <1>1, <2>1
<1>7. CASE Relaunch
  <2>1. /\ task' = [q \in Requests |-> N!NotRequested]
        /\ isNetworkActivityIndicatorVisible' = FALSE
    BY <1>7 DEF Relaunch
  <2> QED
    BY <2>1, TaskTypes DEF TasksOK
<1> QED
  BY <1>3, <1>4, <1>5, <1>6, <1>7 DEF Next

-----------------------------------------------------------------------------
(***************************************************************************)
(* Every step keeps the calls right.                                       *)
(***************************************************************************)
LEMMA QueuedReply ==
    ASSUME TasksOK, NEW q \in Requests, NetworkCompletion(q)
    PROVE  task[q].reply \in N!Replies(q)
BY DEF TasksOK, NetworkCompletion, N!MainBlock

LEMMA ReadTarget ==
    ASSUME Inv, CallsOK, NEW q \in Requests, reads[q].observing \/ reads[q].timer
    PROVE  reads[q].node \in Nodes /\ reads[q] \in F!ReadRecord
<1>1. PICK c \in Calls, leg \in Legs : q = <<c, leg>>
  BY DEF Requests
<1>2. ReadOf(c, leg) /\ call[c] \in CallType
  BY DEF CallsOK, CallOK
<1>3. reads[q].node = LegNode(c, leg) /\ LegOf(c, leg)
  BY <1>1, <1>2, ReadTypes DEF ReadOf
<1>4. call[c].target \in PostIds \cup {AllPosts}
  BY <1>2 DEF CallType
<1>5. LegNode(c, leg) \in Nodes
  BY <1>3, <1>4, NodeValues, DataAssumption DEF LegOf, LegNode, Legs
<1> QED
  BY <1>3, <1>5 DEF CallsOK

LEMMA StepKeepsCallsOK ==
    ASSUME Inv, CallsOK, TasksOK, [Next]_vars,
           \A n \in Nodes : F!SnapshotValue(n) \in Held(n) \cup {Null}
    PROVE  CallsOK'
<1>0. /\ DOMAIN call = Calls /\ DOMAIN reads = Requests /\ Shapes /\ KnownListsStay
      /\ \A c \in Calls : CallOK(c) /\ call[c] \in CallType
  BY StepKeepsKnownLists DEF Inv, Shapes, CallsOK, CallOK
<1>1. ASSUME NEW c \in Calls, RetrieveAllPosts(c) PROVE CallsOK'
  <2>1. /\ call[c].phase = "idle" /\ reads' = reads
        /\ call' = [call EXCEPT ![c].phase = "network"]
    BY <1>1 DEF RetrieveAllPosts, databaseVars
  <2>2. /\ call'[c] \in CallType /\ call'[c].phase = "network"
        /\ call'[c].response = call[c].response
        /\ \A d \in Calls \ {c} : call'[d] = call[d]
    BY <1>0, <2>1 DEF CallType
  <2> QED
    BY <2>1, <2>2, <1>0, StartKeepsCallsOK
<1>2. ASSUME NEW c \in Calls, RetrieveAllPostsWithoutURL(c) PROVE CallsOK'
  <2>1. ~IsSuccess(Failure("urlError"))
    BY DEF IsSuccess, Failure
  <2>2. call[c].phase = "idle" /\ PostsLoaded(c, Failure("urlError")) /\ CallConsistent(c)
    BY <1>2 DEF RetrieveAllPostsWithoutURL, Inv
  <2>3. call[c].target = AllPosts
    BY <2>2 DEF CallConsistent
  <2> QED
    BY <2>1, <2>2, <2>3, <1>0, PostsLoadedKeepsCallsOK
<1>3. ASSUME NEW c \in Calls, NEW post \in PostIds, NEW refused \in SUBSET {"user", "comments"},
             RetrievePostDetails(c, post, refused)
      PROVE  CallsOK'
  <2> DEFINE group == LoadGroup(refused)
  <2>1. /\ call[c].phase = "idle" /\ reads' = reads
        /\ call' = [call EXCEPT ![c].phase = "network", ![c].target = post,
                                ![c].group = group]
    BY <1>3 DEF RetrievePostDetails, databaseVars
  <2>2. group \in GroupType /\ post \in PostIds \cup {AllPosts}
    BY NewGroupsType DEF DetailLegs
  <2> HIDE DEF group
  <2>3. /\ call'[c] \in CallType /\ call'[c].phase = "network"
        /\ call'[c].response = call[c].response
        /\ \A d \in Calls \ {c} : call'[d] = call[d]
    BY <1>0, <2>1, <2>2 DEF CallType
  <2> QED
    BY <2>1, <2>3, <1>0, StartKeepsCallsOK
<1>4. ASSUME NEW q \in Requests, NetworkCompletion(q) PROVE CallsOK'
  <2>1. PICK c \in Calls, leg \in Legs : q = <<c, leg>>
    BY DEF Requests
  <2> DEFINE response == DecodedBody(N!ResponseTo(task[q].reply))
  <2>2. task[q].phase = "queued" /\ CallConsistent(c) /\ task[q].reply \in N!Replies(<<c, leg>>)
    BY <1>4, <2>1, QueuedReply DEF NetworkCompletion, N!MainBlock, Inv
  <2>3. call[c].phase = "network" /\ LegOf(c, leg)
    BY <2>1, <2>2 DEF CallConsistent, N!Busy
  <2>4. \/ call' = call /\ reads' = reads
        \/ leg = "posts" /\ PostsLoaded(c, response)
        \/ /\ leg \in DetailLegs /\ ~(leg = "user" /\ task[q].reply = EmptyArray)
           /\ call' = [call EXCEPT ![c].group = Leave(call[c].group, leg, response)]
           /\ reads' = reads
    BY <1>0, <1>4, <2>1 DEF NetworkCompletion, DetailLegs
  <2>5. CASE call' = call /\ reads' = reads
    BY <1>0, <2>5, UntouchedCallOK DEF CallsOK
  <2>6. ASSUME ~(leg = "user" /\ task[q].reply = EmptyArray)
        PROVE  \/ IsSuccess(response) /\ \E v \in LegValues(leg) : response = Success(v)
               \/ ~IsSuccess(response) /\ \E e \in NetworkErrors : response = Failure(e)
    BY <2>2, <2>6, BodyType
  <2> HIDE DEF response
  <2>7. CASE leg = "posts" /\ PostsLoaded(c, response)
    <3>1. call[c].target = AllPosts
      BY <2>3, <2>7 DEF LegOf
    <3> QED
      BY <2>3, <2>6, <2>7, <3>1, <1>0, PostsLoadedKeepsCallsOK
  <2>8. CASE /\ leg \in DetailLegs /\ ~(leg = "user" /\ task[q].reply = EmptyArray)
             /\ call' = [call EXCEPT ![c].group = Leave(call[c].group, leg, response)]
             /\ reads' = reads
    BY <2>3, <2>6, <2>8, <1>0, NetworkLegKeepsCallsOK
  <2> QED
    BY <2>4, <2>5, <2>7, <2>8
<1>5. ASSUME NEW c \in Calls, LoadPostDetailsNotify(c) PROVE CallsOK'
  <2>1. CallConsistent(c) /\ call[c].phase = "network" /\ GroupDone(call[c].group)
    BY <1>5 DEF LoadPostDetailsNotify, Inv
  <2>2. /\ call[c].target # AllPosts
        /\ GroupFilled(call[c].group) \/ call[c].group.responseError # Nil
    BY <2>1, NotifyFindsSettledLegs
  <2>3. DetailsLoaded(c)
    BY <1>5, <2>2 DEF LoadPostDetailsNotify
  <2> QED
    BY <2>1, <2>2, <2>3, <1>0, DetailsLoadedKeepsCallsOK
<1>6. ASSUME NEW c \in Calls, ReadPostDetailsNotify(c) PROVE CallsOK'
  BY <1>0, <1>6, NotifyKeepsCallsOK
<1>7. ASSUME NEW q \in Requests, DatabaseObserve(q) PROVE CallsOK'
  <2> DEFINE n == reads[q].node
             value == F!SnapshotValue(n)
             after == F!SnapshotTaken(reads[q], value)
  <2>1. /\ alive /\ reads[q].observing /\ AfterRead(q) /\ ReadShape(reads[q])
        /\ reads' = [reads EXCEPT ![q] = after]
        /\ downloaded' = downloaded /\ inherited' = inherited
    BY <1>0, <1>7 DEF DatabaseObserve, F!Observe, Shapes, historyVars
  <2>2. n \in Nodes /\ reads[q] \in F!ReadRecord
    BY <2>1, ReadTarget
  <2>3. value \in Held(n) \cup {Null}
    BY <2>2
  <2> HIDE DEF value
  <2>4. /\ after \in F!ReadRecord /\ after.node = n
        /\ \/ after.response = reads[q].response /\ after.completions = reads[q].completions
           \/ after.response \in ReadResponses(n)
    BY <2>2, <2>3, SnapshotTakenType
  <2>5. after.completions = 1
    BY <2>1, SnapshotTakenFields
  <2> HIDE DEF after
  <2> QED
    BY <1>0, <2>1, <2>4, <2>5, AfterReadCases, AfterReadKeepsCallsOK
<1>8. ASSUME NEW q \in Requests, DatabaseTimeout(q) PROVE CallsOK'
  <2> DEFINE n == reads[q].node
             after == F!TimerFired(reads[q])
  <2>1. /\ alive /\ reads[q].timer /\ AfterRead(q) /\ ReadShape(reads[q])
        /\ reads' = [reads EXCEPT ![q] = after]
        /\ downloaded' = downloaded /\ inherited' = inherited
    BY <1>0, <1>8 DEF DatabaseTimeout, F!Timeout, Shapes, historyVars
  <2>2. n \in Nodes /\ reads[q] \in F!ReadRecord
    BY <2>1, ReadTarget
  <2>3. /\ after \in F!ReadRecord /\ after.node = n
        /\ \/ after.response = reads[q].response /\ after.completions = reads[q].completions
           \/ after.response \in ReadResponses(n)
    BY <2>2, TimerFiredType
  <2>4. after.completions = 1
    BY <2>1, TimerFiredFields
  <2> HIDE DEF after
  <2> QED
    BY <1>0, <2>1, <2>3, <2>4, AfterReadCases, AfterReadKeepsCallsOK
<1>9. ASSUME \/ \E q \in Requests : NetworkReply(q)
             \/ \E n \in Nodes : ServerCommits(n) \/ ServerRejects(n)
             \/ Reconnect
             \/ UNCHANGED vars
      PROVE  CallsOK'
  <2>1. call' = call /\ reads' = reads
    BY <1>9 DEF NetworkReply, ServerCommits, ServerRejects, Reconnect, F!Commit, F!Reject,
                F!Reconnect, vars, databaseVars
  <2> QED
    BY <1>0, <2>1, UntouchedCallOK DEF CallsOK
<1>10. CASE Relaunch
  <2>1. /\ call' = [c \in Calls |-> NotStarted]
        /\ reads' = [q \in Requests |-> F!NotCalled]
    BY <1>10 DEF Relaunch, F!Relaunch
  <2>2. NotStarted \in CallType /\ NotStarted.phase = "idle" /\ NotStarted.response = NoResponse
    BY NewGroupsType DEF NotStarted, CallType
  <2>3. ASSUME NEW c \in Calls PROVE CallOK(c)'
    <3>1. call'[c] = NotStarted /\ \A leg \in Legs : reads'[<<c, leg>>] = F!NotCalled
      BY <2>1 DEF Requests
    <3> QED
      BY <2>2, <3>1 DEF CallOK, CallResponses, ReadOf, AnsweredByDatabase
  <2> QED
    BY <2>1, <2>3, ReadTypes DEF CallsOK
<1> QED
  BY <1>1, <1>2, <1>3, <1>4, <1>5, <1>6, <1>7, <1>8, <1>9, <1>10 DEF Next

-----------------------------------------------------------------------------
(***************************************************************************)
(* The store.  A users or comments node is only ever written with values   *)
(* of its own; once written it is queued, seen, or refused by the server.  *)
(***************************************************************************)
StoreOK ==
    /\ \A n \in Nodes :
         /\ synced[n] \in Held(n) \cup {Null, Unknown}
         /\ pending[n] \in Seq(Held(n) \cup {Null})
         /\ remote[n] \in Held(n) \cup {Null}
    /\ DOMAIN synced = Nodes /\ DOMAIN pending = Nodes /\ DOMAIN remote = Nodes
    /\ online \in BOOLEAN
    /\ \A n \in Nodes \ {PostsNode} : pending[n] \in Seq(Own(n))

Kept(n) == n \in rejected \/ pending[n] # << >> \/ synced[n] \in Own(n)

DownloadOK(d) ==
    /\ d.target \in PostIds \cup {AllPosts}
    /\ Success(d.value) \in
         IF d.target = AllPosts THEN {Success(<<posts>>) : posts \in {"posts", EmptyArray}}
                                ELSE Answers(d.target)
    /\ d.target # AllPosts /\ d.value \in {Author[d.target]} \X ListsOf(d.target) =>
         Kept(UserNode(Author[d.target])) /\ Kept(CommentsNode(d.target))

HistoryOK ==
    /\ rejected \subseteq Nodes
    /\ \A d \in downloaded : DownloadOK(d)
    /\ \A p \in PostIds : inherited[p] \in Values[CommentsNode(p)] \cup {Null}

(***************************************************************************)
(* What a node holds may still be held when more lists are known.          *)
(***************************************************************************)
LEMMA SeqOfMore ==
    ASSUME NEW S, NEW T, S \subseteq T, NEW s \in Seq(S)
    PROVE  s \in Seq(T)
OBVIOUS

LEMMA StoredStays ==
    ASSUME StoreOK, KnownListsStay, NEW n \in Nodes
    PROVE  /\ synced[n] \in Held(n)' \cup {Null, Unknown}
           /\ pending[n] \in Seq(Held(n)' \cup {Null})
           /\ remote[n] \in Held(n)' \cup {Null}
<1> DEFINE S == Held(n) \cup {Null}
           T == Held(n)' \cup {Null}
<1>1. Held(n) \subseteq Held(n)'
  BY HeldStays
<1>2. S \subseteq T /\ pending[n] \in Seq(S)
  BY <1>1 DEF StoreOK
<1>3. synced[n] \in Held(n)' \cup {Null, Unknown} /\ remote[n] \in T
  BY <1>1 DEF StoreOK
<1> HIDE DEF S, T
<1>4. pending[n] \in Seq(T)
  BY <1>2, SeqOfMore
<1> QED
  BY <1>3, <1>4 DEF T

LEMMA SnapshotValues ==
    ASSUME StoreOK, NEW n \in Nodes
    PROVE  /\ F!View(n) \in Held(n) \cup {Null, Unknown}
           /\ F!SnapshotValue(n) \in Held(n) \cup {Null}
<1>1. /\ pending[n] \in Seq(Held(n) \cup {Null}) /\ remote[n] \in Held(n) \cup {Null}
      /\ synced[n] \in Held(n) \cup {Null, Unknown}
  BY DEF StoreOK
<1>2. pending[n] # << >> => pending[n][Len(pending[n])] \in Held(n) \cup {Null}
  BY <1>1, LastOfSeq
<1> QED
  BY <1>1, <1>2 DEF F!View, F!SnapshotValue

(***************************************************************************)
(* Kept survives, so earlier downloads stay as they are.                   *)
(***************************************************************************)
LEMMA HistoryStep ==
    ASSUME HistoryOK, rejected' \subseteq Nodes, inherited' = inherited,
           \A n \in Nodes \ {PostsNode} : Kept(n) => Kept(n)',
           \A d \in downloaded' : d \in downloaded \/ DownloadOK(d)'
    PROVE  HistoryOK'
<1>1. ASSUME NEW d \in downloaded PROVE DownloadOK(d)'
  <2>1. DownloadOK(d)
    BY DEF HistoryOK
  <2>2. ASSUME d.target # AllPosts
        PROVE  /\ UserNode(Author[d.target]) \in Nodes \ {PostsNode}
               /\ CommentsNode(d.target) \in Nodes \ {PostsNode}
    BY <2>1, <2>2, NodeValues, DataAssumption DEF DownloadOK
  <2> QED
    BY <2>1, <2>2 DEF DownloadOK
<1> QED
  BY <1>1 DEF HistoryOK

LEMMA WritePostsKeepsStore ==
    ASSUME KnownListsStay, StoreOK, HistoryOK, NEW posts \in {"posts", EmptyArray}, WritePosts(posts),
           downloaded' = downloaded \cup {[target |-> AllPosts, value |-> <<posts>>]},
           UNCHANGED <<synced, remote, online, rejected, inherited>>
    PROVE  StoreOK' /\ HistoryOK'
<1>1. PostsNode \in Nodes /\ F!Stored(posts) \in Held(PostsNode)' \cup {Null}
  <2>1. posts \in Held(PostsNode) /\ PostsNode \in Nodes
    BY NodeValues, HeldValues
  <2>2. Held(PostsNode) \subseteq Held(PostsNode)'
    BY <2>1, HeldStays
  <2> QED
    BY <2>1, <2>2 DEF F!Stored
<1>2. pending' = [pending EXCEPT ![PostsNode] = Append(pending[PostsNode], F!Stored(posts))]
  BY <1>1 DEF WritePosts, StoreOK
<1>3. pending[PostsNode] \in Seq(Held(PostsNode)' \cup {Null}) /\ DOMAIN pending = Nodes
  BY <1>1, StoredStays DEF StoreOK
<1>4. /\ DOMAIN pending' = Nodes
      /\ pending'[PostsNode] \in Seq(Held(PostsNode)' \cup {Null})
      /\ \A n \in Nodes \ {PostsNode} : pending'[n] = pending[n]
  BY <1>1, <1>2, <1>3
<1>5. StoreOK'
  BY <1>4, StoredStays DEF StoreOK
<1>6. \A n \in Nodes \ {PostsNode} : Kept(n) => Kept(n)'
  BY <1>4 DEF Kept
<1>7. DownloadOK([target |-> AllPosts, value |-> <<posts>>])'
  BY DEF DownloadOK
<1> QED
  BY <1>5, <1>6, <1>7, HistoryStep DEF HistoryOK

LEMMA WriteDetailsKeepsStore ==
    ASSUME KnownListsStay, StoreOK, HistoryOK, NEW post \in PostIds,
           NEW user \in UserIds, NEW comments \in CommentLists \cup {EmptyArray},
           WritePostDetails(user, comments),
           downloaded' = downloaded \cup {[target |-> post, value |-> <<user, comments>>]},
           UNCHANGED <<synced, remote, online, rejected, inherited>>
    PROVE  StoreOK' /\ HistoryOK'
<1> DEFINE d == [target |-> post, value |-> <<user, comments>>]
           un == UserNode(user)
           cn == CommentsNode(FirstPost(comments))
           writesComments == comments # EmptyArray
<1>0. d.target = post /\ d.value = <<user, comments>> /\ d.value[2] = comments /\ post # AllPosts
  BY DataAssumption
<1>1. /\ un \in Nodes \ {PostsNode} /\ Own(un) = {user} /\ F!Stored(user) = user
      /\ user \in Held(un)'
  <2>1. /\ un \in Nodes \ {PostsNode} /\ Own(un) = {user} /\ user \in Held(un)
    BY NodeValues, HeldValues
  <2>2. F!Stored(user) = user
    BY DataAssumption DEF F!Stored
  <2> QED
    BY <2>1, <2>2, HeldStays
<1>2. ASSUME writesComments
      PROVE  /\ cn \in Nodes \ {PostsNode} /\ cn # un
             /\ comments \in Own(cn) /\ F!Stored(comments) = comments
             /\ comments \in Held(cn)'
  <2> DEFINE p == FirstPost(comments)
  <2>1. comments \in CommentLists
    BY <1>2
  <2>2. p \in PostIds /\ comments \in ListsOf(p)
    BY <2>1, FirstPosts
  <2> HIDE DEF p
  <2>3. comments \in KnownLists(p)'
    <3>1. d \in downloaded' /\ d.target # AllPosts /\ d.value[2] = comments
      BY <1>0
    <3> QED
      BY <2>2, <3>1 DEF KnownLists
  <2>4. CommentsNode(p) \in Nodes \ {PostsNode} /\ CommentsNode(p) # un
        /\ Own(CommentsNode(p)) = ListsOf(p) /\ CommentsNode(p)[2] = p
    BY <2>2, NodeValues
  <2>5. Held(CommentsNode(p))' = ForeignData \cup KnownLists(p)'
    BY <2>2, <2>4 DEF Held
  <2> QED
    BY <1>2, <2>2, <2>3, <2>4, <2>5 DEF F!Stored, p
<1>3. /\ DOMAIN pending' = Nodes
      /\ \A n \in Nodes :
           pending'[n] = IF n = un THEN Append(pending[n], F!Stored(user))
                         ELSE IF writesComments /\ n = cn
                              THEN Append(pending[n], F!Stored(comments))
                         ELSE pending[n]
  BY DEF WritePostDetails
<1> HIDE DEF un, cn, writesComments, d
<1>4. ASSUME NEW n \in Nodes
      PROVE  \/ pending'[n] = pending[n]
             \/ /\ n # PostsNode
                /\ \E x \in Own(n) : x \in Held(n)' /\ pending'[n] = Append(pending[n], x)
  <2>1. CASE n = un
    BY <1>1, <1>3, <2>1
  <2>2. CASE n # un /\ writesComments /\ n = cn
    BY <1>2, <1>3, <2>2
  <2> QED
    BY <1>3, <2>1, <2>2
<1>5. ASSUME NEW n \in Nodes
      PROVE  /\ pending'[n] \in Seq(Held(n)' \cup {Null})
             /\ n # PostsNode => pending'[n] \in Seq(Own(n))
             /\ pending[n] # << >> => pending'[n] # << >>
  <2> DEFINE T == Held(n)' \cup {Null}
             O == Own(n)
  <2>1. pending[n] \in Seq(T) /\ (n # PostsNode => pending[n] \in Seq(O))
    BY StoredStays DEF StoreOK
  <2>2. CASE pending'[n] = pending[n]
    BY <2>1, <2>2
  <2>3. ASSUME n # PostsNode, NEW x \in Own(n), x \in Held(n)', pending'[n] = Append(pending[n], x)
        PROVE  /\ pending'[n] \in Seq(T) /\ pending'[n] \in Seq(O) /\ pending'[n] # << >>
    <3>1. x \in T /\ x \in O
      BY <2>3
    <3> HIDE DEF T, O
    <3> QED
      BY <2>1, <2>3, <3>1
  <2> QED
    BY <1>4, <2>2, <2>3
<1>6. StoreOK'
  BY <1>3, <1>5, StoredStays DEF StoreOK
<1>7. \A n \in Nodes \ {PostsNode} : Kept(n) => Kept(n)'
  BY <1>5 DEF Kept
<1>8. DownloadOK(d)'
  <2>1. Success(d.value) \in Answers(post)
    <3>1. <<user, comments>> \in UserIds \X (CommentLists \cup {EmptyArray})
      OBVIOUS
    <3> QED
      BY <1>0, <3>1 DEF Answers
  <2>2. ASSUME d.value \in {Author[post]} \X ListsOf(post)
        PROVE  Kept(UserNode(Author[post]))' /\ Kept(CommentsNode(post))'
    <3>1. user = Author[post] /\ comments \in CommentLists /\ FirstPost(comments) = post
      BY <1>0, <2>2 DEF ListsOf
    <3>2. writesComments
      BY <3>1, DataAssumption DEF writesComments
    <3>3. UserNode(Author[post]) = un /\ CommentsNode(post) = cn
      BY <3>1 DEF un, cn
    <3>4. pending'[un] = Append(pending[un], user) /\ pending'[cn] = Append(pending[cn], comments)
      BY <1>1, <1>2, <1>3, <3>2
    <3>5. pending[un] \in Seq(Own(un)) /\ pending[cn] \in Seq(Own(cn))
      BY <1>1, <1>2, <3>2 DEF StoreOK
    <3>6. pending'[un] # << >> /\ pending'[cn] # << >>
      BY <3>4, <3>5
    <3> QED
      BY <3>3, <3>6 DEF Kept
  <2> QED
    BY <1>0, <2>1, <2>2 DEF DownloadOK
<1>9. \A e \in downloaded' : e \in downloaded \/ e = d
  BY DEF d
<1> QED
  BY <1>6, <1>7, <1>8, <1>9, HistoryStep DEF HistoryOK

LEMMA ServerKeepsStore ==
    ASSUME KnownListsStay, StoreOK, HistoryOK, NEW n \in Nodes, ServerCommits(n) \/ ServerRejects(n)
    PROVE  StoreOK' /\ HistoryOK'
<1>1. /\ pending[n] # << >> /\ pending[n] \in Seq(Held(n)' \cup {Null})
      /\ pending' = [pending EXCEPT ![n] = Tail(pending[n])] /\ DOMAIN pending = Nodes
      /\ downloaded' = downloaded /\ online' = online
      /\ inherited' = inherited
  BY StoredStays DEF ServerCommits, ServerRejects, F!Commit, F!Reject, StoreOK, historyVars
<1>2. Head(pending[n]) \in Held(n)' \cup {Null} /\ Tail(pending[n]) \in Seq(Held(n)' \cup {Null})
  BY <1>1, LastOfSeq
<1>3. n # PostsNode => Head(pending[n]) \in Own(n) /\ Tail(pending[n]) \in Seq(Own(n))
  <2>1. n # PostsNode => pending[n] \in Seq(Own(n))
    BY DEF StoreOK
  <2> QED
    BY <1>1, <2>1, LastOfSeq
<1>4. DOMAIN pending' = Nodes /\ \A m \in Nodes : pending'[m] = IF m = n THEN Tail(pending[n]) ELSE pending[m]
  BY <1>1
<1>5. CASE ServerCommits(n)
  <2>1. /\ remote' = [remote EXCEPT ![n] = Head(pending[n])]
        /\ synced' = [synced EXCEPT ![n] = Head(pending[n])] /\ rejected' = rejected
    BY <1>5 DEF ServerCommits, F!Commit, historyVars
  <2>2. /\ DOMAIN remote' = Nodes /\ DOMAIN synced' = Nodes
        /\ \A m \in Nodes : /\ remote'[m] = IF m = n THEN Head(pending[n]) ELSE remote[m]
                            /\ synced'[m] = IF m = n THEN Head(pending[n]) ELSE synced[m]
    BY <2>1 DEF StoreOK
  <2>3. StoreOK'
    BY <1>1, <1>2, <1>3, <1>4, <2>2, StoredStays DEF StoreOK
  <2>4. \A m \in Nodes \ {PostsNode} : Kept(m) => Kept(m)'
    BY <1>3, <1>4, <2>1, <2>2 DEF Kept
  <2> QED
    BY <1>1, <2>1, <2>3, <2>4, HistoryStep DEF HistoryOK
<1>6. CASE ServerRejects(n)
  <2>1. rejected' = rejected \cup {n} /\ synced' = synced /\ remote' = remote
    BY <1>6 DEF ServerRejects, F!Reject
  <2>2. StoreOK'
    BY <1>1, <1>2, <1>3, <1>4, <2>1, StoredStays DEF StoreOK
  <2>3. \A m \in Nodes \ {PostsNode} : Kept(m) => Kept(m)'
    BY <1>4, <2>1 DEF Kept
  <2> QED
    BY <1>1, <2>1, <2>2, <2>3, HistoryStep DEF HistoryOK
<1> QED
  BY <1>5, <1>6

LEMMA ObserveKeepsStore ==
    ASSUME KnownListsStay, Inv, CallsOK, StoreOK, HistoryOK, NEW q \in Requests, DatabaseObserve(q)
    PROVE  StoreOK' /\ HistoryOK'
<1> DEFINE n == reads[q].node
<1>1. n \in Nodes
  BY ReadTarget DEF DatabaseObserve, F!Observe
<1>2. /\ synced' = [synced EXCEPT ![n] = IF F!View(n) = Unknown THEN remote[n] ELSE synced[n]]
      /\ UNCHANGED <<pending, remote, online, rejected, downloaded, inherited>>
  BY <1>1 DEF DatabaseObserve, F!Observe, historyVars, StoreOK
<1> HIDE DEF n
<1>3. /\ DOMAIN synced' = Nodes
      /\ \A m \in Nodes : synced'[m] = IF m = n /\ F!View(m) = Unknown THEN remote[m] ELSE synced[m]
  BY <1>1, <1>2 DEF StoreOK
<1>4. StoreOK'
  BY <1>2, <1>3, StoredStays DEF StoreOK
<1>5. ASSUME NEW m \in Nodes \ {PostsNode}, Kept(m) PROVE Kept(m)'
  <2>1. Unknown \notin Own(m)
    BY NodeValues, MarkersAssumption DEF F!StoreAssumption
  <2>2. CASE pending[m] = << >> /\ synced[m] \in Own(m)
    <3>1. F!View(m) # Unknown
      BY <2>1, <2>2 DEF F!View
    <3> QED
      BY <1>3, <2>2, <3>1 DEF Kept
  <2>3. CASE m \in rejected \/ pending[m] # << >>
    BY <1>2, <2>3 DEF Kept
  <2> QED
    BY <1>5, <2>2, <2>3 DEF Kept
<1> QED
  BY <1>2, <1>4, <1>5, HistoryStep DEF HistoryOK

LEMMA StepKeepsStore ==
    ASSUME Inv, CallsOK, TasksOK, StoreOK, HistoryOK, [Next]_vars
    PROVE  StoreOK' /\ HistoryOK'
<1>0. /\ \A c \in Calls : call[c] \in CallType
      /\ KnownListsStay /\ inherited' = inherited
  BY StepKeepsKnownLists DEF CallsOK, CallOK
<1>1. ASSUME UNCHANGED <<synced, pending, remote, rejected, downloaded>>, online' \in BOOLEAN
      PROVE  StoreOK' /\ HistoryOK'
  <2>1. StoreOK'
    BY <1>0, <1>1, StoredStays DEF StoreOK
  <2>2. \A n \in Nodes \ {PostsNode} : Kept(n) => Kept(n)'
    BY <1>1 DEF Kept
  <2> QED
    BY <1>0, <1>1, <2>1, <2>2, HistoryStep DEF HistoryOK
<1>2. online \in BOOLEAN
  BY DEF StoreOK
<1>3. ASSUME NEW c \in Calls, NEW response, PostsLoaded(c, response),
             IsSuccess(response) => \E v \in LegValues("posts") : response = Success(v),
             UNCHANGED <<synced, remote, online, rejected>>
      PROVE  StoreOK' /\ HistoryOK'
  <2>1. CASE IsSuccess(response)
    <3>1. response.value \in {"posts", EmptyArray}
      BY <1>3, <2>1 DEF LegValues, Success
    <3>2. /\ WritePosts(response.value)
          /\ downloaded' = downloaded \cup {[target |-> AllPosts, value |-> <<response.value>>]}
      BY <1>3, <2>1 DEF PostsLoaded
    <3> QED
      BY <1>0, <1>3, <3>1, <3>2, WritePostsKeepsStore
  <2>2. CASE ~IsSuccess(response)
    <3>1. pending' = pending /\ downloaded' = downloaded
      BY <1>3, <2>2 DEF PostsLoaded
    <3> QED
      BY <1>1, <1>2, <1>3, <3>1
  <2> QED
    BY <2>1, <2>2
<1>4. ASSUME NEW c \in Calls, RetrieveAllPostsWithoutURL(c) PROVE StoreOK' /\ HistoryOK'
  <2>1. ~IsSuccess(Failure("urlError"))
    BY DEF IsSuccess, Failure
  <2> QED
    BY <1>3, <1>4, <2>1 DEF RetrieveAllPostsWithoutURL
<1>5. ASSUME NEW q \in Requests, NetworkCompletion(q) PROVE StoreOK' /\ HistoryOK'
  <2>1. PICK c \in Calls, leg \in Legs : q = <<c, leg>>
    BY DEF Requests
  <2> DEFINE response == DecodedBody(N!ResponseTo(task[q].reply))
  <2>2. task[q].reply \in N!Replies(<<c, leg>>) /\ UNCHANGED <<synced, remote, online, rejected>>
    BY <1>5, <2>1, QueuedReply DEF NetworkCompletion
  <2>3. \/ downloaded' = downloaded /\ pending' = pending
        \/ leg = "posts" /\ PostsLoaded(c, response)
    BY <1>5, <2>1 DEF NetworkCompletion
  <2>4. CASE downloaded' = downloaded /\ pending' = pending
    BY <1>1, <1>2, <2>2, <2>4
  <2>5. CASE leg = "posts" /\ PostsLoaded(c, response)
    <3>1. IsSuccess(response) => \E v \in LegValues("posts") : response = Success(v)
      BY <2>2, <2>5, BodyType
    <3> HIDE DEF response
    <3> QED
      BY <1>3, <2>2, <2>5, <3>1
  <2> QED
    BY <2>3, <2>4, <2>5
<1>6. ASSUME NEW c \in Calls, LoadPostDetailsNotify(c) PROVE StoreOK' /\ HistoryOK'
  <2> DEFINE group == call[c].group
             post == call[c].target
  <2>1. /\ CallConsistent(c) /\ call[c].phase = "network" /\ GroupDone(group)
        /\ UNCHANGED <<synced, remote, online, rejected>>
    BY <1>6 DEF LoadPostDetailsNotify, Inv
  <2>2. /\ post # AllPosts /\ (GroupFilled(group) \/ group.responseError # Nil)
        /\ post \in PostIds /\ group \in GroupType
    BY <1>0, <2>1, NotifyFindsSettledLegs DEF CallType
  <2>3. \/ pending' = pending /\ downloaded' = downloaded
        \/ /\ GroupFilled(group)
           /\ WritePostDetails(Unwrapped(group.user), Unwrapped(group.comments))
           /\ downloaded' = downloaded \cup {[target |-> post, value |-> Details(group)]}
    BY <1>6 DEF LoadPostDetailsNotify, DetailsLoaded
  <2>4. CASE pending' = pending /\ downloaded' = downloaded
    BY <1>1, <1>2, <2>1, <2>4
  <2>5. CASE /\ GroupFilled(group)
             /\ WritePostDetails(Unwrapped(group.user), Unwrapped(group.comments))
             /\ downloaded' = downloaded \cup {[target |-> post, value |-> Details(group)]}
    <3>1. PICK user \in UserIds, comments \in CommentLists \cup {EmptyArray} :
            /\ Unwrapped(group.user) = user /\ Unwrapped(group.comments) = comments
            /\ Details(group) = <<user, comments>>
      BY <2>2, <2>5, DetailsType
    <3>2. /\ WritePostDetails(user, comments)
          /\ downloaded' = downloaded \cup {[target |-> post, value |-> <<user, comments>>]}
      BY <2>5, <3>1
    <3> HIDE DEF group
    <3> QED
      BY <1>0, <2>1, <2>2, <3>2, WriteDetailsKeepsStore
  <2> QED
    BY <2>3, <2>4, <2>5
<1>7. ASSUME NEW q \in Requests, DatabaseObserve(q) PROVE StoreOK' /\ HistoryOK'
  BY <1>0, <1>7, ObserveKeepsStore
<1>8. ASSUME NEW n \in Nodes, ServerCommits(n) \/ ServerRejects(n) PROVE StoreOK' /\ HistoryOK'
  BY <1>0, <1>8, ServerKeepsStore
<1>9. ASSUME \/ \E c \in Calls : RetrieveAllPosts(c) \/ ReadPostDetailsNotify(c)
             \/ \E c \in Calls, post \in PostIds, refused \in SUBSET {"user", "comments"} :
                  RetrievePostDetails(c, post, refused)
             \/ \E q \in Requests : NetworkReply(q) \/ DatabaseTimeout(q)
             \/ Reconnect \/ Relaunch
             \/ UNCHANGED vars
      PROVE  StoreOK' /\ HistoryOK'
  <2>1. UNCHANGED <<synced, pending, remote, rejected, downloaded>>
    BY <1>9 DEF RetrieveAllPosts, ReadPostDetailsNotify, RetrievePostDetails, NetworkReply,
                DatabaseTimeout, F!Timeout, F!storeVars, Reconnect, F!Reconnect, Relaunch,
                F!Relaunch, F!RelaunchedStore, F!isPersistenceEnabled,
                vars, databaseVars, historyVars
  <2>2. online' \in BOOLEAN
    BY <1>2, <1>9
       DEF RetrieveAllPosts, ReadPostDetailsNotify, RetrievePostDetails, NetworkReply,
           DatabaseTimeout, F!Timeout, F!storeVars, Reconnect, F!Reconnect, Relaunch,
           F!Relaunch, vars, databaseVars
  <2> QED
    BY <1>1, <2>1, <2>2
<1> QED
  BY <1>4, <1>5, <1>6, <1>7, <1>8, <1>9 DEF Next

-----------------------------------------------------------------------------
(***************************************************************************)
(* The inductive invariant of the data, beside Inv.                        *)
(***************************************************************************)
DataInv ==
    /\ CallsOK
    /\ TasksOK
    /\ StoreOK
    /\ HistoryOK
    /\ trap \in {"none", "users.first!", "responseError!", "JSONSerialization.data"}
    /\ launches \in 1 .. MaxLaunches

LEMMA InitEstablishesDataInv == Init => DataInv
<1> SUFFICES ASSUME Init PROVE DataInv
  OBVIOUS
<1>1. /\ call = [c \in Calls |-> NotStarted]
      /\ task = [q \in Requests |-> N!NotRequested]
      /\ isNetworkActivityIndicatorVisible = FALSE
      /\ reads = [q \in Requests |-> F!NotCalled]
      /\ synced = [n \in Nodes |-> Unknown]
      /\ pending = [n \in Nodes |-> << >>]
      /\ online \in BOOLEAN
      /\ trap = "none" /\ launches = 1 /\ downloaded = {} /\ rejected = {}
  BY DEF Init, N!Init, F!Init
<1>2. NotStarted \in CallType /\ NotStarted.phase = "idle" /\ NotStarted.response = NoResponse
  BY NewGroupsType DEF NotStarted, CallType
<1>3. ASSUME NEW c \in Calls PROVE CallOK(c)
  <2>1. call[c] = NotStarted /\ \A leg \in Legs : reads[<<c, leg>>] = F!NotCalled
    BY <1>1 DEF Requests
  <2> QED
    BY <1>2, <2>1 DEF CallOK, CallResponses, ReadOf, AnsweredByDatabase
<1>4. CallsOK
  BY <1>1, <1>3, ReadTypes DEF CallsOK
<1>5. TasksOK
  BY <1>1, TaskTypes DEF TasksOK
<1>6. DOMAIN remote = Nodes /\ \A n \in Nodes : remote[n] \in Values[n] \cup {Null}
  BY DEF Init, F!Init
<1>10. \A p \in PostIds : inherited[p] = remote[CommentsNode(p)]
  BY DEF Init
<1>11. ASSUME NEW n \in Nodes PROVE remote[n] \in Held(n) \cup {Null}
  <2>1. CASE n \in {CommentsNode(p) : p \in PostIds}
    <3>1. PICK p \in PostIds : n = CommentsNode(p)
      BY <2>1
    <3>2. remote[n] \in ForeignData \cup ListsOf(p) \cup {Null} /\ inherited[p] = remote[n]
      BY <1>6, <1>10, <3>1, NodeValues
    <3>3. remote[n] \in ListsOf(p) => remote[n] \in KnownLists(p)
      BY <3>2 DEF KnownLists
    <3> QED
      BY <3>1, <3>2, <3>3, HeldValues
  <2>2. CASE n \notin {CommentsNode(p) : p \in PostIds}
    BY <1>6, <2>2 DEF Held
  <2> QED
    BY <2>1, <2>2
<1>7. StoreOK
  BY <1>1, <1>6, <1>11 DEF StoreOK
<1>8. HistoryOK
  BY <1>1, <1>6, <1>10, NodeValues DEF HistoryOK
<1>9. launches \in 1 .. MaxLaunches
  BY <1>1, DataAssumption
<1> QED
  BY <1>1, <1>4, <1>5, <1>7, <1>8, <1>9 DEF DataInv

LEMMA StepKeepsDataInv == Inv /\ DataInv /\ [Next]_vars => DataInv'
<1> SUFFICES ASSUME Inv, DataInv, [Next]_vars PROVE DataInv'
  OBVIOUS
<1>1. \A n \in Nodes : F!SnapshotValue(n) \in Held(n) \cup {Null}
  BY SnapshotValues DEF DataInv
<1>2. CallsOK' /\ TasksOK' /\ StoreOK' /\ HistoryOK'
  BY <1>1, StepKeepsCallsOK, StepKeepsTasksOK, StepKeepsStore DEF DataInv
<1>3. trap' \in {trap, "none", "users.first!", "responseError!", "JSONSerialization.data"}
  BY DEF Next, AfterRead, RetrieveAllPosts, RetrieveAllPostsWithoutURL, RetrievePostDetails,
         LoadPostDetailsNotify, ReadPostDetailsNotify, NetworkReply, NetworkCompletion,
         DatabaseObserve, DatabaseTimeout, ServerCommits, ServerRejects, Reconnect, Relaunch, vars
<1>4. launches' = launches \/ (launches < MaxLaunches /\ launches' = launches + 1)
  BY DEF Next, RetrieveAllPosts, RetrieveAllPostsWithoutURL, RetrievePostDetails,
         LoadPostDetailsNotify, ReadPostDetailsNotify, NetworkReply, NetworkCompletion,
         DatabaseObserve, DatabaseTimeout, ServerCommits, ServerRejects, Reconnect, Relaunch, vars
<1>5. launches' \in 1 .. MaxLaunches
  BY <1>4, DataAssumption DEF DataInv
<1> QED
  BY <1>2, <1>3, <1>5 DEF DataInv

LEMMA DataInvAlways == Spec => []DataInv
BY InitEstablishesDataInv, StepKeepsDataInv, InvAlways, PTL DEF Spec

(***************************************************************************)
(* Type correctness of the retrievals and of the two services they use, as *)
(* DataProvider composes them.                                             *)
(***************************************************************************)
THEOREM ProviderTyped == Spec => []TypeOK
<1>1. Inv /\ DataInv => TypeOK
  <2> SUFFICES ASSUME Inv, DataInv PROVE TypeOK
    OBVIOUS
  <2>1. DOMAIN call = Calls
    BY DEF Inv, Shapes
  <2>2. ASSUME NEW c \in Calls
        PROVE  /\ [call[c] EXCEPT !.response = NoResponse] \in CallType
               /\ call[c].response \in {NoResponse} \cup Answers(call[c].target)
                                          \cup {Failure(e) : e \in DataErrors}
    <3>1. call[c] \in CallType /\ call[c].response \in CallResponses(call[c].target)
      BY DEF DataInv, CallsOK, CallOK
    <3> QED
      BY <3>1 DEF CallType, CallResponses
  <2>3. rejected \subseteq Nodes /\ \A d \in downloaded : Success(d.value) \in
          IF d.target = AllPosts THEN {Success(<<posts>>) : posts \in {"posts", EmptyArray}}
                                 ELSE Answers(d.target)
    BY DEF DataInv, HistoryOK, DownloadOK
  <2>6. \A p \in PostIds : inherited[p] \in Values[CommentsNode(p)] \cup {Null}
    BY DEF DataInv, HistoryOK
  <2>4. N!TypeOK
    BY DEF DataInv, TasksOK, TaskType, N!TypeOK
  <2>5. F!TypeOK
    <3>1. ASSUME NEW n \in Nodes
          PROVE  /\ synced[n] \in Values[n] \cup {Null, Unknown}
                 /\ pending[n] \in Seq(Values[n] \cup {Null})
                 /\ remote[n] \in Values[n] \cup {Null}
      <4> DEFINE S == Held(n) \cup {Null}
                 T == Values[n] \cup {Null}
      <4>1. Held(n) \subseteq Values[n]
        BY HeldValues
      <4>2. S \subseteq T /\ pending[n] \in Seq(S)
        BY <4>1 DEF DataInv, StoreOK
      <4>3. synced[n] \in Values[n] \cup {Null, Unknown} /\ remote[n] \in T
        BY <4>1 DEF DataInv, StoreOK
      <4> HIDE DEF S, T
      <4>4. pending[n] \in Seq(T)
        BY <4>2, SeqOfMore
      <4> QED
        BY <4>3, <4>4 DEF T
    <3> QED
      BY <3>1 DEF DataInv, StoreOK, CallsOK, F!TypeOK
  <2> QED
    BY <2>1, <2>2, <2>3, <2>4, <2>5, <2>6 DEF TypeOK, DataInv
<1> QED
  BY <1>1, InvAlways, DataInvAlways, PTL

(***************************************************************************)
(* Details that come from the database are the author of the selected post *)
(* and, whole, a list that was downloaded, or was on the server from the   *)
(* start, and begins with a comment of that post: writePostDetails and     *)
(* readPostDetails agree on the keys whatever lists the web service has    *)
(* answered with, lists of several posts' comments included, which come    *)
(* back as they were filed.                                                *)
(***************************************************************************)
THEOREM DatabaseAnswersTheSelectedPost == Spec => []DatabaseDetailsMatchPost
<1>1. DataInv => DatabaseDetailsMatchPost
  BY DEF DataInv, CallsOK, CallOK, DatabaseDetailsMatchPost
<1> QED
  BY <1>1, DataInvAlways, PTL

(***************************************************************************)
(* Details that were downloaded with the author and with comments that     *)
(* begin with one of their post can be read from the local database in     *)
(* every later state of every later launch, unless the server refused one  *)
(* of the two writes.                                                      *)
(***************************************************************************)
THEOREM DownloadsAreKept == Spec => []DownloadedStaysReadable
<1>1. DataInv => DownloadedStaysReadable
  <2> SUFFICES ASSUME DataInv, NEW d \in downloaded, d.target # AllPosts,
                      d.value \in {Author[d.target]} \X ListsOf(d.target),
                      {UserNode(Author[d.target]), CommentsNode(d.target)} \cap rejected = {}
               PROVE  ReadableDetails(d.target)
    BY DEF DownloadedStaysReadable
  <2>1. DownloadOK(d) /\ StoreOK
    BY DEF DataInv, HistoryOK
  <2>2. /\ UserNode(Author[d.target]) \in Nodes \ {PostsNode}
        /\ Own(UserNode(Author[d.target])) = {Author[d.target]}
        /\ CommentsNode(d.target) \in Nodes \ {PostsNode}
        /\ Own(CommentsNode(d.target)) = ListsOf(d.target)
    BY <2>1, NodeValues, DataAssumption DEF DownloadOK
  <2>3. ASSUME NEW n \in Nodes \ {PostsNode}, Kept(n), n \notin rejected
        PROVE  F!View(n) \in Own(n)
    <3>1. pending[n] \in Seq(Own(n))
      BY <2>1 DEF StoreOK
    <3>2. pending[n] # << >> => pending[n][Len(pending[n])] \in Own(n)
      BY <3>1, LastOfSeq
    <3> QED
      BY <2>3, <3>2 DEF Kept, F!View
  <2> QED
    BY <2>1, <2>2, <2>3 DEF DownloadOK, ReadableDetails
<1> QED
  BY <1>1, DataInvAlways, PTL

=============================================================================
