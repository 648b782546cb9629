----------------------- MODULE FirebaseDatabaseService -----------------------
(***************************************************************************)
(* FirebaseDatabaseService: create and read on top of the Firebase client. *)
(*                                                                         *)
(* The Firebase client itself (cache, queue of unacknowledged writes,      *)
(* persistence, connection) is a closed library; it is modelled from its   *)
(* public headers and from the comment in read().  The service's own state *)
(* is, for each call of read(), the two flags didTimeout and didComplete   *)
(* that its two closures share, and the two closures that may still run:   *)
(* the single-event observer and the timeout block.                        *)
(*                                                                         *)
(* Every closure runs on the main queue, so one closure is one step.       *)
(***************************************************************************)
EXTENDS Naturals, Sequences, ResponseType

CONSTANTS
    Nodes,            \* locations of the database the app reads and writes
    Values,           \* Values[n]: what the app or the server may hold at n
    EmptyCollection,  \* an object with no elements, e.g. the array []
    Null,             \* "no data at this location", a fact the client knows
    Unknown,          \* the location has never been in the local database
    Reads,            \* identities of the calls of read()
    NoResponse,       \* the completion has not been called
    MaxPending        \* bound on queued writes per node (model bound only)

AllValues == UNION {Values[n] : n \in Nodes}

Responses == [type : {"success", "failure"}, value : AllValues \cup DatabaseErrors]

ASSUME StoreAssumption ==
    /\ \A n \in Nodes : {Null, Unknown, NoResponse} \cap Values[n] = {}
    /\ Null # Unknown
    /\ Null \notin Nodes
    /\ NoResponse \notin Responses
    /\ MaxPending \in Nat

VARIABLES
    synced,   \* synced[n]: the server's value of n as the device last saw it
    pending,  \* pending[n]: queued writes to n the server has not answered
    remote,   \* remote[n]: the value of n on the Firebase servers
    online,   \* the client has a connection
    reads     \* reads[r]: the state shared by the two closures of one read()

storeVars == <<synced, pending, remote, online>>
vars == <<synced, pending, remote, online, reads>>

-----------------------------------------------------------------------------
(***************************************************************************)
(* The local view of a node: the latest queued write, else the cache.      *)
(***************************************************************************)
View(n) ==
    IF pending[n] = << >> THEN synced[n] ELSE pending[n][Len(pending[n])]

(***************************************************************************)
(* setValue with an empty collection stores nothing: the node is removed.  *)
(***************************************************************************)
Stored(object) == IF object = EmptyCollection THEN Null ELSE object

(* Variant: AppDelegate leaves persistence at its default.                 *)
PersistenceDisabled == FALSE

(***************************************************************************)
(* AppDelegate turns persistence on before the first database reference.   *)
(***************************************************************************)
isPersistenceEnabled == TRUE

NotCalled == [node |-> Null, observing |-> FALSE, timer |-> FALSE,
              didTimeout |-> FALSE, didComplete |-> FALSE,
              response |-> NoResponse, completions |-> 0]

(* Variant: read() without its timeout block.                              *)
CalledWithoutTimer(n) == [NotCalled EXCEPT !.node = n, !.observing = TRUE]

Called(n) == [NotCalled EXCEPT !.node = n, !.observing = TRUE, !.timer = TRUE]

Completed(read, response) ==
    [read EXCEPT !.response = response, !.completions = @ + 1]

(* Variant: the snapshot's value is taken without asking snapshot.exists(). *)
SnapshotTakenUnchecked(read, value) ==
    LET seen == [read EXCEPT !.observing = FALSE, !.didComplete = TRUE]
    IN  IF read.didTimeout THEN seen ELSE Completed(seen, Success(value))

(* Variant: an empty snapshot returns before didComplete is set.           *)
SnapshotTakenForgettingFlag(read, value) ==
    LET seen == [read EXCEPT !.observing = FALSE, !.didComplete = (value # Null)]
    IN  IF read.didTimeout THEN seen
        ELSE Completed(seen, IF value # Null THEN Success(value)
                             ELSE Failure("databaseReadError"))

(***************************************************************************)
(* The observer's closure, given the value of the snapshot.                *)
(***************************************************************************)
SnapshotTaken(read, value) ==
    LET seen == [read EXCEPT !.observing = FALSE, !.didComplete = TRUE]
    IN  IF read.didTimeout THEN seen
        ELSE Completed(seen, IF value # Null THEN Success(value)
                             ELSE Failure("databaseReadError"))

(* Variant: the timeout block only looks at didTimeout.                    *)
TimerFiredUnguarded(read) ==
    LET fired == [read EXCEPT !.timer = FALSE]
    IN  IF ~read.didTimeout
        THEN Completed([fired EXCEPT !.didTimeout = TRUE],
                       Failure("databaseReadError"))
        ELSE fired

(***************************************************************************)
(* The block scheduled with asyncAfter.                                    *)
(***************************************************************************)
TimerFired(read) ==
    LET fired == [read EXCEPT !.timer = FALSE]
    IN  IF ~read.didTimeout /\ ~read.didComplete
        THEN Completed([fired EXCEPT !.didTimeout = TRUE],
                       Failure("databaseReadError"))
        ELSE fired

-----------------------------------------------------------------------------
Init ==
    /\ synced = [n \in Nodes |-> Unknown]
    /\ pending = [n \in Nodes |-> << >>]
    /\ remote \in {f \in [Nodes -> AllValues \cup {Null}] :
                      \A n \in Nodes : f[n] \in {Null} \cup (Values[n] \ {EmptyCollection})}
    /\ online \in BOOLEAN
    /\ reads = [r \in Reads |-> NotCalled]

(***************************************************************************)
(* create(): the write is visible locally at once and queued for the       *)
(* server.  Its completion block has no effect on the app's state.         *)
(***************************************************************************)
Create(n, object) ==
    /\ Len(pending[n]) < MaxPending
    /\ pending' = [pending EXCEPT ![n] = Append(@, Stored(object))]
    /\ UNCHANGED <<synced, remote, online, reads>>

(***************************************************************************)
(* read(): registers the observer and arms the timeout.                    *)
(***************************************************************************)
Read(r, n) ==
    /\ reads[r] = NotCalled
    /\ reads' = [reads EXCEPT ![r] = Called(n)]
    /\ UNCHANGED storeVars

(***************************************************************************)
(* The client answers an observer from the local database when the node is *)
(* there, else from the server when there is a connection; else never.     *)
(***************************************************************************)
SnapshotValue(n) == IF View(n) # Unknown THEN View(n) ELSE remote[n]

Observe(r) ==
    LET n == reads[r].node
    IN  /\ reads[r].observing
        /\ View(n) # Unknown \/ online
        /\ reads' = [reads EXCEPT ![r] = SnapshotTaken(@, SnapshotValue(n))]
        /\ synced' = [synced EXCEPT ![n] = IF View(n) = Unknown THEN remote[n] ELSE @]
        /\ UNCHANGED <<pending, remote, online>>

Timeout(r) ==
    /\ reads[r].timer
    /\ reads' = [reads EXCEPT ![r] = TimerFired(@)]
    /\ UNCHANGED storeVars

(***************************************************************************)
(* The server commits, or its rules refuse, the oldest queued write.       *)
(***************************************************************************)
Commit(n) ==
    /\ online
    /\ pending[n] # << >>
    /\ remote' = [remote EXCEPT ![n] = Head(pending[n])]
    /\ synced' = [synced EXCEPT ![n] = Head(pending[n])]
    /\ pending' = [pending EXCEPT ![n] = Tail(@)]
    /\ UNCHANGED <<online, reads>>

Reject(n) ==
    /\ online
    /\ pending[n] # << >>
    /\ pending' = [pending EXCEPT ![n] = Tail(@)]
    /\ UNCHANGED <<synced, remote, online, reads>>

Reconnect ==
    /\ online' = ~online
    /\ UNCHANGED <<synced, pending, remote, reads>>

(***************************************************************************)
(* The process dies and is launched again: closures and flags are gone,    *)
(* the local database is what persistence kept of it.                      *)
(***************************************************************************)
RelaunchedStore ==
    IF isPersistenceEnabled
    THEN UNCHANGED <<synced, pending>>
    ELSE /\ synced' = [n \in Nodes |-> Unknown]
         /\ pending' = [n \in Nodes |-> << >>]

Relaunch ==
    /\ RelaunchedStore
    /\ reads' = [r \in Reads |-> NotCalled]
    /\ UNCHANGED <<remote, online>>

Next ==
    \/ \E n \in Nodes : \E object \in Values[n] : Create(n, object)
    \/ \E r \in Reads, n \in Nodes : Read(r, n)
    \/ \E r \in Reads : Observe(r) \/ Timeout(r)
    \/ \E n \in Nodes : Commit(n) \/ Reject(n)
    \/ Reconnect
    \/ Relaunch

(***************************************************************************)
(* Only the timeout block is certain to run: the main queue serves it.     *)
(* Nothing makes an observer fire, a connection return or a write commit.  *)
(***************************************************************************)
Fairness == \A r \in Reads : WF_vars(Timeout(r))

Spec == Init /\ [][Next]_vars /\ Fairness

-----------------------------------------------------------------------------
ReadRecord ==
    [node : Nodes \cup {Null}, observing : BOOLEAN, timer : BOOLEAN,
     didTimeout : BOOLEAN, didComplete : BOOLEAN,
     response : Responses \cup {NoResponse}, completions : Nat]

(* The types of the client's store and of the state of every read().       *)
TypeOK ==
    /\ \A n \in Nodes :
         /\ synced[n] \in Values[n] \cup {Null, Unknown}
         /\ pending[n] \in Seq(Values[n] \cup {Null})
         /\ remote[n] \in Values[n] \cup {Null}
    /\ DOMAIN synced = Nodes /\ DOMAIN pending = Nodes /\ DOMAIN remote = Nodes
    /\ online \in BOOLEAN
    /\ reads \in [Reads -> ReadRecord]

(***************************************************************************)
(* The completion of a read is called at most once, whichever of the       *)
(* observer and the timeout block runs first, and however late the other   *)
(* one is (the didTimeout / didComplete guards of read()).                 *)
(***************************************************************************)
AtMostOneCompletion == \A r \in Reads : reads[r].completions <= 1

(***************************************************************************)
(* What the two closures of a read() rely on: the completion has been      *)
(* called, once, exactly when one of the shared flags is set, a closure    *)
(* that is still to run finds its own flag unset, and only a call that was *)
(* made has closures.                                                      *)
(***************************************************************************)
FlagsConsistent ==
    \A r \in Reads :
        LET read == reads[r]
        IN  /\ read.completions = IF read.didTimeout \/ read.didComplete THEN 1 ELSE 0
            /\ read.completions = 0 <=> read.response = NoResponse
            /\ read.observing => ~read.didComplete
            /\ read.timer => ~read.didTimeout
            /\ read.node = Null => ~read.observing /\ ~read.timer
            /\ read.node = Null => read.response = NoResponse

(***************************************************************************)
(* A read that is answered with data is answered with data of its own      *)
(* node, never with the marker of an empty node: what snapshot.exists()    *)
(* and the choice of readNode in read() are for.                           *)
(***************************************************************************)
AnswersComeFromTheNode ==
    \A r \in Reads :
        LET read == reads[r]
        IN  read.response # NoResponse =>
              \/ read.response = Failure("databaseReadError")
              \/ \E v \in Values[read.node] : read.response = Success(v)

(***************************************************************************)
(* A node that is in the local database stays there, across relaunches     *)
(* (isPersistenceEnabled) and lost connections; only a write refused by    *)
(* the server can take it away again.                                      *)
(***************************************************************************)
OnlyRejectionForgets ==
    [][\A n \in Nodes :
         View(n) # Unknown /\ View(n)' = Unknown => Reject(n)]_vars

(***************************************************************************)
(* Every call of read() is answered, or the process has died: the timeout  *)
(* block covers the "Firebase call never returns" case of its comment.     *)
(***************************************************************************)
EveryReadAnswered ==
    \A r \in Reads : reads[r].observing ~> (reads[r].response # NoResponse
                                            \/ reads[r] = NotCalled)

=============================================================================
