---------------------------- MODULE MCApp_proofs ----------------------------
(***************************************************************************)
(* Proofs about the three parts of MCApp: FirebaseDatabaseService, for any *)
(* nodes, values and number of concurrent reads, VanillaNetworkingService  *)
(* (N) and PostsView (P), for any number of requests, payloads and taps.   *)
(***************************************************************************)
EXTENDS MCApp, SequenceTheorems, TLAPS

-----------------------------------------------------------------------------
(* FirebaseDatabaseService                                                 *)

(***************************************************************************)
(* The inductive invariant: types, the flags of every read, and answers    *)
(* that are the node's own.                                                *)
(***************************************************************************)
Inv == TypeOK /\ FlagsConsistent /\ AnswersComeFromTheNode

(***************************************************************************)
(* What the app sees of a node is one of the node's values, or a marker.   *)
(***************************************************************************)
LEMMA ViewType ==
    ASSUME TypeOK, NEW n \in Nodes
    PROVE  /\ View(n) \in Values[n] \cup {Null, Unknown}
           /\ pending[n] # << >> => View(n) \in Values[n] \cup {Null}
<1>1. pending[n] \in Seq(Values[n] \cup {Null}) /\ synced[n] \in Values[n] \cup {Null, Unknown}
  BY DEF TypeOK
<1>2. ASSUME pending[n] # << >>
      PROVE  pending[n][Len(pending[n])] \in Values[n] \cup {Null}
  <2>1. Len(pending[n]) \in 1..Len(pending[n])
    BY <1>1, <1>2, EmptySeq, LenProperties
  <2> QED
    BY <1>1, <2>1, ElementOfSeq
<1> QED
  BY <1>1, <1>2 DEF View

(***************************************************************************)
(* The value a snapshot is taken with belongs to the node.                 *)
(***************************************************************************)
LEMMA SnapshotValueType ==
    ASSUME TypeOK, NEW n \in Nodes
    PROVE  SnapshotValue(n) \in Values[n] \cup {Null}
BY ViewType DEF SnapshotValue, TypeOK

(***************************************************************************)
(* The markers are not values, and a response is not the absent one.       *)
(***************************************************************************)
LEMMA Markers ==
    /\ \A n \in Nodes : /\ Values[n] \subseteq AllValues
                        /\ Null \notin Values[n]
                        /\ \A v \in Values[n] : Success(v) # NoResponse
    /\ Failure("databaseReadError") # NoResponse
    /\ Null \notin Nodes
<1>1. \A n \in Nodes : Values[n] \subseteq AllValues
  BY DEF AllValues
<1>2. \A v \in AllValues : Success(v) # NoResponse
  BY StoreAssumption DEF Success, Responses
<1>3. Failure("databaseReadError") # NoResponse
  BY StoreAssumption DEF Failure, DatabaseErrors, Responses
<1> QED
  BY <1>1, <1>2, <1>3, StoreAssumption

(***************************************************************************)
(* The well-formedness of one read, the conjunct of Inv each closure has   *)
(* to preserve.                                                            *)
(***************************************************************************)
GoodRead(read) ==
    /\ read \in ReadRecord
    /\ read.completions = IF read.didTimeout \/ read.didComplete THEN 1 ELSE 0
    /\ read.completions = 0 <=> read.response = NoResponse
    /\ read.observing => ~read.didComplete
    /\ read.timer => ~read.didTimeout
    /\ read.node = Null => ~read.observing /\ ~read.timer
    /\ read.node = Null => read.response = NoResponse
    /\ read.response # NoResponse =>
          \/ read.response = Failure("databaseReadError")
          \/ \E v \in Values[read.node] : read.response = Success(v)

-----------------------------------------------------------------------------
(***************************************************************************)
(* A call of read() starts well-formed, and each of its closures keeps it  *)
(* so, whichever runs first.                                               *)
(***************************************************************************)
LEMMA NotCalledIsGood == GoodRead(NotCalled)
BY DEF GoodRead, NotCalled, ReadRecord

LEMMA CalledIsGood ==
    ASSUME NEW n \in Nodes
    PROVE  GoodRead(Called(n))
BY StoreAssumption DEF GoodRead, Called, NotCalled, ReadRecord

LEMMA CompletedRecord ==
    ASSUME NEW read \in ReadRecord, NEW response \in Responses
    PROVE  LET after == Completed(read, response)
           IN  /\ after \in ReadRecord
               /\ after.node = read.node
               /\ after.observing = read.observing
               /\ after.timer = read.timer
               /\ after.didTimeout = read.didTimeout
               /\ after.didComplete = read.didComplete
               /\ after.response = response
               /\ after.completions = read.completions + 1
<1> DEFINE after == Completed(read, response)
<1>1. after = [read EXCEPT !.response = response, !.completions = read.completions + 1]
  BY DEF Completed, ReadRecord
<1>2. read.completions + 1 \in Nat
  BY DEF ReadRecord
<1> HIDE DEF after
<1>3. after \in ReadRecord
  BY <1>1, <1>2 DEF ReadRecord
<1>4. /\ after.node = read.node
      /\ after.observing = read.observing
      /\ after.timer = read.timer
      /\ after.didTimeout = read.didTimeout
      /\ after.didComplete = read.didComplete
      /\ after.response = response
      /\ after.completions = read.completions + 1
  BY <1>1 DEF ReadRecord
<1> QED
  BY <1>3, <1>4 DEF after

LEMMA SnapshotTakenIsGood ==
    ASSUME NEW read, GoodRead(read), read.observing,
           NEW value \in Values[read.node] \cup {Null}
    PROVE  GoodRead(SnapshotTaken(read, value))
<1> DEFINE seen == [read EXCEPT !.observing = FALSE, !.didComplete = TRUE]
           response == IF value # Null THEN Success(value) ELSE Failure("databaseReadError")
<1>1. read \in ReadRecord /\ read.node \in Nodes /\ ~read.didComplete
  BY DEF GoodRead, ReadRecord
<1>2. /\ seen \in ReadRecord
      /\ seen.node = read.node /\ seen.timer = read.timer
      /\ seen.didTimeout = read.didTimeout
      /\ seen.response = read.response /\ seen.completions = read.completions
      /\ seen.observing = FALSE /\ seen.didComplete = TRUE
  BY <1>1 DEF ReadRecord
<1>3. response # NoResponse /\ response \in Responses
  BY <1>1, Markers DEF Responses, Success, Failure, DatabaseErrors
<1>4. \/ response = Failure("databaseReadError")
      \/ \E v \in Values[read.node] : response = Success(v)
  OBVIOUS
<1>5. SnapshotTaken(read, value) =
        IF read.didTimeout THEN seen ELSE Completed(seen, response)
  BY DEF SnapshotTaken
<1> HIDE DEF seen, response
<1>6. CASE read.didTimeout
  BY <1>1, <1>2, <1>5, <1>6, Markers DEF GoodRead
<1>7. CASE ~read.didTimeout
  <2>1. read.completions = 0
    BY <1>1, <1>7 DEF GoodRead
  <2>2. GoodRead(Completed(seen, response))
    BY <1>1, <1>2, <1>3, <1>4, <1>7, <2>1, CompletedRecord, Markers DEF GoodRead
  <2> QED
    BY <1>5, <1>7, <2>2
<1> QED
  BY <1>6, <1>7

LEMMA TimerFiredIsGood ==
    ASSUME NEW read, GoodRead(read), read.timer
    PROVE  GoodRead(TimerFired(read))
<1> DEFINE fired == [read EXCEPT !.timer = FALSE]
           late == [fired EXCEPT !.didTimeout = TRUE]
<1>1. read \in ReadRecord /\ read.node \in Nodes /\ ~read.didTimeout
  BY DEF GoodRead, ReadRecord
<1>2. /\ fired \in ReadRecord
      /\ fired.node = read.node /\ fired.observing = read.observing
      /\ fired.didTimeout = read.didTimeout /\ fired.didComplete = read.didComplete
      /\ fired.response = read.response /\ fired.completions = read.completions
      /\ fired.timer = FALSE
  BY <1>1 DEF ReadRecord
<1>3. TimerFired(read) =
        IF read.didComplete THEN fired ELSE Completed(late, Failure("databaseReadError"))
  BY <1>1 DEF TimerFired
<1> HIDE DEF fired
<1>4. /\ late \in ReadRecord
      /\ late.node = read.node /\ late.observing = read.observing
      /\ late.didComplete = read.didComplete
      /\ late.completions = read.completions
      /\ late.timer = FALSE /\ late.didTimeout = TRUE
  BY <1>2 DEF ReadRecord
<1> HIDE DEF late
<1>5. Failure("databaseReadError") \in Responses
  BY DEF Responses, Failure, DatabaseErrors
<1>6. CASE read.didComplete
  BY <1>1, <1>2, <1>3, <1>6, Markers DEF GoodRead
<1>7. CASE ~read.didComplete
  <2>1. read.completions = 0
    BY <1>1, <1>7 DEF GoodRead
  <2>2. GoodRead(Completed(late, Failure("databaseReadError")))
    BY <1>1, <1>4, <1>5, <1>7, <2>1, CompletedRecord, Markers DEF GoodRead
  <2> QED
    BY <1>3, <1>7, <2>2
<1> QED
  BY <1>6, <1>7

-----------------------------------------------------------------------------
(***************************************************************************)
(* The parts of Inv: the client's store, and the reads.                    *)
(***************************************************************************)
GoodStore ==
    /\ \A n \in Nodes :
         /\ synced[n] \in Values[n] \cup {Null, Unknown}
         /\ pending[n] \in Seq(Values[n] \cup {Null})
         /\ remote[n] \in Values[n] \cup {Null}
    /\ DOMAIN synced = Nodes /\ DOMAIN pending = Nodes /\ DOMAIN remote = Nodes
    /\ online \in BOOLEAN

GoodReads ==
    /\ reads \in [Reads -> ReadRecord]
    /\ \A r \in Reads : GoodRead(reads[r])

LEMMA InvParts == Inv <=> GoodStore /\ GoodReads
BY Zenon DEF Inv, TypeOK, FlagsConsistent, AnswersComeFromTheNode, GoodRead, GoodStore, GoodReads

LEMMA InvPartsPrimed == Inv' <=> GoodStore' /\ GoodReads'
BY Zenon DEF Inv, TypeOK, FlagsConsistent, AnswersComeFromTheNode, GoodRead, GoodStore, GoodReads

LEMMA InitEstablishesInv == Init => Inv
<1> SUFFICES ASSUME Init PROVE Inv
  OBVIOUS
<1>1. GoodStore
  <2>1. \A n \in Nodes : << >> \in Seq(Values[n] \cup {Null})
    BY EmptySeq
  <2> QED
    BY <2>1 DEF Init, GoodStore
<1>2. GoodReads
  <2>1. NotCalled \in ReadRecord
    BY NotCalledIsGood DEF GoodRead
  <2> QED
    BY <2>1, NotCalledIsGood DEF Init, GoodReads
<1> QED
  BY <1>1, <1>2, InvParts

(***************************************************************************)
(* Replacing one read by a well-formed one keeps the reads well-formed.    *)
(***************************************************************************)
LEMMA UpdateKeepsGoodReads ==
    ASSUME GoodReads, NEW r \in Reads, NEW read, GoodRead(read),
           reads' = [reads EXCEPT ![r] = read]
    PROVE  GoodReads'
<1>1. read \in ReadRecord
  BY DEF GoodRead
<1>2. reads' \in [Reads -> ReadRecord]
  BY <1>1 DEF GoodReads
<1>3. \A q \in Reads : GoodRead(reads'[q])
  BY DEF GoodReads
<1> QED
  BY <1>2, <1>3 DEF GoodReads, GoodRead

LEMMA StepKeepsInv == Inv /\ [Next]_vars => Inv'
<1> SUFFICES ASSUME Inv, [Next]_vars PROVE Inv'
  OBVIOUS
<1>1. GoodStore /\ GoodReads /\ TypeOK
  BY InvParts DEF Inv
<1>2. ASSUME NEW n \in Nodes, NEW object \in Values[n], Create(n, object)
      PROVE  Inv'
  <2>1. Stored(object) \in Values[n] \cup {Null}
    BY DEF Stored
  <2>2. Append(pending[n], Stored(object)) \in Seq(Values[n] \cup {Null})
    BY <1>1, <2>1, AppendProperties DEF GoodStore
  <2>3. GoodStore'
    BY <1>1, <1>2, <2>2 DEF Create, GoodStore
  <2>4. GoodReads'
    BY <1>1, <1>2 DEF Create, GoodReads, GoodRead
  <2> QED
    BY <2>3, <2>4, InvPartsPrimed
<1>3. ASSUME NEW r \in Reads, NEW n \in Nodes, Read(r, n)
      PROVE  Inv'
  <2>1. GoodStore'
    BY <1>1, <1>3 DEF Read, GoodStore, storeVars
  <2>2. GoodReads'
    BY <1>1, <1>3, CalledIsGood, UpdateKeepsGoodReads DEF Read
  <2> QED
    BY <2>1, <2>2, InvPartsPrimed
<1>4. ASSUME NEW r \in Reads, Observe(r)
      PROVE  Inv'
  <2> DEFINE n == reads[r].node
  <2>1. n \in Nodes /\ reads[r].observing /\ GoodRead(reads[r])
    BY <1>1, <1>4 DEF Observe, GoodReads, GoodRead, ReadRecord
  <2>2. SnapshotValue(n) \in Values[n] \cup {Null}
    BY <1>1, <2>1, SnapshotValueType
  <2>3. GoodRead(SnapshotTaken(reads[r], SnapshotValue(n)))
    BY <2>1, <2>2, SnapshotTakenIsGood
  <2>4. reads' = [reads EXCEPT ![r] = SnapshotTaken(reads[r], SnapshotValue(n))]
    BY <1>1, <1>4 DEF Observe, GoodReads
  <2>5. GoodReads'
    BY <1>1, <2>3, <2>4, UpdateKeepsGoodReads
  <2>6. GoodStore'
    BY <1>1, <1>4, <2>1 DEF Observe, GoodStore
  <2> QED
    BY <2>5, <2>6, InvPartsPrimed
<1>5. ASSUME NEW r \in Reads, Timeout(r)
      PROVE  Inv'
  <2>1. GoodRead(TimerFired(reads[r]))
    BY <1>1, <1>5, TimerFiredIsGood DEF Timeout, GoodReads
  <2>2. reads' = [reads EXCEPT ![r] = TimerFired(reads[r])]
    BY <1>1, <1>5 DEF Timeout, GoodReads
  <2>3. GoodReads'
    BY <1>1, <2>1, <2>2, UpdateKeepsGoodReads
  <2>4. GoodStore'
    BY <1>1, <1>5 DEF Timeout, GoodStore, storeVars
  <2> QED
    BY <2>3, <2>4, InvPartsPrimed
<1>6. ASSUME NEW n \in Nodes, Commit(n) \/ Reject(n)
      PROVE  Inv'
  <2>1. /\ Head(pending[n]) \in Values[n] \cup {Null}
        /\ Tail(pending[n]) \in Seq(Values[n] \cup {Null})
    BY <1>1, <1>6, HeadTailProperties DEF Commit, Reject, GoodStore
  <2>2. GoodStore'
    <3>1. CASE Commit(n)
      BY <1>1, <3>1, <2>1 DEF Commit, GoodStore
    <3>2. CASE Reject(n)
      BY <1>1, <3>2, <2>1 DEF Reject, GoodStore
    <3> QED
      BY <1>6, <3>1, <3>2
  <2>3. GoodReads'
    BY <1>1, <1>6 DEF Commit, Reject, GoodReads, GoodRead
  <2> QED
    BY <2>2, <2>3, InvPartsPrimed
<1>7. CASE Reconnect
  <2>1. GoodStore' /\ GoodReads'
    BY <1>1, <1>7 DEF Reconnect, GoodStore, GoodReads, GoodRead
  <2> QED
    BY <2>1, InvPartsPrimed
<1>8. CASE Relaunch
  <2>1. GoodStore'
    BY <1>1, <1>8 DEF Relaunch, RelaunchedStore, isPersistenceEnabled, GoodStore
  <2>2. \A r \in Reads : reads'[r] = NotCalled
    BY <1>8 DEF Relaunch
  <2>3. GoodReads'
    BY <1>8, <2>2, NotCalledIsGood DEF Relaunch, GoodReads, GoodRead
  <2> QED
    BY <2>1, <2>3, InvPartsPrimed
<1>9. CASE UNCHANGED vars
  <2>1. GoodStore' /\ GoodReads'
    BY <1>1, <1>9 DEF vars, GoodStore, GoodReads, GoodRead
  <2> QED
    BY <2>1, InvPartsPrimed
<1> QED
  BY <1>2, <1>3, <1>4, <1>5, <1>6, <1>7, <1>8, <1>9 DEF Next

LEMMA InvAlways == Spec => []Inv
BY InitEstablishesInv, StepKeepsInv, PTL DEF Spec

-----------------------------------------------------------------------------
(***************************************************************************)
(* Type correctness of the service and of the client's store.              *)
(***************************************************************************)
THEOREM TypeCorrect == Spec => []TypeOK
<1>1. Inv => TypeOK
  BY DEF Inv
<1> QED
  BY <1>1, InvAlways, PTL

(***************************************************************************)
(* However many reads run concurrently and however late a snapshot or a    *)
(* timeout block comes, no completion of read() is called twice.           *)
(***************************************************************************)
THEOREM NoSecondCompletion == Spec => []AtMostOneCompletion
<1>1. Inv => AtMostOneCompletion
  BY DEF Inv, FlagsConsistent, AtMostOneCompletion
<1> QED
  BY <1>1, InvAlways, PTL

(***************************************************************************)
(* The two flags of a read() record exactly whether it has been answered.  *)
(***************************************************************************)
THEOREM FlagsTellTheAnswer == Spec => []FlagsConsistent
<1>1. Inv => FlagsConsistent
  BY DEF Inv
<1> QED
  BY <1>1, InvAlways, PTL

(***************************************************************************)
(* A read() is answered with data of the node it was asked for, or with    *)
(* databaseReadError.                                                      *)
(***************************************************************************)
THEOREM AnswersAreTheNodes == Spec => []AnswersComeFromTheNode
<1>1. Inv => AnswersComeFromTheNode
  BY DEF Inv
<1> QED
  BY <1>1, InvAlways, PTL

-----------------------------------------------------------------------------
LEMMA UnchangedStoreKeepsViews ==
    ASSUME synced' = synced, pending' = pending, NEW n
    PROVE  View(n)' = View(n)
BY DEF View

(***************************************************************************)
(* Nothing but a refused write makes the local database forget a node.     *)
(***************************************************************************)
LEMMA StepForgetsOnlyByRejection ==
    ASSUME TypeOK, [Next]_vars, NEW n \in Nodes,
           View(n) # Unknown, View(n)' = Unknown
    PROVE  Reject(n)
<1>1. ASSUME NEW m \in Nodes, NEW object \in Values[m], Create(m, object)
      PROVE  FALSE
  <2>1. CASE m = n
    <3>1. Stored(object) # Unknown
      BY <1>1, StoreAssumption DEF Stored
    <3>2. pending[n] \in Seq(Values[n] \cup {Null}) /\ Stored(object) \in Values[n] \cup {Null}
      BY <1>1, <2>1 DEF TypeOK, Stored
    <3>3. pending'[n] = Append(pending[n], Stored(object))
      BY <1>1, <2>1 DEF Create, TypeOK
    <3>4. View(n)' = Stored(object)
      BY <3>2, <3>3, AppendProperties DEF View
    <3> QED
      BY <3>1, <3>4
  <2>2. CASE m # n
    BY <1>1, <2>2 DEF Create, View, TypeOK
  <2> QED
    BY <2>1, <2>2
<1>2. ASSUME NEW r \in Reads, Observe(r)
      PROVE  FALSE
  <2>1. pending' = pending
    BY <1>2 DEF Observe
  <2>2. View(n)' = IF pending[n] = << >> THEN synced'[n] ELSE View(n)
    BY <2>1 DEF View
  <2>3. synced'[n] = synced[n] \/ synced'[n] = remote[n]
    BY <1>2 DEF Observe, TypeOK
  <2>4. remote[n] # Unknown
    BY StoreAssumption DEF TypeOK
  <2> QED
    BY <2>2, <2>3, <2>4 DEF View
<1>3. ASSUME NEW m \in Nodes, Commit(m)
      PROVE  FALSE
  <2>1. CASE m = n
    <3>1. pending[n] \in Seq(Values[n] \cup {Null}) /\ pending[n] # << >>
      BY <1>3, <2>1 DEF Commit, TypeOK
    <3>2. /\ Head(pending[n]) \in Values[n] \cup {Null}
          /\ Tail(pending[n]) \in Seq(Values[n] \cup {Null})
      BY <3>1, HeadTailProperties
    <3>3. synced'[n] = Head(pending[n]) /\ pending'[n] = Tail(pending[n])
      BY <1>3, <2>1 DEF Commit, TypeOK
    <3>4. View(n)' \in Values[n] \cup {Null}
      <4>1. CASE Tail(pending[n]) = << >>
        BY <3>2, <3>3, <4>1 DEF View
      <4>2. CASE Tail(pending[n]) # << >>
        <5>1. Len(Tail(pending[n])) \in 1..Len(Tail(pending[n]))
          BY <3>2, <4>2, EmptySeq, LenProperties
        <5> QED
          BY <3>2, <3>3, <4>2, <5>1, ElementOfSeq DEF View
      <4> QED
        BY <4>1, <4>2
    <3> QED
      BY <3>4, StoreAssumption
  <2>2. CASE m # n
    BY <1>3, <2>2 DEF Commit, View, TypeOK
  <2> QED
    BY <2>1, <2>2
<1>4. ASSUME NEW m \in Nodes, Reject(m)
      PROVE  m = n
  BY <1>4 DEF Reject, View, TypeOK
<1>5. ASSUME \/ \E r \in Reads, m \in Nodes : Read(r, m)
             \/ \E r \in Reads : Timeout(r)
             \/ Reconnect
             \/ Relaunch
             \/ UNCHANGED vars
      PROVE  FALSE
  <2>1. synced' = synced /\ pending' = pending
    BY <1>5 DEF Read, Timeout, Reconnect, Relaunch, RelaunchedStore,
                isPersistenceEnabled, storeVars, vars
  <2> QED
    BY <2>1, UnchangedStoreKeepsViews
<1> QED
  BY <1>1, <1>2, <1>3, <1>4, <1>5 DEF Next

(***************************************************************************)
(* The local database keeps every node it has, across lost connections and *)
(* relaunches, until the server refuses a write to that very node.         *)
(***************************************************************************)
THEOREM LocalDatabaseKeepsNodes == Spec => OnlyRejectionForgets
<1>1. TypeOK /\ [Next]_vars =>
        [\A n \in Nodes : View(n) # Unknown /\ View(n)' = Unknown => Reject(n)]_vars
  BY StepForgetsOnlyByRejection
<1> QED
  BY <1>1, TypeCorrect, PTL DEF Spec, OnlyRejectionForgets

-----------------------------------------------------------------------------
(* VanillaNetworkingService                                                *)

(***************************************************************************)
(* A task is a record of these fields.                                     *)
(***************************************************************************)
Bodies == {"none", "error", "noData"} \cup UNION {Payloads[q] : q \in Requests}
TaskType == [phase : {"idle", "running", "queued", "done"}, reply : Bodies, completions : Nat]

NetworkTyped ==
    task \in [Requests -> TaskType] /\ isNetworkActivityIndicatorVisible \in BOOLEAN

LEMMA NetworkTypes == NetworkTyped => N!TypeOK
BY DEF NetworkTyped, N!TypeOK, TaskType, Bodies

LEMMA NetworkInit == N!Init => NetworkTyped /\ N!IndicatorMeansBusy
<1> SUFFICES ASSUME N!Init PROVE NetworkTyped /\ N!IndicatorMeansBusy
  OBVIOUS
<1>1. "none" \in Bodies BY DEF Bodies
<1>2. N!NotRequested \in TaskType BY <1>1 DEF N!NotRequested, TaskType
<1> QED BY <1>2 DEF NetworkTyped, N!Init, N!IndicatorMeansBusy

(***************************************************************************)
(* The next state of one task, for each step of performRequest.            *)
(***************************************************************************)
LEMMA TaskSteps ==
    ASSUME NetworkTyped, NEW q \in Requests
    PROVE  /\ N!Refused(task[q]) \in TaskType
           /\ N!Sent(task[q]) \in TaskType /\ N!Sent(task[q]).phase = "running"
           /\ N!Finished(task[q]) \in TaskType
           /\ \A reply \in N!Replies(q) : /\ N!Answered(task[q], reply) \in TaskType
                                          /\ N!Answered(task[q], reply).phase = "queued"
<1>1. task[q] \in TaskType BY DEF NetworkTyped
<1>2. "none" \in Bodies /\ \A reply \in N!Replies(q) : reply \in Bodies
  BY DEF N!Replies, Bodies
<1>3. N!Refused(task[q]) \in TaskType
  <2>1. task[q].completions + 1 \in Nat BY <1>1 DEF TaskType
  <2> QED BY <1>1, <2>1 DEF N!Refused, TaskType
<1>4. N!Sent(task[q]) \in TaskType /\ N!Sent(task[q]).phase = "running"
  BY <1>1 DEF N!Sent, TaskType
<1>5. N!Finished(task[q]) \in TaskType
  BY <1>1, <1>2 DEF N!Finished, TaskType
<1>6. \A reply \in N!Replies(q) : /\ N!Answered(task[q], reply) \in TaskType
                                 /\ N!Answered(task[q], reply).phase = "queued"
  BY <1>1, <1>2 DEF N!Answered, TaskType
<1> QED BY <1>3, <1>4, <1>5, <1>6

LEMMA NetworkStepInv ==
    NetworkTyped /\ N!IndicatorMeansBusy /\ [N!Next]_(N!vars)
      => NetworkTyped' /\ N!IndicatorMeansBusy'
<1> SUFFICES ASSUME NetworkTyped, N!IndicatorMeansBusy, [N!Next]_(N!vars)
             PROVE  NetworkTyped' /\ N!IndicatorMeansBusy'
  OBVIOUS
<1>1. ASSUME NEW q \in Requests, N!RefuseRequest(q)
      PROVE  NetworkTyped' /\ N!IndicatorMeansBusy'
  <2>1. NetworkTyped' BY <1>1, TaskSteps DEF N!RefuseRequest, NetworkTyped
  <2>2. ~N!Busy(q) BY <1>1 DEF N!RefuseRequest, N!Busy, N!NotRequested
  <2>3. \A r \in Requests : N!Busy(r) => N!Busy(r)'
    BY <1>1, <2>2 DEF N!RefuseRequest, NetworkTyped, N!Busy
  <2> QED BY <1>1, <2>1, <2>3 DEF N!RefuseRequest, N!IndicatorMeansBusy
<1>2. ASSUME NEW q \in Requests, N!SendRequest(q)
      PROVE  NetworkTyped' /\ N!IndicatorMeansBusy'
  <2>1. NetworkTyped' BY <1>2, TaskSteps DEF N!SendRequest, NetworkTyped
  <2>2. task'[q].phase = "running" BY <1>2, TaskSteps DEF N!SendRequest, NetworkTyped
  <2> QED BY <2>1, <2>2 DEF N!IndicatorMeansBusy, N!Busy
<1>3. ASSUME NEW q \in Requests, NEW reply \in N!Replies(q), N!HandlerCalled(q, reply)
      PROVE  NetworkTyped' /\ N!IndicatorMeansBusy'
  <2>1. NetworkTyped' BY <1>3, TaskSteps DEF N!HandlerCalled, NetworkTyped
  <2>2. task'[q].phase = "queued" BY <1>3, TaskSteps DEF N!HandlerCalled, NetworkTyped
  <2> QED BY <2>1, <2>2 DEF N!IndicatorMeansBusy, N!Busy
<1>4. ASSUME NEW q \in Requests, N!MainBlock(q)
      PROVE  NetworkTyped' /\ N!IndicatorMeansBusy'
  BY <1>4, TaskSteps DEF N!MainBlock, NetworkTyped, N!IndicatorMeansBusy
<1>5. CASE UNCHANGED N!vars
  BY <1>5 DEF N!vars, NetworkTyped, N!IndicatorMeansBusy, N!Busy
<1> QED BY <1>1, <1>2, <1>3, <1>4, <1>5 DEF N!Next, N!Handler

(***************************************************************************)
(* The activity indicator is never left on by requests that have all       *)
(* completed, for any number of overlapping requests.                      *)
(***************************************************************************)
THEOREM IndicatorIsTruthful == N!Spec => []IndicatorMeansBusy
<1>1. N!IndicatorMeansBusy => IndicatorMeansBusy BY DEF IndicatorMeansBusy
<1> QED BY <1>1, NetworkInit, NetworkStepInv, PTL DEF N!Spec

-----------------------------------------------------------------------------
(* PostsView                                                               *)

LEMMA ScreenInit == P!Init => P!TypeOK
<1> SUFFICES ASSUME P!Init PROVE P!TypeOK
  OBVIOUS
<1>1. P!H!TypeOK BY DEF P!Init, P!H!Init, P!H!TypeOK
<1>2. status \in [P!Calls -> {"idle", "pending", "succeeded", "failed"}]
  BY DEF P!Init, P!P!Init
<1> QED BY <1>1, <1>2 DEF P!Init, P!TypeOK

(***************************************************************************)
(* A retrieval is started or completed.                                    *)
(***************************************************************************)
LEMMA StatusSteps ==
    ASSUME status \in [P!Calls -> {"idle", "pending", "succeeded", "failed"}],
           NEW c \in P!Calls, P!P!Start(c) \/ P!P!Complete(c)
    PROVE  status' \in [P!Calls -> {"idle", "pending", "succeeded", "failed"}]
BY DEF P!P!Start, P!P!Complete, P!P!Succeed, P!P!Fail

LEMMA ScreenTypes == P!TypeOK /\ [P!Next]_(P!vars) => P!TypeOK'
<1> SUFFICES ASSUME P!TypeOK, [P!Next]_(P!vars) PROVE P!TypeOK'
  OBVIOUS
<1> USE DEF P!TypeOK, P!H!TypeOK
<1>1. CASE P!ViewDidLoad
  BY <1>1, StatusSteps DEF P!ViewDidLoad, P!H!Show, P!viewVars, P!Calls
<1>2. ASSUME NEW c \in Taps, P!DidSelectPostCell(c) PROVE P!TypeOK'
  BY <1>2, StatusSteps DEF P!DidSelectPostCell, P!H!Show, P!viewVars, P!Calls
<1>3. ASSUME NEW c \in P!Calls, P!Responded(c) PROVE P!TypeOK'
  BY <1>3, StatusSteps DEF P!Responded, P!H!DismissWithDelay, P!viewVars
<1>4. ASSUME NEW c \in P!Calls, P!HudFadeOut(c) PROVE P!TypeOK'
  BY <1>4 DEF P!HudFadeOut, P!H!FadeOut, P!viewVars
<1>5. ASSUME NEW c \in P!Calls, P!HudFadedOut(c) PROVE P!TypeOK'
  <2>1. UNCHANGED <<status, mainQueue, alpha, delayed, overtaken>> /\ fading' \subseteq P!Calls
    BY <1>5 DEF P!HudFadedOut, P!H!FadedOut
  <2>2. /\ rows' \in BOOLEAN /\ details' \in Nat /\ alert' \in BOOLEAN
        /\ outcome' \in [P!Calls -> {"none", "presented", "refused", "lost"}]
    <3>1. CASE P!ShowPosts(c) BY <3>1 DEF P!ShowPosts
    <3>2. CASE P!PushDetails(c) BY <3>2 DEF P!PushDetails
    <3>3. CASE P!ShowErrorAlert(c) BY <3>3 DEF P!ShowErrorAlert
    <3>4. CASE /\ outcome' = [outcome EXCEPT ![c] = "lost"]
               /\ UNCHANGED <<rows, details, alert>>
      BY <3>4
    <3> QED BY <1>5, <3>1, <3>2, <3>3, <3>4 DEF P!HudFadedOut
  <2> QED BY <2>1, <2>2
<1>6. CASE P!HudShow
  BY <1>6 DEF P!HudShow, P!H!RunShow
<1>7. CASE P!HudDismiss
  <2>1. Head(mainQueue) \in P!Calls
    BY <1>7 DEF P!HudDismiss, P!H!RunDismiss
  <2> QED BY <1>7, <2>1 DEF P!HudDismiss, P!H!RunDismiss, P!viewVars
<1>8. CASE P!TapOK
  BY <1>8 DEF P!TapOK, P!hudVars
<1>9. CASE P!TapBack
  BY <1>9 DEF P!TapBack, P!hudVars
<1>10. CASE UNCHANGED P!vars
  BY <1>10 DEF P!vars, P!hudVars, P!viewVars
<1> QED BY <1>1, <1>2, <1>3, <1>4, <1>5, <1>6, <1>7, <1>8, <1>9, <1>10 DEF P!Next

(***************************************************************************)
(* The types of the state of both parts.                                   *)
(***************************************************************************)
THEOREM PartsTyped == N!Spec /\ P!Spec => []PartsTypeOK
<1>1. N!TypeOK /\ P!TypeOK => PartsTypeOK BY DEF PartsTypeOK
<1> QED BY <1>1, NetworkInit, NetworkStepInv, NetworkTypes, ScreenInit, ScreenTypes, PTL
        DEF N!Spec, P!Spec

(***************************************************************************)
(* While the HUD is displayed, every fade-out that is still running has    *)
(* been overtaken by the show that displayed it.                           *)
(***************************************************************************)
FadingIsOvertaken == alpha # 0 => fading \subseteq overtaken

LEMMA LostStepInv ==
    P!TypeOK /\ FadingIsOvertaken /\ P!LostOnlyIfOvertaken /\ [P!Next]_(P!vars)
      => FadingIsOvertaken' /\ P!LostOnlyIfOvertaken'
<1> SUFFICES ASSUME P!TypeOK, FadingIsOvertaken, P!LostOnlyIfOvertaken, [P!Next]_(P!vars)
             PROVE  FadingIsOvertaken' /\ P!LostOnlyIfOvertaken'
  OBVIOUS
<1> USE DEF FadingIsOvertaken, P!LostOnlyIfOvertaken
<1>1. CASE P!ViewDidLoad
  BY <1>1 DEF P!ViewDidLoad, P!H!Show, P!viewVars
<1>2. ASSUME NEW c \in Taps, P!DidSelectPostCell(c)
      PROVE  FadingIsOvertaken' /\ P!LostOnlyIfOvertaken'
  BY <1>2 DEF P!DidSelectPostCell, P!H!Show, P!viewVars
<1>3. ASSUME NEW c \in P!Calls, P!Responded(c)
      PROVE  FadingIsOvertaken' /\ P!LostOnlyIfOvertaken'
  BY <1>3 DEF P!Responded, P!H!DismissWithDelay, P!viewVars
<1>4. ASSUME NEW c \in P!Calls, P!HudFadeOut(c)
      PROVE  FadingIsOvertaken' /\ P!LostOnlyIfOvertaken'
  BY <1>4 DEF P!HudFadeOut, P!H!FadeOut, P!viewVars
<1>5. ASSUME NEW c \in P!Calls, P!HudFadedOut(c)
      PROVE  FadingIsOvertaken' /\ P!LostOnlyIfOvertaken'
  <2>1. /\ UNCHANGED <<alpha, overtaken>> /\ fading' \subseteq fading /\ c \in fading
        /\ DOMAIN outcome = P!Calls
    BY <1>5 DEF P!HudFadedOut, P!H!FadedOut, P!TypeOK
  <2>2. /\ \A d \in P!Calls : d # c => outcome'[d] = outcome[d]
        /\ outcome'[c] = "lost" => alpha # 0
    BY <1>5, <2>1 DEF P!HudFadedOut, P!ShowPosts, P!PushDetails, P!ShowErrorAlert,
                      P!H!RunsCompletion
  <2> QED BY <2>1, <2>2
<1>6. CASE P!HudShow
  BY <1>6 DEF P!HudShow, P!H!RunShow
<1>7. CASE P!HudDismiss
  BY <1>7 DEF P!HudDismiss, P!H!RunDismiss, P!viewVars
<1>8. CASE P!TapOK
  BY <1>8 DEF P!TapOK, P!hudVars
<1>9. CASE P!TapBack
  BY <1>9 DEF P!TapBack, P!hudVars
<1>10. CASE UNCHANGED P!vars
  BY <1>10 DEF P!vars, P!hudVars, P!viewVars
<1> QED BY <1>1, <1>2, <1>3, <1>4, <1>5, <1>6, <1>7, <1>8, <1>9, <1>10 DEF P!Next

(***************************************************************************)
(* A response is lost only if another tap's show ran while its own         *)
(* fade-out was running, for any number of taps.                           *)
(***************************************************************************)
THEOREM OnlyOvertakenIsLost == P!Spec => []LostOnlyIfOvertaken
<1>1. P!Init => FadingIsOvertaken /\ P!LostOnlyIfOvertaken
  BY DEF P!Init, P!H!Init, FadingIsOvertaken, P!LostOnlyIfOvertaken
<1>2. P!LostOnlyIfOvertaken => LostOnlyIfOvertaken BY DEF LostOnlyIfOvertaken
<1> QED BY <1>1, <1>2, ScreenInit, ScreenTypes, LostStepInv, PTL DEF P!Spec

-----------------------------------------------------------------------------
(***************************************************************************)
(* The safety half of PostsReachTheScreen.  Until the answer to            *)
(* displayPosts is on the screen there is nothing to tap, so the main      *)
(* queue, the delays and the fade-outs hold its operations and no others,  *)
(* in the order they were added; afterwards nothing of it is left.         *)
(***************************************************************************)
Quiet == mainQueue = <<>> /\ delayed = {} /\ fading = {}

PostsAlone ==
    /\ ~rows /\ ~alert
    /\ \A c \in Taps : status[c] = "idle"
    /\ \/ status[PostsCall] = "idle" /\ Quiet
       \/ /\ status[PostsCall] = "pending"
          /\ mainQueue \in {<<>>, <<"show">>} /\ delayed = {} /\ fading = {}
       \/ /\ status[PostsCall] \in {"succeeded", "failed"}
          /\ \/ mainQueue \in {<<"show", PostsCall>>, <<PostsCall>>} /\ delayed = {} /\ fading = {}
             \/ mainQueue = <<>> /\ delayed = {PostsCall} /\ fading = {}
             \/ mainQueue = <<>> /\ delayed = {} /\ fading = {PostsCall} /\ alpha = 0

PostsOver ==
    /\ status[PostsCall] \in {"succeeded", "failed"}
    /\ PostsCall \notin delayed \cup fading
    /\ \A i \in 1 .. Len(mainQueue) : mainQueue[i] # PostsCall

PostsAnswered ==
    \/ outcome[PostsCall] = "none" /\ PostsAlone
    \/ outcome[PostsCall] = "presented" /\ PostsOver

(***************************************************************************)
(* The operations of the HUD, once the posts are on the screen, are those  *)
(* of other calls.                                                         *)
(***************************************************************************)
LEMMA PostsStayOver ==
    ASSUME P!TypeOK, PostsOver, outcome[PostsCall] = "presented", [P!Next]_(P!vars)
    PROVE  PostsOver' /\ outcome'[PostsCall] = "presented"
<1> USE DEF PostsOver
<1>0. PostsCall \in P!Calls /\ PostsCall \notin Taps /\ PostsCall # "show"
  BY ScreenAssumption DEF P!Calls, P!CallsAssumption
<1>1. CASE P!ViewDidLoad
  BY <1>1 DEF P!ViewDidLoad, P!P!Start
<1>2. ASSUME NEW c \in Taps, P!DidSelectPostCell(c)
      PROVE  PostsOver' /\ outcome'[PostsCall] = "presented"
  <2>1. mainQueue' = Append(mainQueue, "show")
    BY <1>2 DEF P!DidSelectPostCell, P!H!Show, P!H!ShowOperation
  <2>2. mainQueue \in Seq(P!Calls \cup {"show"})
    BY DEF P!TypeOK, P!H!TypeOK, P!H!ShowOperation
  <2>3. \A i \in 1 .. Len(mainQueue') : mainQueue'[i] # PostsCall
    BY <1>0, <2>1, <2>2
  <2> QED BY <1>0, <1>2, <2>3
          DEF P!DidSelectPostCell, P!H!Show, P!P!Start, P!viewVars, P!TypeOK
<1>3. ASSUME NEW c \in P!Calls, P!Responded(c)
      PROVE  PostsOver' /\ outcome'[PostsCall] = "presented"
  <2>1. /\ c # PostsCall /\ status'[PostsCall] = status[PostsCall]
        /\ mainQueue' = Append(mainQueue, c) /\ UNCHANGED <<delayed, fading, outcome>>
    BY <1>0, <1>3 DEF P!Responded, P!P!Complete, P!P!Succeed, P!P!Fail, P!H!DismissWithDelay,
                      P!viewVars, P!TypeOK
  <2>2. mainQueue \in Seq(P!Calls \cup {"show"})
    BY DEF P!TypeOK, P!H!TypeOK, P!H!ShowOperation
  <2>3. \A i \in 1 .. Len(mainQueue') : mainQueue'[i] # PostsCall
    BY <2>1, <2>2
  <2> QED BY <2>1, <2>3
<1>4. ASSUME NEW c \in P!Calls, P!HudFadeOut(c)
      PROVE  PostsOver' /\ outcome'[PostsCall] = "presented"
  BY <1>4 DEF P!HudFadeOut, P!H!FadeOut, P!viewVars
<1>5. ASSUME NEW c \in P!Calls, P!HudFadedOut(c)
      PROVE  PostsOver' /\ outcome'[PostsCall] = "presented"
  <2>1. /\ c # PostsCall /\ fading' \subseteq fading
        /\ UNCHANGED <<status, mainQueue, delayed>>
    BY <1>5 DEF P!HudFadedOut, P!H!FadedOut
  <2>2. outcome'[PostsCall] = outcome[PostsCall]
    BY <1>0, <1>5, <2>1
       DEF P!HudFadedOut, P!ShowPosts, P!PushDetails, P!ShowErrorAlert, P!TypeOK
  <2> QED BY <2>1, <2>2
<1>6. ASSUME P!HudShow \/ P!HudDismiss
      PROVE  PostsOver' /\ outcome'[PostsCall] = "presented"
  <2>1. mainQueue # <<>> /\ mainQueue' = Tail(mainQueue) /\ UNCHANGED <<status, fading, outcome>>
    BY <1>6 DEF P!HudShow, P!HudDismiss, P!H!RunShow, P!H!RunDismiss, P!viewVars
  <2>2. mainQueue \in Seq(P!Calls \cup {"show"})
    BY DEF P!TypeOK, P!H!TypeOK, P!H!ShowOperation
  <2>3. Head(mainQueue) # PostsCall /\ \A i \in 1 .. Len(mainQueue') : mainQueue'[i] # PostsCall
    BY <2>1, <2>2
  <2>4. PostsCall \notin delayed'
    BY <1>6, <2>3 DEF P!HudShow, P!HudDismiss, P!H!RunShow, P!H!RunDismiss
  <2> QED BY <2>1, <2>3, <2>4
<1>7. CASE P!TapOK
  BY <1>7 DEF P!TapOK, P!hudVars
<1>8. CASE P!TapBack
  BY <1>8 DEF P!TapBack, P!hudVars
<1>9. CASE UNCHANGED P!vars
  BY <1>9 DEF P!vars, P!hudVars, P!viewVars
<1> QED BY <1>1, <1>2, <1>3, <1>4, <1>5, <1>6, <1>7, <1>8, <1>9 DEF P!Next

LEMMA AppendToOne == ASSUME NEW x, NEW y PROVE Append(<<x>>, y) = <<x, y>>
<1> DEFINE one == <<x>>
           two == Append(one, y)
           pair == <<x, y>>
<1>1. one \in Seq({x, y}) /\ Len(one) = 1 /\ one[1] = x OBVIOUS
<1>2. two \in Seq({x, y}) /\ Len(two) = 2 /\ two[1] = x /\ two[2] = y BY <1>1
<1>3. pair \in Seq({x, y}) /\ Len(pair) = 2 /\ pair[1] = x /\ pair[2] = y OBVIOUS
<1> HIDE DEF two, pair
<1>4. \A i \in 1 .. Len(two) : two[i] = pair[i] BY <1>2, <1>3
<1>5. two = pair BY <1>2, <1>3, <1>4, SeqEqual, Zenon
<1> QED BY <1>5 DEF two, pair

LEMMA PostsAloneStep ==
    ASSUME P!TypeOK, PostsAlone, outcome[PostsCall] = "none", [P!Next]_(P!vars)
    PROVE  PostsAnswered'
<1>0. PostsCall \in P!Calls /\ PostsCall \notin Taps /\ PostsCall # "show"
  BY ScreenAssumption DEF P!Calls, P!CallsAssumption
<1>1. CASE P!ViewDidLoad
  <2>1. status[PostsCall] = "idle" /\ status' = [status EXCEPT ![PostsCall] = "pending"]
    BY <1>1 DEF P!ViewDidLoad, P!P!Start
  <2>2. mainQueue' = <<"show">> /\ UNCHANGED <<delayed, fading, rows, alert, outcome>>
    BY <1>1, <2>1 DEF P!ViewDidLoad, P!H!Show, P!H!ShowOperation, P!viewVars, PostsAlone, Quiet
  <2> QED BY <1>0, <2>1, <2>2 DEF PostsAnswered, PostsAlone, P!TypeOK, Quiet
<1>2. ASSUME NEW c \in Taps, P!DidSelectPostCell(c) PROVE FALSE
  BY <1>2 DEF P!DidSelectPostCell, P!CanSelectRow, PostsAlone
<1>3. ASSUME NEW c \in P!Calls, P!Responded(c) PROVE PostsAnswered'
  <2>1. /\ status[c] = "pending"
        /\ \/ status' = [status EXCEPT ![c] = "succeeded"]
           \/ status' = [status EXCEPT ![c] = "failed"]
    BY <1>3 DEF P!Responded, P!P!Complete, P!P!Succeed, P!P!Fail
  <2>2. c = PostsCall BY <2>1 DEF PostsAlone, P!Calls
  <2>3. mainQueue' = Append(mainQueue, PostsCall) /\ UNCHANGED <<delayed, fading, rows, alert, outcome>>
    BY <1>3, <2>2 DEF P!Responded, P!H!DismissWithDelay, P!viewVars
  <2>4. status[PostsCall] = "pending" BY <2>1, <2>2
  <2>5. mainQueue \in {<<>>, <<"show">>} /\ delayed = {} /\ fading = {}
    BY <2>4 DEF PostsAlone
  <2>6. mainQueue' \in {<<"show", PostsCall>>, <<PostsCall>>}
    <3>1. Append(<<>>, PostsCall) = <<PostsCall>> OBVIOUS
    <3>2. Append(<<"show">>, PostsCall) = <<"show", PostsCall>> BY AppendToOne
    <3> QED BY <2>3, <2>5, <3>1, <3>2
  <2>7. status \in [P!Calls -> {"idle", "pending", "succeeded", "failed"}]
    BY DEF P!TypeOK
  <2>8. /\ status'[PostsCall] \in {"succeeded", "failed"}
        /\ \A d \in Taps : status'[d] = status[d]
    BY <1>0, <2>1, <2>2, <2>7 DEF P!Calls
  <2>9. PostsAlone'
    BY <2>3, <2>5, <2>6, <2>8 DEF PostsAlone
  <2> QED BY <2>3, <2>9 DEF PostsAnswered
<1>4. ASSUME NEW c \in P!Calls, P!HudFadeOut(c) PROVE PostsAnswered'
  BY <1>4 DEF P!HudFadeOut, P!H!FadeOut, P!viewVars, PostsAnswered, PostsAlone, Quiet
<1>5. ASSUME NEW c \in P!Calls, P!HudFadedOut(c) PROVE PostsAnswered'
  <2>1. /\ c = PostsCall /\ fading = {PostsCall} /\ alpha = 0 /\ mainQueue = <<>> /\ delayed = {}
        /\ status[PostsCall] \in {"succeeded", "failed"} /\ ~alert
    BY <1>5 DEF P!HudFadedOut, P!H!FadedOut, PostsAlone, Quiet
  <2>2. fading' = {} /\ UNCHANGED <<status, mainQueue, delayed>>
    BY <1>5, <2>1 DEF P!HudFadedOut, P!H!FadedOut
  <2>3. outcome'[PostsCall] = "presented"
    BY <1>0, <1>5, <2>1
       DEF P!HudFadedOut, P!ShowPosts, P!PushDetails, P!ShowErrorAlert, P!TypeOK, P!H!RunsCompletion
  <2> QED BY <2>1, <2>2, <2>3 DEF PostsAnswered, PostsOver
<1>6. CASE P!HudShow
  <2>1. mainQueue # <<>> /\ Head(mainQueue) = "show" /\ mainQueue' = Tail(mainQueue)
        /\ UNCHANGED <<status, delayed, fading, rows, alert, outcome>>
    BY <1>6 DEF P!HudShow, P!H!RunShow, P!H!ShowOperation
  <2>2. \/ mainQueue = <<"show">> /\ mainQueue' = <<>>
        \/ mainQueue = <<"show", PostsCall>> /\ mainQueue' = <<PostsCall>>
    <3>1. mainQueue \in {<<"show">>, <<"show", PostsCall>>, <<PostsCall>>}
      BY <2>1 DEF PostsAlone, Quiet
    <3>2. Tail(<<"show">>) = <<>> /\ Tail(<<"show", PostsCall>>) = <<PostsCall>>
      OBVIOUS
    <3>3. Head(<<PostsCall>>) = PostsCall OBVIOUS
    <3> QED BY <1>0, <2>1, <3>1, <3>2, <3>3
  <2> QED BY <1>0, <2>1, <2>2 DEF PostsAnswered, PostsAlone, Quiet
<1>7. CASE P!HudDismiss
  <2>1. /\ mainQueue # <<>> /\ Head(mainQueue) # "show" /\ mainQueue' = Tail(mainQueue)
        /\ delayed' = delayed \cup {Head(mainQueue)}
        /\ UNCHANGED <<status, fading, rows, alert, outcome>>
    BY <1>7 DEF P!HudDismiss, P!H!RunDismiss, P!H!ShowOperation, P!viewVars
  <2>2. mainQueue = <<PostsCall>> /\ mainQueue' = <<>> /\ delayed' = {PostsCall}
    BY <1>0, <2>1 DEF PostsAlone, Quiet
  <2> QED BY <1>0, <2>1, <2>2 DEF PostsAnswered, PostsAlone, Quiet
<1>8. CASE P!TapOK
  BY <1>8 DEF P!TapOK, PostsAlone
<1>9. CASE P!TapBack
  BY <1>9 DEF P!TapBack, P!hudVars, PostsAnswered, PostsAlone, Quiet
<1>10. CASE UNCHANGED P!vars
  BY <1>10 DEF P!vars, P!hudVars, P!viewVars, PostsAnswered, PostsAlone, Quiet
<1> QED BY <1>1, <1>2, <1>3, <1>4, <1>5, <1>6, <1>7, <1>8, <1>9, <1>10 DEF P!Next

(***************************************************************************)
(* The answer to displayPosts is never lost and never refused: no row can  *)
(* be tapped and no alert is up before it has reached the screen           *)
(* (displayPosts in PostsViewController, the alpha test of SVProgressHUD). *)
(***************************************************************************)
THEOREM PostsAreNeverLost == P!Spec => [](outcome[PostsCall] \in {"none", "presented"})
<1>1. P!Init => PostsAnswered
  <2>1. PostsCall \in P!Calls /\ Taps \subseteq P!Calls BY DEF P!Calls
  <2> QED BY <2>1 DEF P!Init, P!P!Init, P!H!Init, PostsAnswered, PostsAlone, Quiet
<1>2. P!TypeOK /\ PostsAnswered /\ [P!Next]_(P!vars) => PostsAnswered'
  BY PostsStayOver, PostsAloneStep DEF PostsAnswered
<1>3. PostsAnswered => outcome[PostsCall] \in {"none", "presented"} BY DEF PostsAnswered
<1> QED BY <1>1, <1>2, <1>3, ScreenInit, ScreenTypes, PTL DEF P!Spec
=============================================================================
