---------------------- MODULE VanillaNetworkingService ----------------------
(***************************************************************************)
(* VanillaNetworkingService: performRequest on top of URLSession.          *)
(*                                                                         *)
(* URLSession calls a task's handler once, on a queue of its own, with an  *)
(* error (the request's timeoutInterval included) or with what the server  *)
(* sent; the handler then queues one block on the main queue, which calls  *)
(* the completion.  Between the two steps other main-queue blocks may run. *)
(***************************************************************************)
EXTENDS Naturals, ResponseType

CONSTANTS
    Requests,  \* identities of the calls of performRequest
    Payloads   \* Payloads[q]: the bodies the server may answer q with

VARIABLES
    task,                               \* task[q]: the life of one request
    isNetworkActivityIndicatorVisible   \* the status bar's shared flag

vars == <<task, isNetworkActivityIndicatorVisible>>

NotRequested == [phase |-> "idle", reply |-> "none", completions |-> 0]

(***************************************************************************)
(* What the handler may be given for q: an error, neither an error nor     *)
(* data, or data.                                                          *)
(***************************************************************************)
Replies(q) == {"error", "noData"} \cup Payloads[q]

(* Variant: dataTask.resume() is forgotten.                                *)
SentWithoutResume(t) == [t EXCEPT !.phase = "suspended"]

Sent(t) == [t EXCEPT !.phase = "running"]

(***************************************************************************)
(* The guard on the URL fails: the completion is called before             *)
(* performRequest returns, and no task is created.                         *)
(***************************************************************************)
Refused(t) == [t EXCEPT !.phase = "done", !.completions = @ + 1]

Answered(t, reply) == [t EXCEPT !.phase = "queued", !.reply = reply]

(* Variant: the guard on Payload returns without calling the completion.   *)
FinishedSilently(t) ==
    [phase |-> "done", reply |-> "none",
     completions |-> t.completions + (IF t.reply = "noData" THEN 0 ELSE 1)]

Finished(t) == [phase |-> "done", reply |-> "none", completions |-> t.completions + 1]

(***************************************************************************)
(* The response the completion is called with.                             *)
(***************************************************************************)
ResponseTo(reply) ==
    IF reply = "error" THEN Failure("transport")
    ELSE IF reply = "noData" THEN Failure("noDataReceived")
    ELSE Success(reply)

-----------------------------------------------------------------------------
Init ==
    /\ task = [q \in Requests |-> NotRequested]
    /\ isNetworkActivityIndicatorVisible = FALSE

RefuseRequest(q) ==
    /\ task[q] = NotRequested
    /\ task' = [task EXCEPT ![q] = Refused(@)]
    /\ UNCHANGED isNetworkActivityIndicatorVisible

SendRequest(q) ==
    /\ task[q] = NotRequested
    /\ task' = [task EXCEPT ![q] = Sent(@)]
    /\ isNetworkActivityIndicatorVisible' = TRUE

HandlerCalled(q, reply) ==
    /\ task[q].phase = "running"
    /\ task' = [task EXCEPT ![q] = Answered(@, reply)]
    /\ UNCHANGED isNetworkActivityIndicatorVisible

(* Variant: the indicator is turned off after the error return, not before. *)
MainBlockAfterReturn(q) ==
    /\ task[q].phase = "queued"
    /\ task' = [task EXCEPT ![q] = Finished(@)]
    /\ isNetworkActivityIndicatorVisible' =
         (isNetworkActivityIndicatorVisible /\ task[q].reply = "error")

MainBlock(q) ==
    /\ task[q].phase = "queued"
    /\ task' = [task EXCEPT ![q] = Finished(@)]
    /\ isNetworkActivityIndicatorVisible' = FALSE

Handler(q) == \E reply \in Replies(q) : HandlerCalled(q, reply)

Next == \E q \in Requests :
    RefuseRequest(q) \/ SendRequest(q) \/ Handler(q) \/ MainBlock(q)

(***************************************************************************)
(* URLSession ends every task within its timeout, and the main queue is    *)
(* served; nobody is obliged to send a request.                            *)
(***************************************************************************)
Fairness == \A q \in Requests : WF_vars(Handler(q)) /\ WF_vars(MainBlock(q))

Spec == Init /\ [][Next]_vars /\ Fairness

-----------------------------------------------------------------------------
(* The types of the tasks and of the indicator.                            *)
TypeOK ==
    /\ task \in [Requests -> [phase : {"idle", "running", "queued", "done"},
                              reply : {"none", "error", "noData"} \cup UNION {Payloads[q] : q \in Requests},
                              completions : Nat]]
    /\ isNetworkActivityIndicatorVisible \in BOOLEAN

Busy(q) == task[q].phase \in {"running", "queued"}

(***************************************************************************)
(* The activity indicator is never left on by requests that have all       *)
(* completed, in whichever order they complete and whichever way they end. *)
(***************************************************************************)
IndicatorMeansBusy ==
    isNetworkActivityIndicatorVisible => \E q \in Requests : Busy(q)

(***************************************************************************)
(* A request that was sent calls its completion, exactly once.             *)
(***************************************************************************)
EveryRequestCompletes ==
    \A q \in Requests : Busy(q) ~> [](task[q].completions = 1)

=============================================================================
