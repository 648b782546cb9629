------------------------------ MODULE Retrieval ------------------------------
(***************************************************************************)
(* What DataProvider promises the view controllers: a retrieval that was   *)
(* started ends, while the process lives, in exactly one call of its       *)
(* completion, with a success or with a failure.                           *)
(***************************************************************************)

CONSTANT Calls   \* identities of the calls of retrieveAllPosts / -PostDetails

VARIABLE status  \* status[c]: where the retrieval c stands

Init == status = [c \in Calls |-> "idle"]

Start(c) ==
    /\ status[c] = "idle"
    /\ status' = [status EXCEPT ![c] = "pending"]

Succeed(c) ==
    /\ status[c] = "pending"
    /\ status' = [status EXCEPT ![c] = "succeeded"]

Fail(c) ==
    /\ status[c] = "pending"
    /\ status' = [status EXCEPT ![c] = "failed"]

Complete(c) == Succeed(c) \/ Fail(c)

(***************************************************************************)
(* The process dies: every retrieval is forgotten with it.                 *)
(***************************************************************************)
Die == status' = [c \in Calls |-> "idle"]

Next == (\E c \in Calls : Start(c) \/ Complete(c)) \/ Die

(***************************************************************************)
(* What may happen; and, with Fairness, what must.                         *)
(***************************************************************************)
Safety == Init /\ [][Next]_status

Fairness == \A c \in Calls : WF_status(Complete(c))

Spec == Safety /\ Fairness

=============================================================================
