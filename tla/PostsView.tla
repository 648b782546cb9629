------------------------------ MODULE PostsView ------------------------------
(***************************************************************************)
(* PostsViewController with its table, the details screens it pushes and   *)
(* the alerts it presents, over the shared HUD and over DataProvider,      *)
(* which is used through what it promises (Retrieval).                     *)
(*                                                                         *)
(* The HUD has the default mask type, so rows can be tapped while it is    *)
(* displayed and retrievals of several taps overlap.                       *)
(***************************************************************************)
EXTENDS Naturals, Sequences

CONSTANTS
    PostsCall,   \* the one call of retrieveAllPosts (displayPosts)
    Taps         \* the calls of retrievePostDetails, one for each tap

(* What the identities of the calls have to satisfy: they are distinct,    *)
(* and none is the name of the HUD's show operation.                       *)
CallsAssumption == PostsCall \notin Taps /\ "show" \notin Taps \cup {PostsCall}

Calls == Taps \cup {PostsCall}

VARIABLES
    status,     \* Retrieval: where each call of the data provider stands
    mainQueue, alpha, delayed, fading,   \* SVProgressHUD
    rows,       \* postsDataSource is not empty
    details,    \* number of details screens on the navigation stack
    alert,      \* an alert is presented
    outcome,    \* outcome[c]: what became of the response of c
    overtaken   \* history: calls whose fade-out was running when a show ran

P == INSTANCE Retrieval
H == INSTANCE SVProgressHUD WITH Dismissals <- Calls

hudVars == <<mainQueue, alpha, delayed, fading>>
viewVars == <<rows, details, alert, outcome, overtaken>>
vars == <<status, hudVars, viewVars>>

Init ==
    /\ P!Init
    /\ H!Init
    /\ rows = FALSE
    /\ details = 0
    /\ alert = FALSE
    /\ outcome = [c \in Calls |-> "none"]
    /\ overtaken = {}

-----------------------------------------------------------------------------
(***************************************************************************)
(* viewDidLoad: displayPosts, and the closure for the rows is set.         *)
(***************************************************************************)
ViewDidLoad ==
    /\ P!Start(PostsCall)
    /\ H!Show
    /\ UNCHANGED viewVars

(* Variant: the table has rows before the posts are retrieved.             *)
CanSelectRowAlways == details = 0 /\ ~alert /\ status[PostsCall] # "idle"

(***************************************************************************)
(* A row can be tapped when the list has rows and is on top.               *)
(***************************************************************************)
CanSelectRow == rows /\ details = 0 /\ ~alert

DidSelectPostCell(c) ==
    /\ CanSelectRow
    /\ P!Start(c)
    /\ H!Show
    /\ UNCHANGED viewVars

(* Variant: the HUD is only dismissed when the retrieval succeeds.         *)
RespondedOnSuccessOnly(c) ==
    /\ P!Complete(c)
    /\ IF status'[c] = "succeeded" THEN H!DismissWithDelay(c) ELSE UNCHANGED hudVars
    /\ UNCHANGED viewVars

(***************************************************************************)
(* The data provider calls the completion, which asks the HUD to go.       *)
(***************************************************************************)
Responded(c) ==
    /\ P!Complete(c)
    /\ H!DismissWithDelay(c)
    /\ UNCHANGED viewVars

HudShow ==
    /\ H!RunShow
    /\ overtaken' = overtaken \cup fading
    /\ UNCHANGED <<status, rows, details, alert, outcome>>

HudDismiss ==
    /\ H!RunDismiss
    /\ UNCHANGED <<status, viewVars>>

HudFadeOut(c) ==
    /\ H!FadeOut(c)
    /\ UNCHANGED <<status, viewVars>>

(***************************************************************************)
(* The completion of dismiss: the response reaches the screen.             *)
(***************************************************************************)
ShowPosts(c) ==
    /\ c = PostsCall
    /\ status[c] = "succeeded"
    /\ rows' \in BOOLEAN
    /\ outcome' = [outcome EXCEPT ![c] = "presented"]
    /\ UNCHANGED <<details, alert>>

PushDetails(c) ==
    /\ c \in Taps
    /\ status[c] = "succeeded"
    /\ details' = details + 1
    /\ outcome' = [outcome EXCEPT ![c] = "presented"]
    /\ UNCHANGED <<rows, alert>>

(***************************************************************************)
(* A second alert is not presented while one is.                           *)
(***************************************************************************)
ShowErrorAlert(c) ==
    /\ status[c] = "failed"
    /\ alert' = TRUE
    /\ outcome' = [outcome EXCEPT ![c] = IF alert THEN "refused" ELSE "presented"]
    /\ UNCHANGED <<rows, details>>

HudFadedOut(c) ==
    /\ H!FadedOut(c)
    /\ \/ /\ H!RunsCompletion
          /\ ShowPosts(c) \/ PushDetails(c) \/ ShowErrorAlert(c)
       \/ /\ ~H!RunsCompletion
          /\ outcome' = [outcome EXCEPT ![c] = "lost"]
          /\ UNCHANGED <<rows, details, alert>>
    /\ UNCHANGED <<status, overtaken>>

TapOK ==
    /\ alert
    /\ alert' = FALSE
    /\ UNCHANGED <<status, hudVars, rows, details, outcome, overtaken>>

TapBack ==
    /\ details > 0
    /\ ~alert
    /\ details' = details - 1
    /\ UNCHANGED <<status, hudVars, rows, alert, outcome, overtaken>>

Next ==
    \/ ViewDidLoad
    \/ \E c \in Taps : DidSelectPostCell(c)
    \/ \E c \in Calls : Responded(c) \/ HudFadeOut(c) \/ HudFadedOut(c)
    \/ HudShow
    \/ HudDismiss
    \/ TapOK
    \/ TapBack

(***************************************************************************)
(* The main queue, the delays and the animations make progress, and the    *)
(* data provider answers (Retrieval); the user need not do anything.       *)
(***************************************************************************)
Fairness ==
    /\ WF_vars(HudShow)
    /\ WF_vars(HudDismiss)
    /\ \A c \in Calls : /\ WF_vars(Responded(c))
                        /\ WF_vars(HudFadeOut(c))
                        /\ WF_vars(HudFadedOut(c))

Spec == Init /\ [][Next]_vars /\ Fairness

-----------------------------------------------------------------------------
(* The types of the screen's state and of the HUD's.                       *)
TypeOK ==
    /\ status \in [Calls -> {"idle", "pending", "succeeded", "failed"}]
    /\ H!TypeOK
    /\ rows \in BOOLEAN
    /\ details \in Nat
    /\ alert \in BOOLEAN
    /\ outcome \in [Calls -> {"none", "presented", "refused", "lost"}]
    /\ overtaken \subseteq Calls

(***************************************************************************)
(* The HUD never stays up: whenever it is displayed it is later hidden,    *)
(* however the retrievals that showed it overlap and end (every show of    *)
(* PostsViewController is followed by a dismiss).                          *)
(***************************************************************************)
HudGoesAway == H!isVisible ~> ~H!isVisible

(***************************************************************************)
(* The answer to displayPosts always reaches the screen, as rows or as an  *)
(* alert: no row can be tapped that early, so no show can cut its          *)
(* dismissal short.                                                        *)
(***************************************************************************)
PostsReachTheScreen ==
    status[PostsCall] = "pending" ~> outcome[PostsCall] = "presented"

(***************************************************************************)
(* The response to a tap is lost only if another tap's show ran while its  *)
(* own fade-out was running (the alpha test before dismiss's completion).  *)
(***************************************************************************)
LostOnlyIfOvertaken == \A c \in Calls : outcome[c] = "lost" => c \in overtaken

(***************************************************************************)
(* The HUD displays that a task is ongoing: while a retrieval is pending   *)
(* and its show has run, the HUD is visible.                               *)
(***************************************************************************)
HudShownWhileLoading ==
    (\E c \in Calls : status[c] = "pending")
      /\ (\A i \in 1..Len(mainQueue) : mainQueue[i] # H!ShowOperation)
    => H!isVisible

=============================================================================
