---------------------------- MODULE SVProgressHUD ----------------------------
(***************************************************************************)
(* The progress HUD: one shared view, driven by show and dismiss requests  *)
(* that are operations of the main queue.                                  *)
(*                                                                         *)
(* A dismissal goes through three main-queue steps: the queued operation,  *)
(* the fade-out block it schedules with dispatch_after, and the completion *)
(* of the fade-out animation.  A show in between is not told of it.        *)
(***************************************************************************)
EXTENDS Integers, Sequences

CONSTANT Dismissals   \* identities of the calls of dismissWithDelay:completion:

VARIABLES
    mainQueue,  \* operations added with addOperationWithBlock:, in order
    alpha,      \* backgroundView.alpha, 0 or 1 (the values animations end in)
    delayed,    \* dismissals whose fade-out block waits for its delay
    fading      \* dismissals whose fade-out animation is running

hudVars == <<mainQueue, alpha, delayed, fading>>

ShowOperation == "show"

isVisible == alpha > 0

Init ==
    /\ mainQueue = << >>
    /\ alpha = 0
    /\ delayed = {}
    /\ fading = {}

Show ==
    /\ mainQueue' = Append(mainQueue, ShowOperation)
    /\ UNCHANGED <<alpha, delayed, fading>>

DismissWithDelay(d) ==
    /\ mainQueue' = Append(mainQueue, d)
    /\ UNCHANGED <<alpha, delayed, fading>>

(***************************************************************************)
(* The operation of showProgress:status: with fadeIn:.  No grace time and  *)
(* no duration is set, so there are no timers; a fade-out block that waits *)
(* and an animation that runs are left as they are.                        *)
(***************************************************************************)
RunShow ==
    /\ mainQueue # << >>
    /\ Head(mainQueue) = ShowOperation
    /\ mainQueue' = Tail(mainQueue)
    /\ alpha' = 1
    /\ UNCHANGED <<delayed, fading>>

RunDismiss ==
    /\ mainQueue # << >>
    /\ Head(mainQueue) # ShowOperation
    /\ mainQueue' = Tail(mainQueue)
    /\ delayed' = delayed \cup {Head(mainQueue)}
    /\ UNCHANGED <<alpha, fading>>

(* Variant: the block's animations leave out the background view.          *)
FadeOutForgettingBackground(d) ==
    /\ d \in delayed
    /\ delayed' = delayed \ {d}
    /\ fading' = fading \cup {d}
    /\ UNCHANGED <<mainQueue, alpha>>

(***************************************************************************)
(* The dispatch_after block: fadeOutEffects applies at once to the view,   *)
(* the animation only to what is on the screen.                            *)
(***************************************************************************)
FadeOut(d) ==
    /\ d \in delayed
    /\ delayed' = delayed \ {d}
    /\ fading' = fading \cup {d}
    /\ alpha' = 0
    /\ UNCHANGED mainQueue

(***************************************************************************)
(* The end of the animation, finished or cancelled by another one.  The    *)
(* caller's completion runs only if alpha is 0 at this moment.             *)
(***************************************************************************)
RunsCompletion == alpha = 0

FadedOut(d) ==
    /\ d \in fading
    /\ fading' = fading \ {d}
    /\ UNCHANGED <<mainQueue, alpha, delayed>>

TypeOK ==
    /\ mainQueue \in Seq(Dismissals \cup {ShowOperation})
    /\ alpha \in {0, 1}
    /\ delayed \subseteq Dismissals
    /\ fading \subseteq Dismissals

=============================================================================
