-------------------------------- MODULE MCApp --------------------------------
(***************************************************************************)
(* Three parts of the app for TLC, one at a time: a behaviour is one of    *)
(* FirebaseDatabaseService, of VanillaNetworkingService or of PostsView,   *)
(* and "subject" says of which.                                            *)
(*                                                                         *)
(* The database holds the posts node, which may be written with an empty   *)
(* array, and one users node; of the requests, two belong to one           *)
(* loadPostDetails and the third to another call; the screen shows the     *)
(* list and up to three taps, enough for a dismissal to be overtaken by a  *)
(* show that is itself dismissed.                                          *)
(***************************************************************************)
EXTENDS FirebaseDatabaseService

CONSTANTS
    Requests, Payloads,   \* VanillaNetworkingService
    PostsCall, Taps       \* PostsView

VARIABLES
    subject,                                   \* the part that is followed
    task, isNetworkActivityIndicatorVisible,   \* VanillaNetworkingService
    status, mainQueue, alpha, delayed, fading, \* PostsView
    rows, details, alert, outcome, overtaken

N == INSTANCE VanillaNetworkingService
P == INSTANCE PostsView

ASSUME ScreenAssumption == P!CallsAssumption

MCNodes == {"posts", "users/1"}
MCValues == [n \in MCNodes |-> IF n = "posts" THEN {"list", "[]"} ELSE {"user"}]
MCPayloads == [q \in Requests |-> {"json", "garbage"}]

networkVars == <<task, isNetworkActivityIndicatorVisible>>
screenVars ==
    <<status, mainQueue, alpha, delayed, fading, rows, details, alert, outcome, overtaken>>
partVars == <<subject, vars, networkVars, screenVars>>

PartInit ==
    /\ subject \in {"database", "network", "screen"}
    /\ Init /\ N!Init /\ P!Init
    /\ subject # "database" => ~online /\ remote = [n \in Nodes |-> Null]

DatabaseStep ==
    subject = "database" /\ Next /\ UNCHANGED <<subject, networkVars, screenVars>>
NetworkStep ==
    subject = "network" /\ N!Next /\ UNCHANGED <<subject, vars, screenVars>>
ScreenStep ==
    subject = "screen" /\ P!Next /\ UNCHANGED <<subject, vars, networkVars>>

(* The parts that are not followed stay in their initial states, where     *)
(* nothing their fairness speaks of is enabled.                            *)
PartSpec ==
    /\ PartInit
    /\ [][DatabaseStep \/ NetworkStep \/ ScreenStep]_partVars
    /\ Fairness /\ N!Fairness /\ P!Fairness

(* The types of the state of VanillaNetworkingService and of PostsView.    *)
PartsTypeOK == N!TypeOK /\ P!TypeOK

(* VanillaNetworkingService never leaves the activity indicator on when    *)
(* its requests have all completed.                                        *)
IndicatorMeansBusy == N!IndicatorMeansBusy

(* A request that VanillaNetworkingService sent calls its completion,      *)
(* exactly once.                                                           *)
EveryRequestCompletes == N!EveryRequestCompletes

(* The response to a tap is lost only if another tap's show ran while the  *)
(* fade-out of its own dismissal was running (PostsView).                  *)
LostOnlyIfOvertaken == P!LostOnlyIfOvertaken

(* Whenever the HUD is displayed it is later hidden, however the           *)
(* retrievals that showed it overlap and end (PostsView).                  *)
HudGoesAway == P!HudGoesAway

(* The answer to displayPosts always reaches the screen (PostsView).       *)
PostsReachTheScreen == P!PostsReachTheScreen

=============================================================================
