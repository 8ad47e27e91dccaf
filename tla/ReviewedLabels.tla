---------------------------- MODULE ReviewedLabels ----------------------------
(***************************************************************************)
(* The review of a bin's label (LabelReview) beside other parts: it shares *)
(* no state with them, and has names of its own for what they name alike.  *)
(***************************************************************************)
CONSTANTS Items, Shots, Profiles, Handlers, Nothing,
          Horizon, MaxInstants, MaxForms, MaxStops

VARIABLES instant, filed, forms, handling, pass, printed, stops

reviewVars == <<instant, filed, forms, handling, pass, printed, stops>>

L == INSTANCE LabelReview WITH
       Photos <- Shots, Requests <- Handlers, None <- Nothing,
       MaxClock <- MaxInstants, MaxCrashes <- MaxStops,
       clock <- instant, captures <- filed, req <- handling, crashes <- stops

ASSUME ReviewIsGiven == L!ReviewAssumption

(* What the owner dismissed on these photos stays dismissed.               *)
DismissedStaysDown == L!DismissedStaysDown

(* A print form makes one attempt, after its intent is on record.          *)
OneAttemptPerForm  == L!OneAttemptPerForm
===============================================================================
