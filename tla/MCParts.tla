------------------------------- MODULE MCParts -------------------------------
(***************************************************************************)
(* The parts of gateway and browser that have a state and timers of their   *)
(* own and share nothing: each behaviour is one of them at work, the others *)
(* standing still.                                                         *)
(***************************************************************************)
EXTENDS EventLink, Toasts, RateLimiter, CursorBuffer, Solo, ClockSync,
        Standings

AheadAndBehind == {-2, 0, 3}

VARIABLE part

vars ==
    <<part, linkVars, toastVars, limitVars, cursorVars, soloVars, clockVars,
      standVars>>

Parts ==
    {"link", "toasts", "limiter", "cursor", "solo", "clock", "standings"}

PartsTypeOK ==
    /\ part \in Parts
    /\ LinkTypeOK /\ ToastTypeOK /\ LimitTypeOK /\ CursorTypeOK /\ SoloTypeOK
    /\ ClockTypeOK /\ StandTypeOK

\* A part that stands still begins as some state of its own Init.
Init ==
    /\ part \in Parts
    /\ LinkInit /\ ToastInit /\ LimitInit /\ CursorInit
    /\ SoloInit /\ (part # "solo" => prefs = [mode |-> "text", time |-> 1])
    /\ ClockInit /\ (part # "clock" => skew = 0)
    /\ StandInit

Next ==
    \/ part = "link" /\ LinkNext
       /\ UNCHANGED <<toastVars, limitVars, cursorVars, soloVars, clockVars,
                      standVars>>
    \/ part = "toasts" /\ ToastNext
       /\ UNCHANGED <<linkVars, limitVars, cursorVars, soloVars, clockVars,
                      standVars>>
    \/ part = "limiter" /\ LimitNext
       /\ UNCHANGED <<linkVars, toastVars, cursorVars, soloVars, clockVars,
                      standVars>>
    \/ part = "cursor" /\ CursorNext
       /\ UNCHANGED <<linkVars, toastVars, limitVars, soloVars, clockVars,
                      standVars>>
    \/ part = "solo" /\ SoloNext
       /\ UNCHANGED <<linkVars, toastVars, limitVars, cursorVars, clockVars,
                      standVars>>
    \/ part = "clock" /\ ClockNext
       /\ UNCHANGED <<linkVars, toastVars, limitVars, cursorVars, soloVars,
                      standVars>>
    \/ part = "standings" /\ StandNext
       /\ UNCHANGED <<linkVars, toastVars, limitVars, cursorVars, soloVars,
                      clockVars>>

Spec ==
    /\ Init /\ [][Next /\ part' = part]_vars
    /\ (part = "link" => LinkFairness) /\ (part = "toasts" => ToastFairness)
=============================================================================
