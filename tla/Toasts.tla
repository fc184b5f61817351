-------------------------------- MODULE Toasts --------------------------------
(***************************************************************************)
(* The toast queue of the browser: at most ToastCap notices, no two alike,  *)
(* each dismissed by its own timer, which stands still while the pointer or *)
(* the focus is on it. A notice is named by its title and body. The timer   *)
(* that addToast starts for a notice it refuses has an id nobody shows, and *)
(* does nothing.                                                           *)
(***************************************************************************)
EXTENDS Integers, Sequences, SequencesExt

CONSTANTS
    Notices,  \* titles with bodies
    ToastCap  \* 5

ASSUME ToastAssumption == ToastCap \in Nat

VARIABLES
    toasts,  \* useToastStore, oldest first
    timed,   \* the shown notices with a timer in timerMap
    hovered, \* the notice the pointer is on
    focused  \* the notices whose dismiss button has the focus

toastVars == <<toasts, timed, hovered, focused>>

Shown == ToSet(toasts)

ToastTypeOK ==
    /\ toasts \in Seq(Notices) /\ IsInjective(toasts)
    /\ Len(toasts) <= ToastCap
    /\ timed \cup hovered \cup focused \subseteq Shown

ToastInit == toasts = <<>> /\ timed = {} /\ hovered = {} /\ focused = {}

\* Beyond the cap the oldest goes, with its timer.
Capped_Never(s) == s
Capped(s) == IF Len(s) > ToastCap THEN Tail(s) ELSE s

AddToast(t) ==
    \/ t \in Shown /\ UNCHANGED toastVars
    \/ /\ t \notin Shown
       /\ toasts' = Capped(Append(toasts, t))
       /\ timed' = (timed \cup {t}) \cap ToSet(toasts')
       /\ hovered' = hovered \cap ToSet(toasts')
       /\ focused' = focused \cap ToSet(toasts')

DismissToast(t) ==
    /\ \E i \in DOMAIN toasts : toasts[i] = t /\ toasts' = RemoveAt(toasts, i)
    /\ timed' = timed \ {t}
    /\ hovered' = hovered \ {t} /\ focused' = focused \ {t}

\* The timer is due.
ToastExpires(t) == t \in timed /\ DismissToast(t)

\* onMouseEnter and onFocus pause the timer, onMouseLeave and onBlur start it
\* anew, whether or not the other of the two still holds.
Enters(t) ==
    /\ t \in Shown
    /\ \/ hovered = {} /\ hovered' = {t} /\ UNCHANGED focused
       \/ focused = {} /\ focused' = {t} /\ UNCHANGED hovered
    /\ timed' = timed \ {t}
    /\ UNCHANGED toasts

Resumed_Paused(t) == timed
Resumed(t) == timed \cup {t}

Leaves(t) ==
    /\ \/ t \in hovered /\ hovered' = {} /\ UNCHANGED focused
       \/ t \in focused /\ focused' = {} /\ UNCHANGED hovered
    /\ timed' = Resumed(t)
    /\ UNCHANGED toasts

ToastNext ==
    \E t \in Notices :
        \/ AddToast(t) \/ DismissToast(t) \/ ToastExpires(t)
        \/ Enters(t) \/ Leaves(t)

ToastSpec == ToastInit /\ [][ToastNext]_toastVars

\* setTimeout fires. Users and events need not do anything.
ToastFairness == \A t \in Notices : WF_toastVars(ToastExpires(t))

\* No notice stays for ever: it goes, or somebody has it under the pointer or
\* in focus, through any order of pauses, returns, refused duplicates and
\* evictions by the cap.
ToastGoes ==
    \A t \in Notices :
        t \in Shown ~> t \notin Shown \/ t \in hovered \cup focused
=============================================================================
