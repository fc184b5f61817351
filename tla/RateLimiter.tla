----------------------------- MODULE RateLimiter -----------------------------
(***************************************************************************)
(* IpRateLimiter.checkAndConsume for one address. The times in its record   *)
(* are only filtered and counted, so their order is left out: the record is *)
(* the set of the creations noted in it. Times are kept as ages, which stop *)
(* counting at the window: older ones are alike.                           *)
(***************************************************************************)
EXTENDS Integers, FiniteSets

CONSTANTS
    Creations,     \* one per time in a record; used again when it has expired
    MaxCreations,  \* 10
    Window         \* windowMs, in units of age

ASSUME LimitAssumption == MaxCreations \in Nat /\ Window \in Nat \ {0}

VARIABLES
    stamps,   \* the creations whose times are in the record
    age,      \* how long ago each was, up to the window
    allowed   \* history: the creations allowed less than a window ago

limitVars == <<stamps, age, allowed>>

LimitTypeOK ==
    /\ stamps \subseteq Creations
    /\ age \in [Creations -> 0 .. Window]
    /\ allowed \subseteq Creations

LimitInit ==
    /\ stamps = {} /\ allowed = {}
    /\ age = [c \in Creations |-> Window]

\* Only a check prunes the record: until the next one it keeps what has expired.
Valid_AllOrNone ==
    IF \E c \in stamps : age[c] >= Window THEN {} ELSE stamps
Valid == {c \in stamps : age[c] < Window}

CheckAndConsume ==
    \/ /\ Cardinality(Valid) >= MaxCreations
       /\ stamps' = Valid /\ UNCHANGED <<age, allowed>>
    \/ /\ Cardinality(Valid) < MaxCreations
       /\ \E c \in Creations \ (Valid \union allowed) :
             /\ stamps' = Valid \union {c}
             /\ age' = [age EXCEPT ![c] = 0]
             /\ allowed' = allowed \union {c}

Ages ==
    /\ age' = [c \in Creations |-> IF age[c] < Window THEN age[c] + 1
                                                      ELSE age[c]]
    /\ allowed' = {c \in allowed : age'[c] < Window}
    /\ UNCHANGED stamps

LimitNext == CheckAndConsume \/ Ages

LimitSpec == LimitInit /\ [][LimitNext]_limitVars

\* In no window, wherever it begins, are more rooms created from one address
\* than allowed, though the record is pruned only now and then and holds refused
\* attempts in no form.
WindowKept == Cardinality(allowed) <= MaxCreations
=============================================================================
