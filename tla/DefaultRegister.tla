-------------------------- MODULE DefaultRegister ---------------------------
(***************************************************************************)
(* What the LLM providers promise about the default: it is a register that *)
(* holds one known provider or none.                                       *)
(***************************************************************************)
EXTENDS Integers

CONSTANT Providers  \* provider ids, positive numbers

VARIABLES
    known,    \* the providers that exist
    default   \* the default provider, 0 when there is none

Init == known = {} /\ default = 0

\* A new provider, which takes the default over or leaves it alone.
Add(p) ==
    /\ p \notin known
    /\ known' = known \cup {p}
    /\ default' \in {p, default}

\* A known provider takes the default over, or gives it up if it has it.
Take(p) == p \in known /\ default' = p /\ UNCHANGED known
GiveUp(p) == default = p /\ default' = 0 /\ UNCHANGED known

\* A provider goes, and the default with it if it was the default.
Remove(p) ==
    /\ known' = known \ {p}
    /\ default' = IF default = p THEN 0 ELSE default

Next == \E p \in Providers : Add(p) \/ Take(p) \/ GiveUp(p) \/ Remove(p)

Spec == Init /\ [][Next]_<<known, default>>
=============================================================================
