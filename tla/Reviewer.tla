------------------------------ MODULE Reviewer ------------------------------
(***************************************************************************)
(* What the handling of Stop events promises of the user's work: content is*)
(* dealt with first, consumed and called "already said" in later steps of  *)
(* their own, and what was dealt with stays so.  What is neither is        *)
(* reviewed again: a failed review takes nothing away.                     *)
(***************************************************************************)
CONSTANT Contents

VARIABLES
    dealt,      \* content somebody looked at, or a known hole let through
    consumed,   \* content no later diff will show
    said        \* content a later Stop may be told "no change" of

reviewerVars == <<dealt, consumed, said>>

ReviewerInit ==
    /\ dealt \in SUBSET Contents
    /\ consumed \in SUBSET dealt
    /\ said = {}

Deal ==
    /\ dealt' \in SUBSET Contents /\ dealt \subseteq dealt'
    /\ UNCHANGED <<consumed, said>>

Consume == consumed' \in SUBSET dealt /\ UNCHANGED <<dealt, said>>

Say == said' \in SUBSET dealt /\ UNCHANGED <<dealt, consumed>>

ReviewerNext == Deal \/ Consume \/ Say

ReviewerSpec == ReviewerInit /\ [][ReviewerNext]_reviewerVars
=============================================================================
