-------------------------------- MODULE Staging --------------------------------
(***************************************************************************)
(* What receiving an image promises to the code that writes it: at most    *)
(* one image is staged, it is the one last offered, and the offer does not *)
(* change under it.                                                        *)
(***************************************************************************)
CONSTANTS Images, None

VARIABLES
    offer,   \* the image the version server announced
    staged   \* the image waiting for "write? (y/n)"

Init == offer = None /\ staged = None

\* A new update starts; nothing is staged.
Offer ==
    /\ staged = None /\ UNCHANGED staged
    /\ offer' \in Images

\* The offered image has arrived and passed every check.
Stage ==
    /\ offer # None /\ staged = None
    /\ staged' = offer /\ UNCHANGED offer

\* It is written or dropped; a reset forgets the offer as well.
Leave ==
    /\ staged # None /\ staged' = None
    /\ offer' \in {offer, None}

Spec == Init /\ [][Offer \/ Stage \/ Leave]_<<offer, staged>>
=============================================================================
