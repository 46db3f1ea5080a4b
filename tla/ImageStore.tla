----------------------------- MODULE ImageStore -----------------------------
(***************************************************************************)
(* What the firmware update promises: the device always has one image to   *)
(* run.  It changes to an image that was offered, and back to the one that *)
(* was replaced as long as the change is not confirmed.                    *)
(*                                                                         *)
(* The promise has one hole.  An image that is kept to go back to may be   *)
(* lost; from then on the device takes offers although a change is not     *)
(* confirmed, and going back need not give an image.                       *)
(***************************************************************************)
CONSTANTS Images, Factory, NoImage

VARIABLES current, offered, fallback, lost

storeVars == <<current, offered, fallback, lost>>

Init == current = Factory /\ offered = NoImage /\ fallback = NoImage /\ lost = FALSE

\* An image that was received completely; there is no other on offer, and the
\* current one is confirmed.
Offer(i) ==
  /\ offered = NoImage
  /\ fallback = NoImage \/ lost
  /\ offered' = i
  /\ UNCHANGED <<current, fallback, lost>>

\* An image is dropped before it was ever run.
Withdraw ==
  /\ offered # NoImage
  /\ offered' = NoImage
  /\ UNCHANGED <<current, fallback, lost>>

Change ==
  /\ offered # NoImage
  /\ current' = offered
  /\ fallback' = current
  /\ offered' = NoImage
  /\ UNCHANGED lost

Confirm ==
  /\ fallback # NoImage
  /\ fallback' = NoImage
  /\ UNCHANGED <<current, offered, lost>>

GoBack ==
  /\ fallback # NoImage
  /\ current' = fallback
  /\ fallback' = NoImage
  /\ UNCHANGED <<offered, lost>>

\* Only an image that is still kept can be lost, and none is on offer then.
Lose ==
  /\ fallback # NoImage
  /\ offered = NoImage
  /\ ~lost
  /\ lost' = TRUE
  /\ UNCHANGED <<current, offered, fallback>>

Next ==
  \/ \E i \in Images : Offer(i)
  \/ Withdraw
  \/ Change
  \/ Confirm
  \/ GoBack
  \/ Lose

Spec == Init /\ [][Next]_storeVars

=============================================================================
