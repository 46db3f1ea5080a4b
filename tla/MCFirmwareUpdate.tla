-------------------------- MODULE MCFirmwareUpdate --------------------------
(***************************************************************************)
(* Instances of FirmwareUpdate for TLC: words of four bytes, pages of two  *)
(* words, two pages of ACTIVE and four of DFU.                             *)
(***************************************************************************)
EXTENDS FirmwareUpdate, TLC

\* The factory image and image 3 fill ACTIVE; image 2 has an odd size and ends
\* inside the first page.
FittingImages == {2, 3}
FittingSizes == (1 :> 16) @@ (2 :> 7) @@ (3 :> 16)

\* An image that fits DFU but not ACTIVE.
LargeImages == {2}
LargeSizes == (1 :> 16) @@ (2 :> 18)

NoFaults == {}
EveryFault == FlashOps

=============================================================================
