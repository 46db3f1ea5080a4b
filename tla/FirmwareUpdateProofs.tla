------------------------ MODULE FirmwareUpdateProofs ------------------------
(***************************************************************************)
(* Theorems about FirmwareUpdate, for every flash layout, set of images    *)
(* and width of the block counter.                                         *)
(***************************************************************************)
EXTENDS FirmwareUpdate, TLAPS

-----------------------------------------------------------------------------
(***************************************************************************)
(* Arithmetic                                                              *)
(***************************************************************************)

\* Two numbers less than m apart with the same remainder are equal.
LEMMA SameRemainder ==
  ASSUME NEW m \in Nat \ {0}, NEW a \in Nat, NEW b \in Nat,
         a - b < m, b - a < m, a % m = b % m
  PROVE  a = b
<1> DEFINE p == a \div m
           q == b \div m
<1>1. /\ p \in Int /\ q \in Int
      /\ a = (m * p) + (a % m)
      /\ b = (m * q) + (b % m)
  OBVIOUS
<1>2. a - b = m * (p - q)
  BY <1>1
<1> HIDE DEF p, q
<1>3. ASSUME p - q >= 1 PROVE FALSE
  <2>1. m * (p - q) >= m
    BY <1>1, <1>3
  <2> QED BY <2>1, <1>2
<1>4. ASSUME q - p >= 1 PROVE FALSE
  <2>1. m * (q - p) >= m
    BY <1>1, <1>4
  <2>2. m * (q - p) = b - a
    BY <1>1
  <2> QED BY <2>1, <2>2
<1>5. p = q
  BY <1>1, <1>3, <1>4
<1> QED BY <1>1, <1>5

\* The remainder is the only number below m that is left over.
LEMMA RemainderIs ==
  ASSUME NEW m \in Nat \ {0}, NEW q \in Nat, NEW r \in 0..(m - 1)
  PROVE  ((m * q) + r) % m = r
<1> DEFINE x == (m * q) + r
           p == x \div m
           s == x % m
<1>1. x \in Nat
  OBVIOUS
<1>2. p \in Int /\ s \in 0..(m - 1) /\ x = (m * p) + s
  BY <1>1
<1>3. m * (q - p) = s - r
  BY <1>2
<1>4. m * (p - q) = r - s
  BY <1>2
<1> HIDE DEF p, s
<1>5. ASSUME q - p >= 1 PROVE FALSE
  <2>1. m * (q - p) >= m
    BY <1>2, <1>5
  <2> QED BY <2>1, <1>2, <1>3
<1>6. ASSUME p - q >= 1 PROVE FALSE
  <2>1. m * (p - q) >= m
    BY <1>2, <1>6
  <2> QED BY <2>1, <1>2, <1>4
<1>7. p = q
  BY <1>2, <1>5, <1>6
<1>8. s = r
  BY <1>2, <1>7
<1> QED BY <1>8 DEF s

\* The counter goes on from the remainder.
LEMMA NextRemainder ==
  ASSUME NEW m \in Nat \ {0}, NEW a \in Nat
  PROVE  ((a % m) + 1) % m = (a + 1) % m
<1> DEFINE q == a \div m
           r == a % m
<1>1. q \in Nat /\ r \in 0..(m - 1) /\ a = (m * q) + r
  OBVIOUS
<1>2. r + 1 < m \/ r + 1 = m
  OBVIOUS
<1> HIDE DEF q, r
<1>3. CASE r + 1 < m
  <2>1. a + 1 = (m * q) + (r + 1) /\ r + 1 \in 0..(m - 1)
    BY <1>1, <1>3
  <2>2. (a + 1) % m = r + 1
    BY <2>1, <1>1, RemainderIs
  <2>3. (r + 1) % m = r + 1
    BY <2>1
  <2> QED BY <2>2, <2>3 DEF r
<1>4. CASE r + 1 = m
  <2>1. a + 1 = (m * (q + 1)) + 0 /\ q + 1 \in Nat
    BY <1>1, <1>4
  <2>2. 0 \in 0..(m - 1)
    OBVIOUS
  <2> HIDE DEF q
  <2>3. ((m * (q + 1)) + 0) % m = 0
    BY <2>1, <2>2, RemainderIs
  <2>4. m % m = 0
    OBVIOUS
  <2> QED BY <1>4, <2>1, <2>3, <2>4 DEF r
<1> QED BY <1>2, <1>3, <1>4

-----------------------------------------------------------------------------
(***************************************************************************)
(* The stream: the block counter tells a repeated or skipped block from    *)
(* the next one, because it stays in step with the bytes received.         *)
(***************************************************************************)
StreamInv ==
  ota_state = "Receiving" =>
    /\ image \in Nat
    /\ crc32 \in Seq(Nat \X Nat)
    /\ \E n \in Nat : Len(crc32) = 2 * n
    /\ next_block_seq = (Received + 1) % SeqMod
    /\ \A p \in 1..Len(crc32) : crc32[p] = <<image, p>>

\* A block that the counter accepts is the one after those received.
LEMMA AcceptedIsNext ==
  ASSUME StreamInv, NEW b \in Blocks, ExpectedBlock(b)
  PROVE  /\ b = Received + 1
         /\ Received \in Nat
         /\ Len(crc32) = 2 * Received
<1>1. PICK n \in Nat : Len(crc32) = 2 * n
  BY DEF StreamInv, ExpectedBlock
<1>2. Received = n
  BY <1>1 DEF Received
<1>3. b % SeqMod = (n + 1) % SeqMod
  BY <1>2 DEF StreamInv, ExpectedBlock
<1>4. b \in Nat /\ b - (n + 1) < SeqMod /\ (n + 1) - b < SeqMod
  BY <1>2, SeqAssumption DEF Blocks
<1>5. SeqMod \in Nat \ {0} /\ n + 1 \in Nat
  BY SeqAssumption
<1>6. b = n + 1
  BY <1>3, <1>4, <1>5, SameRemainder
<1> QED BY <1>1, <1>2, <1>6

\* Two elements more at the end of a sequence.
LEMMA AppendTwo ==
  ASSUME NEW S, NEW s \in Seq(S), NEW x \in S, NEW y \in S,
         NEW t, t = s \o <<x, y>>
  PROVE  /\ t \in Seq(S)
         /\ Len(t) = Len(s) + 2
         /\ \A p \in 1..Len(s) : t[p] = s[p]
         /\ t[Len(s) + 1] = x
         /\ t[Len(s) + 2] = y
<1> DEFINE two == <<x, y>>
<1>1. two \in Seq(S) /\ Len(two) = 2 /\ two[1] = x /\ two[2] = y
  OBVIOUS
<1>2. t = s \o two
  OBVIOUS
<1> HIDE DEF two
<1>3. t \in Seq(S) /\ Len(t) = Len(s) + 2
  BY <1>1, <1>2
<1>4. \A p \in 1..Len(s) : t[p] = s[p]
  BY <1>1, <1>2
<1>5. t[Len(s) + 1] = two[1] /\ t[Len(s) + 2] = two[2]
  BY <1>1, <1>2
<1> QED BY <1>1, <1>3, <1>4, <1>5

\* Taking the next block keeps the stream in order.
LEMMA TakenInOrder ==
  ASSUME StreamInv, NEW b \in Blocks, ExpectedBlock(b), BlockTaken(b),
         image' = image
  PROVE  StreamInv'
<1>1. PICK n \in Nat : b = n + 1 /\ n = Received /\ Len(crc32) = 2 * n
  BY AcceptedIsNext
<1>2. /\ image \in Nat
      /\ crc32 \in Seq(Nat \X Nat)
      /\ next_block_seq = (n + 1) % SeqMod
      /\ \A p \in 1..Len(crc32) : crc32[p] = <<image, p>>
  BY <1>1 DEF StreamInv, ExpectedBlock
<1>3. crc32' = crc32 \o <<<<image, (2 * n) + 1>>, <<image, (2 * n) + 2>>>>
  <2>1. (2 * b) - 1 = (2 * n) + 1 /\ 2 * b = (2 * n) + 2
    BY <1>1
  <2> QED BY <2>1 DEF BlockTaken, Block
<1>4. /\ crc32' \in Seq(Nat \X Nat)
      /\ Len(crc32') = (2 * n) + 2
      /\ \A p \in 1..(2 * n) : crc32'[p] = crc32[p]
      /\ crc32'[(2 * n) + 1] = <<image, (2 * n) + 1>>
      /\ crc32'[(2 * n) + 2] = <<image, (2 * n) + 2>>
  <2> DEFINE x == <<image, (2 * n) + 1>>
             y == <<image, (2 * n) + 2>>
  <2>1. x \in Nat \X Nat /\ y \in Nat \X Nat
    BY <1>2
  <2>2. crc32' = crc32 \o <<x, y>>
    BY <1>3
  <2> HIDE DEF x, y
  <2>3. /\ crc32' \in Seq(Nat \X Nat)
        /\ Len(crc32') = Len(crc32) + 2
        /\ \A p \in 1..Len(crc32) : crc32'[p] = crc32[p]
        /\ crc32'[Len(crc32) + 1] = x
        /\ crc32'[Len(crc32) + 2] = y
    BY <2>1, <2>2, <1>2, AppendTwo
  <2> QED BY <2>3, <1>1 DEF x, y
<1>5. Received' = n + 1
  BY <1>4 DEF Received
<1>6. next_block_seq' = (Received' + 1) % SeqMod
  <2>1. n + 1 \in Nat /\ SeqMod \in Nat \ {0}
    BY SeqAssumption
  <2>2. (((n + 1) % SeqMod) + 1) % SeqMod = ((n + 1) + 1) % SeqMod
    BY <2>1, NextRemainder
  <2>3. next_block_seq' = (((n + 1) % SeqMod) + 1) % SeqMod
    BY <1>2 DEF BlockTaken
  <2> QED BY <2>2, <2>3, <1>5
<1>7. ASSUME NEW p \in 1..Len(crc32') PROVE crc32'[p] = <<image', p>>
  <2>1. p \in 1..(2 * n) \/ p = (2 * n) + 1 \/ p = (2 * n) + 2
    BY <1>4
  <2>2. ASSUME p \in 1..(2 * n) PROVE crc32[p] = <<image, p>>
    BY <2>2, <1>1, <1>2
  <2> QED BY <2>1, <2>2, <1>4
<1>8. \E k \in Nat : Len(crc32') = 2 * k
  <2>1. n + 1 \in Nat /\ Len(crc32') = 2 * (n + 1)
    BY <1>4
  <2> QED BY <2>1
<1>9. image' \in Nat
  BY <1>2
<1> QED BY <1>4, <1>6, <1>7, <1>8, <1>9 DEF StreamInv

LEMMA StreamInvInit == Init => StreamInv
BY DEF Init, StreamInv

\* Only a download starts a stream and only an accepted block extends it.
LEMMA StreamInvStep == StreamInv /\ [Next]_vars => StreamInv'
<1> SUFFICES ASSUME StreamInv, [Next]_vars PROVE StreamInv'
  OBVIOUS
<1>1. ASSUME NEW i \in Images, RequestDownload(i) PROVE StreamInv'
  <2>1. /\ image' = i /\ i \in Nat
        /\ crc32' = <<>>
        /\ next_block_seq' = 1 % SeqMod
    BY <1>1, ImageAssumption DEF RequestDownload
  <2>2. Len(crc32') = 2 * 0 /\ Received' = 0
    BY <2>1 DEF Received
  <2> QED BY <2>1, <2>2 DEF StreamInv
<1>2. ASSUME NEW b \in Blocks, TransferBuffered(b) \/ TransferFlushed(b)
      PROVE  StreamInv'
  <2>1. ExpectedBlock(b) /\ BlockTaken(b) /\ image' = image
    BY <1>2 DEF TransferBuffered, TransferFlushed
  <2> QED BY <2>1, TakenInOrder
<1>3. CASE ota_state' # "Receiving"
  BY <1>3 DEF StreamInv
<1>4. CASE UNCHANGED <<ota_state, crc32, next_block_seq, image>>
  BY <1>4 DEF StreamInv, Received
<1>5. \/ \E i \in Images : RequestDownload(i)
      \/ \E b \in Blocks : TransferBuffered(b) \/ TransferFlushed(b)
      \/ ota_state' # "Receiving"
      \/ UNCHANGED <<ota_state, crc32, next_block_seq, image>>
  <2>1. CASE Download
    BY <2>1 DEF Download, RequestDownloadFails, PowerLossInDownload,
                Restart, OtaReset, ota_vars
  <2>2. CASE Transfer
    BY <2>2 DEF Transfer, TransferPastEnd, TransferFlushFails,
                PowerLossInFlush, Restart, OtaReset
  <2>3. CASE Exit
    BY <2>3 DEF Exit, TransferExit, ExitIncomplete, ExitFlushFails,
                ExitArmFails, PowerLossInExit, Restart, OtaReset
  <2>4. CASE StartUp
    BY <2>4 DEF StartUp, LoadKeys, GenerateKeys, PowerLossInKeys, MarkBooted,
                MarkBootedFails, PowerLossInMarkBooted, Restart, OtaReset,
                ota_vars
  <2>5. CASE Bootloader
    BY <2>5 DEF Bootloader, Boot, CopyPage, PowerLossInCopy, SwapDone,
                RevertDone, PowerLossInRevert, Restart, OtaReset, ota_vars
  <2>6. CASE SystemReset \/ PowerLoss
    BY <2>6 DEF SystemReset, PowerLoss, Restart, OtaReset
  <2>7. CASE UNCHANGED vars
    BY <2>7 DEF vars, ota_vars
  <2> QED BY <2>1, <2>2, <2>3, <2>4, <2>5, <2>6, <2>7 DEF Next
<1> QED BY <1>1, <1>2, <1>3, <1>4, <1>5

\* The bytes received are the first bytes of the image, each once and in
\* order, for every block counter that is wider than twice the window.
THEOREM StreamCorrect == Spec => []StreamInOrder
<1>1. StreamInv => StreamInOrder
  BY DEF StreamInv, StreamInOrder
<1> QED BY <1>1, StreamInvInit, StreamInvStep, PTL DEF Spec

-----------------------------------------------------------------------------
(***************************************************************************)
(* The refinement: which image is on offer and which can be gone back to   *)
(* follows from the magic and the progress in STATE, and the handlers do   *)
(* not touch the image of a swap that is announced.                        *)
(***************************************************************************)

\* A swap that is announced is neither begun nor disturbed while the
\* application runs, and it has an image.  The swap magic of a swap that is over
\* is there only when mark_booted could not erase it.
ArmedInv ==
  /\ magic = "swap" => image \in Images
  /\ ota_state # "Idle" => phase = "run" /\ image \in Images
  /\ phase = "run" /\ magic = "swap" =>
       \/ ota_state = "Done" /\ progress = 0
       \/ progress >= SwapSteps /\ confirm_error # "none"

\* The copies are counted in the phase they are made in, and an image can be
\* gone back to only when all pages were swapped.
ProgressInv ==
  /\ progress \in Nat
  /\ phase = "swap" => magic = "swap"
  /\ phase = "revert" => magic = "swap" /\ progress >= SwapSteps
  /\ phase \in {"keys", "confirm"} /\ magic = "swap" =>
       progress >= SwapSteps /\ replaced # NoImage
  /\ replaced # NoImage /\ confirm_error # "fatal" =>
       magic = "swap" /\ progress >= SwapSteps
  /\ installed # NoImage

\* A failed confirmation was ignored: the other image is kept, and the
\* application has not done anything yet.
ConfirmInv ==
  /\ confirm_error \in ConfirmError
  /\ confirm_error = "ignored" =>
       /\ magic = "swap" /\ progress >= SwapSteps /\ replaced # NoImage
       /\ phase \in {"bootloader", "revert", "run"}
       /\ ota_state = "Idle"

StoreInv == ArmedInv /\ ProgressInv /\ ConfirmInv

\* What Store has for offered.
Offered ==
  IF /\ magic = "swap"
     /\ progress < SwapSteps \/ phase = "swap"
  THEN image ELSE NoImage

LEMMA SwapStepsPositive == SwapSteps \in Nat /\ SwapSteps > 0
BY LayoutAssumption DEF SwapSteps

LEMMA StoreInvInit == Init => StoreInv
BY DEF Init, StoreInv, ArmedInv, ProgressInv, ConfirmInv, ConfirmError, NoImage, Factory

\* What a failed update of STATE leaves is what was there, or no swap magic.
LEMMA NoNewSwap ==
  ASSUME progress \in Nat,
         NEW contents, LeaveState(contents),
         contents \subseteq {<<magic, progress>>, <<"bad", 0>>, <<"erased", 0>>}
  PROVE  progress' \in Nat /\ (magic' = "swap" => UNCHANGED state_vars)
<1>1. PICK left \in contents : magic' = left[1] /\ progress' = left[2]
  BY DEF LeaveState
<1>2. left \in {<<magic, progress>>, <<"bad", 0>>, <<"erased", 0>>}
  BY <1>1
<1> QED BY <1>1, <1>2 DEF state_vars

LEMMA StateContents ==
  /\ \A op : StateLeft(op) \subseteq {<<magic, progress>>, <<"bad", 0>>, <<"erased", 0>>}
  /\ StateNotErased \cup StateErased \subseteq
       {<<magic, progress>>, <<"bad", 0>>, <<"erased", 0>>}
BY DEF StateLeft, StateNotErased, StateErased

LEMMA ErasedNoSwap ==
  ASSUME LeaveState(StateErased)
  PROVE  magic' # "swap" /\ progress' \in Nat
BY DEF LeaveState, StateErased

\* A download is the one handler that is run with the magic of a swap that is
\* over; the others follow it.
LEMMA HandlersUnarmed ==
  ASSUME StoreInv, Download \/ Transfer \/ Exit
  PROVE  /\ phase = "run" /\ phase' \in {"run", "bootloader"}
         /\ UNCHANGED <<installed, replaced>>
         /\ magic = "swap" => progress >= SwapSteps /\ confirm_error' = "fatal"
         /\ replaced # NoImage => confirm_error' = "fatal"
         /\ confirm_error' # "ignored" /\ confirm_error' \in ConfirmError
         /\ \/ confirm_error' = confirm_error
            \/ confirm_error = "ignored" /\ confirm_error' = "fatal"
<1>1. /\ phase = "run" /\ phase' \in {"run", "bootloader"} /\ ota_state # "Done"
      /\ UNCHANGED <<installed, replaced>>
  BY DEF Download, Transfer, Exit, DownloadAllowed, RequestDownload,
         RequestDownloadFails, PowerLossInDownload, FallbackErased, TransferPastEnd,
         ExpectedBlock, TransferBuffered, TransferFlushed, TransferFlushFails,
         PowerLossInFlush, TransferExit, ExitIncomplete, ExitFlushFails,
         ExitArmFails, PowerLossInExit, ExitFlushes, ExitAllowed, ExitRest,
         Restart, image_vars
<1>2. CASE Download
  <2>1. confirm_error' = IF confirm_error = "ignored" THEN "fatal" ELSE confirm_error
    BY <1>2 DEF Download, RequestDownload, RequestDownloadFails, PowerLossInDownload,
                FallbackErased
  <2> QED BY <1>1, <2>1 DEF StoreInv, ArmedInv, ProgressInv, ConfirmInv, ConfirmError
<1>3. CASE Transfer \/ Exit
  <2>1. ota_state = "Receiving" /\ confirm_error' = confirm_error
    BY <1>3 DEF Transfer, Exit, TransferPastEnd, ExpectedBlock, TransferBuffered,
                TransferFlushed, TransferFlushFails, PowerLossInFlush, TransferExit,
                ExitIncomplete, ExitFlushFails, ExitArmFails, PowerLossInExit,
                ExitFlushes, ExitAllowed, ExitRest, image_vars
  <2> QED BY <1>1, <2>1 DEF StoreInv, ArmedInv, ProgressInv, ConfirmInv, ConfirmError
<1> QED BY <1>2, <1>3

\* Only the end of a transfer announces a swap.
LEMMA OnlyExitArms ==
  ASSUME StoreInv, Download \/ Transfer \/ Exit, ~TransferExit
  PROVE  progress' \in Nat /\ (magic' = "swap" => UNCHANGED state_vars)
<1>1. progress \in Nat
  BY DEF StoreInv, ProgressInv
<1>2. CASE Download
  BY <1>1, <1>2 DEF Download, RequestDownload, RequestDownloadFails,
                    PowerLossInDownload, state_vars
<1>3. CASE Transfer
  BY <1>1, <1>3 DEF Transfer, TransferPastEnd, TransferBuffered,
                    TransferFlushed, TransferFlushFails, PowerLossInFlush,
                    state_vars
<1>4. CASE ExitIncomplete \/ ExitFlushFails
  BY <1>1, <1>4 DEF ExitIncomplete, ExitFlushFails, state_vars
<1>5. CASE ExitArmFails
  BY <1>1, <1>5, NoNewSwap, StateContents DEF ExitArmFails
<1>6. CASE PowerLossInExit
  <2>1. UNCHANGED state_vars \/ LeaveState(StateNotErased \cup StateErased)
    BY <1>6 DEF PowerLossInExit
  <2> QED BY <1>1, <2>1, NoNewSwap, StateContents DEF state_vars
<1> QED BY <1>2, <1>3, <1>4, <1>5, <1>6 DEF Exit

\* A transfer goes on in the running application, and it has an image.
LEMMA HandlersTransfer ==
  ASSUME StoreInv, Download \/ Transfer \/ Exit
  PROVE  /\ image' = image \/ image' \in Images
         /\ ota_state' # "Idle" => phase' = "run" /\ image' \in Images
<1> USE DEF StoreInv, ArmedInv
<1>1. CASE Download
  BY <1>1 DEF Download, DownloadAllowed, RequestDownload, RequestDownloadFails,
              PowerLossInDownload, Restart, OtaReset, ota_vars
<1>2. CASE Transfer
  BY <1>2 DEF Transfer, ExpectedBlock, TransferPastEnd, TransferBuffered,
              TransferFlushed, TransferFlushFails, PowerLossInFlush, Restart,
              OtaReset
<1>3. CASE Exit
  BY <1>3 DEF Exit, TransferExit, ExitIncomplete, ExitFlushFails, ExitArmFails,
              PowerLossInExit, ExitFlushes, ExitAllowed, ExitRest, Restart, OtaReset
<1> QED BY <1>1, <1>2, <1>3

\* The handlers keep the invariant.
LEMMA StoreInvHandlers ==
  ASSUME StoreInv, Download \/ Transfer \/ Exit
  PROVE  StoreInv'
<1>1. /\ phase' \in {"run", "bootloader"} /\ UNCHANGED <<installed, replaced>>
      /\ magic = "swap" => progress >= SwapSteps /\ confirm_error' = "fatal"
      /\ replaced # NoImage => confirm_error' = "fatal"
      /\ confirm_error' # "ignored" /\ confirm_error' \in ConfirmError
  BY HandlersUnarmed
<1>2. /\ image' = image \/ image' \in Images
      /\ ota_state' # "Idle" => phase' = "run" /\ image' \in Images
  BY HandlersTransfer
<1>3. /\ magic = "swap" => image \in Images
      /\ installed # NoImage /\ SwapSteps \in Nat
  BY SwapStepsPositive DEF StoreInv, ArmedInv, ProgressInv
<1>4. ConfirmInv'
  BY <1>1 DEF ConfirmInv, ConfirmError
<1> HIDE DEF SwapSteps
<1>5. CASE TransferExit
  <2>1. magic' = "swap" /\ progress' = 0 /\ ota_state' = "Done" /\ image' \in Images
    BY <1>2, <1>5 DEF TransferExit
  <2> QED BY <1>1, <1>2, <1>3, <1>4, <2>1
          DEF StoreInv, ArmedInv, ProgressInv
<1>6. CASE ~TransferExit
  <2>1. progress' \in Nat /\ (magic' = "swap" => magic = "swap" /\ progress' = progress)
    BY <1>6, OnlyExitArms DEF state_vars
  <2> QED BY <1>1, <1>2, <1>3, <1>4, <2>1
          DEF StoreInv, ArmedInv, ProgressInv
<1> QED BY <1>5, <1>6

\* So does the start-up code, whatever mark_booted can erase.
LEMMA StoreInvStartUp ==
  ASSUME StoreInv, StartUp
  PROVE  StoreInv'
<1> USE SwapStepsPositive DEF StoreInv, ArmedInv, ProgressInv, ConfirmInv, ConfirmError
<1> HIDE DEF SwapSteps
<1>1. CASE LoadKeys \/ GenerateKeys \/ PowerLossInKeys
  BY <1>1 DEF LoadKeys, GenerateKeys, PowerLossInKeys, Restart, OtaReset,
              state_vars, ota_vars, image_vars
<1>2. CASE MarkBooted
  BY <1>2 DEF MarkBooted, ota_vars
<1>3. CASE MarkBootedFails
  <2>1. progress' \in Nat /\ (magic' = "swap" => magic = "swap" /\ progress' = progress)
    BY <1>3, NoNewSwap, StateContents DEF MarkBootedFails, state_vars
  <2>2. /\ phase = "confirm" /\ phase' = "run" /\ UNCHANGED <<image, installed>>
        /\ replaced' = IF magic' = "swap" THEN replaced ELSE NoImage
        /\ confirm_error' = IF magic' = "swap" /\ confirm_error # "fatal" THEN "ignored"
                            ELSE confirm_error
        /\ ota_state' = ota_state
    BY <1>3 DEF MarkBootedFails, KeepReplaced, ota_vars
  <2> QED BY <2>1, <2>2
<1>4. CASE PowerLossInMarkBooted
  <2>1. magic' # "swap" /\ progress' \in Nat
    BY <1>4, ErasedNoSwap DEF PowerLossInMarkBooted
  <2> QED BY <1>4, <2>1 DEF PowerLossInMarkBooted, KeepReplaced, Restart, OtaReset
<1> QED BY <1>1, <1>2, <1>3, <1>4 DEF StartUp

\* So does the bootloader.
LEMMA StoreInvBootloader ==
  ASSUME StoreInv, Bootloader
  PROVE  StoreInv'
<1> USE SwapStepsPositive DEF StoreInv, ArmedInv, ProgressInv, ConfirmInv, ConfirmError
<1> HIDE DEF SwapSteps
<1>1. CASE Boot
  BY <1>1 DEF Boot, state_vars, ota_vars, image_vars
<1>2. CASE CopyPage
  BY <1>2 DEF CopyPage, MoreCopies, ota_vars, image_vars
<1>3. CASE PowerLossInCopy
  BY <1>3 DEF PowerLossInCopy, MoreCopies, Restart, OtaReset, state_vars, image_vars
<1>4. CASE SwapDone
  <2>1. image # NoImage
    BY <1>4, ImageAssumption DEF SwapDone, NoImage
  <2> QED BY <1>4, <2>1 DEF SwapDone, state_vars, ota_vars
<1>5. CASE RevertDone
  BY <1>5 DEF RevertDone, Reverted, ota_vars
<1>6. CASE PowerLossInRevert
  BY <1>6 DEF PowerLossInRevert, Reverted, Restart, OtaReset
<1> QED BY <1>1, <1>2, <1>3, <1>4, <1>5, <1>6 DEF Bootloader

LEMMA StoreInvStep == StoreInv /\ [Next]_vars => StoreInv'
<1> SUFFICES ASSUME StoreInv, [Next]_vars PROVE StoreInv'
  OBVIOUS
<1> USE DEF StoreInv, ArmedInv, ProgressInv, ConfirmInv, ConfirmError
<1>1. CASE SystemReset \/ PowerLoss
  BY <1>1 DEF SystemReset, PowerLoss, Restart, OtaReset, state_vars, image_vars
<1>2. CASE UNCHANGED vars
  BY <1>2 DEF vars, ota_vars, state_vars, image_vars
<1> QED BY <1>1, <1>2, StoreInvHandlers, StoreInvStartUp, StoreInvBootloader DEF Next

\* Nothing is on offer without the swap magic, or once all pages were swapped.
LEMMA NothingOffered ==
  /\ magic # "swap" => Offered = NoImage
  /\ progress \in Nat /\ progress >= SwapSteps /\ phase # "swap" => Offered = NoImage
  /\ ProgressInv /\ phase \in {"keys", "confirm", "revert"} => Offered = NoImage
BY SwapStepsPositive DEF Offered, ProgressInv

Lost == confirm_error = "fatal"

\* The handlers announce an image when none is announced, and none can be gone
\* back to or it is lost; the first of them loses it.
LEMMA StoreStepHandlers ==
  ASSUME StoreInv, Download \/ Transfer \/ Exit
  PROVE  \/ \E i \in Images : Store!Offer(i)
         \/ Store!Lose
         \/ UNCHANGED <<installed, Offered, replaced, Lost>>
<1>1. /\ UNCHANGED <<installed, replaced>> /\ phase = "run" /\ phase' \in {"run", "bootloader"}
      /\ magic = "swap" => progress >= SwapSteps
      /\ replaced # NoImage => confirm_error' = "fatal"
      /\ \/ confirm_error' = confirm_error
         \/ confirm_error = "ignored" /\ confirm_error' = "fatal"
  BY HandlersUnarmed
<1>2. Offered = NoImage
  BY <1>1, NothingOffered DEF StoreInv, ProgressInv
<1>3. CASE TransferExit
  <2>1. /\ magic' = "swap" /\ progress' = 0 /\ image' = image /\ image \in Images
        /\ confirm_error' = confirm_error
    BY <1>3 DEF TransferExit, ExitFlushes, ExitAllowed, ExitRest, image_vars,
                StoreInv, ArmedInv
  <2>2. Offered' = image
    BY <2>1, SwapStepsPositive DEF Offered
  <2> QED BY <2>1, <2>2, <1>1, <1>2 DEF Store!Offer, Offered
<1>4. CASE ~TransferExit
  <2>1. progress' \in Nat /\ (magic' = "swap" => magic = "swap" /\ progress' = progress)
    BY <1>4, OnlyExitArms DEF state_vars
  <2>2. Offered' = NoImage
    BY <1>1, <2>1, SwapStepsPositive DEF Offered
  <2>3. CASE confirm_error' = confirm_error
    BY <1>1, <1>2, <2>2, <2>3 DEF Lost
  <2>4. CASE confirm_error = "ignored" /\ confirm_error' = "fatal"
    BY <1>1, <1>2, <2>2, <2>4 DEF Store!Lose, Offered, StoreInv, ConfirmInv
  <2> QED BY <1>1, <2>3, <2>4
<1> QED BY <1>3, <1>4

\* The start-up code confirms the image, at most.
LEMMA StoreStepStartUp ==
  ASSUME StoreInv, StartUp
  PROVE  \/ Store!Confirm
         \/ UNCHANGED <<installed, Offered, replaced, Lost>>
<1> USE DEF StoreInv
<1>1. Offered = NoImage
  BY NothingOffered DEF StartUp, LoadKeys, GenerateKeys, PowerLossInKeys,
     MarkBooted, MarkBootedFails, PowerLossInMarkBooted
<1>2. CASE LoadKeys \/ GenerateKeys \/ PowerLossInKeys
  <2>1. UNCHANGED <<state_vars, image_vars>> /\ phase \in {"keys"} /\ phase' # "swap"
    BY <1>2 DEF LoadKeys, GenerateKeys, PowerLossInKeys, Restart
  <2>2. Offered' = NoImage
    BY <2>1, SwapStepsPositive DEF Offered, ProgressInv, state_vars
  <2> QED BY <1>1, <2>1, <2>2 DEF image_vars, Lost
<1>3. CASE MarkBooted \/ MarkBootedFails \/ PowerLossInMarkBooted
  <2>1. /\ installed' = installed /\ phase = "confirm" /\ phase' # "swap"
        /\ replaced' = IF magic' = "swap" THEN replaced ELSE NoImage
        /\ Lost' = Lost
    BY <1>3 DEF MarkBooted, MarkBootedFails, PowerLossInMarkBooted, KeepReplaced,
                Restart, Lost
  <2>2. magic' = "swap" => magic = "swap" /\ progress' = progress
    <3>1. CASE MarkBooted
      BY <3>1 DEF MarkBooted
    <3>2. CASE MarkBootedFails
      BY <3>2, NoNewSwap, StateContents DEF MarkBootedFails, ProgressInv, state_vars
    <3>3. CASE PowerLossInMarkBooted
      BY <3>3, ErasedNoSwap DEF PowerLossInMarkBooted
    <3> QED BY <1>3, <3>1, <3>2, <3>3
  <2>3. Offered' = NoImage
    BY <2>1, <2>2, SwapStepsPositive DEF Offered, ProgressInv
  <2> QED BY <1>1, <2>1, <2>3 DEF Store!Confirm, Offered, Lost
<1> QED BY <1>2, <1>3 DEF StartUp

\* The bootloader changes to the image on offer, or goes back.
LEMMA StoreStepBootloader ==
  ASSUME StoreInv, Bootloader
  PROVE  \/ Store!Change
         \/ Store!GoBack
         \/ UNCHANGED <<installed, Offered, replaced, Lost>>
<1> USE SwapStepsPositive DEF StoreInv, ArmedInv, ProgressInv, Lost
<1> HIDE DEF SwapSteps
<1>1. CASE Boot
  BY <1>1 DEF Boot, Offered, state_vars, image_vars
<1>2. CASE CopyPage
  BY <1>2 DEF CopyPage, MoreCopies, Offered, image_vars
<1>3. CASE PowerLossInCopy
  BY <1>3 DEF PowerLossInCopy, MoreCopies, Restart, Offered, state_vars, image_vars
<1>4. CASE SwapDone
  <2>1. Offered = image /\ image # NoImage
    BY <1>4, ImageAssumption DEF SwapDone, Offered, NoImage
  <2>2. Offered' = NoImage
    BY <1>4 DEF SwapDone, Offered, state_vars
  <2> QED BY <1>4, <2>1, <2>2 DEF SwapDone, Store!Change, Offered
<1>5. CASE RevertDone \/ PowerLossInRevert
  <2>1. Reverted /\ phase = "revert" /\ magic' # "swap"
    BY <1>5 DEF RevertDone, PowerLossInRevert, Reverted
  <2>2. Offered = NoImage /\ Offered' = NoImage /\ Lost' = Lost
    BY <2>1 DEF Offered, Reverted
  <2> QED BY <2>1, <2>2 DEF Reverted, Store!GoBack, Offered
<1> QED BY <1>1, <1>2, <1>3, <1>4, <1>5 DEF Bootloader

\* A reset between the last copy and the start of the new image drops it.
LEMMA StoreStepReset ==
  ASSUME StoreInv, SystemReset \/ PowerLoss
  PROVE  \/ Store!Withdraw
         \/ UNCHANGED <<installed, Offered, replaced, Lost>>
<1>1. /\ UNCHANGED <<magic, progress, image, installed, replaced, Lost>>
      /\ phase' = "bootloader"
  BY DEF SystemReset, PowerLoss, Restart, state_vars, image_vars, Lost
<1>2. Offered' = Offered \/ Offered' = NoImage
  BY <1>1 DEF Offered
<1>3. CASE Offered # NoImage /\ Offered' = NoImage
  BY <1>1, <1>3 DEF Store!Withdraw, Offered, Lost
<1> QED BY <1>1, <1>2, <1>3

\* The download, the swap and the confirmation implement ImageStore, for every
\* flash layout and set of images, and whatever fails or loses power: the image
\* to go back to is lost in one way only, by a download after a confirmation
\* whose failure mark_booted ignored.
THEOREM StoreImplemented == Spec => ImplementsStore
<1> DEFINE StoreVars == <<installed, Offered, replaced, Lost>>
<1>1. Init => StoreInv
  BY StoreInvInit
<1>2. StoreInv /\ [Next]_vars => StoreInv'
  BY StoreInvStep
<1>3. Init => Store!Init
  BY DEF Init, Store!Init
<1>4. StoreInv /\ [Next]_vars => [Store!Next]_(Store!storeVars)
  <2> SUFFICES ASSUME StoreInv, [Next]_vars
               PROVE  Store!Next \/ UNCHANGED StoreVars
    BY DEF Store!storeVars, Offered, Lost
  <2>1. CASE Download \/ Transfer \/ Exit
    BY <2>1, StoreStepHandlers DEF Store!Next
  <2>2. CASE StartUp
    BY <2>2, StoreStepStartUp DEF Store!Next
  <2>3. CASE Bootloader
    BY <2>3, StoreStepBootloader DEF Store!Next
  <2>4. CASE SystemReset \/ PowerLoss
    BY <2>4, StoreStepReset DEF Store!Next
  <2>5. CASE UNCHANGED vars
    BY <2>5 DEF vars, state_vars, image_vars, Offered, Lost
  <2> QED BY <2>1, <2>2, <2>3, <2>4, <2>5 DEF Next
<1> QED BY <1>1, <1>2, <1>3, <1>4, PTL DEF Spec, ImplementsStore, Store!Spec

-----------------------------------------------------------------------------
(***************************************************************************)
(* The armed image.  The read-back compares DFU with the bytes received,   *)
(* which are the image by StreamInv; after it, nothing writes the part of  *)
(* DFU where the image is before the first page of it is copied.           *)
(***************************************************************************)
ImagesFit == \A i \in Images : Size[i] <= Capacity(ActiveWords)

\* The first byte of every word of a partition, and the page it is in.
LEMMA BytePage ==
  ASSUME NEW p \in Nat \ {0}, p <= Capacity(ActiveWords)
  PROVE  LET w == (p - 1) \div WordBytes
         IN  w \in 0..(DfuWords - 1) /\ PageOf(w) < ActivePages
<1> DEFINE w == (p - 1) \div WordBytes
<1> USE LayoutAssumption
<1>1. w \in Nat /\ WordBytes * w <= p - 1
  OBVIOUS
<1> HIDE DEF w
<1>2. WordBytes * w < WordBytes * ActiveWords /\ ActiveWords \in Nat
  <2>1. p <= ActiveWords * WordBytes /\ ActiveWords \in Nat
    BY DEF Capacity, ActiveWords
  <2>2. ActiveWords * WordBytes = WordBytes * ActiveWords
    BY <2>1
  <2> QED BY <1>1, <2>1, <2>2
<1>3. w < ActiveWords
  <2>1. ASSUME w >= ActiveWords PROVE FALSE
    <3>1. WordBytes * w >= WordBytes * ActiveWords
      BY <2>1, <1>1, <1>2
    <3> QED BY <3>1, <1>1, <1>2
  <2> QED BY <2>1, <1>1, <1>2
<1>4. ActiveWords <= DfuWords /\ DfuWords \in Nat
  <2>1. ActivePages <= DfuPages
    OBVIOUS
  <2>2. PageWords * ActivePages <= PageWords * DfuPages
    BY <2>1
  <2> QED BY <2>2 DEF ActiveWords, DfuWords
<1>5. PageOf(w) < ActivePages
  <2> DEFINE page == w \div PageWords
  <2>1. page \in Nat /\ PageWords * page <= w
    BY <1>1
  <2> HIDE DEF page
  <2>2. PageWords * page < PageWords * ActivePages
    BY <1>1, <1>3, <2>1 DEF ActiveWords
  <2>3. ASSUME page >= ActivePages PROVE FALSE
    <3>1. PageWords * page >= PageWords * ActivePages
      BY <2>1, <2>3
    <3> QED BY <2>1, <2>2, <3>1
  <2>4. page < ActivePages
    BY <2>1, <2>3
  <2> QED BY <2>4 DEF page, PageOf
<1>6. w \in 0..(DfuWords - 1)
  BY <1>1, <1>2, <1>3, <1>4
<1> QED BY <1>5, <1>6 DEF w

\* An image that fits ACTIVE stays in DFU when the page after it is spoilt.
LEMMA SpoilKeeps ==
  ASSUME NEW i \in Images, ImagesFit, Holds(dfu, DfuWords, i),
         DOMAIN dfu = 0..(DfuWords - 1)
  PROVE  Holds(Spoil(dfu, {ActivePages}), DfuWords, i)
<1>1. ASSUME NEW p \in 1..Size[i]
      PROVE  ByteAt(Spoil(dfu, {ActivePages}), p) = <<i, p>>
  <2> DEFINE w == (p - 1) \div WordBytes
  <2>1. p \in Nat \ {0} /\ p <= Capacity(ActiveWords)
    <3>1. Size[i] \in Nat /\ Size[i] <= Capacity(ActiveWords)
      BY ImageAssumption DEF ImagesFit
    <3>2. Capacity(ActiveWords) \in Nat
      BY LayoutAssumption DEF Capacity, ActiveWords
    <3> QED BY <3>1, <3>2
  <2>2. w \in DOMAIN dfu /\ PageOf(w) < ActivePages
    BY <2>1, BytePage
  <2>3. PageOf(w) # ActivePages
    BY <2>2, LayoutAssumption
  <2> HIDE DEF w
  <2>4. Spoil(dfu, {ActivePages})[w] = dfu[w]
    BY <2>2, <2>3 DEF Spoil
  <2>5. ByteAt(dfu, p) = <<i, p>>
    BY DEF Holds
  <2> QED BY <2>4, <2>5 DEF ByteAt, w
<1> QED BY <1>1 DEF Holds

ArmedWholeInv ==
  /\ progress \in Nat
  /\ DOMAIN dfu = 0..(DfuWords - 1)
  /\ phase = "revert" => progress >= SwapSteps
  /\ phase \in {"keys", "confirm"} /\ magic = "swap" => progress >= SwapSteps
  /\ ota_state = "Receiving" => image \in Images /\ total_size = Size[image]
  /\ magic = "swap" /\ progress = 0 =>
       /\ image \in Images
       /\ phase = "run" => ota_state = "Done"
       /\ Holds(dfu, DfuWords, image)

\* What is read back at the end of a transfer is the image.
LEMMA ReadBackWhole ==
  ASSUME StreamInv, ArmedWholeInv, ota_state = "Receiving", Complete, ImagesFit
  PROVE  Holds(FlushedDfu, DfuWords, image)
<1> DEFINE bytes == ReadBytes(FlushedDfu, total_size)
<1>1. bytes = crc32
  BY DEF Complete
<1>2. total_size = Size[image] /\ Size[image] \in Nat /\ image \in Images
  BY ImageAssumption DEF ArmedWholeInv
<1>3. DOMAIN bytes = 1..Size[image]
  BY <1>2 DEF ReadBytes
<1>4. DOMAIN crc32 = 1..Len(crc32)
  BY DEF StreamInv
<1>5. ASSUME NEW p \in 1..Size[image] PROVE ByteAt(FlushedDfu, p) = <<image, p>>
  <2>1. bytes[p] = ByteAt(FlushedDfu, p)
    BY <1>2 DEF ReadBytes
  <2>2. p \in 1..Len(crc32)
    BY <1>1, <1>3, <1>4
  <2>3. crc32[p] = <<image, p>>
    BY <2>2 DEF StreamInv
  <2> QED BY <1>1, <2>1, <2>3
<1>6. Size[image] <= Capacity(DfuWords)
  <2>1. Size[image] <= Capacity(ActiveWords)
    BY <1>2 DEF ImagesFit
  <2>2. Capacity(ActiveWords) <= Capacity(DfuWords)
        /\ Capacity(ActiveWords) \in Nat /\ Capacity(DfuWords) \in Nat
    <3>1. ActiveWords \in Nat /\ DfuWords \in Nat /\ WordBytes \in Nat
      BY LayoutAssumption DEF ActiveWords, DfuWords
    <3>2. DfuWords - ActiveWords = (DfuPages - ActivePages) * PageWords
      BY LayoutAssumption DEF ActiveWords, DfuWords
    <3>3. DfuWords - ActiveWords >= 0
      BY <3>2, LayoutAssumption
    <3>4. (DfuWords - ActiveWords) * WordBytes >= 0
      BY <3>1, <3>3
    <3> QED BY <3>1, <3>4 DEF Capacity
  <2> QED BY <1>2, <2>1, <2>2
<1> QED BY <1>5, <1>6 DEF Holds

\* Every operation of the flash driver leaves an array of the same size.
LEMMA SameDomain ==
  ASSUME NEW mem
  PROVE  /\ \A pages : DOMAIN Erase(mem, pages) = DOMAIN mem
         /\ \A pages : DOMAIN Spoil(mem, pages) = DOMAIN mem
         /\ \A w, value : DOMAIN Written(mem, w, value) = DOMAIN mem
         /\ \A w : \A left \in NotWritten(mem, w) : DOMAIN left = DOMAIN mem
         /\ \A first, last : \A left \in PartErased(mem, first, last) :
              DOMAIN left = DOMAIN mem
<1>1. \A pages : /\ DOMAIN Erase(mem, pages) = DOMAIN mem
                 /\ DOMAIN Spoil(mem, pages) = DOMAIN mem
  BY DEF Erase, Spoil
<1>2. \A w, value : DOMAIN Written(mem, w, value) = DOMAIN mem
  BY DEF Written
<1>3. \A w : \A left \in NotWritten(mem, w) : DOMAIN left = DOMAIN mem
  BY <1>2 DEF NotWritten
<1>4. ASSUME NEW first, NEW last, NEW left \in PartErased(mem, first, last)
      PROVE  DOMAIN left = DOMAIN mem
  <2>1. PICK p \in first..last :
          left \in {Erase(mem, first..(p - 1)), Spoil(Erase(mem, first..(p - 1)), {p})}
    BY DEF PartErased
  <2>2. DOMAIN Erase(mem, first..(p - 1)) = DOMAIN mem
    BY DEF Erase
  <2> QED BY <2>1, <2>2 DEF Spoil
<1> QED BY <1>1, <1>2, <1>3, <1>4

\* No handler and nothing at start-up writes to DFU while an image is armed.
LEMMA ArmedWholeDownload ==
  ASSUME ArmedWholeInv, Download
  PROVE  ArmedWholeInv'
<1> USE SameDomain DEF ArmedWholeInv
<1>1. CASE \E i \in Images : RequestDownload(i)
  BY <1>1 DEF RequestDownload, DownloadAllowed, state_vars
<1>2. CASE \E i \in Images : RequestDownloadFails(i)
  <2>1. DOMAIN dfu' = DOMAIN dfu
    <3>1. dfu' \in PartErased(dfu, 0, DfuPages - 1)
      BY <1>2 DEF RequestDownloadFails
    <3> QED BY <3>1, SameDomain
  <2>2. /\ UNCHANGED <<magic, progress, ota_state, total_size, phase, image>>
        /\ phase = "run" /\ ota_state = "Idle"
    BY <1>2 DEF RequestDownloadFails, DownloadAllowed, state_vars, ota_vars
  <2> QED BY <2>1, <2>2
<1>3. CASE \E i \in Images : PowerLossInDownload(i)
  BY <1>3 DEF PowerLossInDownload, DownloadAllowed, Restart, OtaReset, state_vars
<1> QED BY <1>1, <1>2, <1>3 DEF Download

LEMMA ArmedWholeTransfer ==
  ASSUME ArmedWholeInv, Transfer
  PROVE  ArmedWholeInv'
<1> USE SameDomain DEF ArmedWholeInv
<1>1. CASE TransferPastEnd
  BY <1>1 DEF TransferPastEnd, state_vars
<1>2. ASSUME NEW b \in Blocks, TransferBuffered(b) PROVE ArmedWholeInv'
  BY <1>2 DEF TransferBuffered, ExpectedBlock, BlockTaken, state_vars
<1>3. ASSUME NEW b \in Blocks, TransferFlushed(b) PROVE ArmedWholeInv'
  BY <1>3 DEF TransferFlushed, ExpectedBlock, BlockTaken, state_vars
<1>4. ASSUME NEW b \in Blocks, TransferFlushFails(b) PROVE ArmedWholeInv'
  BY <1>4 DEF TransferFlushFails, ExpectedBlock, BlockTaken, state_vars
<1>5. ASSUME NEW b \in Blocks, PowerLossInFlush(b) PROVE ArmedWholeInv'
  BY <1>5 DEF PowerLossInFlush, ExpectedBlock, Restart, OtaReset, state_vars
<1> QED BY <1>1, <1>2, <1>3, <1>4, <1>5 DEF Transfer

\* A failed update of STATE leaves no swap magic with no progress.
LEMMA NoNewArmed ==
  ASSUME progress \in Nat, magic = "swap" => progress # 0,
         NEW contents, LeaveState(contents),
         contents \subseteq {<<magic, progress>>, <<"bad", 0>>, <<"erased", 0>>}
  PROVE  progress' \in Nat /\ (magic' = "swap" => progress' # 0)
<1>1. PICK left \in contents : magic' = left[1] /\ progress' = left[2]
  BY DEF LeaveState
<1>2. left \in {<<magic, progress>>, <<"bad", 0>>, <<"erased", 0>>}
  BY <1>1
<1> QED BY <1>1, <1>2

LEMMA ArmedWholeExit ==
  ASSUME StreamInv, ArmedWholeInv, ImagesFit, Exit
  PROVE  ArmedWholeInv'
<1>1. DOMAIN FlushedDfu = DOMAIN dfu
  BY SameDomain DEF FlushedDfu
<1> USE SameDomain DEF ArmedWholeInv, ExitAllowed
<1>2. CASE TransferExit
  <2>1. Holds(FlushedDfu, DfuWords, image)
    BY <1>2, ReadBackWhole DEF TransferExit, ExitFlushes
  <2>2. Holds(dfu', DfuWords, image')
    BY <1>2, <2>1 DEF TransferExit, ExitFlushes, ExitRest, Holds, Capacity,
                      DfuWords, ByteAt
  <2> QED BY <1>1, <1>2, <2>2 DEF TransferExit, ExitFlushes, ExitRest
<1>3. CASE ExitIncomplete
  BY <1>1, <1>3 DEF ExitIncomplete, ExitFlushes, ExitRest, state_vars
<1>4. CASE ExitFlushFails
  BY <1>4 DEF ExitFlushFails, ExitRest, state_vars
<1>5. ASSUME magic = "swap" => progress # 0, LeaveState(StateNotErased \cup StateErased)
      PROVE  progress' \in Nat /\ (magic' = "swap" => progress' # 0)
  <2>1. StateNotErased \cup StateErased \subseteq
          {<<magic, progress>>, <<"bad", 0>>, <<"erased", 0>>}
    BY DEF StateNotErased, StateErased
  <2> QED BY <2>1, <1>5, NoNewArmed
<1>6. CASE ExitArmFails
  <2>1. LeaveState(StateNotErased \cup StateErased)
    BY <1>6 DEF ExitArmFails, LeaveState, StateLeft
  <2>2. progress' \in Nat /\ (magic' = "swap" => progress' # 0)
    BY <1>5, <1>6, <2>1 DEF ExitArmFails, ExitFlushes
  <2> QED BY <1>1, <1>6, <2>2 DEF ExitArmFails, ExitFlushes, ExitRest
<1>7. CASE PowerLossInExit
  <2>1. progress' \in Nat /\ (magic' = "swap" => progress' # 0)
    BY <1>5, <1>7 DEF PowerLossInExit, state_vars
  <2>2. DOMAIN dfu' = DOMAIN dfu
    BY <1>1, <1>7 DEF PowerLossInExit
  <2> QED BY <1>7, <2>1, <2>2 DEF PowerLossInExit, Restart, OtaReset
<1> QED BY <1>2, <1>3, <1>4, <1>6, <1>7 DEF Exit

LEMMA ArmedWholeStartUp ==
  ASSUME ArmedWholeInv, StartUp
  PROVE  ArmedWholeInv'
<1> USE SwapStepsPositive, SameDomain DEF ArmedWholeInv
<1> HIDE DEF SwapSteps
<1>1. CASE LoadKeys
  BY <1>1 DEF LoadKeys, state_vars, ota_vars
<1>2. CASE GenerateKeys
  <2>1. DOMAIN dfu' = DOMAIN dfu
    <3>1. \/ \E lost, left : dfu' = KeysWritten(KeyWords, lost, left)
          \/ dfu' \in PartErased(dfu, KeyPage, KeyPage)
      BY <1>2 DEF GenerateKeys
    <3> QED BY <3>1, SameDomain DEF KeysWritten
  <2>2. /\ UNCHANGED <<magic, progress, ota_state, total_size, image>>
        /\ phase = "keys" /\ phase' = "confirm"
    BY <1>2 DEF GenerateKeys, state_vars, ota_vars
  <2> QED BY <2>1, <2>2
<1>3. CASE PowerLossInKeys
  <2>1. DOMAIN dfu' = DOMAIN dfu
    BY <1>3 DEF PowerLossInKeys, KeysWritten
  <2> QED BY <1>3, <2>1 DEF PowerLossInKeys, Restart, OtaReset, state_vars
<1>4. CASE MarkBooted
  BY <1>4 DEF MarkBooted, ota_vars
<1>5. CASE MarkBootedFails
  <2>1. LeaveState(StateLeft("erase state at boot"))
    BY <1>5 DEF MarkBootedFails
  <2>2. StateLeft("erase state at boot") \subseteq
          {<<magic, progress>>, <<"bad", 0>>, <<"erased", 0>>}
    BY DEF StateLeft, StateNotErased, StateErased
  <2>3. progress \in Nat /\ (magic = "swap" => progress # 0)
    <3>1. phase = "confirm"
      BY <1>5 DEF MarkBootedFails
    <3>2. progress \in Nat /\ (magic = "swap" => progress >= SwapSteps)
      BY <3>1
    <3> QED BY <3>2, SwapStepsPositive
  <2>4. progress' \in Nat /\ (magic' = "swap" => progress' # 0)
    BY <2>1, <2>2, <2>3, NoNewArmed
  <2> QED BY <1>5, <2>4 DEF MarkBootedFails, ota_vars
<1>6. CASE PowerLossInMarkBooted
  <2>1. magic' # "swap" /\ progress' \in Nat
    BY <1>6, ErasedNoSwap DEF PowerLossInMarkBooted
  <2> QED BY <1>6, <2>1 DEF PowerLossInMarkBooted, Restart, OtaReset
<1> QED BY <1>1, <1>2, <1>3, <1>4, <1>5, <1>6 DEF StartUp

\* The first page copied is the one after the image.
LEMMA ArmedWholeBootloader ==
  ASSUME ArmedWholeInv, ImagesFit, Bootloader
  PROVE  ArmedWholeInv'
<1> USE SwapStepsPositive, SameDomain DEF ArmedWholeInv
<1> HIDE DEF SwapSteps
<1>1. CASE Boot
  BY <1>1 DEF Boot, state_vars, ota_vars, image_vars
<1>2. CASE CopyPage
  <2>1. DOMAIN dfu' = DOMAIN dfu
    BY <1>2 DEF CopyPage, Copied
  <2>2. progress' \in Nat /\ progress' = progress + 1
    BY <1>2 DEF CopyPage
  <2> QED BY <1>2, <2>1, <2>2 DEF CopyPage, MoreCopies, ota_vars
<1>3. CASE PowerLossInCopy
  <2>1. DOMAIN dfu' = DOMAIN dfu
    BY <1>3 DEF PowerLossInCopy
  <2>2. ASSUME magic = "swap", progress = 0
        PROVE  Holds(dfu', DfuWords, image)
    <3>1. phase = "swap"
      BY <1>3, <2>2 DEF PowerLossInCopy, MoreCopies
    <3>2. Copy.to = "dfu" /\ Copy.to_page = ActivePages
      BY <2>2, <3>1, LayoutAssumption DEF Copy
    <3>3. dfu' = Spoil(dfu, {ActivePages})
      BY <1>3, <3>2 DEF PowerLossInCopy
    <3> QED BY <2>2, <3>3, SpoilKeeps
  <2>3. UNCHANGED <<magic, progress, image>> /\ phase' = "bootloader" /\ ota_state' = "Idle"
    BY <1>3 DEF PowerLossInCopy, Restart, OtaReset, state_vars
  <2>4. magic' = "swap" /\ progress' = 0 => Holds(dfu', DfuWords, image')
    BY <2>2, <2>3 DEF Holds, Capacity, DfuWords, ByteAt
  <2> QED BY <2>1, <2>3, <2>4
<1>4. CASE SwapDone
  BY <1>4 DEF SwapDone, state_vars, ota_vars
<1>5. CASE RevertDone
  BY <1>5 DEF RevertDone, Reverted, ota_vars
<1>6. CASE PowerLossInRevert
  BY <1>6 DEF PowerLossInRevert, Reverted, Restart, OtaReset
<1> QED BY <1>1, <1>2, <1>3, <1>4, <1>5, <1>6 DEF Bootloader

LEMMA ArmedWholeInit == Init => ArmedWholeInv
BY DEF Init, ArmedWholeInv

LEMMA ArmedWholeStep ==
  ASSUME ImagesFit, StreamInv, ArmedWholeInv, [Next]_vars
  PROVE  ArmedWholeInv'
<1>1. CASE Download \/ Transfer
  BY <1>1, ArmedWholeDownload, ArmedWholeTransfer
<1>2. CASE Exit
  BY <1>2, ArmedWholeExit
<1>3. CASE StartUp
  BY <1>3, ArmedWholeStartUp
<1>4. CASE Bootloader
  BY <1>4, ArmedWholeBootloader
<1>5. CASE SystemReset \/ PowerLoss
  BY <1>5 DEF SystemReset, PowerLoss, Restart, OtaReset, state_vars, ArmedWholeInv
<1>6. CASE UNCHANGED vars
  BY <1>6 DEF vars, state_vars, ota_vars, ArmedWholeInv
<1> QED BY <1>1, <1>2, <1>3, <1>4, <1>5, <1>6 DEF Next

\* As long as a swap is announced and not begun, DFU holds the whole image, for
\* every flash layout and every set of images that fit ACTIVE, whatever fails
\* or loses power.
THEOREM ArmedWhole ==
  ASSUME \A i \in Images : Size[i] <= Capacity(ActiveWords)
  PROVE  Spec => []ArmedImageWhole
<1> DEFINE Inv == StreamInv /\ ArmedWholeInv
<1>1. ImagesFit
  BY DEF ImagesFit
<1>2. Init => Inv
  BY StreamInvInit, ArmedWholeInit
<1>3. Inv /\ [Next]_vars => Inv'
  BY <1>1, StreamInvStep, ArmedWholeStep
<1>4. Inv => ArmedImageWhole
  BY DEF ArmedWholeInv, ArmedImageWhole
<1> QED BY <1>2, <1>3, <1>4, PTL DEF Spec

=============================================================================
