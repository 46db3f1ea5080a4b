--------------------------- MODULE FirmwareUpdate ---------------------------
(***************************************************************************)
(* The firmware update: the three OTA handlers (src/ota/mod.rs) over the   *)
(* flash driver (src/drivers/flash.rs), the start-up code that loads the   *)
(* keys (src/key_store.rs) and confirms the boot (src/main.rs), and the    *)
(* bootloader, which is embassy-boot and external to the repository.       *)
(*                                                                         *)
(* Flash is an array of words; a word is a tuple of bytes.  A byte is a    *)
(* pair <<owner, position>>: byte p of image i is <<i, p>>, so bytes of    *)
(* different images, or of different places, differ.  CRC-32 is taken to   *)
(* be free of collisions: the running CRC is the sequence of bytes it was  *)
(* computed over.  A refused request that changes nothing is no action.    *)
(*                                                                         *)
(* Power may fail between, and inside, any two flash operations.  A word   *)
(* write that is cut short leaves the word unreadable or untouched, and so *)
(* does a page erase for its page.  The bytes of the key page belong to    *)
(* owner 0, and key_store::store is left out: its one caller panics before *)
(* it gets there (UdsEngine!PanicInCallback).                              *)
(***************************************************************************)
EXTENDS Integers, Sequences, FiniteSets

CONSTANTS
  WordBytes,     \* the unit of programming: 8 bytes
  PageWords,     \* the unit of erasing: 256 words
  ActivePages,   \* the ACTIVE partition: 22 pages
  DfuPages,      \* the DFU partition: 24 pages, the last one the key page
  KeyWords,      \* the keys: 6 words at the start of the key page
  SeqMod,        \* the block counter is a u8: 256
  Window,        \* how far from the expected block a tester may be
  Images,        \* the images on offer
  Size,          \* their sizes in bytes
  Faulty,        \* the flash operations that may report an error
  MaxKeys        \* bound on the key sets generated in one behaviour

Factory == 1       \* the image in ACTIVE at first
Blank == <<0, 0>>  \* an erased byte
Bad == <<0, 1>>    \* an unreadable byte

FlashOps == {"erase dfu", "write dfu", "erase state", "write state",
             "erase state at boot", "erase keys", "write keys"}

ASSUME LayoutAssumption ==
  /\ WordBytes \in Nat /\ WordBytes > 0 /\ WordBytes % 2 = 0
  /\ PageWords \in Nat \ {0}
  /\ ActivePages \in Nat \ {0}
  /\ DfuPages \in Nat /\ DfuPages > ActivePages + 1
  /\ KeyWords \in 1..PageWords
\* A tester is never so far off that the block counter looks right.
ASSUME SeqAssumption == /\ SeqMod \in Nat \ {0}
                        /\ Window \in Nat /\ 2 * Window < SeqMod
ASSUME ImageAssumption == /\ Images \subseteq Nat \ {0, Factory}
                          /\ Size \in [Images \cup {Factory} -> Nat \ {0}]
ASSUME FaultAssumption == Faulty \subseteq FlashOps /\ MaxKeys \in Nat

VARIABLES
  \* flash: the two partitions, and the magic and the progress in STATE
  active, dfu, magic, progress,
  \* the statics of src/ota/mod.rs
  ota_state, total_size, remaining, next_offset, crc32, next_block_seq,
  buffer, reset_requested,
  \* the keys in use, and how many sets were ever generated
  live_keys, key_count,
  \* what the chip is executing
  phase,
  \* history: the image being downloaded, the one installed in ACTIVE, and
  \* the one it replaced as long as the bootloader may go back to it
  image, installed, replaced,
  \* history: "ignored" while an image runs unconfirmed because mark_booted
  \* could not erase STATE; "fatal" once a download has gone over the image to
  \* go back to in that condition
  confirm_error

ota_vars == <<ota_state, total_size, remaining, next_offset, crc32,
              next_block_seq, buffer, reset_requested>>
key_vars == <<live_keys, key_count>>
state_vars == <<magic, progress>>
image_vars == <<installed, replaced, confirm_error>>
vars == <<active, dfu, state_vars, ota_vars, key_vars, phase, image, image_vars>>

-----------------------------------------------------------------------------
\* Geometry.

ActiveWords == ActivePages * PageWords
DfuWords == DfuPages * PageWords
Capacity(words) == words * WordBytes

Byte == Nat \X Nat
Word == [1..WordBytes -> Byte]
BlankWord == [b \in 1..WordBytes |-> Blank]
BadWord == [b \in 1..WordBytes |-> Bad]

PageOf(w) == w \div PageWords
KeyPage == DfuPages - 1
KeyRegion == {KeyPage * PageWords + k : k \in 0..(KeyWords - 1)}

\* Byte p (from 1) of a partition, and its first n bytes.
ByteAt(mem, p) == mem[(p - 1) \div WordBytes][((p - 1) % WordBytes) + 1]
ReadBytes(mem, n) == [p \in 1..n |-> ByteAt(mem, p)]

\* Block b of an image: bytes 2b - 1 and 2b.  The last block of an odd image
\* has one byte more than the image.
Block(i, b) == <<<<i, (2 * b) - 1>>, <<i, 2 * b>>>>

Holds(mem, words, i) ==
  Size[i] <= Capacity(words) /\ \A p \in 1..Size[i] : ByteAt(mem, p) = <<i, p>>

\* A word of the nth key set.
KeyWord(n) == [b \in 1..WordBytes |-> <<0, 2 + n>>]

Magic == {"erased", "bad", "swap", "boot", "revert"}
ConfirmError == {"none", "ignored", "fatal"}
Phase == {"bootloader", "swap", "revert", "keys", "confirm", "run"}
NoImage == 0

-----------------------------------------------------------------------------
(***************************************************************************)
(* The flash driver.  Each operator is the set of contents an operation    *)
(* can leave.  erase_region erases page after page and stops at the first  *)
(* that fails; write_u64 verifies what it wrote, and the controller does   *)
(* not program a word that is not erased.                                  *)
(***************************************************************************)
Erase(mem, pages) ==
  [w \in DOMAIN mem |-> IF PageOf(w) \in pages THEN BlankWord ELSE mem[w]]
Spoil(mem, pages) ==
  [w \in DOMAIN mem |-> IF PageOf(w) \in pages THEN BadWord ELSE mem[w]]

\* The erase of pages first..last stops at some page, which it may spoil.
PartErased(mem, first, last) ==
  UNION {{Erase(mem, first..(p - 1)), Spoil(Erase(mem, first..(p - 1)), {p})} :
           p \in first..last}

Written(mem, w, value) == [mem EXCEPT ![w] = value]

\* Word w can be programmed, and what a failed attempt may leave.
Writable(mem, w) == w \in DOMAIN mem /\ mem[w] = BlankWord
NotWritten(mem, w) ==
  IF Writable(mem, w) THEN {mem, Written(mem, w, BadWord)} ELSE {mem}


-----------------------------------------------------------------------------
(***************************************************************************)
(* Reset.  The statics of src/ota/mod.rs are RAM and start over.           *)
(***************************************************************************)
OtaReset ==
  /\ ota_state' = "Idle"
  /\ total_size' = 0
  /\ remaining' = 0
  /\ next_offset' = 0
  /\ crc32' = <<>>
  /\ next_block_seq' = 1 % SeqMod
  /\ buffer' = <<>>
  /\ reset_requested' = FALSE

Init ==
  /\ active = [w \in 0..(ActiveWords - 1) |->
                 [b \in 1..WordBytes |-> <<Factory, (w * WordBytes) + b>>]]
  /\ dfu = [w \in 0..(DfuWords - 1) |-> BlankWord]
  /\ magic = "erased"
  /\ progress = 0
  /\ ota_state = "Idle"
  /\ total_size = 0
  /\ remaining = 0
  /\ next_offset = 0
  /\ crc32 = <<>>
  /\ next_block_seq = 1 % SeqMod
  /\ buffer = <<>>
  /\ reset_requested = FALSE
  /\ live_keys = <<>>
  /\ key_count = 0
  /\ phase = "bootloader"
  /\ image = NoImage
  /\ installed = Factory
  /\ replaced = NoImage
  /\ confirm_error = "none"

\* The chip restarts, whatever it was doing.
Restart ==
  /\ phase' = "bootloader"
  /\ OtaReset
  /\ live_keys' = <<>>

PowerLoss ==
  /\ Restart
  /\ UNCHANGED <<active, dfu, state_vars, key_count, image, image_vars>>

\* The reset armed by a completed transfer, made by the CAN task.
SystemReset ==
  /\ phase = "run"
  /\ reset_requested
  /\ Restart
  /\ UNCHANGED <<active, dfu, state_vars, key_count, image, image_vars>>

-----------------------------------------------------------------------------
(***************************************************************************)
(* handle_request_download: 0x34 with the size of the image.  The whole    *)
(* DFU partition is erased before the transfer starts.                     *)
(***************************************************************************)

\* Fault: a download may also start over a completed one.
DownloadAllowedWhenDone(i) ==
  /\ phase = "run"
  /\ Size[i] <= Capacity(DfuWords)
  /\ ota_state # "Receiving"

DownloadAllowed(i) ==
  /\ phase = "run"
  /\ Size[i] <= Capacity(DfuWords)
  /\ ota_state = "Idle"

\* The erase of DFU takes the image to go back to with it.
FallbackErased ==
  /\ confirm_error' = IF confirm_error = "ignored" THEN "fatal" ELSE confirm_error
  /\ UNCHANGED <<installed, replaced>>

RequestDownload(i) ==
  /\ DownloadAllowed(i)
  /\ dfu' = Erase(dfu, 0..(DfuPages - 1))
  /\ ota_state' = "Receiving"
  /\ total_size' = Size[i]
  /\ remaining' = Size[i]
  /\ next_offset' = 0
  /\ crc32' = <<>>
  /\ next_block_seq' = 1 % SeqMod
  /\ buffer' = <<>>
  /\ image' = i
  /\ FallbackErased
  /\ UNCHANGED <<active, state_vars, reset_requested, key_vars, phase>>

\* A page cannot be erased: the handler stays Idle and answers 0x72.
RequestDownloadFails(i) ==
  /\ DownloadAllowed(i)
  /\ "erase dfu" \in Faulty
  /\ dfu' \in PartErased(dfu, 0, DfuPages - 1)
  /\ FallbackErased
  /\ UNCHANGED <<active, state_vars, ota_vars, key_vars, phase, image>>

PowerLossInDownload(i) ==
  /\ DownloadAllowed(i)
  /\ dfu' \in PartErased(dfu, 0, DfuPages - 1)
  /\ FallbackErased
  /\ Restart
  /\ UNCHANGED <<active, state_vars, key_count, image>>

-----------------------------------------------------------------------------
(***************************************************************************)
(* handle_transfer_data: 0x36 with the block counter and two bytes.  The   *)
(* tester sends the blocks of its image; it may repeat one, skip one or    *)
(* send too many.                                                          *)
(***************************************************************************)
Received == Len(crc32) \div 2

Blocks == {b \in (Received + 1 - Window)..(Received + 1 + Window) : b >= 1}

\* All of the image was received already: the transfer is given up.
TransferPastEnd ==
  /\ phase = "run"
  /\ ota_state = "Receiving"
  /\ remaining = 0
  /\ ota_state' = "Idle"
  /\ UNCHANGED <<active, dfu, state_vars, total_size, remaining, next_offset,
                 crc32, next_block_seq, buffer, reset_requested, key_vars,
                 phase, image, image_vars>>

\* Fault: the block counter is not compared.
AnyBlock(b) ==
  /\ phase = "run"
  /\ ota_state = "Receiving"
  /\ remaining > 0

\* The block is the one the counter expects.
ExpectedBlock(b) ==
  /\ phase = "run"
  /\ ota_state = "Receiving"
  /\ remaining > 0
  /\ b % SeqMod = next_block_seq

\* Fault: a subtraction that does not saturate.
LessTwoWraps(n) == n - 2

\* saturating_sub
LessTwo(n) == IF n < 2 THEN 0 ELSE n - 2

\* What a block does to the counters and the CRC, flushed or not.
BlockTaken(b) ==
  /\ next_block_seq' = (next_block_seq + 1) % SeqMod
  /\ crc32' = crc32 \o Block(image, b)
  /\ remaining' = LessTwo(remaining)
  /\ UNCHANGED <<total_size, reset_requested>>

Filled(b) == buffer \o Block(image, b)

\* The buffer is not full: nothing is written.
TransferBuffered(b) ==
  /\ ExpectedBlock(b)
  /\ BlockTaken(b)
  /\ Len(Filled(b)) < WordBytes
  /\ buffer' = Filled(b)
  /\ UNCHANGED <<active, dfu, state_vars, ota_state, next_offset, key_vars,
                 phase, image, image_vars>>

TransferFlushed(b) ==
  /\ ExpectedBlock(b)
  /\ BlockTaken(b)
  /\ Len(Filled(b)) = WordBytes
  /\ Writable(dfu, next_offset)
  /\ dfu' = Written(dfu, next_offset, Filled(b))
  /\ next_offset' = next_offset + 1
  /\ buffer' = <<>>
  /\ UNCHANGED <<active, state_vars, ota_state, key_vars, phase, image, image_vars>>

\* Fault: the transfer goes on after a word was not written.
FlushFailureIgnored(b) ==
  /\ ExpectedBlock(b)
  /\ BlockTaken(b)
  /\ Len(Filled(b)) = WordBytes
  /\ "write dfu" \in Faulty
  /\ dfu' \in NotWritten(dfu, next_offset)
  /\ buffer' = <<>>
  /\ UNCHANGED <<active, state_vars, ota_state, next_offset, key_vars, phase,
                 image, image_vars>>

\* The word is not written, and the transfer is given up.
TransferFlushFails(b) ==
  /\ ExpectedBlock(b)
  /\ BlockTaken(b)
  /\ Len(Filled(b)) = WordBytes
  /\ "write dfu" \in Faulty \/ ~Writable(dfu, next_offset)
  /\ dfu' \in NotWritten(dfu, next_offset)
  /\ ota_state' = "Idle"
  /\ buffer' = <<>>
  /\ UNCHANGED <<active, state_vars, next_offset, key_vars, phase, image, image_vars>>

PowerLossInFlush(b) ==
  /\ ExpectedBlock(b)
  /\ Len(Filled(b)) = WordBytes
  /\ dfu' \in NotWritten(dfu, next_offset)
  /\ Restart
  /\ UNCHANGED <<active, state_vars, key_count, image, image_vars>>

-----------------------------------------------------------------------------
(***************************************************************************)
(* handle_transfer_exit: 0x37.  Flush what is buffered, compare the number *)
(* of bytes received with the size, read the image back, and only then     *)
(* write the magic that makes the bootloader swap.                         *)
(***************************************************************************)
ExitAllowed == phase = "run" /\ ota_state = "Receiving"

Padded == [b \in 1..WordBytes |-> IF b <= Len(buffer) THEN buffer[b] ELSE Blank]

FlushedDfu == IF buffer = <<>> THEN dfu ELSE Written(dfu, next_offset, Padded)

\* The trailing flush succeeds.
ExitFlushes ==
  /\ ExitAllowed
  /\ buffer # <<>> => Writable(dfu, next_offset)
  /\ dfu' = FlushedDfu
  /\ buffer' = <<>>

\* Short by WordBytes - 1 bytes at most.
LongEnough == total_size - remaining >= total_size - (WordBytes - 1)

\* Fault: the image is not read back.
CompleteUnverified == LongEnough

Complete == LongEnough /\ ReadBytes(FlushedDfu, total_size) = crc32

\* What every end of a transfer leaves alone.
ExitRest ==
  UNCHANGED <<active, total_size, remaining, next_offset, crc32,
              next_block_seq, key_vars, phase, image, image_vars>>

\* Fault: the magic is written before the image is read back.
ExitArmsTooEarly ==
  /\ ExitFlushes
  /\ ~Complete
  /\ ota_state' = "Idle"
  /\ magic' = "swap"
  /\ progress' = 0
  /\ ExitRest
  /\ UNCHANGED reset_requested

ExitIncomplete ==
  /\ ExitFlushes
  /\ ~Complete
  /\ ota_state' = "Idle"
  /\ ExitRest
  /\ UNCHANGED <<state_vars, reset_requested>>

ExitFlushFails ==
  /\ ExitAllowed
  /\ buffer # <<>>
  /\ "write dfu" \in Faulty \/ ~Writable(dfu, next_offset)
  /\ dfu' \in NotWritten(dfu, next_offset)
  /\ buffer' = <<>>
  /\ ota_state' = "Idle"
  /\ ExitRest
  /\ UNCHANGED <<state_vars, reset_requested>>

\* write_swap_magic: erase the page, write the magic, read it back.
TransferExit ==
  /\ ExitFlushes
  /\ Complete
  /\ magic' = "swap"
  /\ progress' = 0
  /\ ota_state' = "Done"
  /\ reset_requested' = TRUE
  /\ ExitRest

\* What an erase of the STATE page that is cut short, or reports an error, can
\* leave in it, and what the write after it can.  The progress is looked at
\* together with the swap magic only.
StateNotErased == {<<magic, progress>>, <<"bad", 0>>}
StateErased == {<<"erased", 0>>, <<"bad", 0>>}

LeaveState(contents) ==
  \E left \in contents : magic' = left[1] /\ progress' = left[2]

StateLeft(erase) ==
  (IF erase \in Faulty THEN StateNotErased ELSE {})
    \cup (IF "write state" \in Faulty THEN StateErased ELSE {})

ExitArmFails ==
  /\ ExitFlushes
  /\ Complete
  /\ LeaveState(StateLeft("erase state"))
  /\ ota_state' = "Idle"
  /\ ExitRest
  /\ UNCHANGED reset_requested

PowerLossInExit ==
  /\ ExitAllowed
  /\ \/ /\ buffer # <<>>
        /\ dfu' \in NotWritten(dfu, next_offset)
        /\ UNCHANGED state_vars
     \/ /\ buffer # <<>> => Writable(dfu, next_offset)
        /\ dfu' = FlushedDfu
        /\ UNCHANGED state_vars
     \/ /\ buffer # <<>> => Writable(dfu, next_offset)
        /\ dfu' = FlushedDfu
        /\ Complete
        /\ LeaveState(StateNotErased \cup StateErased)
  /\ Restart
  /\ UNCHANGED <<active, key_count, image, image_vars>>

-----------------------------------------------------------------------------
(***************************************************************************)
(* Start-up of the application: key_store::init, then mark_booted.         *)
(***************************************************************************)
KeysErased == \A w \in KeyRegion : dfu[w] = BlankWord

StoredKeys == [k \in 1..KeyWords |-> dfu[(KeyPage * PageWords) + k - 1]]

\* The region has data: it is trusted.
LoadKeys ==
  /\ phase = "keys"
  /\ ~KeysErased
  /\ live_keys' = StoredKeys
  /\ phase' = "confirm"
  /\ UNCHANGED <<active, dfu, state_vars, ota_vars, key_count, image, image_vars>>

NewKey == KeyWord(key_count + 1)

\* The key page erased and the first words written, but for the lost ones.
KeysWritten(first, lost, left) ==
  [w \in DOMAIN dfu |->
     IF PageOf(w) # KeyPage THEN dfu[w]
     ELSE IF w \in lost THEN left
     ELSE IF w - (KeyPage * PageWords) < first THEN NewKey
     ELSE BlankWord]

\* First boot: new keys are made, and used whether or not they are stored.
GenerateKeys ==
  /\ phase = "keys"
  /\ KeysErased
  /\ key_count < MaxKeys
  /\ key_count' = key_count + 1
  /\ live_keys' = [k \in 1..KeyWords |-> NewKey]
  /\ \/ dfu' = KeysWritten(KeyWords, {}, BlankWord)
     \/ /\ "write keys" \in Faulty
        /\ \E lost \in SUBSET KeyRegion, left \in {BlankWord, BadWord} :
             dfu' = KeysWritten(KeyWords, lost, left)
     \/ /\ "erase keys" \in Faulty
        /\ dfu' \in PartErased(dfu, KeyPage, KeyPage)
  /\ phase' = "confirm"
  /\ UNCHANGED <<active, state_vars, ota_vars, image, image_vars>>

PowerLossInKeys ==
  /\ phase = "keys"
  /\ KeysErased
  /\ key_count < MaxKeys
  /\ key_count' = key_count + 1
  /\ \/ dfu' \in PartErased(dfu, KeyPage, KeyPage)
     \/ \E first \in 0..(KeyWords - 1) :
          \E lost \in {{}, {(KeyPage * PageWords) + first}} :
             dfu' = KeysWritten(first, lost, BadWord)
  /\ Restart
  /\ UNCHANGED <<active, state_vars, image, image_vars>>

\* The replaced image can be gone back to as long as the swap magic is there.
KeepReplaced == replaced' = IF magic' = "swap" THEN replaced ELSE NoImage

\* Fault: the page is not erased first, so that nothing can be written.
MarkBootedNoErase ==
  /\ phase = "confirm"
  /\ phase' = "run"
  /\ UNCHANGED <<active, dfu, state_vars, ota_vars, key_vars, image, image_vars>>

\* mark_booted: erase the STATE page and write the boot magic.
MarkBooted ==
  /\ phase = "confirm"
  /\ magic' = "boot"
  /\ progress' = 0
  /\ replaced' = NoImage
  /\ phase' = "run"
  /\ UNCHANGED <<active, dfu, ota_vars, key_vars, image, installed, confirm_error>>

\* Both results are ignored.  When the page was not erased, the swap magic stays
\* and the application runs as if it were confirmed.
MarkBootedFails ==
  /\ phase = "confirm"
  /\ LeaveState(StateLeft("erase state at boot"))
  /\ KeepReplaced
  /\ confirm_error' = IF magic' = "swap" /\ confirm_error # "fatal" THEN "ignored"
                      ELSE confirm_error
  /\ phase' = "run"
  /\ UNCHANGED <<active, dfu, ota_vars, key_vars, image, installed>>

PowerLossInMarkBooted ==
  /\ phase = "confirm"
  /\ LeaveState(StateErased)
  /\ KeepReplaced
  /\ Restart
  /\ UNCHANGED <<active, dfu, key_count, image, installed, confirm_error>>

-----------------------------------------------------------------------------
(***************************************************************************)
(* The bootloader, embassy-boot (external).  A swap moves the pages of     *)
(* ACTIVE one page up into DFU and the pages of DFU into ACTIVE, from the  *)
(* last page to the first; going back runs the other way.  Each page copy  *)
(* is counted in STATE when it is finished, and one that was cut short is  *)
(* made again.  A swap that is found finished was not confirmed.           *)
(***************************************************************************)
SwapSteps == 2 * ActivePages

Boot ==
  /\ phase = "bootloader"
  /\ phase' = IF magic # "swap" THEN "keys"
              ELSE IF progress < SwapSteps THEN "swap"
              ELSE "revert"
  /\ UNCHANGED <<active, dfu, state_vars, ota_vars, key_vars, image, image_vars>>

\* The next copy: from a page of one partition to a page of the other.
Copy ==
  IF phase = "swap"
  THEN LET page == ActivePages - 1 - (progress \div 2)
       IN IF progress % 2 = 0 THEN [to |-> "dfu", from_page |-> page, to_page |-> page + 1]
          ELSE [to |-> "active", from_page |-> page, to_page |-> page]
  ELSE LET page == (progress - SwapSteps) \div 2
       IN IF progress % 2 = 0 THEN [to |-> "dfu", from_page |-> page, to_page |-> page]
          ELSE [to |-> "active", from_page |-> page + 1, to_page |-> page]

Copied(to, from) ==
  [w \in DOMAIN to |->
     IF PageOf(w) = Copy.to_page
     THEN from[(Copy.from_page * PageWords) + (w % PageWords)]
     ELSE to[w]]

MoreCopies ==
  \/ phase = "swap" /\ progress < SwapSteps
  \/ phase = "revert" /\ progress < 2 * SwapSteps

CopyPage ==
  /\ MoreCopies
  /\ IF Copy.to = "dfu"
     THEN dfu' = Copied(dfu, active) /\ UNCHANGED active
     ELSE active' = Copied(active, dfu) /\ UNCHANGED dfu
  /\ progress' = progress + 1
  /\ UNCHANGED <<magic, ota_vars, key_vars, phase, image, image_vars>>

PowerLossInCopy ==
  /\ MoreCopies
  /\ IF Copy.to = "dfu"
     THEN dfu' = Spoil(dfu, {Copy.to_page}) /\ UNCHANGED active
     ELSE active' = Spoil(active, {Copy.to_page}) /\ UNCHANGED dfu
  /\ Restart
  /\ UNCHANGED <<state_vars, key_count, image, image_vars>>

\* The swap is finished and the new image is started.
SwapDone ==
  /\ phase = "swap"
  /\ progress = SwapSteps
  /\ phase' = "keys"
  /\ installed' = image
  /\ replaced' = installed
  /\ UNCHANGED <<active, dfu, state_vars, ota_vars, key_vars, image, confirm_error>>

\* Going back is finished: the STATE page is erased and marked.
Reverted ==
  /\ phase = "revert"
  /\ progress = 2 * SwapSteps
  /\ progress' = 0
  /\ installed' = IF replaced = NoImage THEN installed ELSE replaced
  /\ replaced' = NoImage
  /\ confirm_error' = IF confirm_error = "ignored" THEN "none" ELSE confirm_error

RevertDone ==
  /\ Reverted
  /\ magic' = "revert"
  /\ phase' = "keys"
  /\ UNCHANGED <<active, dfu, ota_vars, key_vars, image>>

PowerLossInRevert ==
  /\ Reverted
  /\ magic' = "erased"
  /\ Restart
  /\ UNCHANGED <<active, dfu, key_count, image>>

-----------------------------------------------------------------------------
Download ==
  \E i \in Images :
     RequestDownload(i) \/ RequestDownloadFails(i) \/ PowerLossInDownload(i)

Transfer ==
  \/ TransferPastEnd
  \/ \E b \in Blocks :
       \/ TransferBuffered(b)
       \/ TransferFlushed(b)
       \/ TransferFlushFails(b)
       \/ PowerLossInFlush(b)

Exit ==
  \/ TransferExit
  \/ ExitIncomplete
  \/ ExitFlushFails
  \/ ExitArmFails
  \/ PowerLossInExit

StartUp ==
  \/ LoadKeys
  \/ GenerateKeys
  \/ PowerLossInKeys
  \/ MarkBooted
  \/ MarkBootedFails
  \/ PowerLossInMarkBooted

Bootloader ==
  \/ Boot
  \/ CopyPage
  \/ PowerLossInCopy
  \/ SwapDone
  \/ RevertDone
  \/ PowerLossInRevert

Next ==
  \/ Download
  \/ Transfer
  \/ Exit
  \/ StartUp
  \/ Bootloader
  \/ SystemReset
  \/ PowerLoss

Spec == Init /\ [][Next]_vars

-----------------------------------------------------------------------------
TypeOK ==
  /\ active \in [0..(ActiveWords - 1) -> Word]
  /\ dfu \in [0..(DfuWords - 1) -> Word]
  /\ magic \in Magic
  /\ progress \in 0..(2 * SwapSteps)
  /\ ota_state \in {"Idle", "Receiving", "Done"}
  /\ total_size \in 0..Capacity(DfuWords)
  /\ remaining \in 0..total_size
  /\ next_offset \in 0..DfuWords
  /\ crc32 \in Seq(Byte)
  /\ next_block_seq \in 0..(SeqMod - 1)
  /\ buffer \in Seq(Byte) /\ Len(buffer) < WordBytes
  /\ reset_requested \in BOOLEAN
  /\ live_keys \in Seq(Word)
  /\ key_count \in 0..MaxKeys
  /\ phase \in Phase
  /\ image \in Images \cup {NoImage}
  /\ installed \in Images \cup {Factory}
  /\ replaced \in Images \cup {Factory, NoImage}
  /\ confirm_error \in ConfirmError

\* Whenever the application runs, ACTIVE holds the whole of the image that was
\* installed, whatever failed or lost power before.  There is one way to lose
\* it, which OldFirmwareKept is about: mark_booted ignores that it could not
\* confirm, and a download then goes over the image the bootloader goes back to.
RunsWholeImage ==
  confirm_error # "fatal" /\ phase \in {"keys", "confirm", "run"}
    => Holds(active, ActiveWords, installed)

\* As long as a swap is announced and not begun, DFU holds the whole image
\* that was downloaded: nothing arms a partial one or overwrites an armed one.
ArmedImageWhole ==
  magic = "swap" /\ progress = 0 => Holds(dfu, DfuWords, image)

\* The image that was replaced is whole, one page up in DFU.
OldImageWhole ==
  LET old == IF replaced = NoImage THEN installed ELSE replaced
      moved == [w \in 0..(ActiveWords - 1) |-> dfu[w + PageWords]]
  IN Holds(moved, ActiveWords, old)

\* Between the swap and its confirmation the bootloader can go back to the image
\* that was replaced, whatever failed or lost power, until a download follows a
\* confirmation whose failure was ignored.
FallbackKept ==
  confirm_error # "fatal" /\ magic = "swap" /\ progress = SwapSteps => OldImageWhole

\* The bytes received are the first bytes of the image, each once and in
\* order, whatever blocks the tester repeats or skips.
StreamInOrder ==
  ota_state = "Receiving" => \A p \in 1..Len(crc32) : crc32[p] = <<image, p>>

\* What was received is in flash up to the next word, and the rest of it in
\* the buffer: no write failure goes unnoticed.
FlashFollowsStream ==
  ota_state = "Receiving" =>
    ReadBytes(dfu, Capacity(next_offset)) \o buffer = crc32

\* The download, the swap and the confirmation implement ImageStore.
Store == INSTANCE ImageStore WITH
           Images <- Images, Factory <- Factory, NoImage <- NoImage,
           current <- installed,
           offered <- IF /\ magic = "swap"
                         /\ progress < SwapSteps \/ phase = "swap"
                      THEN image ELSE NoImage,
           fallback <- replaced,
           lost <- confirm_error = "fatal"

ImplementsStore == Store!Spec

(***************************************************************************)
(* What the comments and documents say.                                    *)
(***************************************************************************)

\* key_store.rs: init is idempotent, so the keys the next start will find are
\* the ones in use.
KeysPersist == phase = "run" => StoredKeys = live_keys

\* main.rs: a boot that is not confirmed is swapped back to the old firmware at
\* the next reset, so until then the old firmware is there.
OldFirmwareKept == magic = "swap" /\ progress = SwapSteps => OldImageWhole

=============================================================================
