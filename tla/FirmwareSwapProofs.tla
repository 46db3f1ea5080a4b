------------------------- MODULE FirmwareSwapProofs -------------------------
(***************************************************************************)
(* Theorems about FirmwareUpdate that follow the bytes: the types of the   *)
(* whole state, the pages through the bootloader's copies (the application *)
(* that is started is a whole image, and so is the one that can be gone    *)
(* back to, whatever fails and whenever power is lost), and the words      *)
(* through the flush buffer.  They hold for every flash layout and set of  *)
(* images that fit ACTIVE.                                                 *)
(***************************************************************************)
EXTENDS FirmwareUpdateProofs

-----------------------------------------------------------------------------
(***************************************************************************)
(* Types.                                                                  *)
(***************************************************************************)
Memory(words) == [0..(words - 1) -> Word]

\* A swap has an image, and the copies are counted in the range of the phase.
TypeInv ==
  /\ TypeOK
  /\ phase = "swap" => magic = "swap"
  /\ phase = "revert" => progress >= SwapSteps
  /\ magic = "swap" => image \in Images
  /\ ota_state # "Idle" => image \in Images

LEMMA SizesNat ==
  /\ ActiveWords \in Nat \ {0} /\ DfuWords \in Nat \ {0}
  /\ ActiveWords <= DfuWords
  /\ WordBytes \in Nat \ {0} /\ PageWords \in Nat \ {0}
  /\ SwapSteps \in Nat /\ SwapSteps = ActivePages + ActivePages
<1>1. DfuWords - ActiveWords = (DfuPages - ActivePages) * PageWords
  BY LayoutAssumption DEF ActiveWords, DfuWords
<1>2. ActiveWords \in Nat /\ DfuWords \in Nat
  BY LayoutAssumption DEF ActiveWords, DfuWords
<1>3. (DfuPages - ActivePages) * PageWords >= 0
  BY LayoutAssumption
<1>4. ActivePages * PageWords >= 1
  BY LayoutAssumption
<1>5. ActiveWords # 0
  BY <1>4 DEF ActiveWords
<1>6. DfuWords # 0
  BY <1>1, <1>2, <1>3, <1>5
<1> QED BY <1>1, <1>2, <1>3, <1>5, <1>6, LayoutAssumption DEF SwapSteps

LEMMA WordTypes ==
  /\ BlankWord \in Word /\ BadWord \in Word
  /\ \A n \in Nat : KeyWord(n) \in Word
BY DEF BlankWord, BadWord, KeyWord, Word, Byte, Blank, Bad

\* Every operation of the flash driver leaves words in the array.
LEMMA MemoryTypes ==
  ASSUME NEW words \in Nat, NEW mem \in Memory(words)
  PROVE  /\ \A pages : Erase(mem, pages) \in Memory(words)
         /\ \A pages : Spoil(mem, pages) \in Memory(words)
         /\ \A w : \A value \in Word : Written(mem, w, value) \in Memory(words)
         /\ \A w : NotWritten(mem, w) \subseteq Memory(words)
         /\ \A first, last : PartErased(mem, first, last) \subseteq Memory(words)
<1>1. \A m \in Memory(words) : \A pages : /\ Erase(m, pages) \in Memory(words)
                                          /\ Spoil(m, pages) \in Memory(words)
  BY WordTypes DEF Memory, Erase, Spoil
<1>2. \A w : \A value \in Word : Written(mem, w, value) \in Memory(words)
  BY DEF Memory, Written
<1>3. \A w : NotWritten(mem, w) \subseteq Memory(words)
  BY <1>2, WordTypes DEF NotWritten
<1>4. ASSUME NEW first, NEW last, NEW left \in PartErased(mem, first, last)
      PROVE  left \in Memory(words)
  <2>1. PICK p \in first..last :
          left \in {Erase(mem, first..(p - 1)), Spoil(Erase(mem, first..(p - 1)), {p})}
    BY DEF PartErased
  <2>2. Erase(mem, first..(p - 1)) \in Memory(words)
    BY <1>1
  <2> QED BY <1>1, <2>1, <2>2
<1> QED BY <1>1, <1>2, <1>3, <1>4

LEMMA TypeInvInit == Init => TypeInv
<1> SUFFICES ASSUME Init PROVE TypeInv
  OBVIOUS
<1> USE SizesNat
<1> HIDE DEF SwapSteps
<1>1. active \in [0..(ActiveWords - 1) -> Word]
  <2>1. ASSUME NEW w \in 0..(ActiveWords - 1), NEW b \in 1..WordBytes
        PROVE  <<Factory, (w * WordBytes) + b>> \in Byte
    <3>1. w * WordBytes \in Nat
      BY <2>1
    <3> QED BY <3>1 DEF Byte, Factory
  <2> QED BY <2>1 DEF Init, Word
<1>2. dfu \in [0..(DfuWords - 1) -> Word]
  BY WordTypes DEF Init
<1>3. Capacity(DfuWords) \in Nat
  BY DEF Capacity
<1>4. 1 % SeqMod \in 0..(SeqMod - 1)
  BY SeqAssumption
<1>5. MaxKeys \in Nat
  BY FaultAssumption
<1>6. /\ crc32 \in Seq(Byte) /\ live_keys \in Seq(Word)
      /\ buffer \in Seq(Byte) /\ Len(buffer) < WordBytes
  BY DEF Init
<1>7. /\ progress \in 0..(2 * SwapSteps)
      /\ total_size \in 0..Capacity(DfuWords)
      /\ remaining \in 0..total_size
      /\ next_offset \in 0..DfuWords
      /\ key_count \in 0..MaxKeys
  BY <1>3, <1>5 DEF Init
<1>8. /\ magic \in Magic /\ phase \in Phase /\ reset_requested \in BOOLEAN
      /\ ota_state \in {"Idle", "Receiving", "Done"}
      /\ image \in Images \cup {NoImage}
      /\ installed \in Images \cup {Factory}
      /\ replaced \in Images \cup {Factory, NoImage}
      /\ confirm_error \in ConfirmError
  BY DEF Init, Magic, Phase, ConfirmError
<1>9. next_block_seq \in 0..(SeqMod - 1)
  BY <1>4 DEF Init
<1>10. TypeOK
  BY <1>1, <1>2, <1>6, <1>7, <1>8, <1>9 DEF TypeOK
<1> QED BY <1>10 DEF Init, TypeInv

\* The type invariant, by the part of the state.
FlashTypes == active \in Memory(ActiveWords) /\ dfu \in Memory(DfuWords)
TransferTypes ==
  /\ ota_state \in {"Idle", "Receiving", "Done"}
  /\ total_size \in 0..Capacity(DfuWords)
  /\ remaining \in 0..total_size
  /\ next_offset \in 0..DfuWords
  /\ crc32 \in Seq(Byte)
  /\ next_block_seq \in 0..(SeqMod - 1)
  /\ buffer \in Seq(Byte) /\ Len(buffer) < WordBytes
  /\ reset_requested \in BOOLEAN
KeyTypes == live_keys \in Seq(Word) /\ key_count \in 0..MaxKeys
ConfirmTypes == confirm_error \in ConfirmError
ImageTypes ==
  /\ magic \in Magic
  /\ progress \in 0..(2 * SwapSteps)
  /\ phase \in Phase
  /\ image \in Images \cup {NoImage}
  /\ installed \in Images \cup {Factory}
  /\ replaced \in Images \cup {Factory, NoImage}
  /\ phase = "swap" => magic = "swap"
  /\ phase = "revert" => progress >= SwapSteps
  /\ magic = "swap" => image \in Images
  /\ ota_state # "Idle" => image \in Images

LEMMA TypeParts ==
  /\ TypeInv <=> FlashTypes /\ TransferTypes /\ KeyTypes /\ ConfirmTypes /\ ImageTypes
  /\ TypeInv' <=> FlashTypes' /\ TransferTypes' /\ KeyTypes' /\ ConfirmTypes' /\ ImageTypes'
<1>1. TypeInv <=> FlashTypes /\ TransferTypes /\ KeyTypes /\ ConfirmTypes /\ ImageTypes
  BY DEF TypeInv, TypeOK, FlashTypes, TransferTypes, KeyTypes, ConfirmTypes, ImageTypes, Memory
<1>2. TypeInv' <=> FlashTypes' /\ TransferTypes' /\ KeyTypes' /\ ConfirmTypes' /\ ImageTypes'
  BY DEF TypeInv, TypeOK, FlashTypes, TransferTypes, KeyTypes, ConfirmTypes, ImageTypes, Memory
<1> QED BY <1>1, <1>2

\* The constants are the same in the next state.
LEMMA SameConstants ==
  /\ DfuWords' = DfuWords /\ ActiveWords' = ActiveWords
  /\ Capacity(DfuWords)' = Capacity(DfuWords)
  /\ SwapSteps' = SwapSteps
  /\ Byte' = Byte /\ Word' = Word
  /\ Memory(DfuWords)' = Memory(DfuWords)
  /\ Memory(ActiveWords)' = Memory(ActiveWords)
BY DEF DfuWords, ActiveWords, Capacity, SwapSteps, Byte, Word, Memory

\* What a reset leaves in the statics of the handlers.
LEMMA ResetTypes == OtaReset => TransferTypes'
<1>1. Capacity(DfuWords) \in Nat
  BY SizesNat DEF Capacity
<1>2. 1 % SeqMod \in 0..(SeqMod - 1)
  BY SeqAssumption
<1>3. ASSUME OtaReset
      PROVE  /\ total_size' \in 0..Capacity(DfuWords)
             /\ remaining' \in 0..total_size'
             /\ next_offset' \in 0..DfuWords
             /\ next_block_seq' \in 0..(SeqMod - 1)
  BY <1>1, <1>2, <1>3, SizesNat DEF OtaReset
<1>4. ASSUME OtaReset
      PROVE  /\ crc32' \in Seq(Byte)
             /\ buffer' \in Seq(Byte) /\ Len(buffer') < WordBytes
  BY <1>4, SizesNat DEF OtaReset
<1> QED BY <1>3, <1>4, SameConstants DEF OtaReset, TransferTypes

\* A block is two bytes, and what fills the buffer is a word.
LEMMA BlockTypes ==
  ASSUME TypeInv, NEW b \in Blocks, ExpectedBlock(b)
  PROVE  /\ Block(image, b) \in Seq(Byte) /\ Len(Block(image, b)) = 2
         /\ Filled(b) \in Seq(Byte)
         /\ Len(Filled(b)) = WordBytes => Filled(b) \in Word
<1>1. image \in Nat
  BY ImageAssumption DEF TypeInv, ExpectedBlock
<1>2. b \in Nat /\ b >= 1
  <2>1. Len(crc32) \in Nat
    BY DEF TypeInv, TypeOK
  <2>2. Received \in Nat
    BY <2>1 DEF Received
  <2> QED BY <2>2, SeqAssumption DEF Blocks
<1>3. Block(image, b) \in Seq(Byte) /\ Len(Block(image, b)) = 2
  BY <1>1, <1>2 DEF Block, Byte
<1>4. Filled(b) \in Seq(Byte)
  BY <1>3 DEF Filled, TypeInv, TypeOK
<1>5. ASSUME Len(Filled(b)) = WordBytes PROVE Filled(b) \in Word
  <2>1. Filled(b) \in [1..WordBytes -> Byte]
    BY <1>4, <1>5
  <2> QED BY <2>1 DEF Word
<1> QED BY <1>3, <1>4, <1>5

LEMMA PaddedType ==
  ASSUME TypeInv
  PROVE  Padded \in Word /\ FlushedDfu \in Memory(DfuWords)
<1>1. Padded \in Word
  <2>1. \A b \in 1..WordBytes : b <= Len(buffer) => buffer[b] \in Byte
    BY SizesNat DEF TypeInv, TypeOK
  <2>2. Blank \in Byte
    BY DEF Blank, Byte
  <2> QED BY <2>1, <2>2 DEF Padded, Word
<1> QED BY <1>1, MemoryTypes, SizesNat DEF FlushedDfu, TypeInv, TypeOK, Memory

-----------------------------------------------------------------------------
(***************************************************************************)
(* Pages and copies.                                                       *)
(***************************************************************************)
Pages == 0..(ActivePages - 1)

\* Word k of page p.
WordIn(p, k) == (p * PageWords) + k

\* The quotient is what the remainder is added to.
LEMMA QuotientIs ==
  ASSUME NEW m \in Nat \ {0}, NEW q \in Nat, NEW r \in 0..(m - 1)
  PROVE  ((m * q) + r) \div m = q
<1> DEFINE x == (m * q) + r
           d == x \div m
           s == x % m
<1>1. x \in Nat /\ s = r
  BY RemainderIs
<1>2. d \in Int /\ x = (m * d) + s
  BY <1>1
<1> HIDE DEF d, s
<1>3. m * (d - q) = 0 /\ m * (q - d) = 0
  BY <1>1, <1>2
<1>4. ASSUME d - q >= 1 PROVE FALSE
  <2>1. m * (d - q) >= m
    BY <1>2, <1>4
  <2> QED BY <2>1, <1>3
<1>5. ASSUME q - d >= 1 PROVE FALSE
  <2>1. m * (q - d) >= m
    BY <1>2, <1>5
  <2> QED BY <2>1, <1>3
<1> QED BY <1>2, <1>4, <1>5 DEF d

LEMMA WordOfPage ==
  ASSUME NEW n \in Nat, NEW p \in 0..(n - 1), NEW k \in 0..(PageWords - 1)
  PROVE  /\ WordIn(p, k) \in 0..((n * PageWords) - 1)
         /\ PageOf(WordIn(p, k)) = p
         /\ WordIn(p, k) % PageWords = k
<1>1. PageWords \in Nat \ {0} /\ p \in Nat
  BY LayoutAssumption
<1>2. WordIn(p, k) = (PageWords * p) + k /\ WordIn(p, k) \in Nat
  BY <1>1 DEF WordIn
<1>3. WordIn(p, k) < n * PageWords
  <2>1. n * PageWords = PageWords * n
    BY <1>1
  <2>2. PageWords * ((n - 1) - p) >= 0
    BY <1>1
  <2>3. (PageWords * n) - (PageWords * p) = (PageWords * ((n - 1) - p)) + PageWords
    BY <1>1
  <2>4. PageWords * n \in Int /\ PageWords * p \in Int
    BY <1>1
  <2> QED BY <1>1, <1>2, <2>1, <2>2, <2>3, <2>4
<1>4. n * PageWords \in Nat
  BY <1>1
<1> QED BY <1>1, <1>2, <1>3, <1>4, RemainderIs, QuotientIs DEF PageOf

\* The four kinds of page copies and the place of each in the count.
LEMMA CopyShape ==
  ASSUME TypeInv, MoreCopies
  PROVE  \E q \in Pages :
           \/ /\ phase = "swap" /\ progress = (2 * (ActivePages - q)) - 2
              /\ Copy = [to |-> "dfu", from_page |-> q, to_page |-> q + 1]
           \/ /\ phase = "swap" /\ progress = (2 * (ActivePages - q)) - 1
              /\ Copy = [to |-> "active", from_page |-> q, to_page |-> q]
           \/ /\ phase = "revert" /\ progress - SwapSteps = 2 * q
              /\ Copy = [to |-> "dfu", from_page |-> q, to_page |-> q]
           \/ /\ phase = "revert" /\ progress - SwapSteps = (2 * q) + 1
              /\ Copy = [to |-> "active", from_page |-> q + 1, to_page |-> q]
<1>1. progress \in Nat /\ ActivePages \in Nat /\ SwapSteps = 2 * ActivePages
  BY SizesNat, LayoutAssumption DEF TypeInv, TypeOK, SwapSteps
<1>2. CASE phase = "swap"
  <2>1. progress < 2 * ActivePages
    BY <1>1, <1>2 DEF MoreCopies
  <2>2. PICK j \in Nat, r \in {0, 1} : progress = (2 * j) + r /\ progress \div 2 = j /\ progress % 2 = r
    BY <1>1
  <2>3. (ActivePages - 1) - j \in Pages
    BY <1>1, <2>1, <2>2 DEF Pages
  <2>4. PICK q \in Pages : q = (ActivePages - 1) - j
    BY <2>3
  <2>5. j = (ActivePages - 1) - q
    BY <2>2, <2>4, <1>1 DEF Pages
  <2> QED BY <1>1, <1>2, <2>2, <2>4, <2>5 DEF Copy, Pages
<1>3. CASE phase = "revert"
  <2> DEFINE m == progress - SwapSteps
  <2>1. m \in Nat /\ m < 2 * ActivePages
    BY <1>1, <1>3 DEF MoreCopies, TypeInv
  <2>2. progress % 2 = m % 2
    BY <1>1, <2>1
  <2>3. PICK q \in Nat, r \in {0, 1} : m = (2 * q) + r /\ m \div 2 = q /\ m % 2 = r
    BY <2>1
  <2>4. q \in Pages
    BY <1>1, <2>1, <2>3 DEF Pages
  <2> QED BY <1>1, <1>3, <2>2, <2>3, <2>4 DEF Copy
<1> QED BY <1>2, <1>3 DEF MoreCopies

\* A page copy leaves words in the array, and changes no other page.
LEMMA CopiedFacts ==
  ASSUME NEW n \in Nat, NEW m \in Nat,
         NEW to \in Memory(n * PageWords), NEW from \in Memory(m * PageWords),
         Copy.from_page \in 0..(m - 1)
  PROVE  /\ Copied(to, from) \in Memory(n * PageWords)
         /\ \A p \in 0..(n - 1), k \in 0..(PageWords - 1) :
              Copied(to, from)[WordIn(p, k)] =
                IF p = Copy.to_page THEN from[WordIn(Copy.from_page, k)]
                ELSE to[WordIn(p, k)]
<1> DEFINE f == Copy.from_page
<1>1. PageWords \in Nat \ {0} /\ n * PageWords \in Nat /\ m * PageWords \in Nat
  BY LayoutAssumption
<1>2. f \in 0..(m - 1)
  OBVIOUS
<1>3. DOMAIN to = 0..((n * PageWords) - 1)
  BY DEF Memory
<1> HIDE DEF f
<1>4. ASSUME NEW k \in 0..(PageWords - 1)
      PROVE  from[WordIn(f, k)] \in Word
  <2>1. WordIn(f, k) \in 0..((m * PageWords) - 1)
    BY <1>2, WordOfPage
  <2> QED BY <2>1 DEF Memory
<1>5. ASSUME NEW w \in 0..((n * PageWords) - 1)
      PROVE  from[WordIn(f, w % PageWords)] \in Word
  <2>1. w \in Nat
    BY <1>1
  <2>2. w % PageWords \in 0..(PageWords - 1)
    BY <1>1, <2>1
  <2> QED BY <1>4, <2>2
<1>6. Copied(to, from) =
        [w \in 0..((n * PageWords) - 1) |->
           IF PageOf(w) = Copy.to_page THEN from[WordIn(f, w % PageWords)] ELSE to[w]]
  BY <1>3 DEF Copied, WordIn, f
<1>7. Copied(to, from) \in Memory(n * PageWords)
  BY <1>5, <1>6 DEF Memory
<1>8. ASSUME NEW p \in 0..(n - 1), NEW k \in 0..(PageWords - 1)
      PROVE  Copied(to, from)[WordIn(p, k)] =
               IF p = Copy.to_page THEN from[WordIn(f, k)] ELSE to[WordIn(p, k)]
  <2>1. /\ WordIn(p, k) \in 0..((n * PageWords) - 1)
        /\ PageOf(WordIn(p, k)) = p
        /\ WordIn(p, k) % PageWords = k
    BY WordOfPage
  <2> QED BY <1>6, <2>1
<1> QED BY <1>7, <1>8 DEF f

-----------------------------------------------------------------------------
(***************************************************************************)
(* Every step keeps the types.                                             *)
(***************************************************************************)
LEMMA KeysWrittenType ==
  ASSUME TypeInv, NEW first, NEW lost, NEW left \in Word
  PROVE  KeysWritten(first, lost, left) \in Memory(DfuWords)
<1>1. NewKey \in Word
  <2>1. key_count + 1 \in Nat
    BY FaultAssumption DEF TypeInv, TypeOK
  <2> QED BY <2>1, WordTypes DEF NewKey
<1> QED BY <1>1, WordTypes DEF KeysWritten, TypeInv, TypeOK, Memory

LEMMA DownloadFlash ==
  ASSUME TypeInv, Download \/ Transfer \/ Exit
  PROVE  active' = active /\ dfu' \in Memory(DfuWords)
<1>1. dfu \in Memory(DfuWords) /\ DfuWords \in Nat
  BY SizesNat DEF TypeInv, TypeOK, Memory
<1>2. /\ \A pages : Erase(dfu, pages) \in Memory(DfuWords)
      /\ \A w : \A value \in Word : Written(dfu, w, value) \in Memory(DfuWords)
      /\ \A w : NotWritten(dfu, w) \subseteq Memory(DfuWords)
      /\ \A first, last : PartErased(dfu, first, last) \subseteq Memory(DfuWords)
  BY <1>1, MemoryTypes
<1>3. CASE Download
  BY <1>2, <1>3 DEF Download, RequestDownload, RequestDownloadFails, PowerLossInDownload
<1>4. CASE Transfer
  <2>1. CASE TransferPastEnd
    BY <1>1, <2>1 DEF TransferPastEnd
  <2>2. ASSUME NEW b \in Blocks, TransferFlushed(b)
        PROVE  active' = active /\ dfu' \in Memory(DfuWords)
    <3>1. Filled(b) \in Word
      BY <2>2, BlockTypes DEF TransferFlushed
    <3> QED BY <1>2, <2>2, <3>1 DEF TransferFlushed
  <2>3. ASSUME NEW b \in Blocks,
               TransferBuffered(b) \/ TransferFlushFails(b) \/ PowerLossInFlush(b)
        PROVE  active' = active /\ dfu' \in Memory(DfuWords)
    BY <1>1, <1>2, <2>3 DEF TransferBuffered, TransferFlushFails, PowerLossInFlush
  <2> QED BY <1>4, <2>1, <2>2, <2>3 DEF Transfer
<1>5. CASE Exit
  BY <1>2, <1>5, PaddedType DEF Exit, TransferExit, ExitIncomplete, ExitFlushFails,
     ExitArmFails, PowerLossInExit, ExitFlushes, ExitRest
<1> QED BY <1>3, <1>4, <1>5

LEMMA StartUpFlash ==
  ASSUME TypeInv, StartUp
  PROVE  active' = active /\ dfu' \in Memory(DfuWords)
<1>1. dfu \in Memory(DfuWords) /\ DfuWords \in Nat
  BY SizesNat DEF TypeInv, TypeOK, Memory
<1>2. PartErased(dfu, KeyPage, KeyPage) \subseteq Memory(DfuWords)
  BY <1>1, MemoryTypes
<1>3. CASE LoadKeys \/ MarkBooted \/ MarkBootedFails \/ PowerLossInMarkBooted
  BY <1>1, <1>3 DEF LoadKeys, MarkBooted, MarkBootedFails, PowerLossInMarkBooted
<1>4. CASE GenerateKeys
  <2>1. active' = active
    BY <1>4 DEF GenerateKeys
  <2>2. \/ \E lost, left : left \in Word /\ dfu' = KeysWritten(KeyWords, lost, left)
        \/ dfu' \in PartErased(dfu, KeyPage, KeyPage)
    <3> HIDE DEF KeysWritten
    <3> QED BY <1>4, WordTypes DEF GenerateKeys
  <2> QED BY <1>2, <2>1, <2>2, KeysWrittenType
<1>5. CASE PowerLossInKeys
  <2>1. active' = active
    BY <1>5 DEF PowerLossInKeys
  <2>2. \/ \E first, lost : dfu' = KeysWritten(first, lost, BadWord)
        \/ dfu' \in PartErased(dfu, KeyPage, KeyPage)
    <3> HIDE DEF KeysWritten
    <3> QED BY <1>5 DEF PowerLossInKeys
  <2> QED BY <1>2, <2>1, <2>2, KeysWrittenType, WordTypes
<1> QED BY <1>3, <1>4, <1>5 DEF StartUp

LEMMA BootloaderFlash ==
  ASSUME TypeInv, Bootloader
  PROVE  active' \in Memory(ActiveWords) /\ dfu' \in Memory(DfuWords)
<1>1. /\ active \in Memory(ActiveWords) /\ dfu \in Memory(DfuWords)
      /\ ActiveWords \in Nat /\ DfuWords \in Nat
  BY SizesNat DEF TypeInv, TypeOK, Memory
<1>2. CASE Boot \/ SwapDone \/ RevertDone \/ PowerLossInRevert
  BY <1>1, <1>2 DEF Boot, SwapDone, RevertDone, PowerLossInRevert
<1>3. CASE PowerLossInCopy
  BY <1>1, <1>3, MemoryTypes DEF PowerLossInCopy
<1>4. CASE CopyPage
  <2>1. PICK q \in Pages :
          \/ Copy = [to |-> "dfu", from_page |-> q, to_page |-> q + 1]
          \/ Copy = [to |-> "active", from_page |-> q, to_page |-> q]
          \/ Copy = [to |-> "dfu", from_page |-> q, to_page |-> q]
          \/ Copy = [to |-> "active", from_page |-> q + 1, to_page |-> q]
    BY <1>4, CopyShape DEF CopyPage
  <2>2. /\ ActiveWords = ActivePages * PageWords /\ DfuWords = DfuPages * PageWords
        /\ ActivePages \in Nat /\ DfuPages \in Nat /\ DfuPages > ActivePages + 1
    BY LayoutAssumption DEF ActiveWords, DfuWords
  <2>3. CASE Copy.to = "dfu"
    <3>1. Copy.from_page \in 0..(ActivePages - 1)
      BY <2>1, <2>3 DEF Pages
    <3>2. Copied(dfu, active) \in Memory(DfuWords)
      BY <1>1, <2>2, <3>1, CopiedFacts
    <3> QED BY <1>1, <1>4, <2>3, <3>2 DEF CopyPage
  <2>4. CASE Copy.to # "dfu"
    <3>1. Copy.from_page \in 0..(DfuPages - 1)
      BY <2>1, <2>2, <2>4 DEF Pages
    <3>2. Copied(active, dfu) \in Memory(ActiveWords)
      BY <1>1, <2>2, <3>1, CopiedFacts
    <3> QED BY <1>1, <1>4, <2>4, <3>2 DEF CopyPage
  <2> QED BY <2>3, <2>4
<1> QED BY <1>2, <1>3, <1>4 DEF Bootloader

\* What a block does to the counters.
LEMMA BlockTakenTypes ==
  ASSUME TypeInv, NEW b \in Blocks, ExpectedBlock(b), BlockTaken(b)
  PROVE  /\ remaining' \in 0..total_size' /\ total_size' \in 0..Capacity(DfuWords)
         /\ crc32' \in Seq(Byte)
         /\ next_block_seq' \in 0..(SeqMod - 1)
         /\ reset_requested' \in BOOLEAN
<1>1. total_size' = total_size /\ total_size \in 0..Capacity(DfuWords)
  BY DEF BlockTaken, TypeInv, TypeOK
<1>2. remaining' \in 0..total_size
  <2>1. Capacity(DfuWords) \in Nat
    BY SizesNat DEF Capacity
  <2>2. remaining \in 0..total_size /\ total_size \in Nat
    BY <1>1, <2>1 DEF TypeInv, TypeOK
  <2> QED BY <2>2 DEF BlockTaken, LessTwo
<1>3. crc32' \in Seq(Byte)
  BY BlockTypes DEF BlockTaken, TypeInv, TypeOK
<1>4. next_block_seq' \in 0..(SeqMod - 1)
  <2>1. next_block_seq + 1 \in Nat /\ SeqMod \in Nat \ {0}
    BY SeqAssumption DEF TypeInv, TypeOK
  <2> QED BY <2>1 DEF BlockTaken
<1> QED BY <1>1, <1>2, <1>3, <1>4 DEF BlockTaken, TypeInv, TypeOK

\* The handlers keep the types of the statics.
LEMMA TransferTypesStep ==
  ASSUME TypeInv, Transfer
  PROVE  TransferTypes'
<1>1. TransferTypes
  BY TypeParts
<1>2. CASE TransferPastEnd
  BY <1>1, <1>2, SameConstants DEF TransferPastEnd, TransferTypes
<1>3. ASSUME NEW b \in Blocks, PowerLossInFlush(b) PROVE TransferTypes'
  BY <1>3, ResetTypes DEF PowerLossInFlush, Restart
<1>4. ASSUME NEW b \in Blocks,
             TransferBuffered(b) \/ TransferFlushed(b) \/ TransferFlushFails(b)
      PROVE  TransferTypes'
  <2>1. ExpectedBlock(b) /\ BlockTaken(b)
    BY <1>4 DEF TransferBuffered, TransferFlushed, TransferFlushFails
  <2>2. ota_state' \in {"Idle", "Receiving", "Done"}
    BY <1>1, <1>4 DEF TransferBuffered, TransferFlushed, TransferFlushFails, TransferTypes
  <2>3. buffer' \in Seq(Byte) /\ Len(buffer') < WordBytes
    <3>1. CASE TransferBuffered(b)
      BY <2>1, <3>1, BlockTypes DEF TransferBuffered
    <3>2. CASE buffer' = <<>>
      BY <3>2, SizesNat
    <3> QED BY <1>4, <3>1, <3>2 DEF TransferFlushed, TransferFlushFails
  <2>4. next_offset' \in 0..DfuWords
    <3>1. next_offset \in 0..DfuWords /\ DfuWords \in Nat
      BY <1>1, SizesNat DEF TransferTypes
    <3>2. CASE TransferFlushed(b)
      <4>1. next_offset \in 0..(DfuWords - 1)
        BY <3>2 DEF TransferFlushed, Writable, TypeInv, TypeOK
      <4> QED BY <3>1, <3>2, <4>1 DEF TransferFlushed
    <3> QED BY <1>4, <3>1, <3>2 DEF TransferBuffered, TransferFlushFails
  <2> QED BY <2>1, <2>2, <2>3, <2>4, BlockTakenTypes, SameConstants DEF TransferTypes
<1> QED BY <1>2, <1>3, <1>4 DEF Transfer

LEMMA ExitTypesStep ==
  ASSUME TypeInv, Exit
  PROVE  TransferTypes'
<1>1. TransferTypes
  BY TypeParts
<1>2. CASE PowerLossInExit
  BY <1>2, ResetTypes DEF PowerLossInExit, Restart
<1>3. CASE TransferExit \/ ExitIncomplete \/ ExitFlushFails \/ ExitArmFails
  <2>1. /\ UNCHANGED <<total_size, remaining, next_offset, crc32, next_block_seq>>
        /\ buffer' = <<>>
        /\ ota_state' \in {"Idle", "Done"}
        /\ reset_requested' \in BOOLEAN
    BY <1>1, <1>3 DEF TransferExit, ExitIncomplete, ExitFlushFails, ExitArmFails,
                      ExitFlushes, ExitRest, TransferTypes
  <2>2. buffer' \in Seq(Byte) /\ Len(buffer') < WordBytes
    BY <2>1, SizesNat
  <2> QED BY <1>1, <2>1, <2>2, SameConstants DEF TransferTypes
<1> QED BY <1>2, <1>3 DEF Exit

LEMMA DownloadTypesStep ==
  ASSUME TypeInv, Download
  PROVE  TransferTypes'
<1>1. TransferTypes
  BY TypeParts
<1>2. ASSUME NEW i \in Images, PowerLossInDownload(i) PROVE TransferTypes'
  BY <1>2, ResetTypes DEF PowerLossInDownload, Restart
<1>3. ASSUME NEW i \in Images, RequestDownloadFails(i) PROVE TransferTypes'
  BY <1>1, <1>3, SameConstants DEF RequestDownloadFails, ota_vars, TransferTypes
<1>4. ASSUME NEW i \in Images, RequestDownload(i) PROVE TransferTypes'
  <2>1. Size[i] \in Nat /\ Size[i] <= Capacity(DfuWords) /\ Capacity(DfuWords) \in Nat
    BY <1>4, ImageAssumption, SizesNat DEF RequestDownload, DownloadAllowed, Capacity
  <2>2. 1 % SeqMod \in 0..(SeqMod - 1)
    BY SeqAssumption
  <2>3. /\ total_size' \in 0..Capacity(DfuWords)
        /\ remaining' \in 0..total_size'
        /\ next_offset' \in 0..DfuWords
        /\ next_block_seq' \in 0..(SeqMod - 1)
        /\ ota_state' = "Receiving" /\ reset_requested' = reset_requested
    BY <1>4, <2>1, <2>2, SizesNat DEF RequestDownload
  <2>4. /\ crc32' \in Seq(Byte)
        /\ buffer' \in Seq(Byte) /\ Len(buffer') < WordBytes
    BY <1>4, SizesNat DEF RequestDownload
  <2> QED BY <1>1, <2>3, <2>4, SameConstants DEF TransferTypes
<1> QED BY <1>2, <1>3, <1>4 DEF Download
LEMMA TransferTypesOthers ==
  ASSUME TypeInv, StartUp \/ Bootloader \/ SystemReset \/ PowerLoss \/ UNCHANGED vars
  PROVE  TransferTypes'
<1>1. TransferTypes
  BY TypeParts
<1>2. OtaReset \/ UNCHANGED ota_vars
  <2>1. CASE StartUp
    BY <2>1 DEF StartUp, LoadKeys, GenerateKeys, PowerLossInKeys, MarkBooted,
                MarkBootedFails, PowerLossInMarkBooted, Restart
  <2>2. CASE Bootloader
    BY <2>2 DEF Bootloader, Boot, CopyPage, PowerLossInCopy, SwapDone,
                RevertDone, PowerLossInRevert, Restart
  <2>3. CASE SystemReset \/ PowerLoss \/ UNCHANGED vars
    BY <2>3 DEF SystemReset, PowerLoss, Restart, vars
  <2> QED BY <2>1, <2>2, <2>3
<1>3. CASE UNCHANGED ota_vars
  BY <1>1, <1>3, SameConstants DEF TransferTypes, ota_vars
<1> QED BY <1>2, <1>3, ResetTypes

\* The key sets.
LEMMA KeyTypesStep ==
  ASSUME TypeInv, [Next]_vars
  PROVE  KeyTypes'
<1>1. KeyTypes
  BY TypeParts
<1>2. CASE LoadKeys
  <2>1. /\ dfu \in Memory(DfuWords) /\ DfuWords = DfuPages * PageWords
        /\ DfuPages \in Nat /\ KeyPage \in 0..(DfuPages - 1)
        /\ KeyWords \in 1..PageWords /\ PageWords \in Nat
    BY LayoutAssumption DEF TypeInv, TypeOK, Memory, DfuWords, KeyPage
  <2>2. ASSUME NEW k \in 1..KeyWords
        PROVE  dfu[(KeyPage * PageWords) + k - 1] \in Word
    <3>1. k - 1 \in 0..(PageWords - 1)
      BY <2>1
    <3>2. WordIn(KeyPage, k - 1) \in 0..((DfuPages * PageWords) - 1)
      BY <2>1, <3>1, WordOfPage
    <3>3. (KeyPage * PageWords) + k - 1 = WordIn(KeyPage, k - 1)
      <4>1. KeyPage * PageWords \in Int
        BY <2>1
      <4> QED BY <2>1, <4>1 DEF WordIn
    <3> QED BY <2>1, <3>2, <3>3 DEF Memory
  <2>3. StoredKeys \in Seq(Word)
    BY <2>1, <2>2 DEF StoredKeys
  <2> QED BY <1>1, <1>2, <2>3 DEF LoadKeys, KeyTypes, Word, Byte
<1>3. CASE GenerateKeys
  <2>1. /\ key_count' = key_count + 1 /\ key_count < MaxKeys
        /\ live_keys' = [k \in 1..KeyWords |-> NewKey]
    BY <1>3 DEF GenerateKeys
  <2>2. key_count' \in 0..MaxKeys /\ key_count + 1 \in Nat
    BY <1>1, <2>1, FaultAssumption DEF KeyTypes
  <2>3. NewKey \in Word
    BY <2>2, WordTypes DEF NewKey
  <2>4. KeyWords \in Nat
    BY LayoutAssumption
  <2>5. live_keys' \in Seq(Word)
    BY <2>1, <2>3, <2>4
  <2> QED BY <2>2, <2>5, SameConstants DEF KeyTypes
<1>4. CASE PowerLossInKeys
  <2>1. /\ key_count' = key_count + 1 /\ key_count < MaxKeys
        /\ live_keys' = <<>>
    BY <1>4 DEF PowerLossInKeys, Restart
  <2>2. key_count' \in 0..MaxKeys
    BY <1>1, <2>1, FaultAssumption DEF KeyTypes
  <2>3. live_keys' \in Seq(Word)
    BY <2>1
  <2> QED BY <2>2, <2>3, SameConstants DEF KeyTypes
<1>5. CASE UNCHANGED key_count /\ (live_keys' = <<>> \/ UNCHANGED live_keys)
  <2>1. live_keys' \in Seq(Word)
    <3>1. live_keys \in Seq(Word)
      BY <1>1 DEF KeyTypes
    <3>2. <<>> \in Seq(Word)
      OBVIOUS
    <3>3. live_keys' = <<>> \/ live_keys' = live_keys
      BY <1>5
    <3> QED BY <3>1, <3>2, <3>3
  <2>2. key_count' \in 0..MaxKeys
    BY <1>1, <1>5 DEF KeyTypes
  <2> QED BY <2>1, <2>2, SameConstants DEF KeyTypes
<1>6. \/ LoadKeys \/ GenerateKeys \/ PowerLossInKeys
      \/ UNCHANGED key_count /\ (live_keys' = <<>> \/ UNCHANGED live_keys)
  <2>1. CASE Download
    BY <2>1 DEF Download, RequestDownload, RequestDownloadFails,
                PowerLossInDownload, Restart, key_vars
  <2>2. CASE Transfer
    BY <2>2 DEF Transfer, TransferPastEnd, TransferBuffered, TransferFlushed,
                TransferFlushFails, PowerLossInFlush, Restart, key_vars
  <2>3. CASE Exit
    BY <2>3 DEF Exit, TransferExit, ExitIncomplete, ExitFlushFails,
                ExitArmFails, PowerLossInExit, ExitRest, Restart, key_vars
  <2>4. CASE StartUp
    BY <2>4 DEF StartUp, MarkBooted, MarkBootedFails, PowerLossInMarkBooted,
                Restart, key_vars
  <2>5. CASE Bootloader
    BY <2>5 DEF Bootloader, Boot, CopyPage, PowerLossInCopy, SwapDone,
                RevertDone, PowerLossInRevert, Restart, key_vars
  <2>6. CASE SystemReset \/ PowerLoss \/ UNCHANGED vars
    BY <2>6 DEF SystemReset, PowerLoss, Restart, vars, key_vars
  <2> QED BY <2>1, <2>2, <2>3, <2>4, <2>5, <2>6 DEF Next
<1> QED BY <1>2, <1>3, <1>4, <1>5, <1>6

LEMMA ConfirmTypesStep == ConfirmTypes /\ [Next]_vars => ConfirmTypes'
<1> SUFFICES ASSUME ConfirmTypes, [Next]_vars PROVE ConfirmTypes'
  OBVIOUS
<1> USE DEF ConfirmTypes, ConfirmError
<1>1. CASE Download
  BY <1>1 DEF Download, RequestDownload, RequestDownloadFails, PowerLossInDownload,
              FallbackErased
<1>2. CASE Transfer \/ Exit
  BY <1>2 DEF Transfer, TransferPastEnd, TransferBuffered, TransferFlushed,
              TransferFlushFails, PowerLossInFlush, Exit, TransferExit, ExitIncomplete,
              ExitFlushFails, ExitArmFails, PowerLossInExit, ExitRest, image_vars
<1>3. CASE StartUp
  BY <1>3 DEF StartUp, LoadKeys, GenerateKeys, PowerLossInKeys, MarkBooted,
              MarkBootedFails, PowerLossInMarkBooted, image_vars
<1>4. CASE Bootloader
  BY <1>4 DEF Bootloader, Boot, CopyPage, PowerLossInCopy, SwapDone, RevertDone,
              PowerLossInRevert, Reverted, image_vars
<1>5. CASE SystemReset \/ PowerLoss \/ UNCHANGED vars
  BY <1>5 DEF SystemReset, PowerLoss, vars, image_vars
<1> QED BY <1>1, <1>2, <1>3, <1>4, <1>5 DEF Next

\* What is left in STATE is the old contents or no magic at all.
LEMMA StateLeftTypes ==
  ASSUME TypeInv, NEW contents, LeaveState(contents),
         contents \subseteq StateNotErased \cup StateErased
  PROVE  /\ magic' \in Magic /\ progress' \in 0..(2 * SwapSteps)
         /\ magic' = "swap" => magic = "swap" /\ progress' = progress
<1>1. PICK left \in contents : magic' = left[1] /\ progress' = left[2]
  BY DEF LeaveState
<1>2. left \in {<<magic, progress>>, <<"bad", 0>>, <<"erased", 0>>}
  BY <1>1 DEF StateNotErased, StateErased
<1>3. magic \in Magic /\ progress \in 0..(2 * SwapSteps) /\ SwapSteps \in Nat
  BY SizesNat DEF TypeInv, TypeOK
<1> HIDE DEF SwapSteps
<1> QED BY <1>1, <1>2, <1>3 DEF Magic

\* A step outside the phases of the bootloader that copy.
LEMMA ImageTypesKept ==
  ASSUME magic' \in Magic, progress' \in 0..(2 * SwapSteps),
         phase' \in Phase \ {"swap", "revert"},
         magic' = "swap" \/ ota_state' # "Idle" => image' \in Images,
         image' \in Images \cup {NoImage},
         installed' \in Images \cup {Factory},
         replaced' \in Images \cup {Factory, NoImage}
  PROVE  ImageTypes'
BY SameConstants DEF ImageTypes, Magic, Phase, Factory, NoImage

LEMMA HandlerImageTypes ==
  ASSUME TypeInv, Download \/ Transfer \/ Exit
  PROVE  ImageTypes'
<1>1. ImageTypes
  BY TypeParts
<1>2. UNCHANGED <<installed, replaced>> /\ phase = "run" /\ phase' \in {"run", "bootloader"}
  BY DEF image_vars, FallbackErased, Download, Transfer, Exit, DownloadAllowed, RequestDownload,
         RequestDownloadFails, PowerLossInDownload, TransferPastEnd,
         ExpectedBlock, TransferBuffered, TransferFlushed, TransferFlushFails,
         PowerLossInFlush, TransferExit, ExitIncomplete, ExitFlushFails,
         ExitArmFails, PowerLossInExit, ExitFlushes, ExitAllowed, ExitRest,
         Restart
<1>3. /\ phase' \in Phase \ {"swap", "revert"}
      /\ installed' \in Images \cup {Factory}
      /\ replaced' \in Images \cup {Factory, NoImage}
  BY <1>1, <1>2 DEF ImageTypes, Phase
<1>4. /\ image' \in Images \cup {NoImage}
      /\ image \in Images => image' \in Images
      /\ ota_state' # "Idle" => image' \in Images
  <2>1. CASE Download
    BY <1>1, <2>1 DEF Download, RequestDownload, RequestDownloadFails,
                      PowerLossInDownload, ImageTypes, Restart, OtaReset, ota_vars
  <2>2. CASE Transfer
    BY <1>1, <2>2 DEF Transfer, TransferPastEnd, ExpectedBlock, TransferBuffered,
                      TransferFlushed, TransferFlushFails, PowerLossInFlush,
                      ImageTypes, Restart, OtaReset
  <2>3. CASE Exit
    BY <1>1, <2>3 DEF Exit, TransferExit, ExitIncomplete, ExitFlushFails,
                      ExitArmFails, PowerLossInExit, ExitFlushes, ExitAllowed,
                      ExitRest, ImageTypes, Restart, OtaReset
  <2> QED BY <2>1, <2>2, <2>3
<1>5. /\ magic' \in Magic /\ progress' \in 0..(2 * SwapSteps)
      /\ magic' = "swap" => image' \in Images
  <2>1. CASE UNCHANGED state_vars
    BY <1>1, <1>4, <2>1 DEF ImageTypes, state_vars
  <2>2. CASE TransferExit
    <3>1. magic' = "swap" /\ progress' = 0 /\ ota_state' = "Done"
      BY <2>2 DEF TransferExit
    <3>2. 0 \in 0..(2 * SwapSteps)
      BY SizesNat
    <3> QED BY <1>4, <3>1, <3>2 DEF Magic
  <2>3. CASE LeaveState(StateNotErased \cup StateErased)
    BY <1>1, <1>4, <2>3, StateLeftTypes DEF ImageTypes
  <2>4. CASE ExitArmFails
    <3>1. LeaveState(StateNotErased \cup StateErased)
      BY <2>4 DEF ExitArmFails, LeaveState, StateLeft
    <3> QED BY <2>3, <3>1
  <2> QED BY <2>1, <2>2, <2>3, <2>4
          DEF Download, RequestDownload, RequestDownloadFails, PowerLossInDownload,
              Transfer, TransferPastEnd, TransferBuffered, TransferFlushed,
              TransferFlushFails, PowerLossInFlush, Exit, ExitIncomplete,
              ExitFlushFails, PowerLossInExit
<1> QED BY <1>3, <1>4, <1>5, ImageTypesKept

LEMMA StartUpImageTypes ==
  ASSUME TypeInv, StartUp
  PROVE  ImageTypes'
<1>1. ImageTypes
  BY TypeParts
<1>2. /\ UNCHANGED <<image, installed>> /\ phase \in {"keys", "confirm"}
      /\ phase' \in {"confirm", "run", "bootloader"}
      /\ replaced' = replaced \/ replaced' = NoImage
      /\ UNCHANGED ota_state \/ ota_state' = "Idle"
  BY DEF StartUp, LoadKeys, GenerateKeys, PowerLossInKeys, MarkBooted,
         MarkBootedFails, PowerLossInMarkBooted, KeepReplaced, Restart, OtaReset,
         ota_vars, image_vars
<1>3. /\ phase' \in Phase \ {"swap", "revert"}
      /\ image' \in Images \cup {NoImage}
      /\ installed' \in Images \cup {Factory}
      /\ replaced' \in Images \cup {Factory, NoImage}
      /\ ota_state' # "Idle" => image' \in Images
  BY <1>1, <1>2 DEF ImageTypes, Phase
<1>4. /\ magic' \in Magic /\ progress' \in 0..(2 * SwapSteps)
      /\ magic' = "swap" => image' \in Images
  <2>1. CASE UNCHANGED state_vars
    BY <1>1, <1>2, <2>1 DEF ImageTypes, state_vars
  <2>2. CASE MarkBooted
    <3>1. 0 \in 0..(2 * SwapSteps)
      BY SizesNat
    <3> QED BY <2>2, <3>1 DEF MarkBooted, Magic
  <2>3. CASE LeaveState(StateNotErased \cup StateErased)
    BY <1>1, <1>2, <2>3, StateLeftTypes DEF ImageTypes
  <2>4. CASE MarkBootedFails \/ PowerLossInMarkBooted
    <3>1. LeaveState(StateNotErased \cup StateErased)
      BY <2>4 DEF MarkBootedFails, PowerLossInMarkBooted, LeaveState, StateLeft
    <3> QED BY <2>3, <3>1
  <2> QED BY <2>1, <2>2, <2>4 DEF StartUp, LoadKeys, GenerateKeys, PowerLossInKeys
<1> QED BY <1>3, <1>4, ImageTypesKept

LEMMA BootloaderImageTypes ==
  ASSUME TypeInv, Bootloader
  PROVE  ImageTypes'
<1>1. ImageTypes /\ progress \in 0..(2 * SwapSteps) /\ SwapSteps \in Nat
  BY TypeParts, SizesNat DEF ImageTypes
<1> HIDE DEF SwapSteps
<1>2. CASE Boot
  <2>1. /\ UNCHANGED <<magic, progress, image, installed, replaced, ota_state>>
        /\ phase' = IF magic # "swap" THEN "keys"
                    ELSE IF progress < SwapSteps THEN "swap" ELSE "revert"
    BY <1>2 DEF Boot, state_vars, image_vars, ota_vars
  <2> QED BY <1>1, <2>1, SameConstants DEF ImageTypes, Magic, Phase
<1>3. CASE CopyPage
  <2>1. /\ UNCHANGED <<magic, phase, image, installed, replaced, ota_state>>
        /\ progress' = progress + 1
        /\ \/ phase = "swap" /\ progress < SwapSteps
           \/ phase = "revert" /\ progress < 2 * SwapSteps
    BY <1>3 DEF CopyPage, MoreCopies, image_vars, ota_vars
  <2>2. progress' \in 0..(2 * SwapSteps) /\ progress' >= progress
    BY <1>1, <2>1
  <2>3. phase' = "revert" => progress' >= SwapSteps
    BY <1>1, <2>1 DEF ImageTypes
  <2> QED BY <1>1, <2>1, <2>2, <2>3, SameConstants DEF ImageTypes, Magic, Phase
<1>4. CASE PowerLossInCopy
  <2>1. /\ UNCHANGED <<magic, progress, image, installed, replaced>>
        /\ phase' = "bootloader" /\ ota_state' = "Idle"
    BY <1>4 DEF PowerLossInCopy, Restart, OtaReset, state_vars, image_vars
  <2> QED BY <1>1, <2>1, ImageTypesKept DEF ImageTypes, Phase
<1>5. CASE SwapDone
  <2>1. /\ UNCHANGED <<magic, progress, image, ota_state>>
        /\ phase = "swap" /\ phase' = "keys" /\ installed' = image /\ replaced' = installed
    BY <1>5 DEF SwapDone, state_vars, ota_vars
  <2>2. image \in Images /\ installed \in Images \cup {Factory}
    BY <1>1, <2>1 DEF ImageTypes
  <2> QED BY <1>1, <2>1, <2>2, ImageTypesKept DEF ImageTypes, Phase
<1>6. CASE RevertDone \/ PowerLossInRevert
  <2>1. /\ magic' \in {"revert", "erased"} /\ progress' = 0 /\ image' = image
        /\ phase' \in {"keys", "bootloader"} /\ replaced' = NoImage
        /\ ota_state' = "Idle" \/ ota_state' = ota_state
        /\ installed' = IF replaced = NoImage THEN installed ELSE replaced
    BY <1>6 DEF RevertDone, PowerLossInRevert, Reverted, Restart, OtaReset, ota_vars
  <2>2. installed' \in Images \cup {Factory}
    BY <1>1, <2>1 DEF ImageTypes
  <2>3. 0 \in 0..(2 * SwapSteps)
    BY <1>1
  <2>4. ota_state' # "Idle" => image' \in Images
    BY <1>1, <2>1 DEF ImageTypes
  <2> QED BY <1>1, <2>1, <2>2, <2>3, <2>4, ImageTypesKept DEF ImageTypes, Phase, Magic
<1> QED BY <1>2, <1>3, <1>4, <1>5, <1>6 DEF Bootloader

LEMMA TypeInvStep == TypeInv /\ [Next]_vars => TypeInv'
<1> SUFFICES ASSUME TypeInv, [Next]_vars PROVE TypeInv'
  OBVIOUS
<1>1. KeyTypes' /\ ConfirmTypes'
  BY KeyTypesStep, ConfirmTypesStep, TypeParts
<1>2. FlashTypes /\ ImageTypes /\ TransferTypes
  BY TypeParts
<1>3. CASE Download \/ Transfer \/ Exit
  <2>1. FlashTypes'
    BY <1>2, <1>3, DownloadFlash, SameConstants DEF FlashTypes
  <2> QED BY <1>1, <1>3, <2>1, TypeParts, TransferTypesStep, ExitTypesStep,
             DownloadTypesStep, HandlerImageTypes
<1>4. CASE StartUp \/ Bootloader
  <2>1. FlashTypes'
    BY <1>2, <1>4, StartUpFlash, BootloaderFlash, SameConstants DEF FlashTypes
  <2> QED BY <1>1, <1>4, <2>1, TypeParts, TransferTypesOthers, StartUpImageTypes,
             BootloaderImageTypes
<1>5. CASE SystemReset \/ PowerLoss \/ UNCHANGED vars
  <2>1. /\ UNCHANGED <<active, dfu, magic, progress, image, installed, replaced>>
        /\ \/ phase' = "bootloader" /\ ota_state' = "Idle"
           \/ UNCHANGED <<phase, ota_state>>
    BY <1>5 DEF SystemReset, PowerLoss, Restart, OtaReset, vars, state_vars,
                ota_vars, image_vars
  <2>2. FlashTypes'
    BY <1>2, <2>1, SameConstants DEF FlashTypes
  <2>3. ImageTypes'
    BY <1>2, <2>1, SameConstants DEF ImageTypes, Phase, Magic
  <2> QED BY <1>1, <1>5, <2>2, <2>3, TypeParts, TransferTypesOthers
<1> QED BY <1>3, <1>4, <1>5 DEF Next

\* Every variable keeps its type: the block counter stays in its byte, the
\* flush buffer shorter than a word, and the count of copies in its range.
THEOREM FirmwareTypeCorrect == Spec => []TypeOK
<1>1. TypeInv => TypeOK
  BY DEF TypeInv
<1> QED BY <1>1, TypeInvInit, TypeInvStep, PTL DEF Spec
-----------------------------------------------------------------------------
(***************************************************************************)
(* Where the images are.  The count of copies tells, for every page of an  *)
(* image, which of the two partitions it can be found in: a page that is   *)
(* being written is never the only copy of what it held.                   *)
(***************************************************************************)
Offset(q, k, b) == (WordIn(q, k) * WordBytes) + b

\* Page p of a partition has page q of image i.
HasPage(mem, p, i, q) ==
  \A k \in 0..(PageWords - 1), b \in 1..WordBytes :
    Offset(q, k, b) <= Size[i] => mem[WordIn(p, k)][b] = <<i, Offset(q, k, b)>>

HasAll(mem, i, up) == \A q \in Pages : HasPage(mem, q + up, i, q)

\* After n copies of a swap: old goes up into DFU, new down into ACTIVE, from
\* the last page to the first.
Swapping(act, upd, n, old, new) ==
  \A q \in Pages :
    /\ n <= (2 * (ActivePages - q)) - 2 => HasPage(act, q, old, q)
    /\ n >= (2 * (ActivePages - q)) - 1 => HasPage(upd, q + 1, old, q)
    /\ n <= (2 * (ActivePages - q)) - 1 => HasPage(upd, q, new, q)
    /\ n >= 2 * (ActivePages - q) => HasPage(act, q, new, q)

\* After n copies, the swap included: old comes back, from the first page on.
Reverting(act, upd, n, old) ==
  \A q \in Pages :
    /\ n - SwapSteps <= (2 * q) + 1 => HasPage(upd, q + 1, old, q)
    /\ n - SwapSteps >= (2 * q) + 2 => HasPage(act, q, old, q)

\* The image the bootloader goes back to.
Prior == IF replaced = NoImage THEN installed ELSE replaced

PagesKept(act, upd, n, old, new) ==
  /\ n <= SwapSteps => Swapping(act, upd, n, old, new)
  /\ n >= SwapSteps => Reverting(act, upd, n, old)

SwapInv ==
  /\ magic # "swap" => HasAll(active, installed, 0)
  /\ magic = "swap" => PagesKept(active, dfu, progress, Prior, image)
  /\ phase = "swap" => replaced = NoImage /\ progress <= SwapSteps
  /\ phase \in {"keys", "confirm"} /\ magic = "swap" =>
       progress = SwapSteps /\ installed = image
  /\ phase = "run" /\ magic = "swap" /\ progress # 0 =>
       progress = SwapSteps /\ installed = image

LEMMA SwapInvNext ==
  SwapInv' <=>
    /\ magic' # "swap" => HasAll(active', installed', 0)
    /\ magic' = "swap" => PagesKept(active', dfu', progress', Prior', image')
    /\ phase' = "swap" => replaced' = NoImage /\ progress' <= SwapSteps
    /\ phase' \in {"keys", "confirm"} /\ magic' = "swap" =>
         progress' = SwapSteps /\ installed' = image'
    /\ phase' = "run" /\ magic' = "swap" /\ progress' # 0 =>
         progress' = SwapSteps /\ installed' = image'
BY DEF SwapInv, HasAll, PagesKept, Swapping, Reverting, HasPage, Offset, WordIn,
       Pages, SwapSteps

\* A page is what its words are.
LEMMA SamePage ==
  ASSUME NEW mem, NEW p, NEW left, NEW s,
         \A k \in 0..(PageWords - 1) : left[WordIn(s, k)] = mem[WordIn(p, k)]
  PROVE  \A i, q : HasPage(mem, p, i, q) => HasPage(left, s, i, q)
<1> SUFFICES ASSUME NEW i, NEW q, HasPage(mem, p, i, q),
                    NEW k \in 0..(PageWords - 1), NEW b \in 1..WordBytes,
                    Offset(q, k, b) <= Size[i]
             PROVE  left[WordIn(s, k)][b] = <<i, Offset(q, k, b)>>
  BY DEF HasPage
<1>1. left[WordIn(s, k)] = mem[WordIn(p, k)]
  OBVIOUS
<1>2. mem[WordIn(p, k)][b] = <<i, Offset(q, k, b)>>
  BY DEF HasPage
<1> QED BY <1>1, <1>2

\* Byte b of a word is where ByteAt finds it.
LEMMA ByteOfWord ==
  ASSUME NEW w \in Nat, NEW b \in 1..WordBytes
  PROVE  /\ (w * WordBytes) + b \in Nat \ {0}
         /\ \A mem : ByteAt(mem, (w * WordBytes) + b) = mem[w][b]
<1> DEFINE p == (w * WordBytes) + b
<1>1. WordBytes \in Nat \ {0}
  BY SizesNat
<1>2. w * WordBytes \in Nat /\ w * WordBytes = WordBytes * w
  BY <1>1
<1>3. b - 1 \in 0..(WordBytes - 1) /\ (b - 1) + 1 = b
  BY <1>1
<1>4. p \in Nat \ {0} /\ p - 1 = (WordBytes * w) + (b - 1)
  BY <1>1, <1>2
<1> HIDE DEF p
<1>5. (p - 1) \div WordBytes = w /\ (p - 1) % WordBytes = b - 1
  BY <1>1, <1>3, <1>4, QuotientIs, RemainderIs
<1>6. \A mem : ByteAt(mem, p) = mem[w][b]
  BY <1>3, <1>5 DEF ByteAt
<1> QED BY <1>4, <1>6 DEF p

LEMMA ByteOffset ==
  ASSUME NEW q \in Nat, NEW k \in 0..(PageWords - 1), NEW b \in 1..WordBytes
  PROVE  /\ Offset(q, k, b) \in Nat \ {0}
         /\ \A mem : ByteAt(mem, Offset(q, k, b)) = mem[WordIn(q, k)][b]
<1>1. PageWords \in Nat \ {0}
  BY SizesNat
<1>2. q * PageWords \in Nat
  BY <1>1
<1>3. WordIn(q, k) \in Nat
  BY <1>1, <1>2 DEF WordIn
<1> HIDE DEF WordIn
<1> QED BY <1>3, ByteOfWord DEF Offset

\* A partition that holds an image has all its pages, and the other way round.
LEMMA HoldsPages ==
  ASSUME NEW mem, NEW words, NEW i \in Images \cup {Factory},
         Holds(mem, words, i)
  PROVE  HasAll(mem, i, 0)
<1> SUFFICES ASSUME NEW q \in Pages, NEW k \in 0..(PageWords - 1),
                    NEW b \in 1..WordBytes, Offset(q, k, b) <= Size[i]
             PROVE  mem[WordIn(q + 0, k)][b] = <<i, Offset(q, k, b)>>
  BY DEF HasAll, HasPage
<1>1. q \in Nat /\ q + 0 = q
  BY LayoutAssumption DEF Pages
<1>2. Size[i] \in Nat
  BY ImageAssumption
<1>3. Offset(q, k, b) \in 1..Size[i]
  BY <1>1, <1>2, ByteOffset
<1> QED BY <1>1, <1>3, ByteOffset DEF Holds

LEMMA PagesHold ==
  ASSUME NEW mem, NEW i \in Images \cup {Factory}, HasAll(mem, i, 0),
         Size[i] <= Capacity(ActiveWords)
  PROVE  Holds(mem, ActiveWords, i)
<1> SUFFICES ASSUME NEW p \in 1..Size[i] PROVE ByteAt(mem, p) = <<i, p>>
  BY DEF Holds
<1> DEFINE w == (p - 1) \div WordBytes
           b == ((p - 1) % WordBytes) + 1
           q == w \div PageWords
           k == w % PageWords
<1>1. WordBytes \in Nat \ {0} /\ PageWords \in Nat \ {0}
  BY SizesNat
<1>2. Size[i] \in Nat /\ Capacity(ActiveWords) \in Nat
  BY ImageAssumption, SizesNat DEF Capacity
<1>3. p \in Nat \ {0} /\ p <= Capacity(ActiveWords)
  BY <1>2
<1>4. w \in 0..(DfuWords - 1) /\ PageOf(w) < ActivePages
  BY <1>3, BytePage
<1>5. w \in Nat /\ p - 1 = (WordBytes * w) + (b - 1) /\ b \in 1..WordBytes
  BY <1>1, <1>3
<1>6. q < ActivePages
  BY <1>4 DEF PageOf
<1>7. ByteAt(mem, p) = mem[w][b]
  BY DEF ByteAt
<1> HIDE DEF w, b
<1>8. q \in Nat /\ w = (PageWords * q) + k /\ k \in 0..(PageWords - 1)
  BY <1>1, <1>5
<1> HIDE DEF q, k
<1>9. WordIn(q, k) = w /\ WordIn(q + 0, k) = w /\ q \in Pages
  <2>1. q * PageWords = PageWords * q
    BY <1>1, <1>8
  <2> QED BY <1>1, <1>6, <1>8, <2>1, LayoutAssumption DEF WordIn, Pages
<1>10. Offset(q, k, b) = p
  <2>1. w * WordBytes = WordBytes * w /\ WordBytes * w \in Int
    BY <1>1, <1>5
  <2> QED BY <1>1, <1>3, <1>5, <1>9, <2>1 DEF Offset
<1>11. Offset(q, k, b) <= Size[i]
  BY <1>2, <1>10
<1>12. mem[WordIn(q + 0, k)][b] = <<i, Offset(q, k, b)>>
  BY <1>5, <1>8, <1>9, <1>11 DEF HasAll, HasPage
<1> QED BY <1>7, <1>9, <1>10, <1>12
\* The sizes of the partitions, in pages.
LEMMA Layout ==
  /\ ActiveWords = ActivePages * PageWords /\ DfuWords = DfuPages * PageWords
  /\ ActivePages \in Nat \ {0} /\ DfuPages \in Nat /\ DfuPages > ActivePages + 1
  /\ SwapSteps = 2 * ActivePages
BY LayoutAssumption DEF ActiveWords, DfuWords, SwapSteps

LEMMA MemoriesOf ==
  ASSUME TypeInv
  PROVE  /\ active \in Memory(ActivePages * PageWords)
         /\ dfu \in Memory(DfuPages * PageWords)
BY DEF TypeInv, TypeOK, Memory, ActiveWords, DfuWords

\* A finished swap is the start of the way back.
LEMMA TurningPoint ==
  ASSUME NEW act, NEW upd, NEW old, NEW new, NEW n, n = SwapSteps,
         Swapping(act, upd, n, old, new)
  PROVE  Reverting(act, upd, n, old)
<1> SUFFICES ASSUME NEW q \in Pages
             PROVE  /\ n - SwapSteps <= (2 * q) + 1 => HasPage(upd, q + 1, old, q)
                    /\ n - SwapSteps >= (2 * q) + 2 => HasPage(act, q, old, q)
  BY DEF Reverting
<1>1. q \in Nat /\ q < ActivePages
  BY Layout DEF Pages
<1>2. n >= (2 * (ActivePages - q)) - 1 /\ ~(n - SwapSteps >= (2 * q) + 2)
  BY <1>1, Layout
<1> QED BY <1>2 DEF Swapping

\* A copy of a swap.
LEMMA SwapCopy ==
  ASSUME NEW act, NEW upd, NEW act2, NEW upd2, NEW old, NEW new,
         NEW n \in Nat, NEW q \in Pages, Swapping(act, upd, n, old, new),
         \A r \in Pages : \A i : r # q => (HasPage(act, r, i, r) => HasPage(act2, r, i, r)),
         \/ /\ n = (2 * (ActivePages - q)) - 2
            /\ act2 = act
            /\ HasPage(act, q, old, q) => HasPage(upd2, q + 1, old, q)
            /\ \A p \in 0..ActivePages : \A i, r :
                 p # q + 1 => (HasPage(upd, p, i, r) => HasPage(upd2, p, i, r))
         \/ /\ n = (2 * (ActivePages - q)) - 1
            /\ upd2 = upd
            /\ HasPage(upd, q, new, q) => HasPage(act2, q, new, q)
  PROVE  Swapping(act2, upd2, n + 1, old, new)
<1> SUFFICES ASSUME NEW r \in Pages
             PROVE  /\ n + 1 <= (2 * (ActivePages - r)) - 2 => HasPage(act2, r, old, r)
                    /\ n + 1 >= (2 * (ActivePages - r)) - 1 => HasPage(upd2, r + 1, old, r)
                    /\ n + 1 <= (2 * (ActivePages - r)) - 1 => HasPage(upd2, r, new, r)
                    /\ n + 1 >= 2 * (ActivePages - r) => HasPage(act2, r, new, r)
  BY DEF Swapping
<1>1. q \in Nat /\ r \in Nat /\ ActivePages \in Nat /\ r + 1 \in 0..ActivePages /\ r \in 0..ActivePages
  BY Layout DEF Pages
<1>2. /\ n <= (2 * (ActivePages - r)) - 2 => HasPage(act, r, old, r)
      /\ n >= (2 * (ActivePages - r)) - 1 => HasPage(upd, r + 1, old, r)
      /\ n <= (2 * (ActivePages - r)) - 1 => HasPage(upd, r, new, r)
      /\ n >= 2 * (ActivePages - r) => HasPage(act, r, new, r)
  BY DEF Swapping
<1>3. CASE /\ n = (2 * (ActivePages - q)) - 2
           /\ act2 = act
           /\ HasPage(act, q, old, q) => HasPage(upd2, q + 1, old, q)
           /\ \A p \in 0..ActivePages : \A i, s :
                p # q + 1 => (HasPage(upd, p, i, s) => HasPage(upd2, p, i, s))
  <2>1. n + 1 <= (2 * (ActivePages - r)) - 2 => HasPage(act2, r, old, r)
    BY <1>1, <1>2, <1>3
  <2>2. n + 1 >= (2 * (ActivePages - r)) - 1 => HasPage(upd2, r + 1, old, r)
    <3>1. CASE r = q
      BY <1>1, <1>2, <1>3, <3>1
    <3>2. CASE r # q /\ n + 1 >= (2 * (ActivePages - r)) - 1
      <4>1. n >= (2 * (ActivePages - r)) - 1 /\ r + 1 # q + 1
        BY <1>1, <1>3, <3>2
      <4> QED BY <1>1, <1>2, <1>3, <4>1
    <3> QED BY <3>1, <3>2
  <2>3. n + 1 <= (2 * (ActivePages - r)) - 1 => HasPage(upd2, r, new, r)
    <3>1. SUFFICES ASSUME n + 1 <= (2 * (ActivePages - r)) - 1
                   PROVE  HasPage(upd2, r, new, r)
      OBVIOUS
    <3>2. n <= (2 * (ActivePages - r)) - 1 /\ r # q + 1
      BY <1>1, <1>3, <3>1
    <3> QED BY <1>1, <1>2, <1>3, <3>2
  <2>4. n + 1 >= 2 * (ActivePages - r) => HasPage(act2, r, new, r)
    <3>1. SUFFICES ASSUME n + 1 >= 2 * (ActivePages - r)
                   PROVE  HasPage(act2, r, new, r)
      OBVIOUS
    <3>2. n >= 2 * (ActivePages - r)
      BY <1>1, <1>3, <3>1
    <3> QED BY <1>2, <1>3, <3>2
  <2> QED BY <2>1, <2>2, <2>3, <2>4
<1>4. CASE /\ n = (2 * (ActivePages - q)) - 1
           /\ upd2 = upd
           /\ HasPage(upd, q, new, q) => HasPage(act2, q, new, q)
  <2>1. n + 1 <= (2 * (ActivePages - r)) - 2 => HasPage(act2, r, old, r)
    <3>1. SUFFICES ASSUME n + 1 <= (2 * (ActivePages - r)) - 2
                   PROVE  HasPage(act2, r, old, r)
      OBVIOUS
    <3>2. n <= (2 * (ActivePages - r)) - 2 /\ r # q
      BY <1>1, <1>4, <3>1
    <3> QED BY <1>2, <3>2
  <2>2. n + 1 >= (2 * (ActivePages - r)) - 1 => HasPage(upd2, r + 1, old, r)
    <3>1. SUFFICES ASSUME n + 1 >= (2 * (ActivePages - r)) - 1
                   PROVE  HasPage(upd2, r + 1, old, r)
      OBVIOUS
    <3>2. n >= (2 * (ActivePages - r)) - 1
      BY <1>1, <1>4, <3>1
    <3> QED BY <1>2, <1>4, <3>2
  <2>3. n + 1 <= (2 * (ActivePages - r)) - 1 => HasPage(upd2, r, new, r)
    BY <1>1, <1>2, <1>4
  <2>4. n + 1 >= 2 * (ActivePages - r) => HasPage(act2, r, new, r)
    <3>1. SUFFICES ASSUME n + 1 >= 2 * (ActivePages - r)
                   PROVE  HasPage(act2, r, new, r)
      OBVIOUS
    <3>2. CASE r = q
      BY <1>1, <1>2, <1>4, <3>2
    <3>3. CASE r # q
      <4>1. n >= 2 * (ActivePages - r)
        BY <1>1, <1>4, <3>1, <3>3
      <4> QED BY <1>2, <3>3, <4>1
    <3> QED BY <3>2, <3>3
  <2> QED BY <2>1, <2>2, <2>3, <2>4
<1> QED BY <1>3, <1>4

\* A copy of the way back.
LEMMA RevertCopy ==
  ASSUME NEW act, NEW upd, NEW act2, NEW upd2, NEW old,
         NEW n \in Nat, NEW q \in Pages, Reverting(act, upd, n, old),
         \A r \in Pages : \A i : r # q => (HasPage(act, r, i, r) => HasPage(act2, r, i, r)),
         \/ /\ n - SwapSteps = 2 * q
            /\ act2 = act
            /\ \A p \in 0..ActivePages : \A i, r :
                 p # q => (HasPage(upd, p, i, r) => HasPage(upd2, p, i, r))
         \/ /\ n - SwapSteps = (2 * q) + 1
            /\ upd2 = upd
            /\ HasPage(upd, q + 1, old, q) => HasPage(act2, q, old, q)
  PROVE  Reverting(act2, upd2, n + 1, old)
<1> SUFFICES ASSUME NEW r \in Pages
             PROVE  /\ (n + 1) - SwapSteps <= (2 * r) + 1 => HasPage(upd2, r + 1, old, r)
                    /\ (n + 1) - SwapSteps >= (2 * r) + 2 => HasPage(act2, r, old, r)
  BY DEF Reverting
<1>1. /\ q \in Nat /\ r \in Nat /\ ActivePages \in Nat /\ SwapSteps \in Nat
      /\ r + 1 \in 0..ActivePages /\ r \in 0..ActivePages
  BY Layout DEF Pages
<1>2. /\ n - SwapSteps <= (2 * r) + 1 => HasPage(upd, r + 1, old, r)
      /\ n - SwapSteps >= (2 * r) + 2 => HasPage(act, r, old, r)
  BY DEF Reverting
<1> HIDE DEF SwapSteps
<1>3. CASE /\ n - SwapSteps = 2 * q
           /\ act2 = act
           /\ \A p \in 0..ActivePages : \A i, s :
                p # q => (HasPage(upd, p, i, s) => HasPage(upd2, p, i, s))
  <2>1. (n + 1) - SwapSteps <= (2 * r) + 1 => HasPage(upd2, r + 1, old, r)
    <3>1. SUFFICES ASSUME (n + 1) - SwapSteps <= (2 * r) + 1
                   PROVE  HasPage(upd2, r + 1, old, r)
      OBVIOUS
    <3>2. n - SwapSteps <= (2 * r) + 1 /\ r + 1 # q
      BY <1>1, <1>3, <3>1
    <3> QED BY <1>1, <1>2, <1>3, <3>2
  <2>2. (n + 1) - SwapSteps >= (2 * r) + 2 => HasPage(act2, r, old, r)
    <3>1. SUFFICES ASSUME (n + 1) - SwapSteps >= (2 * r) + 2
                   PROVE  HasPage(act2, r, old, r)
      OBVIOUS
    <3>2. n - SwapSteps >= (2 * r) + 2
      BY <1>1, <1>3, <3>1
    <3> QED BY <1>2, <1>3, <3>2
  <2> QED BY <2>1, <2>2
<1>4. CASE /\ n - SwapSteps = (2 * q) + 1
           /\ upd2 = upd
           /\ HasPage(upd, q + 1, old, q) => HasPage(act2, q, old, q)
  <2>1. (n + 1) - SwapSteps <= (2 * r) + 1 => HasPage(upd2, r + 1, old, r)
    BY <1>1, <1>2, <1>4
  <2>2. (n + 1) - SwapSteps >= (2 * r) + 2 => HasPage(act2, r, old, r)
    <3>1. SUFFICES ASSUME (n + 1) - SwapSteps >= (2 * r) + 2
                   PROVE  HasPage(act2, r, old, r)
      OBVIOUS
    <3>2. CASE r = q
      BY <1>1, <1>2, <1>4, <3>2
    <3>3. CASE r # q
      <4>1. n - SwapSteps >= (2 * r) + 2
        BY <1>1, <1>4, <3>1, <3>3
      <4> QED BY <1>2, <3>3, <4>1
    <3> QED BY <3>2, <3>3
  <2> QED BY <2>1, <2>2
<1> QED BY <1>3, <1>4
\* The page that a copy is cut short in is not one that is needed.
LEMMA SwapSpoilt ==
  ASSUME NEW act, NEW upd, NEW act2, NEW upd2, NEW old, NEW new,
         NEW n \in Nat, NEW q \in Pages, Swapping(act, upd, n, old, new),
         \/ /\ n = (2 * (ActivePages - q)) - 2
            /\ act2 = act
            /\ \A p \in 0..ActivePages : \A i, r :
                 p # q + 1 => (HasPage(upd, p, i, r) => HasPage(upd2, p, i, r))
         \/ /\ n = (2 * (ActivePages - q)) - 1
            /\ upd2 = upd
            /\ \A r \in Pages : \A i : r # q => (HasPage(act, r, i, r) => HasPage(act2, r, i, r))
         \/ /\ n - SwapSteps = 2 * q
            /\ n <= SwapSteps
            /\ act2 = act
            /\ \A p \in 0..ActivePages : \A i, r :
                 p # q => (HasPage(upd, p, i, r) => HasPage(upd2, p, i, r))
  PROVE  Swapping(act2, upd2, n, old, new)
<1> SUFFICES ASSUME NEW r \in Pages
             PROVE  /\ n <= (2 * (ActivePages - r)) - 2 => HasPage(act2, r, old, r)
                    /\ n >= (2 * (ActivePages - r)) - 1 => HasPage(upd2, r + 1, old, r)
                    /\ n <= (2 * (ActivePages - r)) - 1 => HasPage(upd2, r, new, r)
                    /\ n >= 2 * (ActivePages - r) => HasPage(act2, r, new, r)
  BY DEF Swapping
<1>1. /\ q \in Nat /\ r \in Nat /\ ActivePages \in Nat /\ r < ActivePages
      /\ r + 1 \in 0..ActivePages /\ r \in 0..ActivePages
  BY Layout DEF Pages
<1>2. /\ n <= (2 * (ActivePages - r)) - 2 => HasPage(act, r, old, r)
      /\ n >= (2 * (ActivePages - r)) - 1 => HasPage(upd, r + 1, old, r)
      /\ n <= (2 * (ActivePages - r)) - 1 => HasPage(upd, r, new, r)
      /\ n >= 2 * (ActivePages - r) => HasPage(act, r, new, r)
  BY DEF Swapping
<1>3. CASE /\ n = (2 * (ActivePages - q)) - 2
           /\ act2 = act
           /\ \A p \in 0..ActivePages : \A i, s :
                p # q + 1 => (HasPage(upd, p, i, s) => HasPage(upd2, p, i, s))
  <2>1. n >= (2 * (ActivePages - r)) - 1 => r + 1 # q + 1
    BY <1>1, <1>3
  <2>2. n <= (2 * (ActivePages - r)) - 1 => r # q + 1
    BY <1>1, <1>3
  <2> QED BY <1>1, <1>2, <1>3, <2>1, <2>2
<1>4. CASE /\ n = (2 * (ActivePages - q)) - 1
           /\ upd2 = upd
           /\ \A s \in Pages : \A i : s # q => (HasPage(act, s, i, s) => HasPage(act2, s, i, s))
  <2>1. n <= (2 * (ActivePages - r)) - 2 \/ n >= 2 * (ActivePages - r) => r # q
    BY <1>1, <1>4
  <2> QED BY <1>2, <1>4, <2>1
<1>5. CASE /\ n - SwapSteps = 2 * q
           /\ n <= SwapSteps
           /\ act2 = act
           /\ \A p \in 0..ActivePages : \A i, s :
                p # q => (HasPage(upd, p, i, s) => HasPage(upd2, p, i, s))
  <2>1. q = 0 /\ ~(n <= (2 * (ActivePages - r)) - 1)
    BY <1>1, <1>5, Layout
  <2>2. r + 1 # q
    BY <1>1, <2>1
  <2> QED BY <1>1, <1>2, <1>5, <2>1, <2>2
<1> QED BY <1>3, <1>4, <1>5

LEMMA RevertSpoilt ==
  ASSUME NEW act, NEW upd, NEW act2, NEW upd2, NEW old,
         NEW n \in Nat, NEW q \in Pages, Reverting(act, upd, n, old),
         \/ /\ n - SwapSteps = 2 * q
            /\ act2 = act
            /\ \A p \in 0..ActivePages : \A i, r :
                 p # q => (HasPage(upd, p, i, r) => HasPage(upd2, p, i, r))
         \/ /\ n - SwapSteps = (2 * q) + 1
            /\ upd2 = upd
            /\ \A r \in Pages : \A i : r # q => (HasPage(act, r, i, r) => HasPage(act2, r, i, r))
  PROVE  Reverting(act2, upd2, n, old)
<1> SUFFICES ASSUME NEW r \in Pages
             PROVE  /\ n - SwapSteps <= (2 * r) + 1 => HasPage(upd2, r + 1, old, r)
                    /\ n - SwapSteps >= (2 * r) + 2 => HasPage(act2, r, old, r)
  BY DEF Reverting
<1>1. /\ q \in Nat /\ r \in Nat /\ SwapSteps \in Nat /\ r + 1 \in 0..ActivePages
  BY Layout DEF Pages
<1>2. /\ n - SwapSteps <= (2 * r) + 1 => HasPage(upd, r + 1, old, r)
      /\ n - SwapSteps >= (2 * r) + 2 => HasPage(act, r, old, r)
  BY DEF Reverting
<1> HIDE DEF SwapSteps
<1>3. CASE /\ n - SwapSteps = 2 * q
           /\ act2 = act
           /\ \A p \in 0..ActivePages : \A i, s :
                p # q => (HasPage(upd, p, i, s) => HasPage(upd2, p, i, s))
  <2>1. n - SwapSteps <= (2 * r) + 1 => r + 1 # q
    BY <1>1, <1>3
  <2> QED BY <1>1, <1>2, <1>3, <2>1
<1>4. CASE /\ n - SwapSteps = (2 * q) + 1
           /\ upd2 = upd
           /\ \A s \in Pages : \A i : s # q => (HasPage(act, s, i, s) => HasPage(act2, s, i, s))
  <2>1. n - SwapSteps >= (2 * r) + 2 => r # q
    BY <1>1, <1>4
  <2> QED BY <1>2, <1>4, <2>1
<1> QED BY <1>3, <1>4

\* What a copy, finished or not, does to the pages.
LEMMA CopiedPages ==
  ASSUME NEW n \in Nat, NEW m \in Nat,
         NEW to \in Memory(n * PageWords), NEW from \in Memory(m * PageWords),
         Copy.from_page \in 0..(m - 1), Copy.to_page \in 0..(n - 1)
  PROVE  /\ \A i, r : HasPage(from, Copy.from_page, i, r) =>
                        HasPage(Copied(to, from), Copy.to_page, i, r)
         /\ \A p \in 0..(n - 1) : \A i, r : p # Copy.to_page =>
              (HasPage(to, p, i, r) => HasPage(Copied(to, from), p, i, r))
<1>1. \A p \in 0..(n - 1), k \in 0..(PageWords - 1) :
        Copied(to, from)[WordIn(p, k)] =
          IF p = Copy.to_page THEN from[WordIn(Copy.from_page, k)] ELSE to[WordIn(p, k)]
  BY CopiedFacts
<1> DEFINE f == Copy.from_page
           t == Copy.to_page
           left == Copied(to, from)
<1>2. \A k \in 0..(PageWords - 1) : left[WordIn(t, k)] = from[WordIn(f, k)]
  BY <1>1
<1>3. \A p \in 0..(n - 1), k \in 0..(PageWords - 1) :
        p # t => left[WordIn(p, k)] = to[WordIn(p, k)]
  BY <1>1
<1> HIDE DEF f, t, left
<1>4. \A i, r : HasPage(from, f, i, r) => HasPage(left, t, i, r)
  BY <1>2, SamePage
<1>5. ASSUME NEW p \in 0..(n - 1), p # t
      PROVE  \A i, r : HasPage(to, p, i, r) => HasPage(left, p, i, r)
  BY <1>3, <1>5, SamePage
<1> QED BY <1>4, <1>5 DEF f, t, left

LEMMA SpoiltPages ==
  ASSUME NEW n \in Nat, NEW to \in Memory(n * PageWords), NEW t
  PROVE  \A p \in 0..(n - 1) : \A i, r : p # t =>
           (HasPage(to, p, i, r) => HasPage(Spoil(to, {t}), p, i, r))
<1>1. ASSUME NEW p \in 0..(n - 1), p # t, NEW k \in 0..(PageWords - 1)
      PROVE  Spoil(to, {t})[WordIn(p, k)] = to[WordIn(p, k)]
  <2>1. WordIn(p, k) \in 0..((n * PageWords) - 1) /\ PageOf(WordIn(p, k)) = p
    BY WordOfPage
  <2> QED BY <1>1, <2>1 DEF Spoil, Memory
<1>2. ASSUME NEW p \in 0..(n - 1), p # t
      PROVE  \A i, r : HasPage(to, p, i, r) => HasPage(Spoil(to, {t}), p, i, r)
  BY <1>1, <1>2, SamePage
<1> QED BY <1>2
\* What the pages are before a copy, and where the copy is.
LEMMA BeforeCopy ==
  ASSUME TypeInv, StoreInv, SwapInv, MoreCopies
  PROVE  /\ magic = "swap" /\ progress \in Nat
         /\ phase \in {"swap", "revert"}
         /\ phase = "swap" => /\ progress < SwapSteps
                              /\ Swapping(active, dfu, progress, Prior, image)
         /\ phase = "revert" => progress >= SwapSteps
         /\ progress >= SwapSteps => Reverting(active, dfu, progress, Prior)
         /\ progress <= SwapSteps => Swapping(active, dfu, progress, Prior, image)
<1>1. phase \in {"swap", "revert"} /\ (phase = "swap" => progress < SwapSteps)
  BY DEF MoreCopies
<1>2. magic = "swap" /\ progress \in Nat
  BY <1>1 DEF StoreInv, ProgressInv
<1>3. PagesKept(active, dfu, progress, Prior, image)
  BY <1>2 DEF SwapInv
<1>4. SwapSteps \in Nat
  BY SizesNat
<1> HIDE DEF SwapSteps
<1> QED BY <1>1, <1>2, <1>3, <1>4 DEF PagesKept, TypeInv

LEMMA CopyKeepsPages ==
  ASSUME TypeInv, StoreInv, SwapInv, CopyPage
  PROVE  PagesKept(active', dfu', progress', Prior', image')
<1> DEFINE n == progress
           old == Prior
           new == image
<1>1. /\ MoreCopies /\ progress' = n + 1 /\ Prior' = old /\ image' = new
  BY DEF CopyPage, Prior, image_vars
<1>2. /\ n \in Nat /\ SwapSteps \in Nat /\ phase \in {"swap", "revert"}
      /\ phase = "swap" => n < SwapSteps /\ Swapping(active, dfu, n, old, new)
      /\ phase = "revert" => n >= SwapSteps /\ Reverting(active, dfu, n, old)
  BY <1>1, BeforeCopy, SizesNat
<1>3. /\ active \in Memory(ActivePages * PageWords)
      /\ dfu \in Memory(DfuPages * PageWords)
      /\ ActivePages \in Nat /\ DfuPages \in Nat /\ DfuPages > ActivePages + 1
  BY MemoriesOf, Layout
<1>4. PICK q \in Pages :
        \/ /\ phase = "swap" /\ n = (2 * (ActivePages - q)) - 2
           /\ Copy = [to |-> "dfu", from_page |-> q, to_page |-> q + 1]
        \/ /\ phase = "swap" /\ n = (2 * (ActivePages - q)) - 1
           /\ Copy = [to |-> "active", from_page |-> q, to_page |-> q]
        \/ /\ phase = "revert" /\ n - SwapSteps = 2 * q
           /\ Copy = [to |-> "dfu", from_page |-> q, to_page |-> q]
        \/ /\ phase = "revert" /\ n - SwapSteps = (2 * q) + 1
           /\ Copy = [to |-> "active", from_page |-> q + 1, to_page |-> q]
  BY <1>1, CopyShape
<1>5. /\ q \in 0..(ActivePages - 1) /\ q \in 0..(DfuPages - 1)
      /\ q + 1 \in 0..(DfuPages - 1) /\ 0..ActivePages \subseteq 0..(DfuPages - 1)
      /\ Pages = 0..(ActivePages - 1)
  BY <1>3 DEF Pages
<1>6. /\ Copy.to = "dfu" => active' = active /\ dfu' = Copied(dfu, active)
      /\ Copy.to # "dfu" => dfu' = dfu /\ active' = Copied(active, dfu)
  BY DEF CopyPage
<1> HIDE DEF n, old, new, SwapSteps
<1>7. CASE /\ phase = "swap" /\ n = (2 * (ActivePages - q)) - 2
           /\ Copy = [to |-> "dfu", from_page |-> q, to_page |-> q + 1]
  <2>1. /\ active' = active /\ dfu' = Copied(dfu, active)
        /\ Copy.from_page = q /\ Copy.to_page = q + 1
    BY <1>6, <1>7
  <2>2. /\ \A i, r : HasPage(active, q, i, r) => HasPage(dfu', q + 1, i, r)
        /\ \A p \in 0..(DfuPages - 1) : \A i, r : p # q + 1 =>
             (HasPage(dfu, p, i, r) => HasPage(dfu', p, i, r))
    BY <1>3, <1>5, <2>1, CopiedPages
  <2>3. Swapping(active', dfu', n + 1, old, new)
    BY <1>2, <1>5, <1>7, <2>1, <2>2, SwapCopy
  <2> QED BY <1>1, <1>2, <1>7, <2>3, TurningPoint DEF PagesKept
<1>8. CASE /\ phase = "swap" /\ n = (2 * (ActivePages - q)) - 1
           /\ Copy = [to |-> "active", from_page |-> q, to_page |-> q]
  <2>1. /\ dfu' = dfu /\ active' = Copied(active, dfu)
        /\ Copy.from_page = q /\ Copy.to_page = q
    BY <1>6, <1>8
  <2>2. /\ \A i, r : HasPage(dfu, q, i, r) => HasPage(active', q, i, r)
        /\ \A p \in 0..(ActivePages - 1) : \A i, r : p # q =>
             (HasPage(active, p, i, r) => HasPage(active', p, i, r))
    BY <1>3, <1>5, <2>1, CopiedPages
  <2>3. Swapping(active', dfu', n + 1, old, new)
    BY <1>2, <1>5, <1>8, <2>1, <2>2, SwapCopy
  <2> QED BY <1>1, <1>2, <1>8, <2>3, TurningPoint DEF PagesKept
<1>9. CASE /\ phase = "revert" /\ n - SwapSteps = 2 * q
           /\ Copy = [to |-> "dfu", from_page |-> q, to_page |-> q]
  <2>1. /\ active' = active /\ dfu' = Copied(dfu, active)
        /\ Copy.from_page = q /\ Copy.to_page = q
    BY <1>6, <1>9
  <2>2. \A p \in 0..(DfuPages - 1) : \A i, r : p # q =>
          (HasPage(dfu, p, i, r) => HasPage(dfu', p, i, r))
    BY <1>3, <1>5, <2>1, CopiedPages
  <2>3. Reverting(active', dfu', n + 1, old)
    BY <1>2, <1>5, <1>9, <2>1, <2>2, RevertCopy
  <2> QED BY <1>1, <1>2, <1>9, <2>3 DEF PagesKept
<1>10. CASE /\ phase = "revert" /\ n - SwapSteps = (2 * q) + 1
            /\ Copy = [to |-> "active", from_page |-> q + 1, to_page |-> q]
  <2>1. /\ dfu' = dfu /\ active' = Copied(active, dfu)
        /\ Copy.from_page = q + 1 /\ Copy.to_page = q
    BY <1>6, <1>10
  <2>2. /\ \A i, r : HasPage(dfu, q + 1, i, r) => HasPage(active', q, i, r)
        /\ \A p \in 0..(ActivePages - 1) : \A i, r : p # q =>
             (HasPage(active, p, i, r) => HasPage(active', p, i, r))
    BY <1>3, <1>5, <2>1, CopiedPages
  <2>3. HasPage(dfu, q + 1, old, q) => HasPage(active', q, old, q)
    BY <2>2
  <2>4. \A r \in Pages : \A i :
          r # q => (HasPage(active, r, i, r) => HasPage(active', r, i, r))
    BY <1>5, <2>2
  <2>5. Reverting(active, dfu, n, old)
    BY <1>2, <1>10
  <2>6. Reverting(active', dfu', n + 1, old)
    BY <1>2, <1>10, <2>1, <2>3, <2>4, <2>5, RevertCopy
  <2> QED BY <1>1, <1>2, <1>10, <2>6 DEF PagesKept
<1> QED BY <1>4, <1>7, <1>8, <1>9, <1>10

LEMMA PowerLossKeepsPages ==
  ASSUME TypeInv, StoreInv, SwapInv, PowerLossInCopy
  PROVE  PagesKept(active', dfu', progress', Prior', image')
<1> DEFINE n == progress
           old == Prior
           new == image
<1>1. /\ MoreCopies /\ progress' = n /\ Prior' = old /\ image' = new
  BY DEF PowerLossInCopy, Prior, image_vars, state_vars
<1>2. /\ n \in Nat /\ SwapSteps \in Nat
      /\ phase = "swap" => n < SwapSteps
      /\ phase = "revert" => n >= SwapSteps
      /\ n >= SwapSteps => Reverting(active, dfu, n, old)
      /\ n <= SwapSteps => Swapping(active, dfu, n, old, new)
  BY <1>1, BeforeCopy, SizesNat
<1>3. /\ active \in Memory(ActivePages * PageWords)
      /\ dfu \in Memory(DfuPages * PageWords)
      /\ ActivePages \in Nat /\ DfuPages \in Nat /\ DfuPages > ActivePages + 1
  BY MemoriesOf, Layout
<1>4. PICK q \in Pages :
        \/ /\ phase = "swap" /\ n = (2 * (ActivePages - q)) - 2
           /\ Copy = [to |-> "dfu", from_page |-> q, to_page |-> q + 1]
        \/ /\ phase = "swap" /\ n = (2 * (ActivePages - q)) - 1
           /\ Copy = [to |-> "active", from_page |-> q, to_page |-> q]
        \/ /\ phase = "revert" /\ n - SwapSteps = 2 * q
           /\ Copy = [to |-> "dfu", from_page |-> q, to_page |-> q]
        \/ /\ phase = "revert" /\ n - SwapSteps = (2 * q) + 1
           /\ Copy = [to |-> "active", from_page |-> q + 1, to_page |-> q]
  BY <1>1, CopyShape
<1>5. 0..ActivePages \subseteq 0..(DfuPages - 1) /\ Pages = 0..(ActivePages - 1)
  BY <1>3 DEF Pages
<1>6. /\ Copy.to = "dfu" => active' = active /\ dfu' = Spoil(dfu, {Copy.to_page})
      /\ Copy.to # "dfu" => dfu' = dfu /\ active' = Spoil(active, {Copy.to_page})
  BY DEF PowerLossInCopy
<1>7. /\ \A p \in 0..(DfuPages - 1) : \A i, r : p # Copy.to_page =>
           (HasPage(dfu, p, i, r) => HasPage(Spoil(dfu, {Copy.to_page}), p, i, r))
      /\ \A p \in 0..(ActivePages - 1) : \A i, r : p # Copy.to_page =>
           (HasPage(active, p, i, r) => HasPage(Spoil(active, {Copy.to_page}), p, i, r))
  BY <1>3, SpoiltPages
<1> HIDE DEF n, old, new, SwapSteps
<1>8. CASE phase = "swap"
  <2>1. Swapping(active, dfu, n, old, new) /\ n < SwapSteps
    BY <1>2, <1>8
  <2>2. \/ /\ n = (2 * (ActivePages - q)) - 2
           /\ active' = active
           /\ \A p \in 0..ActivePages : \A i, r :
                p # q + 1 => (HasPage(dfu, p, i, r) => HasPage(dfu', p, i, r))
        \/ /\ n = (2 * (ActivePages - q)) - 1
           /\ dfu' = dfu
           /\ \A r \in Pages : \A i :
                r # q => (HasPage(active, r, i, r) => HasPage(active', r, i, r))
    <3>1. CASE /\ n = (2 * (ActivePages - q)) - 2
               /\ Copy = [to |-> "dfu", from_page |-> q, to_page |-> q + 1]
      <4>1. Copy.to = "dfu" /\ Copy.to_page = q + 1
        BY <3>1
      <4> QED BY <1>5, <1>6, <1>7, <3>1, <4>1
    <3>2. CASE /\ n = (2 * (ActivePages - q)) - 1
               /\ Copy = [to |-> "active", from_page |-> q, to_page |-> q]
      <4>1. Copy.to # "dfu" /\ Copy.to_page = q
        BY <3>2
      <4> QED BY <1>5, <1>6, <1>7, <3>2, <4>1
    <3> QED BY <1>4, <1>8, <3>1, <3>2
  <2>3. Swapping(active', dfu', n, old, new)
    BY <1>2, <2>1, <2>2, SwapSpoilt
  <2> QED BY <1>1, <1>2, <2>1, <2>3 DEF PagesKept
<1>9. CASE phase = "revert"
  <2>1. Reverting(active, dfu, n, old) /\ n >= SwapSteps
    BY <1>2, <1>9
  <2>2. \/ /\ n - SwapSteps = 2 * q
           /\ active' = active
           /\ \A p \in 0..ActivePages : \A i, r :
                p # q => (HasPage(dfu, p, i, r) => HasPage(dfu', p, i, r))
        \/ /\ n - SwapSteps = (2 * q) + 1
           /\ dfu' = dfu
           /\ \A r \in Pages : \A i :
                r # q => (HasPage(active, r, i, r) => HasPage(active', r, i, r))
    <3>1. CASE /\ n - SwapSteps = 2 * q
               /\ Copy = [to |-> "dfu", from_page |-> q, to_page |-> q]
      <4>1. Copy.to = "dfu" /\ Copy.to_page = q
        BY <3>1
      <4> QED BY <1>5, <1>6, <1>7, <3>1, <4>1
    <3>2. CASE /\ n - SwapSteps = (2 * q) + 1
               /\ Copy = [to |-> "active", from_page |-> q + 1, to_page |-> q]
      <4>1. Copy.to # "dfu" /\ Copy.to_page = q
        BY <3>2
      <4> QED BY <1>5, <1>6, <1>7, <3>2, <4>1
    <3> QED BY <1>4, <1>9, <3>1, <3>2
  <2>3. Reverting(active', dfu', n, old)
    BY <1>2, <2>1, <2>2, RevertSpoilt
  <2>4. ASSUME n <= SwapSteps PROVE Swapping(active', dfu', n, old, new)
    <3>1. n = SwapSteps /\ q \in Nat
      BY <1>2, <1>3, <1>5, <2>1, <2>4
    <3>2. n - SwapSteps # (2 * q) + 1
      BY <1>2, <3>1
    <3> QED BY <1>2, <2>2, <2>4, <3>2, SwapSpoilt
  <2> QED BY <1>1, <2>3, <2>4 DEF PagesKept
<1> QED BY <1>4, <1>8, <1>9
\* A swap that is announced starts with the old image in ACTIVE and the new
\* one in DFU.
LEMMA ArmedPages ==
  ASSUME NEW act, NEW upd, NEW old, NEW new, HasAll(act, old, 0), HasAll(upd, new, 0)
  PROVE  PagesKept(act, upd, 0, old, new)
<1>1. SwapSteps \in Nat /\ SwapSteps > 0 /\ ActivePages \in Nat \ {0}
  BY Layout
<1>2. ASSUME NEW q \in Pages
      PROVE  /\ HasPage(act, q, old, q) /\ HasPage(upd, q, new, q)
             /\ ~(0 >= (2 * (ActivePages - q)) - 1) /\ ~(0 >= 2 * (ActivePages - q))
  <2>1. q \in Nat /\ q < ActivePages /\ q + 0 = q
    BY <1>1 DEF Pages
  <2>2. HasPage(act, q + 0, old, q) /\ HasPage(upd, q + 0, new, q)
    BY DEF HasAll
  <2> QED BY <1>1, <2>1, <2>2
<1>3. Swapping(act, upd, 0, old, new)
  BY <1>2 DEF Swapping
<1> HIDE DEF SwapSteps
<1> QED BY <1>1, <1>3 DEF PagesKept

LEMMA SwapInvHandlers ==
  ASSUME TypeInv, StoreInv, SwapInv, ArmedWholeInv', confirm_error' # "fatal",
         Download \/ Transfer \/ Exit
  PROVE  SwapInv'
<1>1. /\ phase' \in {"run", "bootloader"} /\ magic # "swap" /\ replaced = NoImage
      /\ installed' = installed /\ replaced' = replaced
  BY HandlersUnarmed
<1>2. active' = active /\ HasAll(active, installed, 0)
  BY <1>1, DownloadFlash DEF SwapInv
<1>3. CASE TransferExit
  <2>1. magic' = "swap" /\ progress' = 0 /\ Prior' = installed
    BY <1>1, <1>3 DEF TransferExit, Prior
  <2>2. image' \in Images /\ Holds(dfu', DfuWords, image')
    BY <2>1 DEF ArmedWholeInv, Holds, Capacity, DfuWords, ByteAt
  <2>3. HasAll(dfu', image', 0)
    BY <2>2, HoldsPages
  <2>4. PagesKept(active', dfu', progress', Prior', image')
    BY <1>2, <2>1, <2>3, ArmedPages
  <2> QED BY <1>1, <2>1, <2>4, SwapInvNext
<1>4. CASE ~TransferExit
  <2>1. magic' # "swap"
    BY <1>1, <1>4, OnlyExitArms DEF state_vars
  <2> QED BY <1>1, <1>2, <2>1, SwapInvNext
<1> QED BY <1>3, <1>4

\* A step that leaves the pages of the images alone.
LEMMA SamePages ==
  ASSUME NEW act, NEW upd, NEW left, NEW n, NEW old, NEW new,
         PagesKept(act, upd, n, old, new),
         \A p \in 0..ActivePages, k \in 0..(PageWords - 1) :
           left[WordIn(p, k)] = upd[WordIn(p, k)]
  PROVE  PagesKept(act, left, n, old, new)
<1>1. ASSUME NEW p \in 0..ActivePages
      PROVE  \A i, q : HasPage(upd, p, i, q) => HasPage(left, p, i, q)
  BY SamePage
<1>2. \A q \in Pages : q \in 0..ActivePages /\ q + 1 \in 0..ActivePages
  BY Layout DEF Pages
<1>3. Swapping(act, upd, n, old, new) => Swapping(act, left, n, old, new)
  BY <1>1, <1>2 DEF Swapping
<1>4. Reverting(act, upd, n, old) => Reverting(act, left, n, old)
  BY <1>1, <1>2 DEF Reverting
<1> QED BY <1>3, <1>4 DEF PagesKept

\* The key page is not one of them.
LEMMA KeyPageApart ==
  ASSUME TypeInv, LoadKeys \/ GenerateKeys \/ PowerLossInKeys
  PROVE  \A p \in 0..ActivePages, k \in 0..(PageWords - 1) :
           dfu'[WordIn(p, k)] = dfu[WordIn(p, k)]
<1>1. \/ dfu' = dfu
      \/ \E first, lost, left : dfu' = KeysWritten(first, lost, left)
      \/ dfu' \in PartErased(dfu, KeyPage, KeyPage)
  <2> HIDE DEF KeysWritten
  <2> QED BY DEF LoadKeys, GenerateKeys, PowerLossInKeys
<1> SUFFICES ASSUME NEW p \in 0..ActivePages, NEW k \in 0..(PageWords - 1)
             PROVE  dfu'[WordIn(p, k)] = dfu[WordIn(p, k)]
  OBVIOUS
<1> DEFINE w == WordIn(p, k)
<1>2. p \in 0..(DfuPages - 1) /\ p # KeyPage /\ KeyPage \in Int
  BY Layout DEF KeyPage
<1>3. w \in 0..((DfuPages * PageWords) - 1) /\ PageOf(w) = p
  BY <1>2, Layout, WordOfPage
<1>4. w \in DOMAIN dfu
  BY <1>3, MemoriesOf DEF Memory
<1> HIDE DEF w
<1>5. ASSUME NEW first, NEW lost, NEW left, dfu' = KeysWritten(first, lost, left)
      PROVE  dfu'[w] = dfu[w]
  BY <1>2, <1>3, <1>4, <1>5 DEF KeysWritten
<1>6. ASSUME dfu' \in PartErased(dfu, KeyPage, KeyPage)
      PROVE  dfu'[w] = dfu[w]
  <2>1. PICK q \in KeyPage..KeyPage :
          dfu' \in {Erase(dfu, KeyPage..(q - 1)), Spoil(Erase(dfu, KeyPage..(q - 1)), {q})}
    BY <1>6 DEF PartErased
  <2>2. q = KeyPage /\ p \notin KeyPage..(q - 1)
    BY <1>2
  <2>3. Erase(dfu, KeyPage..(q - 1))[w] = dfu[w] /\ w \in DOMAIN Erase(dfu, KeyPage..(q - 1))
    BY <1>3, <1>4, <2>2 DEF Erase
  <2>4. Spoil(Erase(dfu, KeyPage..(q - 1)), {q})[w] = dfu[w]
    BY <1>2, <1>3, <2>2, <2>3 DEF Spoil
  <2> QED BY <2>1, <2>3, <2>4
<1> QED BY <1>1, <1>5, <1>6 DEF w

\* After all pages were swapped ACTIVE has the new image.
LEMMA SwappedPages ==
  ASSUME NEW act, NEW upd, NEW old, NEW new, PagesKept(act, upd, SwapSteps, old, new)
  PROVE  HasAll(act, new, 0)
<1>1. SwapSteps \in Nat
  BY SizesNat
<1>2. Swapping(act, upd, SwapSteps, old, new)
  <2> HIDE DEF SwapSteps
  <2> QED BY <1>1 DEF PagesKept
<1>3. ASSUME NEW q \in Pages PROVE HasPage(act, q + 0, new, q)
  <2>1. q \in Nat /\ q + 0 = q /\ SwapSteps >= 2 * (ActivePages - q)
    BY Layout DEF Pages, SwapSteps
  <2> QED BY <1>2, <2>1 DEF Swapping
<1> QED BY <1>3 DEF HasAll

LEMMA SwapInvStartUp ==
  ASSUME TypeInv, StoreInv, SwapInv, StartUp
  PROVE  SwapInv'
<1>1. CASE LoadKeys \/ GenerateKeys \/ PowerLossInKeys
  <2>1. /\ UNCHANGED <<active, magic, progress, image, installed, replaced>>
        /\ phase = "keys" /\ phase' \in {"confirm", "bootloader"}
    BY <1>1 DEF LoadKeys, GenerateKeys, PowerLossInKeys, Restart, state_vars, image_vars
  <2>2. Prior' = Prior
    BY <2>1 DEF Prior
  <2>3. magic = "swap" => PagesKept(active, dfu', progress, Prior, image)
    BY <1>1, KeyPageApart, SamePages DEF SwapInv
  <2>4. /\ magic # "swap" => HasAll(active, installed, 0)
        /\ magic = "swap" => progress = SwapSteps /\ installed = image
    BY <2>1 DEF SwapInv
  <2> QED BY <2>1, <2>2, <2>3, <2>4, SwapInvNext
<1>2. CASE MarkBooted \/ MarkBootedFails \/ PowerLossInMarkBooted
  <2>1. UNCHANGED <<active, dfu, image, installed>>
        /\ phase = "confirm" /\ phase' \in {"run", "bootloader"}
    BY <1>2 DEF MarkBooted, MarkBootedFails, PowerLossInMarkBooted, Restart
  <2>2. CASE magic' # "swap"
    <3>1. CASE magic = "swap"
      <4>1. progress = SwapSteps /\ installed = image /\ SwapSteps \in Nat
            /\ PagesKept(active, dfu, progress, Prior, image)
        BY <2>1, <3>1, SizesNat DEF SwapInv
      <4>2. HasAll(active, image, 0)
        BY <4>1, SwappedPages
      <4> QED BY <2>1, <2>2, <4>1, <4>2, SwapInvNext
    <3>2. CASE magic # "swap"
      <4>1. HasAll(active, installed, 0)
        BY <3>2 DEF SwapInv
      <4> QED BY <2>1, <2>2, <4>1, SwapInvNext
    <3> QED BY <3>1, <3>2
  <2>3. CASE magic' = "swap"
    <3>1. MarkBootedFails
      BY <1>2, <2>3, ErasedNoSwap DEF MarkBooted, PowerLossInMarkBooted
    <3>2. magic = "swap" /\ progress' = progress /\ replaced' = replaced /\ phase' = "run"
      BY <2>3, <3>1, NoNewSwap, StateContents
         DEF MarkBootedFails, KeepReplaced, StoreInv, ProgressInv, state_vars
    <3>3. Prior' = Prior
      BY <2>1, <3>2 DEF Prior
    <3>4. /\ progress = SwapSteps /\ installed = image
          /\ PagesKept(active, dfu, progress, Prior, image)
      BY <2>1, <3>2 DEF SwapInv
    <3> HIDE DEF SwapSteps
    <3> QED BY <2>1, <2>3, <3>2, <3>3, <3>4, SwapInvNext
  <2> QED BY <2>2, <2>3
<1> QED BY <1>1, <1>2 DEF StartUp

LEMMA SwapInvBootloader ==
  ASSUME TypeInv, StoreInv, SwapInv, confirm_error # "fatal", Bootloader
  PROVE  SwapInv'
<1>1. SwapSteps \in Nat /\ SwapSteps > 0 /\ progress \in Nat
  BY SwapStepsPositive DEF StoreInv, ProgressInv
<1> HIDE DEF SwapSteps
<1>2. CASE Boot
  <2>1. /\ UNCHANGED <<active, dfu, magic, progress, image, installed, replaced>>
        /\ phase' = IF magic # "swap" THEN "keys"
                    ELSE IF progress < SwapSteps THEN "swap" ELSE "revert"
    BY <1>2 DEF Boot, state_vars, image_vars
  <2>2. Prior' = Prior
    BY <2>1 DEF Prior
  <2>3. progress < SwapSteps => replaced = NoImage
    BY <1>1 DEF StoreInv, ProgressInv
  <2>4. /\ magic # "swap" => HasAll(active, installed, 0)
        /\ magic = "swap" => PagesKept(active, dfu, progress, Prior, image)
    BY DEF SwapInv
  <2> QED BY <1>1, <2>1, <2>2, <2>3, <2>4, SwapInvNext
<1>3. CASE CopyPage
  <2>1. /\ magic = "swap" /\ UNCHANGED <<magic, phase, replaced>> /\ progress' = progress + 1
        /\ phase \in {"swap", "revert"} /\ (phase = "swap" => progress < SwapSteps)
    BY <1>3, BeforeCopy DEF CopyPage, image_vars
  <2>2. phase = "swap" => replaced = NoImage
    BY DEF SwapInv
  <2>3. PagesKept(active', dfu', progress', Prior', image')
    BY <1>3, CopyKeepsPages
  <2> QED BY <1>1, <2>1, <2>2, <2>3, SwapInvNext
<1>4. CASE PowerLossInCopy
  <2>1. magic = "swap" /\ UNCHANGED magic /\ phase' = "bootloader"
    BY <1>4, BeforeCopy DEF PowerLossInCopy, Restart, state_vars
  <2>2. PagesKept(active', dfu', progress', Prior', image')
    BY <1>4, PowerLossKeepsPages
  <2> QED BY <2>1, <2>2, SwapInvNext
<1>5. CASE SwapDone
  <2>1. /\ UNCHANGED <<active, dfu, magic, progress, image>>
        /\ phase = "swap" /\ phase' = "keys" /\ progress = SwapSteps
        /\ installed' = image /\ replaced' = installed
    BY <1>5 DEF SwapDone, state_vars
  <2>2. replaced = NoImage /\ magic = "swap" /\ installed # NoImage
    BY <2>1, ImageAssumption DEF SwapInv, TypeInv, TypeOK, NoImage, Factory
  <2>3. Prior' = Prior
    BY <2>1, <2>2 DEF Prior
  <2>4. PagesKept(active, dfu, progress, Prior, image)
    BY <2>2 DEF SwapInv
  <2> QED BY <2>1, <2>2, <2>3, <2>4, SwapInvNext
<1>6. CASE RevertDone \/ PowerLossInRevert
  <2>1. /\ active' = active /\ magic' # "swap" /\ phase' \in {"keys", "bootloader"}
        /\ phase = "revert" /\ progress = 2 * SwapSteps /\ installed' = Prior
    BY <1>6 DEF RevertDone, PowerLossInRevert, Reverted, Restart, Prior
  <2>2. magic = "swap"
    BY <2>1 DEF StoreInv, ProgressInv
  <2>3. Reverting(active, dfu, progress, Prior)
    BY <1>1, <2>1, <2>2 DEF SwapInv, PagesKept
  <2>4. ASSUME NEW q \in Pages PROVE HasPage(active, q + 0, Prior, q)
    <3>1. q \in Nat /\ q + 0 = q /\ progress - SwapSteps >= (2 * q) + 2
      BY <1>1, <2>1, Layout DEF Pages
    <3> QED BY <2>3, <3>1 DEF Reverting
  <2>5. HasAll(active', installed', 0)
    BY <2>1, <2>4 DEF HasAll
  <2> QED BY <2>1, <2>5, SwapInvNext
<1> QED BY <1>2, <1>3, <1>4, <1>5, <1>6 DEF Bootloader

LEMMA SwapInvReset ==
  ASSUME SwapInv, SystemReset \/ PowerLoss \/ UNCHANGED vars
  PROVE  SwapInv'
<1>1. /\ UNCHANGED <<active, dfu, magic, progress, image, installed, replaced>>
      /\ phase' = "bootloader" \/ phase' = phase
  BY DEF SystemReset, PowerLoss, Restart, vars, state_vars, image_vars
<1>2. Prior' = Prior
  BY <1>1 DEF Prior
<1>3. /\ magic # "swap" => HasAll(active, installed, 0)
      /\ magic = "swap" => PagesKept(active, dfu, progress, Prior, image)
      /\ phase = "swap" => replaced = NoImage /\ progress <= SwapSteps
      /\ phase \in {"keys", "confirm"} /\ magic = "swap" =>
           progress = SwapSteps /\ installed = image
      /\ phase = "run" /\ magic = "swap" /\ progress # 0 =>
           progress = SwapSteps /\ installed = image
  BY DEF SwapInv
<1> HIDE DEF SwapSteps
<1> QED BY <1>1, <1>2, <1>3, SwapInvNext

LEMMA SwapInvInit == Init => SwapInv
<1> SUFFICES ASSUME Init PROVE SwapInv
  OBVIOUS
<1>1. ASSUME NEW q \in Pages, NEW k \in 0..(PageWords - 1), NEW b \in 1..WordBytes
      PROVE  active[WordIn(q + 0, k)][b] = <<Factory, Offset(q, k, b)>>
  <2>1. q \in 0..(ActivePages - 1) /\ q + 0 = q /\ ActivePages \in Nat
    BY Layout DEF Pages
  <2>2. WordIn(q, k) \in 0..(ActiveWords - 1)
    BY <2>1, Layout, WordOfPage
  <2>3. active[WordIn(q, k)][b] = <<Factory, (WordIn(q, k) * WordBytes) + b>>
    BY <2>2 DEF Init
  <2> QED BY <2>1, <2>3 DEF Offset
<1>2. HasAll(active, Factory, 0)
  BY <1>1 DEF HasAll, HasPage
<1> QED BY <1>2 DEF Init, SwapInv

-----------------------------------------------------------------------------
(***************************************************************************)
(* The theorems.                                                           *)
(***************************************************************************)
AllImagesFit == \A i \in Images \cup {Factory} : Size[i] <= Capacity(ActiveWords)

\* The pages are kept until the image to go back to is lost.
PagesInv == confirm_error # "fatal" => SwapInv

UpdateInv == StreamInv /\ ArmedWholeInv /\ StoreInv /\ TypeInv /\ PagesInv

\* What is lost stays lost.
LEMMA LostForGood ==
  ASSUME [Next]_vars, confirm_error' # "fatal"
  PROVE  confirm_error # "fatal"
<1>1. CASE Download
  BY <1>1 DEF Download, RequestDownload, RequestDownloadFails, PowerLossInDownload,
              FallbackErased
<1>2. CASE Transfer \/ Exit
  BY <1>2 DEF Transfer, TransferPastEnd, TransferBuffered, TransferFlushed,
              TransferFlushFails, PowerLossInFlush, Exit, TransferExit, ExitIncomplete,
              ExitFlushFails, ExitArmFails, PowerLossInExit, ExitRest, image_vars
<1>3. CASE StartUp
  BY <1>3 DEF StartUp, LoadKeys, GenerateKeys, PowerLossInKeys, MarkBooted,
              MarkBootedFails, PowerLossInMarkBooted, image_vars
<1>4. CASE Bootloader
  BY <1>4 DEF Bootloader, Boot, CopyPage, PowerLossInCopy, SwapDone, RevertDone,
              PowerLossInRevert, Reverted, image_vars
<1>5. CASE SystemReset \/ PowerLoss \/ UNCHANGED vars
  BY <1>5 DEF SystemReset, PowerLoss, vars, image_vars
<1> QED BY <1>1, <1>2, <1>3, <1>4, <1>5 DEF Next

LEMMA UpdateInvStep ==
  ASSUME ImagesFit
  PROVE  UpdateInv /\ [Next]_vars => UpdateInv'
<1> SUFFICES ASSUME UpdateInv, [Next]_vars PROVE UpdateInv'
  OBVIOUS
<1>1. StreamInv' /\ StoreInv' /\ TypeInv'
  BY StreamInvStep, StoreInvStep, TypeInvStep DEF UpdateInv
<1>2. ArmedWholeInv'
  BY ArmedWholeStep DEF UpdateInv
<1>3. ASSUME confirm_error' # "fatal" PROVE SwapInv'
  <2>1. confirm_error # "fatal" /\ SwapInv
    BY <1>3, LostForGood DEF UpdateInv, PagesInv
  <2>2. CASE Download \/ Transfer \/ Exit
    BY <1>2, <1>3, <2>1, <2>2, SwapInvHandlers DEF UpdateInv
  <2>3. CASE StartUp
    BY <2>1, <2>3, SwapInvStartUp DEF UpdateInv
  <2>4. CASE Bootloader
    BY <2>1, <2>4, SwapInvBootloader DEF UpdateInv
  <2>5. CASE SystemReset \/ PowerLoss \/ UNCHANGED vars
    BY <2>1, <2>5, SwapInvReset DEF UpdateInv
  <2> QED BY <2>2, <2>3, <2>4, <2>5 DEF Next
<1>4. PagesInv'
  BY <1>3 DEF PagesInv
<1> QED BY <1>1, <1>2, <1>4 DEF UpdateInv

LEMMA UpdateInvInit == Init => UpdateInv
BY StreamInvInit, ArmedWholeInit, StoreInvInit, TypeInvInit, SwapInvInit
   DEF UpdateInv, PagesInv

\* The application is started with all pages of the image in ACTIVE.
LEMMA RunsFromInv ==
  ASSUME AllImagesFit, UpdateInv
  PROVE  RunsWholeImage
<1> SUFFICES ASSUME confirm_error # "fatal", phase \in {"keys", "confirm", "run"}
             PROVE  Holds(active, ActiveWords, installed)
  BY DEF RunsWholeImage
<1>1. installed \in Images \cup {Factory} /\ SwapInv
  BY DEF UpdateInv, TypeInv, TypeOK, PagesInv
<1>2. HasAll(active, installed, 0)
  <2>1. CASE magic # "swap"
    BY <1>1, <2>1 DEF SwapInv
  <2>2. CASE magic = "swap" /\ (phase \in {"keys", "confirm"} \/ progress # 0)
    <3>1. progress = SwapSteps /\ installed = image
          /\ PagesKept(active, dfu, progress, Prior, image)
      BY <1>1, <2>2 DEF SwapInv
    <3> QED BY <3>1, SwappedPages
  <2>3. CASE magic = "swap" /\ phase = "run" /\ progress = 0
    <3>1. SwapSteps \in Nat /\ SwapSteps > 0 /\ replaced = NoImage
      <4>1. SwapSteps \in Nat /\ SwapSteps > 0
        BY SwapStepsPositive
      <4> HIDE DEF SwapSteps
      <4> QED BY <2>3, <4>1 DEF UpdateInv, StoreInv, ProgressInv
    <3>2. Prior = installed
      BY <3>1 DEF Prior
    <3>3. Swapping(active, dfu, progress, installed, image)
      <4> HIDE DEF SwapSteps
      <4> QED BY <1>1, <2>3, <3>1, <3>2 DEF SwapInv, PagesKept
    <3>4. ASSUME NEW q \in Pages PROVE HasPage(active, q + 0, installed, q)
      <4>1. q \in Nat /\ q + 0 = q /\ progress <= (2 * (ActivePages - q)) - 2
        BY <2>3, Layout DEF Pages
      <4> QED BY <3>3, <4>1 DEF Swapping
    <3> QED BY <3>4 DEF HasAll
  <2> QED BY <2>1, <2>2, <2>3
<1> QED BY <1>1, <1>2, PagesHold DEF AllImagesFit

\* Whenever the application runs, ACTIVE holds the whole of the image that was
\* installed, for every flash layout and every set of images that fit ACTIVE,
\* whatever fails or loses power, until a download follows a confirmation
\* whose failure was ignored.
THEOREM WholeImageRuns ==
  ASSUME \A i \in Images \cup {Factory} : Size[i] <= Capacity(ActiveWords)
  PROVE  Spec => []RunsWholeImage
<1>1. ImagesFit /\ AllImagesFit
  BY DEF ImagesFit, AllImagesFit
<1>2. UpdateInv => RunsWholeImage
  BY <1>1, RunsFromInv
<1>3. Spec => []UpdateInv
  BY <1>1, UpdateInvInit, UpdateInvStep, PTL DEF Spec
<1> QED BY <1>2, <1>3, PTL

\* What can be gone back to is one page up in DFU at the turning point.
LEMMA FallbackFromInv ==
  ASSUME AllImagesFit, UpdateInv
  PROVE  FallbackKept
<1> DEFINE moved == [w \in 0..(ActiveWords - 1) |-> dfu[w + PageWords]]
<1> SUFFICES ASSUME confirm_error # "fatal", magic = "swap", progress = SwapSteps
             PROVE  Holds(moved, ActiveWords, Prior)
  BY DEF FallbackKept, OldImageWhole, Prior
<1>1. Prior \in Images \cup {Factory}
  BY DEF Prior, UpdateInv, TypeInv, TypeOK
<1>2. Reverting(active, dfu, progress, Prior) /\ SwapSteps \in Nat
  <2>1. SwapSteps \in Nat
    BY SizesNat
  <2> HIDE DEF SwapSteps
  <2> QED BY <2>1 DEF UpdateInv, PagesInv, SwapInv, PagesKept
<1>3. ASSUME NEW q \in Pages PROVE HasPage(moved, q + 0, Prior, q)
  <2>1. q \in 0..(ActivePages - 1) /\ q \in Nat /\ q + 0 = q /\ ActivePages \in Nat
        /\ progress - SwapSteps <= (2 * q) + 1
    BY <1>2, Layout DEF Pages
  <2>2. ASSUME NEW k \in 0..(PageWords - 1)
        PROVE  moved[WordIn(q, k)] = dfu[WordIn(q + 1, k)]
    <3>1. WordIn(q, k) \in 0..(ActiveWords - 1)
      BY <2>1, Layout, WordOfPage
    <3>2. WordIn(q, k) + PageWords = WordIn(q + 1, k)
      BY <2>1, SizesNat DEF WordIn
    <3> QED BY <3>1, <3>2
  <2> HIDE DEF moved
  <2>3. HasPage(dfu, q + 1, Prior, q)
    BY <1>2, <2>1 DEF Reverting
  <2>4. HasPage(moved, q, Prior, q)
    BY <2>2, <2>3, SamePage
  <2> QED BY <2>1, <2>4
<1> HIDE DEF moved
<1>4. HasAll(moved, Prior, 0)
  BY <1>3 DEF HasAll
<1> QED BY <1>1, <1>4, PagesHold DEF AllImagesFit

\* Between the swap and its confirmation, the image that was replaced is whole,
\* one page up in DFU, under the same condition: the new application, its key
\* store, its failures and its power losses leave it alone.
THEOREM FallbackWhole ==
  ASSUME \A i \in Images \cup {Factory} : Size[i] <= Capacity(ActiveWords)
  PROVE  Spec => []FallbackKept
<1>1. ImagesFit /\ AllImagesFit
  BY DEF ImagesFit, AllImagesFit
<1>2. UpdateInv => FallbackKept
  BY <1>1, FallbackFromInv
<1>3. Spec => []UpdateInv
  BY <1>1, UpdateInvInit, UpdateInvStep, PTL DEF Spec
<1> QED BY <1>2, <1>3, PTL

-----------------------------------------------------------------------------
(***************************************************************************)
(* The flush buffer.  The stream is cut into words as it arrives: what was *)
(* received is the words that were written and the buffer after them.      *)
(***************************************************************************)
FlushInv ==
  ota_state = "Receiving" =>
    /\ phase = "run"
    /\ Len(crc32) = (next_offset * WordBytes) + Len(buffer)
    /\ \A w \in 0..(next_offset - 1), b \in 1..WordBytes :
         dfu[w][b] = crc32[(w * WordBytes) + b]
    /\ \A j \in 1..Len(buffer) : buffer[j] = crc32[(next_offset * WordBytes) + j]

\* The bytes of the words before next_offset come before the buffer.
LEMMA WordBefore ==
  ASSUME NEW n \in Nat, NEW w \in 0..(n - 1), NEW b \in 1..WordBytes
  PROVE  (w * WordBytes) + b \in 1..(n * WordBytes)
<1>1. WordBytes \in Nat \ {0} /\ w \in Nat /\ b \in Nat
  BY SizesNat
<1>2. w * WordBytes \in Nat /\ n * WordBytes \in Nat
  BY <1>1
<1>3. (n * WordBytes) - (w * WordBytes) = (((n - 1) - w) * WordBytes) + WordBytes
  BY <1>1
<1>4. ((n - 1) - w) * WordBytes >= 0 /\ ((n - 1) - w) * WordBytes \in Int
  BY <1>1
<1> QED BY <1>1, <1>2, <1>3, <1>4

LEMMA NextOffset ==
  ASSUME TypeInv
  PROVE  /\ next_offset \in Nat /\ WordBytes \in Nat /\ Len(buffer) \in Nat
         /\ next_offset * WordBytes \in Nat
<1>1. next_offset \in 0..DfuWords /\ buffer \in Seq(Byte)
  BY DEF TypeInv, TypeOK
<1>2. next_offset \in Nat /\ WordBytes \in Nat
  BY <1>1, SizesNat
<1> QED BY <1>1, <1>2

\* A block goes to the end of the stream and to the end of the buffer.
LEMMA FilledFollows ==
  ASSUME TypeInv, FlushInv, NEW b \in Blocks, ExpectedBlock(b), BlockTaken(b)
  PROVE  /\ Filled(b) \in Seq(Byte) /\ Len(crc32) \in Nat
         /\ Len(crc32') = (next_offset * WordBytes) + Len(Filled(b))
         /\ \A p \in 1..Len(crc32) : crc32'[p] = crc32[p]
         /\ \A j \in 1..Len(Filled(b)) :
              Filled(b)[j] = crc32'[(next_offset * WordBytes) + j]
<1> DEFINE base == next_offset * WordBytes
           x == <<image, (2 * b) - 1>>
           y == <<image, 2 * b>>
           left == Filled(b)
<1>1. base \in Nat
  BY NextOffset
<1>2. x \in Byte /\ y \in Byte
  <2> DEFINE block == Block(image, b)
  <2>1. block \in Seq(Byte) /\ Len(block) = 2
    BY BlockTypes
  <2>2. x = block[1] /\ y = block[2]
    BY DEF Block
  <2> HIDE DEF block, x, y
  <2> QED BY <2>1, <2>2
<1>3. crc32 \in Seq(Byte) /\ buffer \in Seq(Byte)
  BY DEF TypeInv, TypeOK
<1>4. crc32' = crc32 \o <<x, y>> /\ left = buffer \o <<x, y>>
  BY DEF BlockTaken, Filled, Block
<1>5. /\ Len(crc32) = base + Len(buffer)
      /\ \A j \in 1..Len(buffer) : buffer[j] = crc32[base + j]
  BY DEF FlushInv, ExpectedBlock
<1> HIDE DEF base, x, y, left
<1>6. /\ left \in Seq(Byte) /\ Len(left) = Len(buffer) + 2 /\ Len(buffer) \in Nat
      /\ left[Len(buffer) + 1] = x /\ left[Len(buffer) + 2] = y
      /\ \A p \in 1..Len(buffer) : left[p] = buffer[p]
  BY <1>2, <1>3, <1>4, AppendTwo
<1>7. /\ Len(crc32') = Len(crc32) + 2 /\ Len(crc32) \in Nat
      /\ crc32'[Len(crc32) + 1] = x /\ crc32'[Len(crc32) + 2] = y
      /\ \A p \in 1..Len(crc32) : crc32'[p] = crc32[p]
  BY <1>2, <1>3, <1>4, AppendTwo
<1>8. ASSUME NEW j \in 1..Len(left) PROVE left[j] = crc32'[base + j]
  <2>1. CASE j <= Len(buffer)
    <3>1. left[j] = buffer[j] /\ j \in 1..Len(buffer)
      BY <1>6, <2>1
    <3>2. base + j \in 1..Len(crc32)
      BY <1>1, <1>5, <1>6, <1>7, <3>1
    <3> QED BY <1>5, <1>7, <3>1, <3>2
  <2>2. CASE j = Len(buffer) + 1
    <3>1. base + j = Len(crc32) + 1
      BY <1>1, <1>5, <1>6, <2>2
    <3> QED BY <1>6, <1>7, <2>2, <3>1
  <2>3. CASE j = Len(buffer) + 2
    <3>1. base + j = Len(crc32) + 2
      BY <1>1, <1>5, <1>6, <2>3
    <3> QED BY <1>6, <1>7, <2>3, <3>1
  <2> QED BY <1>6, <2>1, <2>2, <2>3
<1>9. Len(crc32') = base + Len(left)
  BY <1>1, <1>5, <1>6, <1>7
<1> QED BY <1>6, <1>7, <1>8, <1>9 DEF base, left

LEMMA FlushInvStep == TypeInv /\ FlushInv /\ [Next]_vars => FlushInv'
<1> SUFFICES ASSUME TypeInv, FlushInv, [Next]_vars PROVE FlushInv'
  OBVIOUS
<1>1. ASSUME NEW i \in Images, RequestDownload(i) PROVE FlushInv'
  <2>1. /\ next_offset' = 0 /\ crc32' = <<>> /\ buffer' = <<>> /\ phase' = "run"
        /\ WordBytes \in Nat
    BY <1>1, SizesNat DEF RequestDownload, DownloadAllowed
  <2> QED BY <2>1 DEF FlushInv
<1>2. ASSUME NEW b \in Blocks, TransferBuffered(b) PROVE FlushInv'
  <2>1. /\ ExpectedBlock(b) /\ BlockTaken(b) /\ buffer' = Filled(b)
        /\ UNCHANGED <<dfu, next_offset, phase>>
    BY <1>2 DEF TransferBuffered
  <2>2. /\ phase = "run" /\ next_offset \in Nat
        /\ Len(crc32) = (next_offset * WordBytes) + Len(buffer)
        /\ \A w \in 0..(next_offset - 1), d \in 1..WordBytes :
             dfu[w][d] = crc32[(w * WordBytes) + d]
    BY <2>1, NextOffset DEF FlushInv, ExpectedBlock
  <2>3. ASSUME NEW w \in 0..(next_offset - 1), NEW d \in 1..WordBytes
        PROVE  dfu'[w][d] = crc32'[(w * WordBytes) + d]
    <3>1. (w * WordBytes) + d \in 1..(next_offset * WordBytes)
      BY <2>2, WordBefore
    <3>2. (w * WordBytes) + d \in 1..Len(crc32)
      <4>1. next_offset * WordBytes \in Nat /\ Len(buffer) \in Nat
        BY NextOffset
      <4> QED BY <2>2, <3>1, <4>1
    <3> QED BY <2>1, <2>2, <3>2, FilledFollows
  <2> QED BY <2>1, <2>2, <2>3, FilledFollows DEF FlushInv
<1>3. ASSUME NEW b \in Blocks, TransferFlushed(b) PROVE FlushInv'
  <2>1. /\ ExpectedBlock(b) /\ BlockTaken(b) /\ buffer' = <<>>
        /\ next_offset' = next_offset + 1 /\ phase' = phase
        /\ Len(Filled(b)) = WordBytes
        /\ next_offset \in DOMAIN dfu
        /\ dfu' = [dfu EXCEPT ![next_offset] = Filled(b)]
    BY <1>3 DEF TransferFlushed, Writable, Written
  <2>2. /\ phase = "run" /\ next_offset \in Nat /\ WordBytes \in Nat
        /\ Len(crc32) = (next_offset * WordBytes) + Len(buffer)
        /\ \A w \in 0..(next_offset - 1), d \in 1..WordBytes :
             dfu[w][d] = crc32[(w * WordBytes) + d]
    BY <2>1, NextOffset DEF FlushInv, ExpectedBlock
  <2>3. /\ next_offset * WordBytes \in Nat /\ Len(buffer) \in Nat
        /\ next_offset' * WordBytes = (next_offset * WordBytes) + WordBytes
    <3>1. (next_offset + 1) * WordBytes = (next_offset * WordBytes) + WordBytes
      BY <2>2
    <3> QED BY <2>1, <2>2, <3>1, NextOffset
  <2>4. Len(crc32') = (next_offset' * WordBytes) + Len(buffer')
    BY <2>1, <2>2, <2>3, FilledFollows
  <2>5. ASSUME NEW w \in 0..(next_offset' - 1), NEW d \in 1..WordBytes
        PROVE  dfu'[w][d] = crc32'[(w * WordBytes) + d]
    <3>1. CASE w = next_offset
      <4>1. dfu'[w] = Filled(b)
        BY <2>1, <3>1
      <4> QED BY <2>1, <3>1, <4>1, FilledFollows
    <3>2. CASE w # next_offset
      <4>1. w \in 0..(next_offset - 1) /\ dfu'[w] = dfu[w]
        BY <2>1, <2>2, <3>2
      <4>2. (w * WordBytes) + d \in 1..(next_offset * WordBytes)
        BY <2>2, <4>1, WordBefore
      <4>3. (w * WordBytes) + d \in 1..Len(crc32)
        BY <2>2, <2>3, <4>2
      <4> QED BY <2>1, <2>2, <4>1, <4>3, FilledFollows
    <3> QED BY <3>1, <3>2
  <2> QED BY <2>1, <2>2, <2>4, <2>5 DEF FlushInv
<1>4. CASE ota_state' # "Receiving"
  BY <1>4 DEF FlushInv
<1>5. CASE UNCHANGED <<ota_state, phase, dfu, crc32, next_offset, buffer>>
  BY <1>5 DEF FlushInv
<1>6. ASSUME NEW i \in Images, RequestDownloadFails(i) PROVE ota_state' # "Receiving"
  BY <1>6 DEF RequestDownloadFails, DownloadAllowed, ota_vars
<1>7. CASE StartUp \/ Bootloader
  <2>1. ota_state # "Receiving"
    BY <1>7 DEF StartUp, LoadKeys, GenerateKeys, PowerLossInKeys, MarkBooted,
                MarkBootedFails, PowerLossInMarkBooted, Bootloader, Boot,
                CopyPage, PowerLossInCopy, MoreCopies, SwapDone, RevertDone,
                PowerLossInRevert, Reverted, FlushInv
  <2>2. OtaReset \/ UNCHANGED ota_vars
    BY <1>7 DEF StartUp, LoadKeys, GenerateKeys, PowerLossInKeys, MarkBooted,
                MarkBootedFails, PowerLossInMarkBooted, Bootloader, Boot,
                CopyPage, PowerLossInCopy, SwapDone, RevertDone,
                PowerLossInRevert, Restart
  <2> QED BY <1>4, <2>1, <2>2 DEF OtaReset, ota_vars
<1>8. \/ \E i \in Images : RequestDownload(i) \/ RequestDownloadFails(i)
      \/ \E b \in Blocks : TransferBuffered(b) \/ TransferFlushed(b)
      \/ ota_state' # "Receiving"
      \/ StartUp \/ Bootloader
      \/ UNCHANGED <<ota_state, phase, dfu, crc32, next_offset, buffer>>
  <2>1. CASE Download
    BY <2>1 DEF Download, PowerLossInDownload, Restart, OtaReset
  <2>2. CASE Transfer
    BY <2>2 DEF Transfer, TransferPastEnd, TransferFlushFails,
                PowerLossInFlush, Restart, OtaReset
  <2>3. CASE Exit
    BY <2>3 DEF Exit, TransferExit, ExitIncomplete, ExitFlushFails,
                ExitArmFails, PowerLossInExit, Restart, OtaReset
  <2>4. CASE SystemReset \/ PowerLoss
    BY <2>4 DEF SystemReset, PowerLoss, Restart, OtaReset
  <2>5. CASE UNCHANGED vars
    BY <2>5 DEF vars, ota_vars
  <2> QED BY <2>1, <2>2, <2>3, <2>4, <2>5 DEF Next
<1> QED BY <1>1, <1>2, <1>3, <1>4, <1>5, <1>6, <1>7, <1>8

\* Two sequences put together.
LEMMA ConcatIs ==
  ASSUME NEW S, NEW s \in Seq(S), NEW t \in Seq(S), NEW u \in Seq(S),
         Len(u) = Len(s) + Len(t),
         \A p \in 1..Len(s) : s[p] = u[p],
         \A p \in 1..Len(t) : t[p] = u[Len(s) + p]
  PROVE  s \o t = u
<1> DEFINE v == s \o t
<1>1. v \in Seq(S) /\ Len(v) = Len(u)
  OBVIOUS
<1>2. ASSUME NEW p \in 1..Len(u) PROVE v[p] = u[p]
  <2>1. CASE p <= Len(s)
    BY <2>1
  <2>2. CASE p > Len(s)
    <3>1. p - Len(s) \in 1..Len(t) /\ p = Len(s) + (p - Len(s))
      BY <2>2
    <3>2. v[p] = t[p - Len(s)]
      BY <3>1
    <3> QED BY <3>1, <3>2
  <2> QED BY <2>1, <2>2
<1> HIDE DEF v
<1>3. v = u
  BY <1>1, <1>2
<1> QED BY <1>3 DEF v

LEMMA FollowsFromInv ==
  ASSUME TypeInv, FlushInv
  PROVE  FlashFollowsStream
<1> DEFINE n == Capacity(next_offset)
           read == ReadBytes(dfu, n)
<1> SUFFICES ASSUME ota_state = "Receiving" PROVE read \o buffer = crc32
  BY DEF FlashFollowsStream
<1>1. /\ WordBytes \in Nat \ {0} /\ next_offset \in 0..DfuWords /\ DfuWords \in Nat
      /\ crc32 \in Seq(Byte) /\ buffer \in Seq(Byte) /\ dfu \in Memory(DfuWords)
  BY SizesNat DEF TypeInv, TypeOK, Memory
<1>2. n = next_offset * WordBytes /\ n \in Nat
  BY <1>1 DEF Capacity
<1>3. /\ Len(crc32) = n + Len(buffer)
      /\ \A w \in 0..(next_offset - 1), b \in 1..WordBytes :
           dfu[w][b] = crc32[(w * WordBytes) + b]
      /\ \A j \in 1..Len(buffer) : buffer[j] = crc32[n + j]
  BY <1>2 DEF FlushInv
<1> HIDE DEF n
<1>4. ASSUME NEW p \in 1..n
      PROVE  ByteAt(dfu, p) \in Byte /\ ByteAt(dfu, p) = crc32[p]
  <2> DEFINE w == (p - 1) \div WordBytes
             b == ((p - 1) % WordBytes) + 1
  <2>1. w \in Nat /\ p - 1 = (WordBytes * w) + (b - 1) /\ b \in 1..WordBytes
    BY <1>1, <1>2
  <2>2. ByteAt(dfu, p) = dfu[w][b]
    BY DEF ByteAt
  <2> HIDE DEF w, b
  <2>3. w * WordBytes = WordBytes * w /\ WordBytes * w \in Nat
    BY <1>1, <2>1
  <2>4. (w * WordBytes) + b = p
    BY <1>1, <1>2, <2>1, <2>3
  <2>5. w < next_offset
    <3>1. ASSUME w >= next_offset PROVE FALSE
      <4>1. (w - next_offset) * WordBytes >= 0
        BY <1>1, <2>1, <3>1
      <4>2. (w * WordBytes) - (next_offset * WordBytes) = (w - next_offset) * WordBytes
        BY <1>1, <2>1
      <4> QED BY <1>1, <1>2, <2>1, <2>3, <2>4, <4>1, <4>2
    <3> QED BY <1>1, <2>1, <3>1
  <2>6. dfu[w][b] \in Byte /\ dfu[w][b] = crc32[p]
    <3>1. w \in 0..(DfuWords - 1) /\ w \in 0..(next_offset - 1)
      BY <1>1, <2>1, <2>5
    <3>2. dfu[w] \in [1..WordBytes -> Byte]
      BY <1>1, <3>1 DEF Memory, Word
    <3> QED BY <1>3, <2>1, <2>4, <3>1, <3>2
  <2> QED BY <2>2, <2>6
<1>5. /\ read \in Seq(Byte) /\ Len(read) = n
      /\ \A p \in 1..n : read[p] = crc32[p]
  BY <1>2, <1>4 DEF ReadBytes
<1> HIDE DEF read
<1> QED BY <1>1, <1>3, <1>5, ConcatIs

\* What was received is in flash up to the next word and the rest of it in the
\* buffer, for every width of a word and every flash layout: whatever write
\* fails, nothing is missing or moved while the transfer goes on.
THEOREM FlashFollows == Spec => []FlashFollowsStream
<1>1. Init => TypeInv /\ FlushInv
  BY TypeInvInit DEF Init, FlushInv
<1>2. TypeInv /\ FlushInv /\ [Next]_vars => TypeInv' /\ FlushInv'
  BY TypeInvStep, FlushInvStep
<1>3. TypeInv /\ FlushInv => FlashFollowsStream
  BY FollowsFromInv
<1> QED BY <1>1, <1>2, <1>3, PTL DEF Spec

=============================================================================
