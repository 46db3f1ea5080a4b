-------------------------- MODULE LineEditorProofs --------------------------
(***************************************************************************)
(* LineEditor keeps its types and implements TextLine, for every set of    *)
(* characters and every size of the array.                                 *)
(***************************************************************************)
EXTENDS LineEditor, SequenceTheorems, TLAPS

Content == Chars \cup {NUL}

\* Cut, of any array.
Slice(b, i, j) == [k \in 1..(j - i) |-> b[i + k - 1]]

LEMMA CutIsSlice == \A i, j : Cut(i, j) = Slice(buf, i, j)
  BY DEF Cut, Slice

LEMMA SliceFacts ==
  ASSUME NEW b \in [Cells -> Content], NEW i \in Int, NEW j \in Int,
         0 <= i, i <= j, j <= CMD_BUF_SIZE
  PROVE  /\ Slice(b, i, j) \in Seq(Content)
         /\ Len(Slice(b, i, j)) = j - i
         /\ \A k \in 1..(j - i) : Slice(b, i, j)[k] = b[i + k - 1]
  <1>1. \A k \in 1..(j - i) : b[i + k - 1] \in Content
    BY BufferAssumption DEF Cells
  <1>2. j - i \in Nat
    OBVIOUS
  <1>3. QED
    BY <1>1, <1>2 DEF Slice

\* A slice that begins at 0 is a text if its cells hold characters.
LEMMA SliceOfChars ==
  ASSUME NEW b \in [Cells -> Content], NEW n \in 0..CMD_BUF_SIZE
  PROVE  Slice(b, 0, n) \in Seq(Chars) <=> \A i \in 0..(n - 1) : b[i] \in Chars
  <1>1. ASSUME \A i \in 0..(n - 1) : b[i] \in Chars PROVE Slice(b, 0, n) \in Seq(Chars)
    <2>1. \A k \in 1..(n - 0) : b[0 + k - 1] \in Chars
      BY <1>1, BufferAssumption
    <2>2. n - 0 \in Nat
      BY BufferAssumption
    <2>3. QED
      BY <2>1, <2>2 DEF Slice
  <1>2. ASSUME Slice(b, 0, n) \in Seq(Chars), NEW i \in 0..(n - 1) PROVE b[i] \in Chars
    <2>1. Len(Slice(b, 0, n)) = n /\ Slice(b, 0, n)[i + 1] = b[i]
      BY SliceFacts, BufferAssumption
    <2>2. Slice(b, 0, n)[i + 1] \in Chars
      BY <1>2, <2>1, ElementOfSeq, BufferAssumption
    <2>3. QED
      BY <2>1, <2>2
  <1>3. QED
    BY <1>1, <1>2

-----------------------------------------------------------------------------
(***************************************************************************)
(* The type invariant, with the text in terms of cells.                    *)
(***************************************************************************)
EditorInv ==
  /\ buf \in [Cells -> Content]
  /\ len \in 0..CMD_BUF_SIZE /\ pos \in 0..len
  /\ escape \in BOOLEAN /\ parsed \in Seq(Chars)
  /\ \A i \in 0..(len - 1) : buf[i] \in Chars

LEMMA EditorInvType == EditorInv <=> EditorTypeOK
  BY CutIsSlice, SliceOfChars DEF EditorInv, EditorTypeOK, Content

LEMMA EditorStepInv == EditorInv /\ [EditorNext]_editor_vars => EditorInv'
  <1> SUFFICES ASSUME EditorInv, [EditorNext]_editor_vars PROVE EditorInv'
    OBVIOUS
  <1> USE BufferAssumption
  <1>1. CASE Return
    <2>1. Cut(0, len) \in Seq(Chars)
      BY EditorInvType DEF EditorTypeOK
    <2>2. QED
      BY <1>1, <2>1 DEF Return, EditorInv
  <1>2. CASE Backspace
    BY <1>2 DEF Backspace, EditorInv, Cells
  <1>3. ASSUME NEW c \in Chars, Character(c) PROVE EditorInv'
    <2>1. buf' \in [Cells -> Content]
      BY <1>3 DEF Character, EditorInv, Cells, Content
    <2>2. \A i \in 0..(len' - 1) : buf'[i] \in Chars
      BY <1>3 DEF Character, EditorInv, Cells
    <2>3. QED
      BY <1>3, <2>1, <2>2 DEF Character, EditorInv
  <1>4. CASE Escape
    BY <1>4 DEF Escape, EditorInv
  <1>5. CASE LeftArrow
    <2>1. pos' \in 0..len
      BY <1>5 DEF LeftArrow, EditorInv
    <2>2. QED
      BY <1>5, <2>1 DEF LeftArrow, EditorInv
  <1>6. CASE RightArrow
    <2>1. pos' \in 0..len
      BY <1>6 DEF RightArrow, EditorInv
    <2>2. QED
      BY <1>6, <2>1 DEF RightArrow, EditorInv
  <1>7. CASE OtherSequence
    BY <1>7 DEF OtherSequence, EditorInv
  <1>8. CASE UNCHANGED editor_vars
    BY <1>8 DEF editor_vars, EditorInv
  <1>9. QED
    BY <1>1, <1>2, <1>3, <1>4, <1>5, <1>6, <1>7, <1>8 DEF EditorNext

LEMMA EditorInitInv == EditorInit => EditorInv
  <1> SUFFICES ASSUME EditorInit PROVE EditorInv
    OBVIOUS
  <1>1. buf \in [Cells -> Content]
    BY DEF EditorInit, Content
  <1>2. len = 0 /\ pos = 0 /\ 0..(len - 1) = {}
    BY DEF EditorInit
  <1>3. parsed \in Seq(Chars) /\ escape \in BOOLEAN
    BY EmptySeq DEF EditorInit
  <1>4. QED
    BY <1>1, <1>2, <1>3, BufferAssumption DEF EditorInv

-----------------------------------------------------------------------------
(***************************************************************************)
(* What becomes of a slice.                                                *)
(***************************************************************************)

\* A sequence with the length and the elements of a slice is that slice.
LEMMA SliceIs ==
  ASSUME NEW b \in [Cells -> Content], NEW i \in Int, NEW j \in Int,
         0 <= i, i <= j, j <= CMD_BUF_SIZE,
         NEW s \in Seq(Content), Len(s) = j - i,
         \A k \in 1..(j - i) : s[k] = b[i + k - 1]
  PROVE  s = Slice(b, i, j)
  <1> DEFINE t == Slice(b, i, j)
  <1>1. t \in Seq(Content) /\ Len(t) = j - i /\ \A k \in 1..(j - i) : t[k] = b[i + k - 1]
    BY SliceFacts
  <1> HIDE DEF t
  <1>2. \A k \in 1..Len(s) : s[k] = t[k]
    BY <1>1
  <1>3. s = t
    BY <1>1, <1>2, SeqEqual
  <1>4. QED
    BY <1>3 DEF t

\* The same cells, possibly of another array and shifted.
LEMMA SliceShifted ==
  ASSUME NEW b, NEW bb, NEW i \in Int, NEW j \in Int, NEW ii \in Int, NEW jj \in Int,
         jj - ii = j - i, \A k \in 1..(j - i) : bb[ii + k - 1] = b[i + k - 1]
  PROVE  Slice(bb, ii, jj) = Slice(b, i, j)
  BY DEF Slice

LEMMA SliceEmpty ==
  ASSUME NEW b, NEW i \in Int
  PROVE  Slice(b, i, i) = <<>>
  <1>1. 1..(i - i) = {}
    OBVIOUS
  <1>2. QED
    BY <1>1 DEF Slice

LEMMA SliceAppend ==
  ASSUME NEW b \in [Cells -> Content], NEW p \in Cells
  PROVE  Append(Slice(b, 0, p), b[p]) = Slice(b, 0, p + 1)
  <1> DEFINE s == Slice(b, 0, p)
  <1>1. p \in Int /\ 0 <= p /\ p + 1 <= CMD_BUF_SIZE
    BY BufferAssumption DEF Cells
  <1>2. s \in Seq(Content) /\ Len(s) = p /\ \A k \in 1..p : s[k] = b[k - 1]
    <2>1. /\ s \in Seq(Content) /\ Len(s) = p - 0
          /\ \A k \in 1..(p - 0) : s[k] = b[0 + k - 1]
      BY <1>1, SliceFacts, BufferAssumption
    <2> HIDE DEF s
    <2>2. QED
      BY <1>1, <2>1
  <1> HIDE DEF s
  <1>3. /\ Append(s, b[p]) \in Seq(Content) /\ Len(Append(s, b[p])) = p + 1
        /\ \A k \in 1..p : Append(s, b[p])[k] = s[k]
        /\ Append(s, b[p])[p + 1] = b[p]
    BY <1>2, AppendProperties
  <1> DEFINE t == Append(s, b[p])
  <1>4. \A k \in 1..((p + 1) - 0) : t[k] = b[0 + k - 1]
    <2> TAKE k \in 1..((p + 1) - 0)
    <2>1. CASE k = p + 1
      BY <1>1, <1>3, <2>1
    <2>2. CASE k # p + 1
      <3>1. k \in 1..p
        BY <1>1, <2>2
      <3>2. t[k] = b[k - 1]
        BY <1>2, <1>3, <3>1
      <3>3. QED
        BY <3>1, <3>2
    <2>3. QED
      BY <2>1, <2>2
  <1>5. t \in Seq(Content) /\ Len(t) = (p + 1) - 0
    BY <1>1, <1>3
  <1> HIDE DEF t
  <1>6. t = Slice(b, 0, p + 1)
    BY <1>1, <1>4, <1>5, SliceIs, BufferAssumption
  <1>7. QED
    BY <1>6 DEF s, t

LEMMA FrontFacts ==
  ASSUME NEW S, NEW s \in Seq(S), Len(s) > 0
  PROVE  /\ Text!Front(s) \in Seq(S) /\ Len(Text!Front(s)) = Len(s) - 1
         /\ \A k \in 1..(Len(s) - 1) : Text!Front(s)[k] = s[k]
  <1> DEFINE n == Len(s) - 1
  <1>1. n \in Nat /\ Len(s) = n + 1
    BY LenProperties
  <1> HIDE DEF n
  <1>2. \A k \in 1..n : s[k] \in S
    BY <1>1, ElementOfSeq
  <1>3. /\ SubSeq(s, 1, n) \in Seq(S)
        /\ Len(SubSeq(s, 1, n)) = IF 1 <= n THEN n - 1 + 1 ELSE 0
        /\ \A k \in 1..(n - 1 + 1) : SubSeq(s, 1, n)[k] = s[1 + k - 1]
    BY <1>1, <1>2, SubSeqProperties
  <1>4. Text!Front(s) = SubSeq(s, 1, n)
    BY DEF Text!Front, n
  <1> DEFINE t == SubSeq(s, 1, n)
  <1>5. t \in Seq(S) /\ Len(t) = n /\ \A k \in 1..n : t[k] = s[k]
    <2>1. /\ t \in Seq(S) /\ Len(t) = (IF 1 <= n THEN n - 1 + 1 ELSE 0)
          /\ \A k \in 1..(n - 1 + 1) : t[k] = s[1 + k - 1]
      BY <1>3
    <2> HIDE DEF t
    <2>2. QED
      BY <1>1, <2>1
  <1>6. QED
    BY <1>4, <1>5 DEF n

LEMMA SliceFront ==
  ASSUME NEW b \in [Cells -> Content], NEW p \in 1..CMD_BUF_SIZE
  PROVE  /\ Slice(b, 0, p) # <<>>
         /\ Slice(b, 0, p)[Len(Slice(b, 0, p))] = b[p - 1]
         /\ Text!Front(Slice(b, 0, p)) = Slice(b, 0, p - 1)
  <1> DEFINE s == Slice(b, 0, p)
             t == Text!Front(s)
  <1>1. p \in Int /\ 0 < p /\ p <= CMD_BUF_SIZE
    BY BufferAssumption
  <1>2. s \in Seq(Content) /\ Len(s) = p /\ \A k \in 1..p : s[k] = b[k - 1]
    <2>1. /\ s \in Seq(Content) /\ Len(s) = p - 0
          /\ \A k \in 1..(p - 0) : s[k] = b[0 + k - 1]
      BY <1>1, SliceFacts, BufferAssumption
    <2> HIDE DEF s
    <2>2. QED
      BY <1>1, <2>1
  <1> HIDE DEF s
  <1>3. t \in Seq(Content) /\ Len(t) = p - 1 /\ \A k \in 1..(p - 1) : t[k] = s[k]
    BY <1>1, <1>2, FrontFacts
  <1> HIDE DEF t
  <1>4. \A k \in 1..((p - 1) - 0) : t[k] = b[0 + k - 1]
    BY <1>1, <1>2, <1>3
  <1>5. Len(t) = (p - 1) - 0 /\ p - 1 \in Int
    BY <1>1, <1>3
  <1>6. t = Slice(b, 0, p - 1)
    BY <1>1, <1>3, <1>4, <1>5, SliceIs, BufferAssumption
  <1>7. s # <<>> /\ s[Len(s)] = b[p - 1]
    BY <1>1, <1>2, EmptySeq
  <1>8. QED
    BY <1>6, <1>7 DEF s, t

LEMMA SliceCons ==
  ASSUME NEW b \in [Cells -> Content], NEW i \in 1..CMD_BUF_SIZE, NEW j \in i..CMD_BUF_SIZE
  PROVE  <<b[i - 1]>> \o Slice(b, i, j) = Slice(b, i - 1, j)
  <1> DEFINE s == Slice(b, i, j)
             one == <<b[i - 1]>>
             t == one \o s
  <1>1. i \in Int /\ j \in Int /\ 1 <= i /\ i <= j /\ j <= CMD_BUF_SIZE
    BY BufferAssumption
  <1>2. s \in Seq(Content) /\ Len(s) = j - i /\ \A k \in 1..(j - i) : s[k] = b[i + k - 1]
    BY <1>1, SliceFacts, BufferAssumption
  <1>3. one \in Seq(Content) /\ Len(one) = 1 /\ one[1] = b[i - 1]
    <2>1. i - 1 \in Cells
      BY <1>1, BufferAssumption DEF Cells
    <2>2. b[i - 1] \in Content
      BY <2>1
    <2>3. QED
      BY <2>2
  <1> HIDE DEF s, one
  <1>4. /\ t \in Seq(Content) /\ Len(t) = 1 + Len(s)
        /\ \A k \in 1..(1 + Len(s)) : t[k] = IF k <= 1 THEN one[k] ELSE s[k - 1]
    <2>1. /\ t \in Seq(Content) /\ Len(t) = Len(one) + Len(s)
          /\ \A k \in 1..(Len(one) + Len(s)) :
               t[k] = IF k <= Len(one) THEN one[k] ELSE s[k - Len(one)]
      BY <1>2, <1>3, ConcatProperties
    <2>2. QED
      BY <1>3, <2>1, Zenon
  <1> HIDE DEF t
  <1>5. \A k \in 1..(j - (i - 1)) : t[k] = b[(i - 1) + k - 1]
    <2> TAKE k \in 1..(j - (i - 1))
    <2>1. k \in 1..(1 + Len(s)) /\ k \in Int
      BY <1>1, <1>2
    <2>2. t[k] = IF k <= 1 THEN one[k] ELSE s[k - 1]
      BY <1>4, <2>1
    <2>3. CASE k = 1
      BY <1>1, <1>3, <2>2, <2>3
    <2>4. CASE k > 1
      <3>1. k - 1 \in 1..(j - i)
        BY <1>1, <2>4
      <3>2. s[k - 1] = b[i + (k - 1) - 1]
        BY <1>2, <3>1
      <3>3. QED
        BY <1>1, <2>1, <2>2, <2>4, <3>2
    <2>5. QED
      BY <2>1, <2>3, <2>4
  <1>6. t \in Seq(Content) /\ Len(t) = j - (i - 1) /\ i - 1 \in Int
    BY <1>1, <1>2, <1>4
  <1>7. t = Slice(b, i - 1, j)
    BY <1>1, <1>5, <1>6, SliceIs, BufferAssumption
  <1>8. QED
    BY <1>7 DEF s, one, t

LEMMA SliceTail ==
  ASSUME NEW b \in [Cells -> Content], NEW i \in Cells, NEW j \in (i + 1)..CMD_BUF_SIZE
  PROVE  /\ Slice(b, i, j) # <<>>
         /\ Head(Slice(b, i, j)) = b[i]
         /\ Tail(Slice(b, i, j)) = Slice(b, i + 1, j)
  <1> DEFINE s == Slice(b, i, j)
             t == Tail(s)
  <1>1. i \in Int /\ j \in Int /\ 0 <= i /\ i + 1 <= j /\ j <= CMD_BUF_SIZE
    BY BufferAssumption DEF Cells
  <1>2. s \in Seq(Content) /\ Len(s) = j - i /\ \A k \in 1..(j - i) : s[k] = b[i + k - 1]
    BY <1>1, SliceFacts, BufferAssumption
  <1> HIDE DEF s
  <1>3. s # <<>>
    BY <1>1, <1>2, EmptySeq
  <1>4. Head(s) = b[i]
    <2>1. s[1] = b[i + 1 - 1]
      BY <1>1, <1>2
    <2>2. QED
      BY <1>1, <1>2, <1>3, <2>1
  <1>5. /\ t \in Seq(Content) /\ Len(t) = Len(s) - 1
        /\ \A k \in 1..Len(t) : t[k] = s[k + 1]
    BY <1>2, <1>3, HeadTailProperties
  <1> HIDE DEF t
  <1>6. Len(t) = j - (i + 1) /\ i + 1 \in Int
    BY <1>1, <1>2, <1>5
  <1>7. \A k \in 1..(j - (i + 1)) : t[k] = b[(i + 1) + k - 1]
    <2> TAKE k \in 1..(j - (i + 1))
    <2>1. k + 1 \in 1..(j - i) /\ k \in Int
      BY <1>1
    <2>2. t[k] = s[k + 1]
      BY <1>5, <1>6
    <2>3. s[k + 1] = b[i + (k + 1) - 1]
      BY <1>2, <2>1
    <2>4. QED
      BY <1>1, <2>1, <2>2, <2>3
  <1>8. t = Slice(b, i + 1, j)
    <2>1. t \in Seq(Content) /\ 0 <= i + 1
      BY <1>1, <1>5
    <2>2. QED
      BY <1>1, <1>6, <1>7, <2>1, SliceIs
  <1>9. QED
    BY <1>3, <1>4, <1>8 DEF s, t

LEMMA SliceConcat ==
  ASSUME NEW b \in [Cells -> Content], NEW j \in 0..CMD_BUF_SIZE, NEW i \in 0..j
  PROVE  Slice(b, 0, i) \o Slice(b, i, j) = Slice(b, 0, j)
  <1> DEFINE l == Slice(b, 0, i)
             r == Slice(b, i, j)
             t == l \o r
  <1>1. i \in Int /\ j \in Int /\ 0 <= i /\ i <= j /\ j <= CMD_BUF_SIZE
    BY BufferAssumption
  <1>2. l \in Seq(Content) /\ Len(l) = i /\ \A k \in 1..i : l[k] = b[k - 1]
    <2>1. /\ l \in Seq(Content) /\ Len(l) = i - 0
          /\ \A k \in 1..(i - 0) : l[k] = b[0 + k - 1]
      BY <1>1, SliceFacts, BufferAssumption
    <2> HIDE DEF l
    <2>2. QED
      BY <1>1, <2>1
  <1>3. r \in Seq(Content) /\ Len(r) = j - i /\ \A k \in 1..(j - i) : r[k] = b[i + k - 1]
    BY <1>1, SliceFacts, BufferAssumption
  <1> HIDE DEF l, r
  <1>4. /\ t \in Seq(Content) /\ Len(t) = Len(l) + Len(r)
        /\ \A k \in 1..(Len(l) + Len(r)) : t[k] = IF k <= Len(l) THEN l[k] ELSE r[k - Len(l)]
    BY <1>2, <1>3, ConcatProperties
  <1> HIDE DEF t
  <1>5. \A k \in 1..(j - 0) : t[k] = b[0 + k - 1]
    <2> TAKE k \in 1..(j - 0)
    <2>1. k \in Int /\ k \in 1..(Len(l) + Len(r))
      BY <1>1, <1>2, <1>3
    <2>2. t[k] = IF k <= i THEN l[k] ELSE r[k - i]
      BY <1>2, <1>4, <2>1
    <2>3. CASE k <= i
      <3>1. l[k] = b[k - 1]
        BY <1>1, <1>2, <2>1, <2>3
      <3>2. QED
        BY <2>1, <2>2, <2>3, <3>1
    <2>4. CASE k > i
      <3>1. k - i \in 1..(j - i)
        BY <1>1, <2>1, <2>4
      <3>2. r[k - i] = b[i + (k - i) - 1]
        BY <1>3, <3>1
      <3>3. i + (k - i) - 1 = 0 + k - 1
        BY <1>1, <2>1
      <3>4. t[k] = r[k - i]
        BY <1>1, <2>1, <2>2, <2>4
      <3>5. QED
        BY <3>2, <3>3, <3>4
    <2>5. QED
      BY <1>1, <2>1, <2>3, <2>4
  <1>6. Len(t) = j - 0
    BY <1>1, <1>2, <1>3, <1>4
  <1>7. t = Slice(b, 0, j)
    <2>1. t \in Seq(Content) /\ 0 \in Int
      BY <1>4
    <2>2. QED
      BY <1>1, <1>5, <1>6, <2>1, SliceIs
  <1>8. QED
    BY <1>7 DEF l, r, t

-----------------------------------------------------------------------------
(***************************************************************************)
(* The refinement: what each operation of the editor does to the text on   *)
(* the two sides of the cursor.                                            *)
(***************************************************************************)
Left == Slice(buf, 0, pos)
Right == Slice(buf, pos, len)

\* The two sides fit in the array together.
LEMMA SidesFit ==
  ASSUME EditorInv
  PROVE  Len(Left) = pos /\ Len(Right) = len - pos
  <1>1. /\ buf \in [Cells -> Content] /\ pos \in Int /\ len \in Int
        /\ 0 <= pos /\ pos <= len /\ len <= CMD_BUF_SIZE
    BY BufferAssumption DEF EditorInv
  <1>2. Len(Left) = pos - 0
    BY <1>1, SliceFacts, BufferAssumption DEF Left
  <1>3. Len(Right) = len - pos
    BY <1>1, SliceFacts, BufferAssumption DEF Right
  <1>4. QED
    BY <1>1, <1>2, <1>3

\* Both sides unchanged.
LEMMA SidesSame ==
  ASSUME UNCHANGED <<buf, len, pos>>
  PROVE  Left' = Left /\ Right' = Right
  BY DEF Left, Right

\* A character goes in before the cursor.
LEMMA CharacterInserts ==
  ASSUME EditorInv, EditorInv', NEW c \in Chars, Character(c)
  PROVE  Left' = Append(Left, c) /\ Right' = Right
  <1> USE BufferAssumption
  <1>1. /\ len < CMD_BUF_SIZE /\ len' = len + 1 /\ pos' = pos + 1
        /\ len \in Nat /\ pos \in 0..len /\ buf' \in [Cells -> Content]
        /\ \A i \in Cells : buf'[i] = IF i = pos THEN c
                                      ELSE IF pos < i /\ i <= len THEN buf[i - 1] ELSE buf[i]
    BY DEF Character, EditorInv
  <1>2. pos \in Cells /\ buf'[pos] = c
    BY <1>1 DEF Cells
  <1>3. Slice(buf', 0, pos) = Slice(buf, 0, pos)
    <2>1. \A k \in 1..(pos - 0) : buf'[0 + k - 1] = buf[0 + k - 1]
      BY <1>1 DEF Cells
    <2>2. QED
      BY <1>1, <2>1, SliceShifted
  <1>4. Append(Slice(buf', 0, pos), c) = Slice(buf', 0, pos + 1)
    BY <1>1, <1>2, SliceAppend
  <1>5. Slice(buf', pos + 1, len + 1) = Slice(buf, pos, len)
    <2> DEFINE p == pos + 1
               n == len + 1
    <2>1. \A k \in 1..(len - pos) : buf'[p + k - 1] = buf[pos + k - 1]
      BY <1>1 DEF Cells
    <2>2. n - p = len - pos /\ pos \in Int /\ len \in Int /\ p \in Int /\ n \in Int
      BY <1>1
    <2> HIDE DEF p, n
    <2>3. Slice(buf', p, n) = Slice(buf, pos, len)
      BY <2>1, <2>2 DEF Slice
    <2>4. QED
      BY <2>3 DEF p, n
  <1>6. QED
    BY <1>1, <1>3, <1>4, <1>5 DEF Left, Right

\* Backspace takes the last character before the cursor.
LEMMA BackspaceErases ==
  ASSUME EditorInv, EditorInv', Backspace
  PROVE  Left # <<>> /\ Left' = Text!Front(Left) /\ Right' = Right
  <1> USE BufferAssumption
  <1>1. /\ len' = len - 1 /\ pos' = pos - 1
        /\ len \in 1..CMD_BUF_SIZE /\ pos \in 1..len
        /\ buf \in [Cells -> Content]
        /\ \A i \in Cells : buf'[i] = IF pos - 1 <= i /\ i < len - 1 THEN buf[i + 1] ELSE buf[i]
    BY DEF Backspace, EditorInv
  <1>2. Slice(buf', 0, pos - 1) = Slice(buf, 0, pos - 1)
    <2>1. \A k \in 1..((pos - 1) - 0) : buf'[0 + k - 1] = buf[0 + k - 1]
      BY <1>1 DEF Cells
    <2>2. QED
      BY <1>1, <2>1, SliceShifted
  <1>3. Slice(buf, 0, pos) # <<>> /\ Text!Front(Slice(buf, 0, pos)) = Slice(buf, 0, pos - 1)
    BY <1>1, SliceFront
  <1>4. Slice(buf', pos - 1, len - 1) = Slice(buf, pos, len)
    <2> DEFINE p == pos - 1
               n == len - 1
    <2>1. \A k \in 1..(len - pos) : buf'[p + k - 1] = buf[pos + k - 1]
      <3> TAKE k \in 1..(len - pos)
      <3>1. (pos - 1) + k - 1 \in Cells /\ ((pos - 1) + k - 1) + 1 = pos + k - 1
        BY <1>1 DEF Cells
      <3>2. pos - 1 <= (pos - 1) + k - 1 /\ (pos - 1) + k - 1 < len - 1
        BY <1>1
      <3>3. QED
        BY <1>1, <3>1, <3>2
    <2>2. n - p = len - pos /\ pos \in Int /\ len \in Int /\ p \in Int /\ n \in Int
      BY <1>1
    <2> HIDE DEF p, n
    <2>3. Slice(buf', p, n) = Slice(buf, pos, len)
      BY <2>1, <2>2 DEF Slice
    <2>4. QED
      BY <2>3 DEF p, n
  <1>5. QED
    BY <1>1, <1>2, <1>3, <1>4 DEF Left, Right

\* The cursor moves over one character.
LEMMA CursorLeft ==
  ASSUME EditorInv, pos > 0, pos' = pos - 1, UNCHANGED <<buf, len>>
  PROVE  /\ Left # <<>> /\ Left' = Text!Front(Left)
         /\ Right' = <<Left[Len(Left)]>> \o Right
  <1> USE BufferAssumption
  <1>1. /\ len \in 0..CMD_BUF_SIZE /\ pos \in 1..len /\ buf \in [Cells -> Content]
        /\ pos \in 1..CMD_BUF_SIZE /\ len \in pos..CMD_BUF_SIZE
    BY DEF EditorInv
  <1>2. /\ Left # <<>> /\ Left[Len(Left)] = buf[pos - 1]
        /\ Text!Front(Left) = Slice(buf, 0, pos - 1)
    BY <1>1, SliceFront DEF Left
  <1>3. <<buf[pos - 1]>> \o Right = Slice(buf, pos - 1, len)
    BY <1>1, SliceCons DEF Right
  <1>4. Left' = Slice(buf, 0, pos - 1) /\ Right' = Slice(buf, pos - 1, len)
    BY DEF Left, Right
  <1>5. QED
    BY <1>2, <1>3, <1>4, Zenon

LEMMA CursorRight ==
  ASSUME EditorInv, pos < len, pos' = pos + 1, UNCHANGED <<buf, len>>
  PROVE  Right # <<>> /\ Left' = Append(Left, Head(Right)) /\ Right' = Tail(Right)
  <1> USE BufferAssumption
  <1>1. /\ len \in 0..CMD_BUF_SIZE /\ pos \in Cells /\ buf \in [Cells -> Content]
        /\ len \in (pos + 1)..CMD_BUF_SIZE
    BY DEF EditorInv, Cells
  <1>2. Right # <<>> /\ Head(Right) = buf[pos] /\ Tail(Right) = Slice(buf, pos + 1, len)
    BY <1>1, SliceTail DEF Right
  <1>3. Append(Left, buf[pos]) = Slice(buf, 0, pos + 1)
    BY <1>1, SliceAppend DEF Left
  <1>4. Left' = Slice(buf, 0, pos + 1) /\ Right' = Slice(buf, pos + 1, len)
    BY DEF Left, Right
  <1>5. QED
    BY <1>2, <1>3, <1>4, Zenon

\* Enter hands over both sides together.
LEMMA ReturnHandsOver ==
  ASSUME EditorInv, Return
  PROVE  /\ Left \o Right # <<>> /\ parsed' = Left \o Right
         /\ Left' = <<>> /\ Right' = <<>>
  <1> USE BufferAssumption
  <1>1. /\ len \in 1..CMD_BUF_SIZE /\ pos \in 0..len /\ buf \in [Cells -> Content]
        /\ len' = 0 /\ pos' = 0 /\ parsed' = Cut(0, len)
    BY DEF EditorInv, Return
  <1>2. Left \o Right = Slice(buf, 0, len)
    BY <1>1, SliceConcat DEF Left, Right
  <1>3. Slice(buf, 0, len) # <<>>
    BY <1>1, SliceFront
  <1>4. parsed' = Slice(buf, 0, len)
    BY <1>1, CutIsSlice
  <1>5. Left' = <<>> /\ Right' = <<>>
    <2>1. Left' = Slice(buf', 0, 0) /\ Right' = Slice(buf', 0, 0)
      BY <1>1 DEF Left, Right
    <2>2. QED
      BY <2>1, SliceEmpty
  <1>6. QED
    BY <1>2, <1>3, <1>4, <1>5, Zenon

-----------------------------------------------------------------------------
\* The text, the cursor and the counters keep their types.
THEOREM EditorTypeCorrect == EditorSpec => []EditorTypeOK
  BY EditorInitInv, EditorStepInv, EditorInvType, PTL DEF EditorSpec

\* The array and its counters are a text with a cursor.
THEOREM TextImplemented == EditorSpec => ImplementsText
  <1> DEFINE AbstractVars == <<Cut(0, pos), Cut(pos, len), parsed>>
  <1>1. EditorInit => Text!Init
    BY DEF EditorInit, Text!Init, Cut
  <1>2. EditorInv /\ EditorInv' /\ [EditorNext]_editor_vars => [Text!Next]_AbstractVars
    <2> SUFFICES ASSUME EditorInv, EditorInv', [EditorNext]_editor_vars
                 PROVE  Text!Next \/ UNCHANGED AbstractVars
      OBVIOUS
    <2>1. /\ Cut(0, pos) = Left /\ Cut(pos, len) = Right
          /\ (Cut(0, pos))' = Left' /\ (Cut(pos, len))' = Right'
      BY DEF Cut, Left, Right, Slice
    <2>2. ASSUME NEW c \in Chars, Character(c) PROVE Text!Next
      <3>1. Len(Left) + Len(Right) < CMD_BUF_SIZE
        BY <2>2, SidesFit, BufferAssumption DEF Character, EditorInv
      <3>2. Left' = Append(Left, c) /\ Right' = Right /\ parsed' = parsed
        BY <2>2, CharacterInserts DEF Character
      <3>3. Text!Insert(c)
        BY <2>1, <3>1, <3>2, Zenon DEF Text!Insert
      <3>4. QED
        BY <3>3 DEF Text!Next
    <2>3. CASE Backspace
      BY <2>1, <2>3, BackspaceErases DEF Text!Next, Text!Erase, Backspace
    <2>4. CASE Return
      BY <2>1, <2>4, ReturnHandsOver DEF Text!Next, Text!Enter
    <2>5. CASE LeftArrow
      <3>1. CASE pos > 0
        <4>1. /\ Left # <<>> /\ Left' = Text!Front(Left)
              /\ Right' = <<Left[Len(Left)]>> \o Right /\ parsed' = parsed
          BY <2>5, <3>1, CursorLeft DEF LeftArrow
        <4>2. Text!MoveLeft
          BY <2>1, <4>1, Zenon DEF Text!MoveLeft
        <4>3. QED
          BY <4>2 DEF Text!Next
      <3>2. CASE ~(pos > 0)
        BY <2>1, <2>5, <3>2, SidesSame DEF LeftArrow
      <3>3. QED
        BY <3>1, <3>2
    <2>6. CASE RightArrow
      <3>1. CASE pos < len
        BY <2>1, <2>6, <3>1, CursorRight DEF Text!Next, Text!MoveRight, RightArrow
      <3>2. CASE ~(pos < len)
        BY <2>1, <2>6, <3>2, SidesSame DEF RightArrow
      <3>3. QED
        BY <3>1, <3>2
    <2>7. CASE Escape \/ OtherSequence \/ UNCHANGED editor_vars
      BY <2>1, <2>7, SidesSame DEF Escape, OtherSequence, editor_vars
    <2>8. QED
      BY <2>2, <2>3, <2>4, <2>5, <2>6, <2>7 DEF EditorNext
  <1>3. QED
    BY <1>1, <1>2, EditorInitInv, EditorStepInv, PTL
    DEF EditorSpec, ImplementsText, Text!Spec

=============================================================================
