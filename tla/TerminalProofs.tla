---------------------------- MODULE TerminalProofs ----------------------------
(***************************************************************************)
(* What the terminal guarantees for every size of the command buffer and   *)
(* of the history, every keyboard and whatever kmain prints while keys     *)
(* arrive.  TypeOK, LineOnScreen and NulTerminated are inductive together  *)
(* with LineChars: the bytes of the line are characters, so that the NUL   *)
(* Enter writes behind them is the first one of the row it is saved in.    *)
(***************************************************************************)
EXTENDS Terminal, WellFoundedInduction, SequenceTheorems, TLAPS

\* The line has no NUL in it.
LineChars == \A i \in 0 .. cmd_len - 1 : cmd_buffer[i] \in Chars

IInv == TypeOK /\ LineChars /\ LineOnScreen /\ NulTerminated

-------------------------------------------------------------------------------
(* Sequences and strings. *)

\* The first n bytes of a, as a sequence.
Str(a, n) == [i \in 1 .. n |-> a[i - 1]]

\* The loop that looks for the NUL of a stops at n.
NulAt(a, n) ==
    /\ n < CMD_BUFFER_SIZE => a[n] = NUL
    /\ \A j \in 0 .. n - 1 : a[j] # NUL

LEMMA Sizes ==
    /\ CMD_BUFFER_SIZE \in Nat \ {0} /\ HISTORY_MAX \in Nat \ {0}
    /\ Columns \in Nat \ {0} /\ PromptLen \in Nat
    /\ MaxRow \in Nat /\ MaxOutput \in Nat /\ BootRow \in Nat
    /\ Len(BootText) \in Nat
<1>1. Len(BootText) \in Nat
  BY SizesAssumption, LenProperties
<1> QED BY <1>1, SizesAssumption

LEMMA LeastNat ==
    ASSUME NEW S \in SUBSET Nat, S # {}
    PROVE  \E m \in S : \A j \in S : m <= j
<1>1. PICK m \in S : \A j \in S : ~(<<j, m>> \in OpToRel(<, Nat))
  BY NatLessThanWellFounded, WFMin, Zenon
<1>2. \A j \in S : ~(j < m)
  BY <1>1 DEF OpToRel
<1> QED BY <1>2

LEMMA StrFacts ==
    ASSUME NEW a, NEW n \in Nat, NEW S, \A i \in 0 .. n - 1 : a[i] \in S
    PROVE  /\ Str(a, n) \in Seq(S) /\ Len(Str(a, n)) = n
           /\ \A i \in 1 .. n : Str(a, n)[i] = a[i - 1]
<1>1. \A i \in 1 .. n : a[i - 1] \in S
  OBVIOUS
<1>2. Str(a, n) \in [1 .. n -> S]
  BY <1>1 DEF Str
<1>3. Str(a, n) \in Seq(S)
  BY <1>2, SeqDef
<1>4. Len(Str(a, n)) = n
  <2>1. DOMAIN Str(a, n) = 1 .. n
    BY DEF Str
  <2> QED BY <1>3, <2>1, LenProperties
<1> QED BY <1>3, <1>4 DEF Str

LEMMA StrEqual ==
    ASSUME NEW a, NEW S, NEW s \in Seq(S), \A i \in 1 .. Len(s) : s[i] = a[i - 1]
    PROVE  s = Str(a, Len(s))
<1>1. DOMAIN s = 1 .. Len(s) /\ s \in [1 .. Len(s) -> S]
  BY LenProperties
<1>2. s = [i \in 1 .. Len(s) |-> s[i]]
  BY <1>1
<1> QED BY <1>2 DEF Str

LEMMA PrefixFacts ==
    ASSUME NEW S, NEW s \in Seq(S), NEW n \in 0 .. Len(s)
    PROVE  /\ SubSeq(s, 1, n) \in Seq(S) /\ Len(SubSeq(s, 1, n)) = n
           /\ \A i \in 1 .. n : SubSeq(s, 1, n)[i] = s[i]
<1>1. Len(s) \in Nat /\ \A i \in 1 .. Len(s) : s[i] \in S
  BY LenProperties
<1>2. \A i \in 1 .. n : s[i] \in S
  BY <1>1
<1>3. 1 \in Int /\ n \in Int /\ n \in Nat
  BY <1>1
<1>4. /\ SubSeq(s, 1, n) \in Seq(S)
      /\ Len(SubSeq(s, 1, n)) = IF 1 <= n THEN n - 1 + 1 ELSE 0
      /\ \A i \in 1 .. n - 1 + 1 : SubSeq(s, 1, n)[i] = s[1 + i - 1]
  BY <1>2, <1>3, SubSeqProperties
<1>5. (IF 1 <= n THEN n - 1 + 1 ELSE 0) = n
  BY <1>3
<1>6. Len(SubSeq(s, 1, n)) = n
  <2>1. Len(SubSeq(s, 1, n)) = IF 1 <= n THEN n - 1 + 1 ELSE 0
    BY <1>4, Zenon
  <2> QED BY <1>5, <2>1
<1>7. \A i \in 1 .. n : SubSeq(s, 1, n)[i] = s[i]
  BY <1>3, <1>4
<1> QED BY <1>4, <1>6, <1>7

\* The search for the NUL always ends, at the latest behind the array.
LEMMA NulExists ==
    ASSUME NEW a
    PROVE  \E n \in 0 .. CMD_BUFFER_SIZE : NulAt(a, n)
<1> DEFINE S == {i \in 0 .. CMD_BUFFER_SIZE : i < CMD_BUFFER_SIZE => a[i] = NUL}
<1>1. S \in SUBSET Nat /\ CMD_BUFFER_SIZE \in S
  BY Sizes
<1>2. PICK n \in S : \A j \in S : n <= j
  BY <1>1, LeastNat
<1>3. \A j \in 0 .. n - 1 : a[j] # NUL
  BY <1>1, <1>2, Sizes
<1> QED BY <1>2, <1>3 DEF NulAt

LEMMA NulUnique ==
    ASSUME NEW a, NEW m \in 0 .. CMD_BUFFER_SIZE, NEW n \in 0 .. CMD_BUFFER_SIZE, NulAt(a, m), NulAt(a, n)
    PROVE  m = n
  BY Sizes DEF NulAt

LEMMA CStringFacts ==
    ASSUME NEW a, NEW n \in 0 .. CMD_BUFFER_SIZE, NulAt(a, n)
    PROVE  CString(a) = Str(a, n)
<1> DEFINE P(i) == /\ i < CMD_BUFFER_SIZE => a[i] = NUL
                   /\ \A j \in 0 .. i - 1 : a[j] # NUL
           m == CHOOSE i \in 0 .. CMD_BUFFER_SIZE : P(i)
<1>1. m \in 0 .. CMD_BUFFER_SIZE /\ P(m)
  <2>1. P(n)
    BY DEF NulAt
  <2> HIDE DEF P
  <2> QED BY <2>1
<1>2. CString(a) = Str(a, m)
  BY DEF CString, Str
<1> HIDE DEF m
<1>3. m = n
  BY <1>1, NulUnique DEF NulAt
<1> QED BY <1>2, <1>3

\* A typed array holds a string of characters.
LEMMA CStringTyped ==
    ASSUME NEW a \in [Bytes -> Chars \cup {NUL}]
    PROVE  \E n \in 0 .. CMD_BUFFER_SIZE :
             /\ NulAt(a, n) /\ CString(a) = Str(a, n)
             /\ CString(a) \in Seq(Chars) /\ Len(CString(a)) = n
             /\ \A i \in 1 .. n : CString(a)[i] = a[i - 1]
<1>1. PICK n \in 0 .. CMD_BUFFER_SIZE : NulAt(a, n)
  BY NulExists
<1>2. CString(a) = Str(a, n)
  BY <1>1, CStringFacts
<1>3. \A i \in 0 .. n - 1 : a[i] \in Chars
  BY <1>1, Sizes DEF NulAt, Bytes
<1>4. n \in Nat
  BY Sizes
<1>5. Str(a, n) \in Seq(Chars) /\ Len(Str(a, n)) = n /\ \A i \in 1 .. n : Str(a, n)[i] = a[i - 1]
  BY <1>3, <1>4, StrFacts
<1> QED BY <1>1, <1>2, <1>5

\* A row copied up to its NUL holds the string it is copied from.
LEMMA CopyRowFacts ==
    ASSUME NEW dst \in [Bytes -> Chars \cup {NUL}], NEW src \in [Bytes -> Chars \cup {NUL}],
           \E i \in Bytes : src[i] = NUL
    PROVE  /\ CopyRow(dst, src) \in [Bytes -> Chars \cup {NUL}]
           /\ \E i \in Bytes : CopyRow(dst, src)[i] = NUL
           /\ CopyRow(dst, src)[0] = src[0]
           /\ CString(CopyRow(dst, src)) = CString(src)
<1>1. PICK n \in 0 .. CMD_BUFFER_SIZE : NulAt(src, n) /\ CString(src) = Str(src, n) /\ Len(CString(src)) = n
  BY CStringTyped
<1>2. n \in Bytes
  BY <1>1, Sizes DEF NulAt, Bytes
<1>3. CopyRow(dst, src) = [i \in Bytes |-> IF i <= n THEN src[i] ELSE dst[i]]
  BY <1>1 DEF CopyRow
<1> DEFINE row == CopyRow(dst, src)
<1>4. row \in [Bytes -> Chars \cup {NUL}] /\ \A i \in 0 .. n : row[i] = src[i]
  BY <1>2, <1>3, Sizes DEF Bytes
<1> HIDE DEF row
<1>5. src[n] = NUL
  BY <1>1, <1>2, Sizes DEF NulAt, Bytes
<1>6. NulAt(row, n)
  BY <1>1, <1>2, <1>4, Sizes DEF NulAt, Bytes
<1>7. CString(row) = Str(row, n)
  BY <1>6, CStringFacts
<1>8. Str(row, n) = Str(src, n)
  BY <1>2, <1>4, Sizes DEF Str, Bytes
<1>9. row[0] = src[0] /\ row[n] = NUL
  BY <1>2, <1>4, <1>5, Sizes DEF Bytes
<1> QED BY <1>1, <1>2, <1>4, <1>7, <1>8, <1>9 DEF row

-------------------------------------------------------------------------------
(* The line. *)

Row == [Bytes -> Chars \cup {NUL}]

\* The line is a sequence of characters that leaves room for a NUL.
LEMMA LineFacts ==
    ASSUME TypeOK, LineChars
    PROVE  /\ cmd_len \in Nat /\ cmd_len < CMD_BUFFER_SIZE
           /\ Line = Str(cmd_buffer, cmd_len)
           /\ Line \in Seq(Chars) /\ Len(Line) = cmd_len
           /\ \A i \in 1 .. cmd_len : Line[i] = cmd_buffer[i - 1]
           /\ \A i \in 0 .. cmd_len - 1 : cmd_buffer[i] \in Chars
<1>1. cmd_len \in Nat /\ cmd_len < CMD_BUFFER_SIZE
  BY Sizes DEF TypeOK, Bytes
<1>2. Line = Str(cmd_buffer, cmd_len)
  BY DEF Line, Str
<1>3. \A i \in 0 .. cmd_len - 1 : cmd_buffer[i] \in Chars
  BY DEF LineChars
<1> QED BY <1>1, <1>2, <1>3, StrFacts

\* The screen: what it shows and what of the line it does not.
ScreenOK == shown \in Seq(Chars) /\ home \in Nat /\ eaten \in BOOLEAN /\ LineOnScreen

LEMMA ScreenFacts ==
    ASSUME TypeOK, LineOnScreen
    PROVE  /\ cmd_len \in Nat /\ shown \in Seq(Chars)
           /\ Len(shown) \in 0 .. cmd_len /\ home \in Nat /\ eaten \in BOOLEAN
           /\ \A i \in 1 .. Len(shown) : shown[i] = cmd_buffer[(cmd_len - Len(shown)) + i - 1]
           /\ ~adrift /\ ~half => Len(shown) = cmd_len /\ ~eaten
<1>1. cmd_len \in Nat /\ shown \in Seq(Chars) /\ home \in Nat /\ eaten \in BOOLEAN
  BY Sizes DEF TypeOK, Bytes
<1>2. Len(shown) \in Nat /\ DOMAIN shown = 1 .. Len(shown)
  BY <1>1, LenProperties
<1>3. cmd_len - Len(shown) >= 0 /\ (~adrift /\ ~half => cmd_len - Len(shown) = 0 /\ ~eaten)
  BY DEF LineOnScreen, Hidden
<1>4. \A i \in 1 .. Len(shown) : shown[i] = cmd_buffer[(cmd_len - Len(shown)) + i - 1]
  BY <1>2 DEF LineOnScreen, Hidden
<1> QED BY <1>1, <1>2, <1>3, <1>4

\* The same facts about the next state make it good.
LEMMA ScreenNext ==
    ASSUME NEW n \in Nat, NEW l \in 0 .. n, cmd_len' = n, shown' \in Seq(Chars), Len(shown') = l,
           home' \in Nat, eaten' \in BOOLEAN,
           \A i \in 1 .. l : shown'[i] = cmd_buffer'[(n - l) + i - 1],
           ~adrift' /\ ~half' => l = n /\ ~eaten'
    PROVE  ScreenOK'
<1>1. DOMAIN shown' = 1 .. l
  BY LenProperties
<1>2. Hidden' = n - l /\ n - l >= 0
  BY DEF Hidden
<1>3. \A i \in DOMAIN shown' : shown'[i] = cmd_buffer'[Hidden' + i - 1]
  BY <1>1, <1>2
<1>4. ~adrift' /\ ~half' => Hidden' = 0 /\ ~eaten'
  BY <1>2
<1> QED BY <1>2, <1>3, <1>4 DEF ScreenOK, LineOnScreen

\* Erasing shortens the echo by as many cells, as far as there are any; the prompt is
\* touched only when there are too few.
LEMMA EraseEchoFacts ==
    ASSUME NEW k \in Nat, NEW text \in Seq(Chars), shown \in Seq(Chars), home \in Nat,
           eaten \in BOOLEAN, EraseAndEcho(k, text)
    PROVE  /\ home' \in Nat /\ eaten' \in BOOLEAN
           /\ k <= Len(shown) => (eaten' <=> eaten)
           /\ k >= Len(shown) => shown' = text
           /\ k <= Len(shown) => shown' = SubSeq(shown, 1, Len(shown) - k) \o text
<1>1. Len(shown) \in Nat
  BY LenProperties
<1>2. home' \in Nat
  BY <1>1 DEF EraseAndEcho, Cursor
<1>3. eaten' \in BOOLEAN
  BY Zenon DEF EraseAndEcho
<1>4. k <= Len(shown) => (eaten' <=> eaten)
  <2>1. ASSUME k <= Len(shown)
        PROVE  ~(k > Len(shown))
    BY <1>1, <2>1
  <2> QED BY <2>1, Zenon DEF EraseAndEcho
<1>5. k >= Len(shown) => shown' = text
  <2> SUFFICES ASSUME k >= Len(shown) PROVE shown' = text
    OBVIOUS
  <2>1. SubSeq(shown, 1, Len(shown) - k) = <<>>
    <3>1. PICK z \in Int : z = Len(shown) - k /\ z < 1
      BY <1>1
    <3>2. SubSeq(shown, 1, z) = <<>>
      BY <3>1, SubSeqEmpty
    <3> QED BY <3>1, <3>2
  <2> QED BY <2>1, ConcatEmptySeq DEF EraseAndEcho
<1> QED BY <1>2, <1>3, <1>4, <1>5 DEF EraseAndEcho

\* A recalled line replaces the line and its echo.
LEMMA CmdSetFacts ==
    ASSUME TypeOK, LineOnScreen, NEW str \in Seq(Chars), cmd_set(str), UNCHANGED <<adrift, half>>
    PROVE  /\ cmd_buffer' \in Row /\ cmd_len' \in Bytes /\ LineChars' /\ ScreenOK'
           /\ Len(str) < CMD_BUFFER_SIZE => Line' = str
<1> DEFINE N == IF Len(str) < CMD_BUFFER_SIZE THEN Len(str) ELSE CMD_BUFFER_SIZE - 1
<1>1. Len(str) \in Nat
  BY LenProperties
<1>2. PICK n \in Nat : n = N /\ n \in 0 .. Len(str) /\ n \in Bytes
  BY <1>1, Sizes DEF Bytes
<1>3. /\ cmd_buffer' = [i \in Bytes |-> IF i < n THEN str[i + 1] ELSE cmd_buffer[i]]
      /\ cmd_len' = n
      /\ EraseAndEcho(cmd_len, SubSeq(str, 1, n))
  BY <1>2 DEF cmd_set
<1>4. /\ SubSeq(str, 1, n) \in Seq(Chars) /\ Len(SubSeq(str, 1, n)) = n
      /\ \A i \in 1 .. n : SubSeq(str, 1, n)[i] = str[i]
  BY <1>2, PrefixFacts
<1>5. /\ shown' = SubSeq(str, 1, n) /\ home' \in Nat /\ eaten' \in BOOLEAN
      /\ ~adrift /\ ~half => ~eaten'
  <2>1. /\ home' \in Nat /\ eaten' \in BOOLEAN
        /\ cmd_len <= Len(shown) => (eaten' <=> eaten)
        /\ cmd_len >= Len(shown) => shown' = SubSeq(str, 1, n)
    BY <1>3, <1>4, ScreenFacts, EraseEchoFacts
  <2>2. cmd_len >= Len(shown) /\ (~adrift /\ ~half => cmd_len <= Len(shown) /\ ~eaten)
    BY ScreenFacts
  <2> QED BY <2>1, <2>2
<1>6. \A i \in 1 .. Len(str) : str[i] \in Chars
  BY <1>1, LenProperties
<1>7. cmd_buffer \in Row
  BY DEF TypeOK, Row
<1>8. cmd_buffer' \in Row
  <2>1. ASSUME NEW i \in Bytes
        PROVE  (IF i < n THEN str[i + 1] ELSE cmd_buffer[i]) \in Chars \cup {NUL}
    <3>1. CASE i < n
      <4>1. i + 1 \in 1 .. Len(str)
        BY <1>1, <1>2, <3>1, Sizes DEF Bytes
      <4> QED BY <1>6, <3>1, <4>1
    <3>2. CASE ~(i < n)
      BY <1>7, <3>2 DEF Row
    <3> QED BY <3>1, <3>2
  <2> QED BY <1>3, <2>1 DEF Row
<1>9. \A i \in 1 .. n : shown'[i] = cmd_buffer'[i - 1]
  <2> TAKE i \in 1 .. n
  <2>1. i - 1 \in Bytes /\ i - 1 < n /\ (i - 1) + 1 = i
    BY <1>2, Sizes DEF Bytes
  <2>2. cmd_buffer'[i - 1] = str[(i - 1) + 1]
    BY <1>3, <2>1
  <2> QED BY <1>4, <1>5, <2>1, <2>2
<1>10. Line' = Str(cmd_buffer', n)
  BY <1>3 DEF Line, Str
<1>11. shown' = Str(cmd_buffer', n)
  BY <1>4, <1>5, <1>9, StrEqual
<1>12. Len(str) < CMD_BUFFER_SIZE => shown' = str
  <2>1. Len(str) < CMD_BUFFER_SIZE => n = Len(str)
    BY <1>2
  <2> QED BY <1>5, <2>1, SubSeqFull
<1>13. LineChars'
  <2>1. ASSUME NEW i \in 0 .. n - 1
        PROVE  cmd_buffer'[i] \in Chars
    <3>1. i \in Bytes /\ i < n /\ i + 1 \in 1 .. Len(str)
      BY <1>1, <1>2, Sizes DEF Bytes
    <3> QED BY <1>3, <1>6, <3>1
  <2> QED BY <1>3, <2>1 DEF LineChars
<1>14. ScreenOK'
  <2>1. \A i \in 1 .. n : shown'[i] = cmd_buffer'[(n - n) + i - 1]
    <3> TAKE i \in 1 .. n
    <3>1. (n - n) + i - 1 = i - 1
      OBVIOUS
    <3> QED BY <1>9, <3>1
  <2>2. n \in 0 .. n /\ Len(shown') = n /\ shown' \in Seq(Chars)
    BY <1>4, <1>5
  <2>3. ~adrift' /\ ~half' => n = n /\ ~eaten'
    BY <1>5
  <2> QED BY <1>3, <1>5, <2>1, <2>2, <2>3, ScreenNext
<1> QED BY <1>2, <1>3, <1>8, <1>10, <1>11, <1>12, <1>13, <1>14

\* Erasing takes the same characters from the buffer and from the screen.
LEMMA EraseFacts ==
    ASSUME TypeOK, LineChars, LineOnScreen, NEW d \in 0 .. cmd_len, EraseChars(d),
           UNCHANGED <<adrift, half>>
    PROVE  /\ cmd_buffer' = cmd_buffer /\ cmd_len' = cmd_len - d /\ cmd_len' \in Bytes
           /\ LineChars' /\ ScreenOK'
           /\ Line' = SubSeq(Line, 1, cmd_len - d)
<1>1. /\ cmd_len \in Nat /\ cmd_len < CMD_BUFFER_SIZE /\ Line \in Seq(Chars) /\ Len(Line) = cmd_len
      /\ \A i \in 1 .. cmd_len : Line[i] = cmd_buffer[i - 1]
      /\ \A i \in 0 .. cmd_len - 1 : cmd_buffer[i] \in Chars
  BY LineFacts
<1>2. PICK n \in 0 .. cmd_len : n = cmd_len - d /\ n \in Bytes /\ n \in Nat
  BY <1>1, Sizes DEF Bytes
<1>3. cmd_buffer' = cmd_buffer /\ cmd_len' = n /\ EraseAndEcho(d, <<>>)
  BY <1>1, <1>2 DEF EraseChars
<1>4. LineChars'
  BY <1>1, <1>2, <1>3 DEF LineChars
<1>5. Line' = SubSeq(Line, 1, n)
  <2>1. /\ SubSeq(Line, 1, n) \in Seq(Chars) /\ Len(SubSeq(Line, 1, n)) = n
        /\ \A i \in 1 .. n : SubSeq(Line, 1, n)[i] = Line[i]
    BY <1>1, <1>2, PrefixFacts
  <2>2. \A i \in 1 .. n : SubSeq(Line, 1, n)[i] = cmd_buffer[i - 1]
    BY <1>1, <1>2, <2>1
  <2>3. SubSeq(Line, 1, n) = Str(cmd_buffer, n)
    BY <2>1, <2>2, StrEqual
  <2> QED BY <1>3, <2>3 DEF Line, Str
<1>6. ScreenOK'
  <2>1. PICK l \in 0 .. cmd_len : l = Len(shown) /\ l \in Nat
    BY <1>1, ScreenFacts
  <2>2. /\ shown \in Seq(Chars) /\ <<>> \in Seq(Chars) /\ d \in Nat
        /\ \A i \in 1 .. l : shown[i] = cmd_buffer[(cmd_len - l) + i - 1]
        /\ ~adrift /\ ~half => l = cmd_len /\ ~eaten
    BY <1>1, <2>1, ScreenFacts
  <2>3. /\ home' \in Nat /\ eaten' \in BOOLEAN
        /\ d <= l => (eaten' <=> eaten)
        /\ d >= l => shown' = <<>>
        /\ d <= l => shown' = SubSeq(shown, 1, l - d) \o <<>>
    BY <1>3, <2>1, <2>2, ScreenFacts, EraseEchoFacts
  <2>4. CASE d <= l
    <3>0. d \in Nat /\ l \in Nat
      BY <2>1, <2>2, Zenon
    <3>1. PICK k \in 0 .. l : k = l - d /\ k \in Nat
      <4> DEFINE k == l - d
      <4>1. k \in 0 .. l /\ k \in Nat
        BY <2>4, <3>0
      <4> QED BY <4>1, Zenon
    <3>2. /\ SubSeq(shown, 1, k) \in Seq(Chars) /\ Len(SubSeq(shown, 1, k)) = k
          /\ \A i \in 1 .. k : SubSeq(shown, 1, k)[i] = shown[i]
      BY <2>1, <2>2, <3>1, PrefixFacts
    <3>3. shown' = SubSeq(shown, 1, k)
      BY <2>3, <2>4, <3>1, <3>2, ConcatEmptySeq
    <3>4. \A i \in 1 .. k : shown'[i] = cmd_buffer'[(n - k) + i - 1]
      <4> TAKE i \in 1 .. k
      <4>1. i \in 1 .. l /\ (n - k) + i - 1 = (cmd_len - l) + i - 1
        BY <1>1, <1>2, <2>1, <2>2, <3>1
      <4> QED BY <1>3, <2>2, <3>2, <3>3, <4>1
    <3>5. k \in 0 .. n /\ (l = cmd_len => k = n)
      BY <1>1, <1>2, <2>1, <2>2, <3>1
    <3>6. ~adrift' /\ ~half' => k = n /\ ~eaten'
      BY <2>2, <2>3, <2>4, <3>5
    <3>7. Len(shown') = k /\ shown' \in Seq(Chars)
      BY <3>2, <3>3
    <3> QED BY <1>2, <1>3, <2>3, <3>4, <3>5, <3>6, <3>7, ScreenNext
  <2>5. CASE ~(d <= l)
    <3>0. d >= l
      BY <1>1, <2>1, <2>2, <2>5
    <3>1. shown' = <<>> /\ Len(shown') = 0 /\ shown' \in Seq(Chars)
      <4>1. shown' = <<>>
        BY <2>3, <3>0
      <4> QED BY <4>1
    <3>2. ~(~adrift' /\ ~half')
      BY <1>1, <2>1, <2>2, <2>5
    <3>3. 0 \in 0 .. n /\ \A i \in 1 .. 0 : shown'[i] = cmd_buffer'[(n - 0) + i - 1]
      BY <1>2
    <3> QED BY <1>2, <1>3, <2>3, <3>1, <3>2, <3>3, ScreenNext
  <2> QED BY <2>4, <2>5
<1> QED BY <1>2, <1>3, <1>4, <1>5, <1>6

\* Going down from n through a run of B ends at the start of the run.
LEMMA RunStart ==
    ASSUME NEW n \in Nat, NEW B
    PROVE  \E m \in 0 .. n : (\A i \in m .. n - 1 : i \in B) /\ (m > 0 => m - 1 \notin B)
<1> DEFINE S == {m \in 0 .. n : \A i \in m .. n - 1 : i \in B}
<1>1. S \subseteq Nat /\ n \in S
  OBVIOUS
<1>2. PICK m \in S : \A j \in S : m <= j
  <2> HIDE DEF S
  <2> QED BY <1>1, LeastNat
<1>3. m \in 0 .. n /\ \A i \in m .. n - 1 : i \in B
  BY <1>2
<1>4. ASSUME m > 0, m - 1 \in B
      PROVE  FALSE
  <2>1. m - 1 \in 0 .. n
    BY <1>3, <1>4
  <2>2. \A i \in (m - 1) .. n - 1 : i = m - 1 \/ i \in m .. n - 1
    BY <1>3
  <2>3. m - 1 \in S
    BY <1>3, <1>4, <2>1, <2>2
  <2> QED BY <1>2, <1>3, <2>3
<1> QED BY <1>3, <1>4

IsBlank(i) == cmd_buffer[i] = " "

\* backspace_word stops before a word, or at the start of the line.
LEMMA WordFacts ==
    ASSUME TypeOK, backspace_word
    PROVE  \E m \in 0 .. cmd_len : \E k \in 0 .. m :
             /\ \A i \in m .. cmd_len - 1 : IsBlank(i)
             /\ m > 0 => ~IsBlank(m - 1)
             /\ \A i \in k .. m - 1 : ~IsBlank(i)
             /\ k > 0 => IsBlank(k - 1)
             /\ EraseChars(cmd_len - k)
<1> DEFINE P(m) == (\A i \in m .. cmd_len - 1 : IsBlank(i)) /\ (m > 0 => ~IsBlank(m - 1))
           M == CHOOSE m \in 0 .. cmd_len : P(m)
           Q(m, k) == (\A i \in k .. m - 1 : ~IsBlank(i)) /\ (k > 0 => IsBlank(k - 1))
           K == CHOOSE k \in 0 .. M : Q(M, k)
<1>0. cmd_len \in Nat
  BY Sizes DEF TypeOK, Bytes
<1>1. \E m \in 0 .. cmd_len : P(m)
  <2> DEFINE B == {i \in Int : IsBlank(i)}
  <2>1. PICK m \in 0 .. cmd_len : (\A i \in m .. cmd_len - 1 : i \in B) /\ (m > 0 => m - 1 \notin B)
    BY <1>0, RunStart
  <2>2. m - 1 \in Int
    BY <1>0
  <2> QED BY <2>1, <2>2
<1>2. M \in 0 .. cmd_len /\ P(M)
  <2> HIDE DEF P
  <2> QED BY <1>1
<1>3. ASSUME NEW m \in Nat
      PROVE  \E k \in 0 .. m : Q(m, k)
  <2> DEFINE B == {i \in Int : ~IsBlank(i)}
  <2>1. PICK k \in 0 .. m : (\A i \in k .. m - 1 : i \in B) /\ (k > 0 => k - 1 \notin B)
    BY RunStart
  <2>2. k - 1 \in Int
    OBVIOUS
  <2> QED BY <2>1, <2>2
<1>4. M \in Nat
  <2> HIDE DEF M, P
  <2> QED BY <1>0, <1>2
<1>5. K \in 0 .. M /\ Q(M, K)
  <2> HIDE DEF M, Q
  <2> QED BY <1>3, <1>4
<1>6. EraseChars(cmd_len - K)
  BY Zenon DEF backspace_word, IsBlank
<1> HIDE DEF M, K
<1> QED BY <1>2, <1>5, <1>6

-------------------------------------------------------------------------------
(* The history. *)

\* Enter ends the line with a NUL that is inside the buffer.
LEMMA BufFacts ==
    ASSUME TypeOK, LineChars, NEW buf, buf = [cmd_buffer EXCEPT ![cmd_len] = NUL]
    PROVE  /\ buf \in Row /\ (\E i \in Bytes : buf[i] = NUL)
           /\ cmd_len > 0 => buf[0] # NUL
           /\ CString(buf) = Line
<1>1. /\ cmd_len \in Nat /\ cmd_len < CMD_BUFFER_SIZE /\ cmd_len \in Bytes /\ cmd_buffer \in Row
      /\ Line = Str(cmd_buffer, cmd_len)
      /\ \A i \in 0 .. cmd_len - 1 : cmd_buffer[i] \in Chars
  BY LineFacts DEF TypeOK, Row
<1>2. buf \in Row /\ buf[cmd_len] = NUL /\ \A i \in 0 .. cmd_len - 1 : buf[i] = cmd_buffer[i]
  BY <1>1, Sizes DEF Row, Bytes
<1>3. NUL \notin Chars
  BY KeysAssumption
<1>4. NulAt(buf, cmd_len)
  BY <1>1, <1>2, <1>3 DEF NulAt
<1>5. cmd_len \in 0 .. CMD_BUFFER_SIZE
  BY <1>1, Sizes
<1>6. CString(buf) = Str(buf, cmd_len)
  BY <1>4, <1>5, CStringFacts
<1>7. Str(buf, cmd_len) = Str(cmd_buffer, cmd_len)
  BY <1>1, <1>2 DEF Str
<1>8. cmd_len > 0 => buf[0] # NUL
  BY <1>1, <1>2, <1>3
<1> QED BY <1>1, <1>2, <1>6, <1>7, <1>8

\* A row that a loop up to its NUL reads within the row, with something in it.
GoodRow(a) == a \in Row /\ (\E i \in Bytes : a[i] = NUL) /\ a[0] # NUL

LEMMA CopyGood ==
    ASSUME NEW dst \in Row, NEW src, GoodRow(src)
    PROVE  GoodRow(CopyRow(dst, src)) /\ CString(CopyRow(dst, src)) = CString(src)
  BY CopyRowFacts DEF GoodRow, Row

\* The rows of the history in use.
LEMMA HistoryRows ==
    ASSUME TypeOK, NulTerminated
    PROVE  \A j \in 0 .. history_count - 1 : j \in Slots /\ GoodRow(history[j])
<1> TAKE j \in 0 .. history_count - 1
<1>1. history_count \in 0 .. HISTORY_MAX /\ history \in [Slots -> Row]
  BY DEF TypeOK, Row
<1>2. j \in Slots
  BY <1>1, Sizes DEF Slots
<1>3. history[j] \in Row
  BY <1>1, <1>2
<1> QED BY <1>2, <1>3 DEF GoodRow, NulTerminated

\* Saving a command: it becomes the last row, and a full history loses its oldest.
LEMMA SaveFacts ==
    ASSUME TypeOK, NulTerminated, NEW buf, cmd_len > 0, GoodRow(buf), SaveHistory(buf)
    PROVE  /\ history' \in [Slots -> Row] /\ NulTerminated'
           /\ history_count' = IF history_count < HISTORY_MAX THEN history_count + 1 ELSE HISTORY_MAX
           /\ CString(history'[history_count' - 1]) = CString(buf)
           /\ \A j \in 0 .. history_count' - 2 :
                CString(history'[j]) =
                  CString(history[IF history_count < HISTORY_MAX THEN j ELSE j + 1])
<1>0. history_count \in 0 .. HISTORY_MAX /\ history \in [Slots -> Row] /\ cmd_len # 0
  BY DEF TypeOK, Row
<1>1. \A j \in 0 .. history_count - 1 : j \in Slots /\ GoodRow(history[j])
  BY HistoryRows
<1>2. CASE history_count < HISTORY_MAX
  <2>1. PICK c \in Slots : c = history_count /\ c \in Nat
    BY <1>0, <1>2, Sizes DEF Slots
  <2>2. history' = [history EXCEPT ![c] = CopyRow(history[c], buf)] /\ history_count' = c + 1
    BY <1>0, <1>2, <2>1 DEF SaveHistory
  <2>3. history[c] \in Row
    BY <1>0
  <2>4. GoodRow(CopyRow(history[c], buf)) /\ CString(CopyRow(history[c], buf)) = CString(buf)
    BY <2>3, CopyGood
  <2>5. history'[c] = CopyRow(history[c], buf) /\ \A j \in Slots : j # c => history'[j] = history[j]
    BY <1>0, <2>2
  <2>6. history' \in [Slots -> Row]
    BY <1>0, <2>2, <2>4 DEF GoodRow
  <2>7. \A j \in 0 .. c - 1 : j \in Slots /\ j # c /\ history'[j] = history[j] /\ GoodRow(history[j])
    BY <1>1, <2>1, <2>5
  <2>8. \A j \in 0 .. c : GoodRow(history'[j])
    BY <2>1, <2>4, <2>5, <2>7
  <2>9. NulTerminated'
    BY <2>1, <2>2, <2>8 DEF NulTerminated, GoodRow
  <2>10. history_count' - 1 = c /\ history_count' - 2 = c - 1
    BY <2>1, <2>2
  <2> QED BY <1>2, <2>1, <2>2, <2>4, <2>5, <2>6, <2>7, <2>9, <2>10
<1>3. CASE ~(history_count < HISTORY_MAX)
  <2>1. PICK h \in Nat : h = HISTORY_MAX /\ h = history_count /\ h > 0
    BY <1>0, <1>3, Sizes
  <2> DEFINE Src(j) == IF j = h - 1 THEN buf ELSE history[j + 1]
  <2>2. history' = [j \in Slots |-> CopyRow(history[j], Src(j))] /\ history_count' = h
    BY <1>0, <1>3, <2>1 DEF SaveHistory
  <2>3. Slots = 0 .. h - 1
    BY <2>1 DEF Slots
  <2>4. ASSUME NEW j \in Slots
        PROVE  GoodRow(Src(j))
    <3>1. CASE j = h - 1
      BY <3>1
    <3>2. CASE j # h - 1
      <4>1. j + 1 \in 0 .. history_count - 1
        BY <2>1, <2>3, <3>2
      <4> QED BY <1>1, <3>2, <4>1
    <3> QED BY <3>1, <3>2
  <2> HIDE DEF Src
  <2>5. ASSUME NEW j \in Slots
        PROVE  GoodRow(history'[j]) /\ CString(history'[j]) = CString(Src(j))
    <3>1. history[j] \in Row
      BY <1>0
    <3>2. GoodRow(CopyRow(history[j], Src(j))) /\ CString(CopyRow(history[j], Src(j))) = CString(Src(j))
      BY <2>4, <3>1, CopyGood
    <3> QED BY <2>2, <3>2
  <2>6. history' \in [Slots -> Row]
    <3>1. \A j \in Slots : history'[j] \in Row
      BY <2>5 DEF GoodRow
    <3> QED BY <2>2, <3>1
  <2>7. NulTerminated'
    BY <2>2, <2>3, <2>5 DEF NulTerminated, GoodRow
  <2>8. h - 1 \in Slots /\ Src(h - 1) = buf
    BY <2>1, <2>3 DEF Src
  <2>9. \A j \in 0 .. h - 2 : j \in Slots /\ Src(j) = history[j + 1]
    BY <2>1, <2>3 DEF Src
  <2>10. CString(history'[h - 1]) = CString(buf)
    BY <2>5, <2>8
  <2>11. \A j \in 0 .. h - 2 : CString(history'[j]) = CString(history[j + 1])
    BY <2>5, <2>9
  <2> QED BY <1>3, <2>1, <2>2, <2>6, <2>7, <2>10, <2>11
<1> QED BY <1>2, <1>3

-------------------------------------------------------------------------------
(* The invariant, by the parts a key changes. *)

EditOK == cmd_buffer \in Row /\ cmd_len \in Bytes /\ LineChars /\ ScreenOK
HistOK == /\ history \in [Slots -> Row] /\ history_count \in 0 .. HISTORY_MAX
          /\ history_index \in 0 .. history_count /\ NulTerminated
ModsOK == shift_pressed \in BOOLEAN /\ ctrl_pressed \in BOOLEAN /\ e0_pressed \in BOOLEAN
BootOK == /\ at \in 1 .. Len(BootText) + 1 /\ half \in BOOLEAN /\ adrift \in BOOLEAN
          /\ half => at <= Len(BootText)

LEMMA Parts == IInv <=> EditOK /\ HistOK /\ ModsOK /\ BootOK
  BY Zenon DEF IInv, TypeOK, EditOK, HistOK, ModsOK, BootOK, Row, ScreenOK

LEMMA PartsNext == EditOK' /\ HistOK' /\ ModsOK' /\ BootOK' => IInv'
  BY Zenon DEF IInv, TypeOK, EditOK, HistOK, ModsOK, BootOK, Row, ScreenOK

LEMMA EditStays == EditOK /\ UNCHANGED <<edit, adrift, half>> => EditOK'
  BY DEF EditOK, edit, screen, ScreenOK, LineChars, LineOnScreen, Hidden

LEMMA HistStays == HistOK /\ UNCHANGED hist => HistOK'
  BY DEF HistOK, hist, NulTerminated

LEMMA ModsStay == ModsOK /\ UNCHANGED mods => ModsOK'
  BY DEF ModsOK, mods

LEMMA BootStays == BootOK /\ UNCHANGED <<kmain, adrift>> => BootOK' /\ UNCHANGED half
  BY DEF BootOK, kmain

\* history_up recalls the row before history_index.
LEMMA UpFacts ==
    ASSUME IInv, history_up, UNCHANGED <<adrift, half>>
    PROVE  \/ UNCHANGED <<edit, hist>>
           \/ /\ UNCHANGED <<history, history_count>>
              /\ history_index > 0 /\ history_index' = history_index - 1
              /\ EditOK' /\ Line' = CString(history[history_index - 1])
<1>1. CASE UNCHANGED <<edit, hist>>
  BY <1>1
<1>2. CASE history_count # 0 /\ history_index > 0
  <2>0. TypeOK /\ LineOnScreen /\ NulTerminated
    BY DEF IInv
  <2>1. PICK i \in Int : i = history_index - 1 /\ i \in 0 .. history_count - 1
    BY <1>2, <2>0, Sizes DEF TypeOK
  <2>2. history_index' = i /\ cmd_set(CString(history[i])) /\ UNCHANGED <<history, history_count>>
    BY <1>2, <2>1 DEF history_up
  <2>3. GoodRow(history[i])
    BY <2>0, <2>1, HistoryRows
  <2>4. CString(history[i]) \in Seq(Chars) /\ Len(CString(history[i])) < CMD_BUFFER_SIZE
    <3>1. PICK n \in 0 .. CMD_BUFFER_SIZE :
             NulAt(history[i], n) /\ CString(history[i]) \in Seq(Chars) /\ Len(CString(history[i])) = n
      BY <2>3, CStringTyped DEF GoodRow, Row
    <3>2. n < CMD_BUFFER_SIZE
      BY <2>3, <3>1, Sizes DEF GoodRow, NulAt, Bytes
    <3> QED BY <3>1, <3>2
  <2>5. EditOK' /\ Line' = CString(history[i])
    BY <2>0, <2>2, <2>4, CmdSetFacts DEF EditOK
  <2> QED BY <1>2, <2>1, <2>2, <2>5
<1> QED BY <1>1, <1>2 DEF history_up

\* history_down recalls the row behind history_index, or an empty line.
LEMMA DownFacts ==
    ASSUME IInv, history_down, UNCHANGED <<adrift, half>>
    PROVE  \/ UNCHANGED <<edit, hist>>
           \/ /\ UNCHANGED <<history, history_count>>
              /\ history_index < history_count /\ history_index' = history_index + 1
              /\ EditOK'
              /\ Line' = IF history_index + 1 < history_count THEN CString(history[history_index + 1]) ELSE <<>>
<1>1. CASE UNCHANGED <<edit, hist>>
  BY <1>1
<1>2. CASE history_count # 0 /\ history_index < history_count
  <2>0. TypeOK /\ LineOnScreen /\ NulTerminated
    BY DEF IInv
  <2>1. PICK i \in Nat : i = history_index + 1
    BY <2>0, Sizes DEF TypeOK
  <2>2. /\ history_index' = i /\ UNCHANGED <<history, history_count>>
        /\ cmd_set(IF i < history_count THEN CString(history[i]) ELSE <<>>)
    BY <1>2, <2>1 DEF history_down
  <2>3. CASE i < history_count
    <3>1. i \in 0 .. history_count - 1
      BY <2>0, <2>1, <2>3, Sizes DEF TypeOK
    <3>2. GoodRow(history[i])
      BY <2>0, <3>1, HistoryRows
    <3>3. CString(history[i]) \in Seq(Chars) /\ Len(CString(history[i])) < CMD_BUFFER_SIZE
      <4>1. PICK n \in 0 .. CMD_BUFFER_SIZE :
               NulAt(history[i], n) /\ CString(history[i]) \in Seq(Chars) /\ Len(CString(history[i])) = n
        BY <3>2, CStringTyped DEF GoodRow, Row
      <4>2. n < CMD_BUFFER_SIZE
        BY <3>2, <4>1, Sizes DEF GoodRow, NulAt, Bytes
      <4> QED BY <4>1, <4>2
    <3>4. cmd_set(CString(history[i]))
      BY <2>2, <2>3
    <3>5. EditOK' /\ Line' = CString(history[i])
      BY <2>0, <3>3, <3>4, CmdSetFacts DEF EditOK
    <3> QED BY <1>2, <2>1, <2>2, <2>3, <3>5
  <2>4. CASE ~(i < history_count)
    <3>1. cmd_set(<<>>)
      BY <2>2, <2>4
    <3>2. <<>> \in Seq(Chars) /\ Len(<<>>) < CMD_BUFFER_SIZE
      BY Sizes
    <3>3. EditOK' /\ Line' = <<>>
      BY <2>0, <3>1, <3>2, CmdSetFacts DEF EditOK
    <3> QED BY <1>2, <2>1, <2>2, <2>4, <3>3
  <2> QED BY <2>3, <2>4
<1> QED BY <1>1, <1>2 DEF history_down

LEMMA RecallStep ==
    ASSUME IInv, history_up \/ history_down, UNCHANGED <<adrift, half>>
    PROVE  EditOK' /\ HistOK'
<1>0. EditOK /\ HistOK
  BY Parts
<1>1. CASE UNCHANGED <<edit, hist>>
  BY <1>0, <1>1, EditStays, HistStays
<1>2. CASE /\ UNCHANGED <<history, history_count>> /\ EditOK'
           /\ \/ history_index > 0 /\ history_index' = history_index - 1
              \/ history_index < history_count /\ history_index' = history_index + 1
  <2>1. history_index' \in 0 .. history_count
    BY <1>0, <1>2, Sizes DEF HistOK
  <2> QED BY <1>0, <1>2, <2>1 DEF HistOK, NulTerminated
<1> QED BY <1>1, <1>2, UpFacts, DownFacts

\* A character goes to the end of the line and of its echo; a byte is left for the NUL.
LEMMA CharFacts ==
    ASSUME IInv, NEW code \in CharKeys, KeyChar(code)
    PROVE  EditOK' /\ cmd_len < CMD_BUFFER_SIZE - 1
           /\ chr(code) \in Chars /\ Line' = Append(Line, chr(code))
<1>0. TypeOK /\ LineChars /\ LineOnScreen /\ BootOK
  BY Parts DEF IInv
<1>1. PICK c \in Chars : c = chr(code)
  BY DEF chr, Chars
<1>2. /\ cmd_len < CMD_BUFFER_SIZE - 1 /\ cmd_buffer' = [cmd_buffer EXCEPT ![cmd_len] = c]
      /\ cmd_len' = cmd_len + 1 /\ shown' = Append(shown, c)
      /\ UNCHANGED <<home, eaten, adrift, half>>
  BY <1>0, <1>1, BootStays DEF KeyChar
<1>3. /\ cmd_len \in Nat /\ Line \in Seq(Chars) /\ Len(Line) = cmd_len
      /\ \A i \in 1 .. cmd_len : Line[i] = cmd_buffer[i - 1]
      /\ \A i \in 0 .. cmd_len - 1 : cmd_buffer[i] \in Chars
  BY <1>0, LineFacts
<1>4. cmd_buffer \in Row /\ cmd_len \in Bytes /\ cmd_len + 1 \in Bytes
  BY <1>0, <1>2, Sizes DEF TypeOK, Row, Bytes
<1>5. cmd_buffer' \in Row /\ cmd_buffer'[cmd_len] = c
      /\ \A i \in Bytes : i # cmd_len => cmd_buffer'[i] = cmd_buffer[i]
  BY <1>2, <1>4 DEF Row
<1>6. \A i \in 0 .. cmd_len - 1 : i \in Bytes /\ i # cmd_len /\ cmd_buffer'[i] = cmd_buffer[i]
  BY <1>3, <1>4, <1>5, Sizes DEF Bytes
<1>7. LineChars'
  <2>1. ASSUME NEW i \in 0 .. cmd_len
        PROVE  cmd_buffer'[i] \in Chars
    <3>1. CASE i = cmd_len
      BY <1>5, <3>1
    <3>2. CASE i # cmd_len
      <4>1. i \in 0 .. cmd_len - 1
        BY <1>3, <3>2
      <4> QED BY <1>3, <1>6, <4>1
    <3> QED BY <3>1, <3>2
  <2>2. cmd_len' - 1 = cmd_len
    BY <1>2, <1>3
  <2> QED BY <2>1, <2>2 DEF LineChars
<1>8. Line' = Append(Line, c)
  <2>1. /\ Append(Line, c) \in Seq(Chars) /\ Len(Append(Line, c)) = cmd_len + 1
        /\ Append(Line, c)[cmd_len + 1] = c
        /\ \A i \in 1 .. cmd_len : Append(Line, c)[i] = Line[i]
    BY <1>3, AppendProperties
  <2>2. ASSUME NEW i \in 1 .. cmd_len + 1
        PROVE  Append(Line, c)[i] = cmd_buffer'[i - 1]
    <3>1. CASE i = cmd_len + 1
      BY <1>3, <1>5, <2>1, <3>1
    <3>2. CASE i # cmd_len + 1
      <4>1. i \in 1 .. cmd_len /\ i - 1 \in 0 .. cmd_len - 1
        BY <1>3, <3>2
      <4> QED BY <1>3, <1>6, <2>1, <4>1
    <3> QED BY <3>1, <3>2
  <2>3. Append(Line, c) = Str(cmd_buffer', cmd_len + 1)
    BY <2>1, <2>2, StrEqual
  <2> QED BY <1>2, <2>3 DEF Line, Str
<1>9. ScreenOK'
  <2>1. PICK l \in 0 .. cmd_len : l = Len(shown) /\ l \in Nat
    BY <1>0, <1>3, ScreenFacts
  <2>2. /\ shown \in Seq(Chars) /\ home \in Nat /\ eaten \in BOOLEAN
        /\ \A i \in 1 .. l : shown[i] = cmd_buffer[(cmd_len - l) + i - 1]
        /\ ~adrift /\ ~half => l = cmd_len /\ ~eaten
    BY <1>0, <2>1, ScreenFacts
  <2>3. /\ shown' \in Seq(Chars) /\ Len(shown') = l + 1 /\ shown'[l + 1] = c
        /\ \A i \in 1 .. l : shown'[i] = shown[i]
    BY <1>2, <2>1, <2>2, AppendProperties
  <2>4. ASSUME NEW i \in 1 .. l + 1
        PROVE  shown'[i] = cmd_buffer'[((cmd_len + 1) - (l + 1)) + i - 1]
    <3>1. CASE i = l + 1
      <4>1. ((cmd_len + 1) - (l + 1)) + i - 1 = cmd_len
        BY <1>3, <2>1, <3>1
      <4> QED BY <1>5, <2>3, <3>1, <4>1
    <3>2. CASE i # l + 1
      <4>1. /\ i \in 1 .. l /\ (cmd_len - l) + i - 1 \in 0 .. cmd_len - 1
            /\ ((cmd_len + 1) - (l + 1)) + i - 1 = (cmd_len - l) + i - 1
        BY <1>3, <2>1, <3>2
      <4> QED BY <1>6, <2>2, <2>3, <4>1
    <3> QED BY <3>1, <3>2
  <2>5. cmd_len + 1 \in Nat /\ l + 1 \in 0 .. cmd_len + 1 /\ (l = cmd_len => l + 1 = cmd_len + 1)
    BY <1>3, <2>1
  <2>6. ~adrift' /\ ~half' => l + 1 = cmd_len + 1 /\ ~eaten'
    BY <1>2, <2>2, <2>5
  <2>7. home' \in Nat /\ eaten' \in BOOLEAN
    BY <1>2, <2>2
  <2> QED BY <1>2, <2>3, <2>4, <2>5, <2>6, <2>7, ScreenNext
<1>10. EditOK'
  BY <1>2, <1>4, <1>5, <1>7, <1>9 DEF EditOK
<1> QED BY <1>1, <1>2, <1>8, <1>10

\* An empty echo is good over an empty line, and over any line once the screen is adrift.
LEMMA EmptyEcho ==
    ASSUME cmd_len' \in Nat, shown' = <<>>, home' \in Nat, eaten' = FALSE,
           ~adrift' /\ ~half' => cmd_len' = 0
    PROVE  ScreenOK'
<1>1. PICK n \in Nat : n = cmd_len'
  OBVIOUS
<1>2. shown' \in Seq(Chars) /\ Len(shown') = 0 /\ 0 \in 0 .. n
  BY <1>1
<1>3. \A i \in 1 .. 0 : shown'[i] = cmd_buffer'[(n - 0) + i - 1]
  OBVIOUS
<1>4. eaten' \in BOOLEAN /\ ~eaten'
  BY Zenon
<1>5. ~adrift' /\ ~half' => 0 = n /\ ~eaten'
  BY <1>1, <1>4
<1> QED BY <1>1, <1>2, <1>3, <1>4, <1>5, ScreenNext

LEMMA CursorNat ==
    ASSUME IInv
    PROVE  Cursor \in Nat /\ NextRow \in Nat
<1>1. home \in Nat /\ Len(shown) \in Nat
  BY LenProperties DEF IInv, TypeOK
<1>2. Cursor \in Nat
  BY <1>1 DEF Cursor
<1>3. Cursor \div Columns \in Nat
  BY <1>2, Sizes
<1> QED BY <1>2, <1>3 DEF NextRow

\* Enter: the history takes the line, and a new one starts below.
LEMMA EnterFacts ==
    ASSUME IInv, KeyEnter
    PROVE  EditOK' /\ HistOK' /\ BootOK' /\ Line' = <<>>
<1>0. TypeOK /\ LineChars /\ LineOnScreen /\ NulTerminated /\ EditOK /\ HistOK /\ BootOK
  BY Parts DEF IInv
<1>1. PICK buf : buf = [cmd_buffer EXCEPT ![cmd_len] = NUL]
  OBVIOUS
<1>2. /\ cmd_buffer' = buf /\ SaveHistory(buf) /\ history_index' = history_count'
      /\ cmd_len' = 0 /\ shown' = <<>> /\ eaten' = FALSE /\ adrift' = half /\ UNCHANGED kmain
  BY <1>1 DEF KeyEnter
<1>3. buf \in Row /\ (\E i \in Bytes : buf[i] = NUL) /\ (cmd_len > 0 => buf[0] # NUL)
  BY <1>0, <1>1, BufFacts
<1>4. EditOK' /\ Line' = <<>>
  <2>1. Line' = <<>>
    BY <1>2 DEF Line
  <2>2. cmd_len' \in Bytes /\ LineChars'
    BY <1>2, Sizes DEF Bytes, LineChars
  <2>3. home' \in Nat
    <3>1. PICK row \in 0 .. MaxRow : home' = row * Columns + PromptLen
      BY DEF KeyEnter
    <3>2. row * Columns \in Nat
      BY Sizes
    <3> QED BY <3>1, <3>2, Sizes
  <2>4. ScreenOK'
    BY <1>2, <2>3, EmptyEcho
  <2> QED BY <1>2, <1>3, <2>1, <2>2, <2>4 DEF EditOK
<1>5. HistOK'
  <2>1. CASE cmd_len = 0
    <3>1. UNCHANGED <<history, history_count>>
      BY <1>2, <2>1 DEF SaveHistory
    <3>2. history_count \in 0 .. history_count
      BY <1>0, Sizes DEF HistOK
    <3> QED BY <1>0, <1>2, <3>1, <3>2 DEF HistOK, NulTerminated
  <2>2. CASE cmd_len # 0
    <3>1. cmd_len > 0 /\ GoodRow(buf)
      BY <1>0, <1>3, <2>2, LineFacts DEF GoodRow
    <3>2. /\ history' \in [Slots -> Row] /\ NulTerminated'
          /\ history_count' = IF history_count < HISTORY_MAX THEN history_count + 1 ELSE HISTORY_MAX
      BY <1>0, <1>2, <3>1, SaveFacts
    <3>3. history_count' \in 0 .. HISTORY_MAX /\ history_count' \in 0 .. history_count'
      BY <1>0, <3>2, Sizes DEF HistOK
    <3> QED BY <1>2, <3>2, <3>3 DEF HistOK
  <2> QED BY <2>1, <2>2
<1>6. BootOK'
  BY <1>0, <1>2 DEF BootOK, kmain
<1> QED BY <1>4, <1>5, <1>6

\* What kmain prints leaves the buffer alone and starts a new echo.
LEMMA KmainFacts ==
    ASSUME IInv, KmainChar \/ KmainAttribute \/ KmainNewline
    PROVE  EditOK' /\ HistOK' /\ ModsOK' /\ BootOK'
<1>0. EditOK /\ HistOK /\ ModsOK /\ BootOK /\ cmd_len \in Nat /\ cmd_buffer \in Row
  BY Parts, LineFacts DEF IInv, EditOK
<1>1. \E cell \in Nat : PrintAt(cell)
  <2>1. NextRow * Columns \in Nat
    BY CursorNat, Sizes
  <2> QED BY <2>1, CursorNat DEF KmainChar, KmainAttribute, KmainNewline
<1>2. PICK cell \in Nat : PrintAt(cell)
  BY <1>1
<1>3. /\ UNCHANGED <<cmd_buffer, cmd_len, hist, mods>>
      /\ home' \in Nat /\ shown' = <<>> /\ eaten' = FALSE
  BY <1>2 DEF PrintAt
<1>4. ~adrift' => ~(cmd_len > 0)
  BY Zenon DEF KmainChar, KmainAttribute, KmainNewline
<1>5. ~adrift' /\ ~half' => cmd_len' = 0
  BY <1>0, <1>3, <1>4
<1>6. ScreenOK'
  BY <1>0, <1>3, <1>5, EmptyEcho
<1>7. EditOK'
  BY <1>0, <1>3, <1>6 DEF EditOK, LineChars
<1>8. BootOK'
  <2>1. half' \in BOOLEAN /\ adrift' \in BOOLEAN
    <3>1. half \in BOOLEAN /\ adrift \in BOOLEAN
      BY <1>0 DEF BootOK
    <3>2. CASE KmainChar
      BY <3>1, <3>2, Zenon DEF KmainChar
    <3>3. CASE KmainAttribute
      BY <3>1, <3>3, Zenon DEF KmainAttribute
    <3>4. CASE KmainNewline
      <4>1. adrift' = (cmd_len > 0) /\ half' = half
        BY <3>4 DEF KmainNewline
      <4>2. adrift' \in BOOLEAN
        BY <4>1
      <4> QED BY <3>1, <4>1, <4>2
    <3> QED BY <3>2, <3>3, <3>4
  <2>2. CASE KmainChar
    <3>1. at' = at /\ at <= Len(BootText)
      BY <2>2 DEF KmainChar, Printing
    <3> QED BY <1>0, <2>1, <3>1 DEF BootOK
  <2>3. CASE KmainAttribute
    <3>1. at \in Nat /\ at <= Len(BootText) /\ at' = at + 1 /\ half' = FALSE
      BY <1>0, <2>3, Sizes DEF KmainAttribute, BootOK
    <3>2. at' \in 1 .. Len(BootText) + 1 /\ ~half'
      BY <1>0, <3>1, Sizes DEF BootOK
    <3> QED BY <2>1, <3>2 DEF BootOK
  <2>4. CASE KmainNewline
    <3>1. /\ at \in Nat /\ at <= Len(BootText) /\ at' = at + 1 /\ half' = half
          /\ at \in 1 .. Len(BootText) + 1 /\ BootText[at] = "newline"
      BY <1>0, <2>4, Sizes DEF KmainNewline, BootOK, Printing
    <3>2. at' \in 1 .. Len(BootText) + 1
      BY <3>1, Sizes
    <3>3. ~half
      BY <2>4, Zenon DEF KmainNewline, Printing
    <3> QED BY <2>1, <3>1, <3>2, <3>3 DEF BootOK
  <2> QED BY <2>2, <2>3, <2>4
<1>9. HistOK' /\ ModsOK'
  BY <1>0, <1>3, HistStays, ModsStay
<1> QED BY <1>7, <1>8, <1>9

\* Every key and every byte that kmain prints keep the invariant.
LEMMA StepInv == IInv /\ [Next]_vars => IInv'
<1> SUFFICES ASSUME IInv, [Next]_vars PROVE IInv'
  OBVIOUS
<1>0. EditOK /\ HistOK /\ ModsOK /\ BootOK /\ TypeOK /\ LineChars /\ LineOnScreen
  BY Parts DEF IInv
<1>1. CASE UNCHANGED vars
  <2>1. UNCHANGED <<edit, hist, mods, kmain, adrift>>
    BY <1>1 DEF vars
  <2> QED BY <1>0, <2>1, EditStays, HistStays, ModsStay, BootStays, PartsNext
<1>2. CASE KeyE0
  <2>1. ModsOK'
    BY <1>0, <1>2 DEF KeyE0, ModsOK
  <2> QED BY <1>0, <1>2, <2>1, EditStays, HistStays, BootStays, PartsNext DEF KeyE0
<1>3. ASSUME NEW code, KeyExtended(code)
      PROVE  IInv'
  <2>1. history_up \/ history_down \/ UNCHANGED <<edit, hist>>
    BY <1>3, Zenon DEF KeyExtended
  <2>2. ModsOK' /\ BootOK' /\ UNCHANGED <<adrift, half>>
    BY <1>0, <1>3, BootStays DEF KeyExtended, ModsOK
  <2>3. EditOK' /\ HistOK'
    BY <1>0, <2>1, <2>2, RecallStep, EditStays, HistStays
  <2> QED BY <2>2, <2>3, PartsNext
<1>4. ASSUME NEW code, KeyModifier(code)
      PROVE  IInv'
  <2>1. ModsOK'
    BY <1>0, <1>4 DEF KeyModifier, ModsOK
  <2> QED BY <1>0, <1>4, <2>1, EditStays, HistStays, BootStays, PartsNext DEF KeyModifier
<1>5. ASSUME NEW code, KeyCtrl(code)
      PROVE  IInv'
  <2>0. UNCHANGED <<mods, kmain, adrift, half>> /\ BootOK'
    BY <1>0, <1>5, BootStays DEF KeyCtrl
  <2>1. EditOK' /\ HistOK'
    <3>1. CASE backspace_word /\ UNCHANGED hist
      <4>1. PICK k \in 0 .. cmd_len : EraseChars(cmd_len - k)
        <5>1. PICK m \in 0 .. cmd_len : \E k \in 0 .. m : EraseChars(cmd_len - k)
          BY <1>0, <3>1, WordFacts
        <5> QED BY <1>0, <5>1, LineFacts
      <4>2. cmd_len - k \in 0 .. cmd_len
        BY <1>0, LineFacts
      <4>3. EditOK'
        BY <1>0, <2>0, <4>1, <4>2, EraseFacts DEF EditOK
      <4> QED BY <1>0, <3>1, <4>3, HistStays
    <3>2. CASE history_up
      BY <2>0, <3>2, RecallStep
    <3> QED BY <1>5, <3>1, <3>2 DEF KeyCtrl
  <2> QED BY <1>0, <2>0, <2>1, ModsStay, PartsNext
<1>6. CASE KeyEnter
  BY <1>0, <1>6, EnterFacts, ModsStay, PartsNext DEF KeyEnter
<1>7. CASE KeyBackspace
  <2>0. UNCHANGED <<hist, mods, kmain, adrift, half>> /\ BootOK' /\ EraseChars(1)
    BY <1>0, <1>7, BootStays DEF KeyBackspace
  <2>1. 1 \in 0 .. cmd_len
    BY <1>0, <1>7, LineFacts DEF KeyBackspace
  <2>2. EditOK'
    BY <1>0, <2>0, <2>1, EraseFacts DEF EditOK
  <2> QED BY <1>0, <2>0, <2>2, HistStays, ModsStay, PartsNext
<1>8. ASSUME NEW code \in CharKeys, KeyChar(code)
      PROVE  IInv'
  <2>1. EditOK'
    BY <1>8, CharFacts
  <2> QED BY <1>0, <1>8, <2>1, HistStays, ModsStay, BootStays, PartsNext DEF KeyChar
<1>9. CASE KmainChar \/ KmainAttribute \/ KmainNewline
  BY <1>9, KmainFacts, PartsNext
<1> QED BY <1>1, <1>2, <1>3, <1>4, <1>5, <1>6, <1>7, <1>8, <1>9 DEF Next

LEMMA InitInv == Init => IInv
<1> SUFFICES ASSUME Init PROVE IInv
  OBVIOUS
<1>1. EditOK
  <2>1. cmd_buffer \in Row /\ cmd_len \in Bytes /\ LineChars
    BY Sizes DEF Init, Row, Bytes, LineChars
  <2>2. shown = <<>> /\ shown \in Seq(Chars) /\ Len(shown) = 0 /\ cmd_len = 0
    BY DEF Init
  <2>3. home \in Nat
    <3>1. BootRow * Columns \in Nat
      BY Sizes
    <3> QED BY <3>1 DEF Init
  <2>4. eaten \in BOOLEAN /\ ~eaten
    BY Zenon DEF Init
  <2>5. LineOnScreen
    <3>0. cmd_len = 0 /\ Len(shown) = 0
      BY <2>2
    <3>1. Hidden = 0
      <4>1. Hidden = 0 - 0
        BY <3>0, Zenon DEF Hidden
      <4> QED BY <4>1
    <3>2. \A i \in DOMAIN shown : shown[i] = cmd_buffer[Hidden + i - 1]
      BY <2>2
    <3> QED BY <2>4, <3>1, <3>2 DEF LineOnScreen
  <2> QED BY <2>1, <2>2, <2>3, <2>4, <2>5 DEF EditOK, ScreenOK
<1>2. HistOK
  <2>1. history \in [Slots -> Row]
    BY DEF Init, Row
  <2> QED BY <2>1, Sizes DEF Init, HistOK, NulTerminated
<1>3. ModsOK
  BY Zenon DEF Init, ModsOK
<1>4. BootOK
  <2>1. half \in BOOLEAN /\ adrift \in BOOLEAN /\ ~half
    BY Zenon DEF Init
  <2>2. at \in 1 .. Len(BootText) + 1
    BY Sizes DEF Init
  <2> QED BY <2>1, <2>2 DEF BootOK
<1> QED BY <1>1, <1>2, <1>3, <1>4, Parts

LEMMA Invariance == Spec => []IInv
  BY InitInv, StepInv, PTL DEF Spec

\* No key sends an index out of its array: cmd_len, history_count and history_index
\* stay in range whatever the sizes of the buffer and of the history.
THEOREM TerminalTyping == Spec => []TypeOK
  BY Invariance, PTL DEF IInv

\* The screen shows the command that Enter would execute, after every sequence of
\* keys, for every size of the buffer and every text kmain prints meanwhile; after
\* text of kmain's in the middle of a line it shows the end of the line, up to the
\* next Enter.
THEOREM EchoFaithful == Spec => []LineOnScreen
  BY Invariance, PTL DEF IInv

\* Every command in the history ends in a NUL inside its row, however long the
\* commands were whose bytes are left behind it.
THEOREM HistoryTerminated == Spec => []NulTerminated
  BY Invariance, PTL DEF IInv

-------------------------------------------------------------------------------
(* The terminal implements LineEditor. *)

\* The commands in the first c rows of h, and those in the history.
PastOf(h, c) == [i \in 1 .. c |-> CString(h[i - 1])]
Past == PastOf(history, history_count)

\* The variables of the line editor that the arrays stand for.
EditorVars == <<Line, Past, history_index>>

LEMMA PastFacts ==
    ASSUME NEW h \in [Slots -> Row], NEW c \in 0 .. HISTORY_MAX
    PROVE  /\ PastOf(h, c) \in Seq(Seq(Chars)) /\ Len(PastOf(h, c)) = c
           /\ \A i \in 1 .. c : PastOf(h, c)[i] = CString(h[i - 1])
<1>1. c \in Nat
  BY Sizes
<1>2. ASSUME NEW i \in 1 .. c
      PROVE  CString(h[i - 1]) \in Seq(Chars)
  <2>1. i - 1 \in Slots
    BY <1>1, Sizes DEF Slots
  <2>2. h[i - 1] \in [Bytes -> Chars \cup {NUL}]
    BY <2>1 DEF Row
  <2> QED BY <2>2, CStringTyped
<1>3. PastOf(h, c) \in [1 .. c -> Seq(Chars)]
  BY <1>2 DEF PastOf
<1>4. PastOf(h, c) \in Seq(Seq(Chars))
  BY <1>1, <1>3, SeqDef
<1>5. Len(PastOf(h, c)) = c
  <2>1. DOMAIN PastOf(h, c) = 1 .. c
    BY DEF PastOf
  <2> QED BY <1>1, <1>4, <2>1, LenProperties
<1> QED BY <1>4, <1>5 DEF PastOf

\* Line and history as the line editor sees them.
LEMMA EditorState ==
    ASSUME IInv
    PROVE  /\ Line \in Seq(Chars) /\ Len(Line) = cmd_len /\ cmd_len \in Nat
           /\ \A i \in 1 .. cmd_len : Line[i] = cmd_buffer[i - 1]
           /\ Past \in Seq(Seq(Chars)) /\ Len(Past) = history_count
           /\ \A i \in 1 .. history_count : Past[i] = CString(history[i - 1])
           /\ history_count \in 0 .. HISTORY_MAX /\ history_count \in Nat
           /\ history_index \in 0 .. history_count
<1>0. TypeOK /\ LineChars /\ HistOK
  BY Parts DEF IInv
<1>2. history \in [Slots -> Row] /\ history_count \in 0 .. HISTORY_MAX /\ history_count \in Nat
      /\ history_index \in 0 .. history_count
  BY <1>0, Sizes DEF HistOK
<1>3. /\ Past \in Seq(Seq(Chars)) /\ Len(Past) = history_count
      /\ \A i \in 1 .. history_count : Past[i] = CString(history[i - 1])
  BY <1>2, PastFacts DEF Past
<1> QED BY <1>0, <1>2, <1>3, LineFacts

\* What leaves the line and the history alone is a stuttering step of the editor.
LEMMA EditorStutter ==
    ASSUME UNCHANGED <<cmd_buffer, cmd_len, hist>>
    PROVE  UNCHANGED EditorVars
  BY DEF hist, EditorVars, Line, Past

\* A step that keeps the rows in use keeps the past.
LEMMA PastStays ==
    ASSUME UNCHANGED <<history, history_count>>
    PROVE  Past' = Past
  BY DEF Past

LEMMA UpIsOlder ==
    ASSUME IInv, history_up, UNCHANGED <<adrift, half>>
    PROVE  Editor!Older \/ UNCHANGED EditorVars
<1>1. CASE UNCHANGED <<edit, hist>>
  BY <1>1, EditorStutter DEF edit
<1>2. CASE /\ UNCHANGED <<history, history_count>>
           /\ history_index > 0 /\ history_index' = history_index - 1
           /\ Line' = CString(history[history_index - 1])
  <2>1. history_index \in 1 .. history_count
    BY <1>2, EditorState
  <2>2. Line' = Past[history_index]
    BY <1>2, <2>1, EditorState
  <2>3. Past' = Past
    BY <1>2, PastStays
  <2> QED BY <1>2, <2>2, <2>3 DEF Editor!Older, Past, PastOf
<1> QED BY <1>1, <1>2, UpFacts

LEMMA DownIsNewer ==
    ASSUME IInv, history_down, UNCHANGED <<adrift, half>>
    PROVE  Editor!Newer \/ UNCHANGED EditorVars
<1>1. CASE UNCHANGED <<edit, hist>>
  BY <1>1, EditorStutter DEF edit
<1>2. CASE /\ UNCHANGED <<history, history_count>>
           /\ history_index < history_count /\ history_index' = history_index + 1
           /\ Line' = IF history_index + 1 < history_count THEN CString(history[history_index + 1]) ELSE <<>>
  <2>1. history_index < Len(Past)
    BY <1>2, EditorState
  <2>2. Line' = IF history_index + 1 < Len(Past) THEN Past[history_index + 2] ELSE <<>>
    <3>1. CASE history_index + 1 < history_count
      <4>1. history_index + 2 \in 1 .. history_count /\ (history_index + 2) - 1 = history_index + 1
        BY <3>1, EditorState
      <4>2. Past[history_index + 2] = CString(history[history_index + 1])
        BY <4>1, EditorState
      <4> QED BY <1>2, <3>1, <4>2, EditorState
    <3>2. CASE ~(history_index + 1 < history_count)
      BY <1>2, <3>2, EditorState
    <3> QED BY <3>1, <3>2
  <2>3. Past' = Past
    BY <1>2, PastStays
  <2> QED BY <1>2, <2>1, <2>2, <2>3 DEF Editor!Newer, Past, PastOf
<1> QED BY <1>1, <1>2, DownFacts

LEMMA BackspaceIsErase ==
    ASSUME IInv, KeyBackspace
    PROVE  Editor!Erase
<1>0. TypeOK /\ LineChars /\ LineOnScreen
  BY DEF IInv
<1>1. cmd_len > 0 /\ EraseChars(1) /\ UNCHANGED <<hist, adrift, half>>
  BY DEF KeyBackspace, kmain
<1>2. 1 \in 0 .. cmd_len
  BY <1>1, EditorState
<1>3. Line' = SubSeq(Line, 1, Len(Line) - 1)
  BY <1>0, <1>1, <1>2, EraseFacts, EditorState
<1>4. Line # <<>>
  BY <1>1, EditorState
<1>5. Past' = Past /\ history_index' = history_index
  BY <1>1, PastStays DEF hist
<1> QED BY <1>3, <1>4, <1>5 DEF Editor!Erase, Editor!Front, Past, PastOf

\* The place where backspace_word stops is before the last word of the line.
LEMMA CtrlWIsEraseWord ==
    ASSUME IInv, backspace_word, UNCHANGED <<hist, adrift, half>>
    PROVE  Editor!EraseWord \/ UNCHANGED EditorVars
<1>0. TypeOK /\ LineChars /\ LineOnScreen
  BY DEF IInv
<1>1. PICK m \in 0 .. cmd_len : \E k \in 0 .. m :
             /\ \A i \in m .. cmd_len - 1 : IsBlank(i)
             /\ m > 0 => ~IsBlank(m - 1)
             /\ \A i \in k .. m - 1 : ~IsBlank(i)
             /\ k > 0 => IsBlank(k - 1)
             /\ EraseChars(cmd_len - k)
  BY <1>0, WordFacts
<1>2. PICK k \in 0 .. m :
             /\ \A i \in m .. cmd_len - 1 : IsBlank(i)
             /\ m > 0 => ~IsBlank(m - 1)
             /\ \A i \in k .. m - 1 : ~IsBlank(i)
             /\ k > 0 => IsBlank(k - 1)
             /\ EraseChars(cmd_len - k)
  BY <1>1
<1>3. cmd_len \in Nat /\ Len(Line) = cmd_len /\ \A i \in 1 .. cmd_len : Line[i] = cmd_buffer[i - 1]
  BY EditorState
<1>4. k \in 0 .. cmd_len /\ cmd_len - k \in 0 .. cmd_len /\ cmd_len - (cmd_len - k) = k
  BY <1>3
<1>5. Line' = SubSeq(Line, 1, k) /\ cmd_len' = k /\ cmd_buffer' = cmd_buffer
  BY <1>0, <1>2, <1>4, EraseFacts
<1>6. Past' = Past /\ history_index' = history_index
  BY PastStays DEF hist
<1>7. CASE cmd_len = 0
  <2>1. k = 0
    BY <1>4, <1>7
  <2>2. Line' = Line
    BY <1>5, <1>7, <2>1 DEF Line
  <2> QED BY <1>6, <2>2 DEF EditorVars
<1>8. CASE cmd_len > 0
  <2> DEFINE Blank(i) == Line[i] = " "
  <2>1. ASSUME NEW i \in 1 .. cmd_len
        PROVE  Blank(i) <=> IsBlank(i - 1)
    BY <1>3, <2>1 DEF IsBlank
  <2> HIDE DEF Blank
  <2>2. \A i \in k + 1 .. m : ~Blank(i)
    <3> TAKE i \in k + 1 .. m
    <3>1. i \in 1 .. cmd_len /\ i - 1 \in k .. m - 1
      BY <1>3
    <3> QED BY <1>2, <2>1, <3>1
  <2>3. \A i \in m + 1 .. Len(Line) : Blank(i)
    <3> TAKE i \in m + 1 .. Len(Line)
    <3>1. i \in 1 .. cmd_len /\ i - 1 \in m .. cmd_len - 1
      BY <1>3
    <3> QED BY <1>2, <2>1, <3>1
  <2>4. k = 0 \/ (Blank(k) /\ m > k)
    <3>1. CASE k > 0
      <4>1. k \in 1 .. cmd_len /\ IsBlank(k - 1)
        BY <1>2, <1>4, <3>1
      <4>2. m # k
        BY <1>2, <3>1, <4>1
      <4>3. m > k
        BY <1>3, <4>2
      <4> QED BY <2>1, <4>1, <4>3
    <3> QED BY <1>4, <3>1
  <2>5. m \in k .. Len(Line)
    BY <1>3
  <2>6. Editor!IsWordCut(Line, k)
    <3>1. \E n \in k .. Len(Line) :
             /\ \A i \in k + 1 .. n : ~Blank(i)
             /\ \A i \in n + 1 .. Len(Line) : Blank(i)
             /\ k = 0 \/ (Blank(k) /\ n > k)
      BY <2>2, <2>3, <2>4, <2>5
    <3> QED BY <3>1, Zenon DEF Editor!IsWordCut, Blank
  <2>7. Line # <<>> /\ k \in 0 .. Len(Line)
    BY <1>3, <1>4, <1>8
  <2> QED BY <1>5, <1>6, <2>6, <2>7 DEF Editor!EraseWord, Past, PastOf
<1> QED BY <1>3, <1>7, <1>8

LEMMA CharIsType ==
    ASSUME IInv, NEW code \in CharKeys, KeyChar(code)
    PROVE  \E c \in Chars : Editor!Type(c)
<1>1. cmd_len < CMD_BUFFER_SIZE - 1 /\ chr(code) \in Chars /\ Line' = Append(Line, chr(code))
  BY CharFacts
<1>2. UNCHANGED hist
  BY DEF KeyChar
<1>3. Past' = Past /\ history_index' = history_index
  BY <1>2, PastStays DEF hist
<1>4. Len(Line) < CMD_BUFFER_SIZE - 1
  BY <1>1, EditorState
<1>5. Editor!Type(chr(code))
  BY <1>1, <1>3, <1>4 DEF Editor!Type, Past, PastOf
<1> QED BY <1>1, <1>5

\* The rows after Enter are the last HISTORY_MAX of the old ones and the line.
LEMMA EnterIsSubmit ==
    ASSUME IInv, KeyEnter
    PROVE  Editor!Submit
<1>0. TypeOK /\ LineChars /\ LineOnScreen /\ NulTerminated /\ HistOK
  BY Parts DEF IInv
<1>1. PICK buf : buf = [cmd_buffer EXCEPT ![cmd_len] = NUL]
  OBVIOUS
<1>2. SaveHistory(buf) /\ history_index' = history_count'
  BY <1>1 DEF KeyEnter
<1>3. /\ buf \in Row /\ (\E i \in Bytes : buf[i] = NUL)
      /\ cmd_len > 0 => buf[0] # NUL
      /\ CString(buf) = Line
  BY <1>0, <1>1, BufFacts
<1>4. Line' = <<>> /\ HistOK'
  BY EnterFacts
<1>5. history' \in [Slots -> Row] /\ history_count' \in 0 .. HISTORY_MAX
  BY <1>4 DEF HistOK
<1>6. /\ Past' \in Seq(Seq(Chars)) /\ Len(Past') = history_count'
      /\ \A i \in 1 .. history_count' : Past'[i] = CString(history'[i - 1])
  <2>1. Past' = PastOf(history', history_count')
    BY DEF Past
  <2> QED BY <1>5, <2>1, PastFacts
<1>7. CASE cmd_len = 0
  <2>1. Line = <<>>
    BY <1>7, EditorState
  <2>2. Past' = Past
    BY <1>2, <1>7, PastStays DEF SaveHistory
  <2> QED BY <1>2, <1>4, <1>6, <2>1, <2>2 DEF Editor!Submit, Past, PastOf
<1>8. CASE cmd_len > 0
  <2>1. GoodRow(buf)
    BY <1>3, <1>8 DEF GoodRow
  <2>2. /\ history_count' = IF history_count < HISTORY_MAX THEN history_count + 1 ELSE HISTORY_MAX
        /\ CString(history'[history_count' - 1]) = Line
        /\ \A j \in 0 .. history_count' - 2 :
             CString(history'[j]) =
               CString(history[IF history_count < HISTORY_MAX THEN j ELSE j + 1])
    BY <1>0, <1>2, <1>3, <1>8, <2>1, SaveFacts
  <2> DEFINE all == Append(Past, Line)
  <2>3. PICK n \in Nat : n = history_count
    BY EditorState
  <2>4. /\ all \in Seq(Seq(Chars)) /\ Len(all) = n + 1 /\ all[n + 1] = Line
        /\ \A i \in 1 .. n : all[i] = CString(history[i - 1])
    <3>1. Past \in Seq(Seq(Chars)) /\ Line \in Seq(Chars) /\ Len(Past) = n
          /\ \A i \in 1 .. n : Past[i] = CString(history[i - 1])
      BY <2>3, EditorState
    <3> QED BY <3>1, AppendProperties
  <2> HIDE DEF all
  <2>5. Past' = Editor!Recent(all)
    <3>1. CASE n < HISTORY_MAX
      <4>1. history_count' = n + 1
        BY <2>2, <2>3, <3>1
      <4>2. ASSUME NEW i \in 1 .. n + 1
            PROVE  Past'[i] = all[i]
        <5>1. CASE i = n + 1
          BY <1>6, <2>2, <2>3, <2>4, <4>1, <5>1
        <5>2. CASE i # n + 1
          <6>1. i - 1 \in 0 .. (n + 1) - 2 /\ i \in 1 .. n
            BY <5>2
          <6>2. CString(history'[i - 1]) = CString(history[i - 1])
            BY <2>2, <2>3, <3>1, <4>1, <6>1
          <6> QED BY <1>6, <2>4, <4>1, <6>1, <6>2
        <5> QED BY <5>1, <5>2
      <4>3. Past' = all
        BY <1>6, <2>4, <4>1, <4>2, SeqEqual
      <4>4. Len(all) <= HISTORY_MAX
        BY <2>4, <3>1, Sizes
      <4> QED BY <4>3, <4>4 DEF Editor!Recent
    <3>2. CASE ~(n < HISTORY_MAX)
      <4>1. n = HISTORY_MAX /\ history_count' = n /\ n > 0
        BY <2>2, <2>3, <3>2, Sizes, EditorState
      <4> DEFINE last == SubSeq(all, 2, n + 1)
      <4>2. /\ last \in Seq(Seq(Chars)) /\ Len(last) = n
            /\ \A i \in 1 .. n : last[i] = all[i + 1]
        <5>1. \A i \in 2 .. n + 1 : all[i] \in Seq(Chars)
          BY <2>4, LenProperties
        <5>2. 2 \in Int /\ n + 1 \in Int /\ 2 <= n + 1 /\ (n + 1) - 2 + 1 = n
          BY <4>1
        <5>3. /\ last \in Seq(Seq(Chars))
              /\ Len(last) = IF 2 <= n + 1 THEN (n + 1) - 2 + 1 ELSE 0
              /\ \A i \in 1 .. (n + 1) - 2 + 1 : last[i] = all[2 + i - 1]
          BY <5>1, <5>2, SubSeqProperties
        <5> HIDE DEF last
        <5>4. \A i \in 1 .. n : 2 + i - 1 = i + 1
          OBVIOUS
        <5> QED BY <5>2, <5>3, <5>4
      <4> HIDE DEF last
      <4>3. ASSUME NEW i \in 1 .. n
            PROVE  Past'[i] = last[i]
        <5>1. CASE i = n
          BY <1>6, <2>2, <2>4, <4>1, <4>2, <5>1
        <5>2. CASE i # n
          <6>1. i - 1 \in 0 .. n - 2 /\ i + 1 \in 1 .. n /\ (i - 1) + 1 = (i + 1) - 1
            BY <5>2
          <6>2. CString(history'[i - 1]) = CString(history[(i - 1) + 1])
            BY <2>2, <2>3, <3>2, <4>1, <6>1
          <6> QED BY <1>6, <2>4, <4>1, <4>2, <6>1, <6>2
        <5> QED BY <5>1, <5>2
      <4>4. Past' = last
        BY <1>6, <4>1, <4>2, <4>3, SeqEqual
      <4>5. Editor!Recent(all) = last
        <5>1. ~(Len(all) <= HISTORY_MAX) /\ Len(all) - HISTORY_MAX + 1 = 2 /\ Len(all) = n + 1
          BY <2>4, <4>1
        <5> QED BY <5>1 DEF Editor!Recent, last
      <4> QED BY <4>4, <4>5
    <3> QED BY <3>1, <3>2
  <2>6. Line # <<>>
    BY <1>8, EditorState
  <2> QED BY <1>2, <1>4, <1>6, <2>5, <2>6 DEF Editor!Submit, Past, PastOf, all
<1> QED BY <1>7, <1>8, EditorState

LEMMA EditorStep == IInv /\ [Next]_vars => [Editor!Next]_(Editor!vars)
<1> SUFFICES ASSUME IInv, [Next]_vars
             PROVE  Editor!Next \/ UNCHANGED EditorVars
  BY DEF Editor!vars, EditorVars, Past, PastOf
<1>1. CASE UNCHANGED vars
  BY <1>1, EditorStutter DEF vars, edit
<1>2. CASE KeyE0
  BY <1>2, EditorStutter DEF KeyE0, edit
<1>3. ASSUME NEW code, KeyExtended(code)
      PROVE  Editor!Next \/ UNCHANGED EditorVars
  <2>1. history_up \/ history_down \/ UNCHANGED <<edit, hist>>
    BY <1>3, Zenon DEF KeyExtended
  <2>2. UNCHANGED <<adrift, half>>
    BY <1>3 DEF KeyExtended, kmain
  <2> QED BY <2>1, <2>2, UpIsOlder, DownIsNewer, EditorStutter DEF Editor!Next, edit
<1>4. ASSUME NEW code, KeyModifier(code)
      PROVE  UNCHANGED EditorVars
  BY <1>4, EditorStutter DEF KeyModifier, edit
<1>5. ASSUME NEW code, KeyCtrl(code)
      PROVE  Editor!Next \/ UNCHANGED EditorVars
  <2>1. (backspace_word /\ UNCHANGED hist) \/ history_up
    BY <1>5 DEF KeyCtrl
  <2>2. UNCHANGED <<adrift, half>>
    BY <1>5 DEF KeyCtrl, kmain
  <2> QED BY <2>1, <2>2, CtrlWIsEraseWord, UpIsOlder DEF Editor!Next
<1>6. CASE KeyEnter
  BY <1>6, EnterIsSubmit DEF Editor!Next
<1>7. CASE KeyBackspace
  BY <1>7, BackspaceIsErase DEF Editor!Next
<1>8. ASSUME NEW code \in CharKeys, KeyChar(code)
      PROVE  Editor!Next
  BY <1>8, CharIsType DEF Editor!Next
<1>9. CASE KmainChar \/ KmainAttribute \/ KmainNewline
  <2>1. UNCHANGED <<cmd_buffer, cmd_len, hist>>
    BY <1>9 DEF KmainChar, KmainAttribute, KmainNewline, PrintAt
  <2> QED BY <2>1, EditorStutter
<1> QED BY <1>1, <1>2, <1>3, <1>4, <1>5, <1>6, <1>7, <1>8, <1>9 DEF Next

LEMMA EditorInit == Init => Editor!Init
<1> SUFFICES ASSUME Init PROVE Editor!Init
  OBVIOUS
<1>1. Line = <<>> /\ Past = <<>> /\ history_index = 0
  BY DEF Init, Line, Past, PastOf
<1> QED BY <1>1 DEF Editor!Init, Past, PastOf

\* The NUL-terminated arrays, the shifting of a full history and the index
\* arithmetic of the arrow keys implement a line editor over plain sequences, for
\* every size of the buffer and of the history.
THEOREM TerminalRefinesEditor == Spec => ImplementsEditor
  BY EditorInit, EditorStep, Invariance, PTL DEF Spec, ImplementsEditor, Editor!Spec
===============================================================================
