---------------------------- MODULE RowTextProofs ----------------------------
(***************************************************************************)
(* Proofs about RowText, for rows and strings of any length.               *)
(***************************************************************************)
EXTENDS RowText, TLAPS

-----------------------------------------------------------------------------
(* Types.                                                                  *)

LEMMA StringsAreSeqs == Strings \subseteq Seq(Char)
BY TextAssumption DEF Strings

LEMMA NullTextFacts == NullText \in Seq(Char) /\ Len(NullText) = 4
BY TextAssumption DEF NullText

(* GetString never returns the empty string. *)
LEMMA GetStringFacts ==
    ASSUME NEW s \in Seq(Char)
    PROVE  GetString(s) \in Seq(Char) /\ Len(GetString(s)) \in Nat \ {0}
<1>1. CASE s = <<>>
  BY <1>1, NullTextFacts DEF GetString
<1>2. CASE s # <<>>
  BY <1>2 DEF GetString
<1> QED  BY <1>1, <1>2

LEMMA RowFacts ==
    ASSUME row \in Rows
    PROVE  /\ Len(row) \in Nat \ {0} /\ Columns = 1 .. Len(row)
           /\ \A k \in Columns : row[k] \in Strings \cup {NoText}
<1>1. PICK n \in 1 .. MaxColumns : row \in [1 .. n -> Strings \cup {NoText}]
  BY DEF Rows
<1>2. n \in Nat \ {0}
  BY <1>1, TextAssumption
<1> QED  BY <1>1, <1>2 DEF Columns

LEMMA TextFacts ==
    ASSUME row \in Rows, NEW k \in Columns
    PROVE  /\ Text(k) \in Seq(Char) /\ Len(Text(k)) \in Nat
           /\ Length(row[k]) \in Nat
           /\ row[k] # NoText => Length(row[k]) = Len(Text(k))
<1>1. row[k] \in Strings \cup {NoText}
  BY RowFacts
<1>2. row[k] # NoText => row[k] \in Seq(Char)
  BY <1>1, StringsAreSeqs
<1> QED  BY <1>2, NullTextFacts DEF Text, ColumnText, Length

LEMMA InitText == Init => TypeOK
BY StringsAreSeqs DEF Init, TypeOK

(* The text that an iteration of the second loop would leave. *)
LEMMA JoinedFacts ==
    ASSUME TypeOK, i < Len(row)
    PROVE  /\ i + 1 \in Columns /\ i + 1 <= Len(row)
           /\ Joined \in Seq(Char) /\ Len(Joined) \in Nat
           /\ Len(Joined) = Len(buffer) + Len(Text(i + 1))
                            + (IF i + 1 # Len(row) THEN Len(splitter) ELSE 0)
<1> DEFINE Chars == Char  end == IF i + 1 # Len(row) THEN splitter ELSE <<>>
<1>1. /\ i \in Nat /\ row \in Rows /\ Len(row) \in Nat
      /\ buffer \in Seq(Chars) /\ splitter \in Seq(Chars)
  BY RowFacts DEF TypeOK
<1>2. i + 1 \in Columns /\ i + 1 <= Len(row)  BY <1>1, RowFacts
<1>3. PICK text \in Seq(Chars) : text = Text(i + 1)  BY <1>1, <1>2, TextFacts
<1>4. end \in Seq(Chars) /\ Len(end) = IF i + 1 # Len(row) THEN Len(splitter) ELSE 0
  BY <1>1
<1>5. Joined = buffer \o Text(i + 1) \o end  BY DEF Joined, Text
<1> HIDE DEF Chars, end
<1>6. buffer \o text \in Seq(Chars)
  BY <1>1, <1>3
<1>7. Len(buffer \o text) = Len(buffer) + Len(text)
  BY <1>1, <1>3
<1>8. PICK joined \in Seq(Chars) : joined = buffer \o text
  BY <1>6
<1>9. joined \o end \in Seq(Chars) /\ Len(joined \o end) = Len(joined) + Len(end)
  <2>1. PICK last \in Seq(Chars) : last = end  BY <1>4
  <2>2. joined \o last \in Seq(Chars) /\ Len(joined \o last) = Len(joined) + Len(last)  OBVIOUS
  <2> QED  BY <2>1, <2>2
<1>10. Joined \in Seq(Chars)
  BY <1>3, <1>5, <1>8, <1>9
<1>11. Len(Joined) = Len(buffer) + Len(Text(i + 1)) + Len(end) /\ Len(Joined) \in Nat
  BY <1>3, <1>5, <1>7, <1>8, <1>9, <1>10
<1> QED  BY <1>2, <1>4, <1>10, <1>11 DEF Chars

LEMMA NextText ==
    ASSUME TypeOK, [Next]_vars
    PROVE  TypeOK'
<1> DEFINE Chars == Char  Texts == Seq(Char)
<1>0. /\ row \in Rows /\ arg \in Seq(Chars) /\ splitter \in Seq(Chars) /\ buffer \in Seq(Chars)
      /\ bufflen \in Nat /\ i \in Nat /\ li \in Nat /\ sizes \in Seq(Nat) /\ starts \in Seq(Nat)
      /\ strdest \in Seq(Texts) /\ Len(row) \in Nat /\ Len(buffer) \in Nat
  BY RowFacts DEF TypeOK
<1>1. CASE FetchRow
  <2>1. splitter' \in Seq(Char)  BY <1>0, <1>1, GetStringFacts DEF FetchRow
  <2> QED  BY <1>0, <1>1, <2>1 DEF FetchRow, TypeOK
<1>2. CASE AddLength
  <2>1. Length(row[i + 1]) \in Nat
    <3>1. i + 1 \in Columns  BY <1>0, <1>2, RowFacts DEF AddLength
    <3> QED  BY <1>0, <3>1, TextFacts
  <2>2. bufflen' \in Nat /\ sizes' \in Seq(Nat)  BY <1>0, <1>2, <2>1 DEF AddLength
  <2> QED  BY <1>0, <1>2, <2>2 DEF AddLength, TypeOK
<1>3. CASE Allocate
  BY <1>0, <1>3 DEF Allocate, TypeOK
<1>4. CASE AppendColumn
  BY <1>0, <1>4, JoinedFacts DEF AppendColumn, TypeOK
<1>10. CASE OverrunBuffer
  BY <1>0, <1>10 DEF OverrunBuffer, TypeOK
<1>5. CASE SetString
  BY <1>0, <1>5 DEF SetString, TypeOK
<1>6. CASE SplitNext
  <2>1. ASSUME AtCut PROVE Strmid(buffer, li, i) \in Seq(Char) /\ i + 1 \in Nat
    <3>1. MaxPiece \in Nat  BY TextAssumption
    <3>2. ASSUME NEW a \in Nat, NEW b \in Int, b <= Len(buffer)
          PROVE  SubSeq(buffer, a + 1, b) \in Seq(Chars)
      <4> HIDE DEF Chars
      <4> QED  BY <1>0, <3>2
    <3>3. i <= Len(buffer)  BY <1>6 DEF SplitNext
    <3>4. CASE i - li < MaxPiece
      BY <1>0, <3>2, <3>3, <3>4 DEF Strmid
    <3>5. CASE ~ (i - li < MaxPiece)
      <4>1. li + MaxPiece - 1 \in Int /\ li + MaxPiece - 1 <= Len(buffer)
        BY <1>0, <3>1, <3>3, <3>5
      <4> QED  BY <1>0, <3>2, <3>5, <4>1 DEF Strmid
    <3> QED  BY <1>0, <3>4, <3>5
  <2>2. strdest' \in Seq(Texts)
    <3>1. CASE AtCut
      <4>1. strdest' = Append(strdest, Strmid(buffer, li, i)) /\ Strmid(buffer, li, i) \in Texts
        BY <1>6, <2>1, <3>1 DEF SplitNext
      <4> HIDE DEF Texts
      <4> QED  BY <1>0, <4>1
    <3>2. CASE ~ AtCut
      BY <1>0, <1>6, <3>2 DEF SplitNext
    <3> QED  BY <3>1, <3>2
  <2> QED  BY <1>0, <1>6, <2>1, <2>2 DEF SplitNext, TypeOK
<1>7. CASE SplitEnds
  BY <1>0, <1>7 DEF SplitEnds, TypeOK
<1>8. CASE RealEscapeString
  <2>1. GetString(arg) \in Seq(Char) /\ Len(GetString(arg)) \in Nat
    BY <1>0, GetStringFacts
  <2>2. PICK n \in Len(GetString(arg)) .. 2 * Len(GetString(arg)) : buffer' = [k \in 1 .. n |-> Delimiter]
    BY <1>8 DEF RealEscapeString
  <2>3. n \in Nat
    BY <2>1
  <2>4. buffer' \in Seq(Char) /\ 3 * Len(GetString(arg)) \in Nat
    BY <2>1, <2>2, <2>3, TextAssumption
  <2> QED  BY <1>0, <1>8, <2>1, <2>4 DEF RealEscapeString, TypeOK
<1>9. CASE UNCHANGED vars
  BY <1>9 DEF vars, TypeOK
<1> QED  BY <1>1, <1>2, <1>3, <1>4, <1>5, <1>6, <1>7, <1>8, <1>9, <1>10 DEF Next

(* The types hold always. *)
THEOREM TextTypeCorrect == Spec => []TypeOK
BY InitText, NextText, PTL DEF Spec
-----------------------------------------------------------------------------
(* The buffers.                                                            *)

(* The first c columns: none is NULL, their lengths, and the separators     *)
(* between and behind them.                                                *)
NoneNull(c) == \A k \in 1 .. c : row[k] # NoText
Counted(c) == IF c = 0 THEN 0 ELSE sizes[c] - (Len(row) + 1)
Gaps(c) == IF c < Len(row) THEN c ELSE Len(row) - 1

(* What the first loop of fetch_row has added up. *)
SizesInv ==
    /\ pc \in {"size", "join", "split", "done"} => Len(sizes) <= Len(row)
    /\ \A k \in 1 .. Len(sizes) :
         /\ sizes[k] = (IF k = 1 THEN Len(row) + 1 ELSE sizes[k - 1]) + Length(row[k])
         /\ \A j \in 1 .. k : Len(row) + 1 <= sizes[j] /\ sizes[j] <= sizes[k]
    /\ pc = "call" => i = 0 /\ sizes = <<>> /\ buffer = <<>>
    /\ pc = "size" => /\ Len(sizes) = i /\ buffer = <<>>
                      /\ bufflen = IF i = 0 THEN Len(row) + 1 ELSE sizes[i]
    /\ pc \in {"join", "split", "done"} => Len(sizes) = Len(row) /\ bufflen = sizes[Len(row)]

(* The length of the text of the first c columns.  A NULL column adds four  *)
(* characters to what was counted.                                         *)
LengthOf(text, c) ==
    /\ Len(text) >= Counted(c) + Gaps(c)
    /\ NoneNull(c) => Len(text) = Counted(c) + Gaps(c) * Len(splitter)
    /\ ~ NoneNull(c) => Len(text) >= Counted(c) + Gaps(c) + 4

(* The columns are joined as long as they fit, and fit all or overrun.     *)
JoinInv ==
    /\ pc \in {"size", "join"} => Len(splitter) > 0
    /\ pc = "join" => i <= Len(row) /\ FitsBuffer(buffer) /\ LengthOf(buffer, i)
    /\ BufferFits

BufferInv == TypeOK /\ SizesInv /\ JoinInv

LEMMA InitBuffer == Init => BufferInv
BY InitText DEF Init, BufferInv, SizesInv, JoinInv, BufferFits

LEMMA TimesNext ==
    ASSUME NEW a \in Nat, NEW b \in Nat
    PROVE  (a + 1) * b = a * b + b
OBVIOUS

LEMMA TimesOrder ==
    ASSUME NEW a \in Nat, NEW b \in Nat, NEW c \in Nat, a <= b
    PROVE  a * c \in Nat /\ a * c <= b * c
OBVIOUS

(* What is counted is no more than the buffer has for it. *)
LEMMA CountedFacts ==
    ASSUME TypeOK, SizesInv, pc = "join", i < Len(row)
    PROVE  /\ Counted(i) \in Nat
           /\ Counted(i + 1) = Counted(i) + Length(row[i + 1])
           /\ Counted(i + 1) <= Counted(Len(row))
<1>1. PICK n \in Nat \ {0} : n = Len(row) /\ Columns = 1 .. n
  BY RowFacts DEF TypeOK
<1>2. PICK c \in Nat : c = i /\ c < n
  BY <1>1 DEF TypeOK
<1>3. /\ Len(sizes) = n /\ \A k \in 1 .. n : sizes[k] \in Nat
      /\ sizes[c + 1] = (IF c + 1 = 1 THEN n + 1 ELSE sizes[(c + 1) - 1]) + Length(row[c + 1])
      /\ \A j \in 1 .. n : n + 1 <= sizes[j] /\ sizes[j] <= sizes[n]
  <2>1. Len(sizes) = n /\ sizes \in Seq(Nat)  BY <1>1 DEF SizesInv, TypeOK
  <2>2. c + 1 \in 1 .. Len(sizes) /\ n \in 1 .. Len(sizes)  BY <1>2, <2>1
  <2>3. \A k \in 1 .. n : sizes[k] \in Nat  BY <2>1
  <2>4. \A k \in 1 .. n : /\ sizes[k] = (IF k = 1 THEN n + 1 ELSE sizes[k - 1]) + Length(row[k])
                         /\ \A j \in 1 .. k : n + 1 <= sizes[j] /\ sizes[j] <= sizes[k]
    BY <1>1, <2>1 DEF SizesInv
  <2> QED  BY <2>1, <2>2, <2>3, <2>4
<1>4. Counted(c) \in Nat
  <2>1. CASE c = 0  BY <2>1 DEF Counted
  <2>2. CASE c > 0
    <3>1. c \in 1 .. n  BY <1>2, <2>2
    <3> QED  BY <1>1, <1>3, <2>2, <3>1 DEF Counted
  <2> QED  BY <2>1, <2>2
<1>5. Length(row[c + 1]) \in Nat
  BY <1>1, <1>2, TextFacts DEF TypeOK
<1>6. Counted(c + 1) = Counted(c) + Length(row[c + 1])
  <2>1. CASE c = 0  BY <1>1, <1>3, <1>5, <2>1 DEF Counted
  <2>2. CASE c > 0
    <3>1. (c + 1) - 1 = c /\ c \in 1 .. n /\ sizes[c] \in Nat /\ c # 0 /\ c + 1 # 0  BY <1>2, <1>3, <2>2
    <3> QED  BY <1>1, <1>3, <1>5, <3>1 DEF Counted
  <2> QED  BY <2>1, <2>2
<1>7. Counted(c + 1) <= Counted(n)
  <2>1. c + 1 \in 1 .. n /\ n \in 1 .. n /\ c + 1 # 0 /\ n # 0  BY <1>2
  <2> QED  BY <1>1, <1>3, <2>1 DEF Counted
<1> QED  BY <1>1, <1>2, <1>4, <1>6, <1>7

(* One more column.                                                        *)
LEMMA JoinedLength ==
    ASSUME BufferInv, pc = "join", i < Len(row)
    PROVE  LengthOf(Joined, i + 1)
<1>0. /\ TypeOK /\ SizesInv /\ row \in Rows /\ i \in Nat
      /\ LengthOf(buffer, i) /\ Len(splitter) > 0
  BY DEF BufferInv, TypeOK, JoinInv
<1>1. PICK n \in Nat \ {0} : n = Len(row)
  BY <1>0, RowFacts
<1>2. PICK s \in Nat : s = Len(splitter) /\ s > 0
  BY <1>0 DEF TypeOK
<1>3. PICK l \in Nat : l = Length(row[i + 1])
  BY <1>0, JoinedFacts, TextFacts
<1>4. PICK t \in Nat : t = Len(Text(i + 1))
  BY <1>0, JoinedFacts, TextFacts
<1>4a. row[i + 1] = NoText => t = 4 /\ l = 0
  BY <1>3, <1>4, NullTextFacts DEF Text, ColumnText, Length
<1>4b. row[i + 1] # NoText => t = l
  BY <1>3, <1>4 DEF Text, ColumnText, Length
<1>5. PICK a \in Nat, a2 \in Nat : a = Counted(i) /\ a2 = Counted(i + 1) /\ a2 = a + l
  BY <1>0, <1>3, CountedFacts
<1>6. PICK b \in Nat, b2 \in Nat :
        b = Len(buffer) /\ b2 = Len(Joined) /\ b2 = b + t + (IF i + 1 # n THEN s ELSE 0)
  <2>1. Len(buffer) \in Nat  BY <1>0 DEF TypeOK
  <2>2. /\ Len(Joined) \in Nat
        /\ Len(Joined) = Len(buffer) + Len(Text(i + 1))
                         + (IF i + 1 # Len(row) THEN Len(splitter) ELSE 0)
    BY <1>0, JoinedFacts
  <2>3. Len(Joined) = Len(buffer) + t + (IF i + 1 # n THEN s ELSE 0)
    BY <1>1, <1>2, <1>4, <2>2
  <2> QED  BY <2>1, <2>2, <2>3
<1>7. PICK g \in Nat : g = Gaps(i + 1) /\ g = (IF i + 1 # n THEN i + 1 ELSE i) /\ Gaps(i) = i
  BY <1>0, <1>1 DEF Gaps
<1>8. PICK x \in Nat, x2 \in Nat :
        x = i * s /\ x2 = g * s /\ x2 = x + (IF i + 1 # n THEN s ELSE 0)
  <2>1. i * s \in Nat /\ g * s \in Nat  BY <1>0, <1>2, <1>7, TimesOrder
  <2>2. (i + 1) * s = i * s + s  BY <1>0, <1>2, TimesNext
  <2> QED  BY <1>7, <2>1, <2>2
<1>9. NoneNull(i + 1) <=> NoneNull(i) /\ row[i + 1] # NoText
  BY <1>0 DEF NoneNull
<1>10. /\ b >= a + i
       /\ NoneNull(i) => b = a + x
       /\ ~ NoneNull(i) => b >= a + i + 4
  BY <1>0, <1>2, <1>5, <1>6, <1>7, <1>8 DEF LengthOf
<1>a. PICK e \in Nat, f \in Nat, j \in Nat :
        /\ j = i /\ e = (IF i + 1 # n THEN s ELSE 0) /\ f = (IF i + 1 # n THEN 1 ELSE 0) /\ e >= f
        /\ b2 = b + t + e /\ x2 = x + e /\ g = j + f /\ a2 = a + l
  <2>1. CASE i + 1 # n  BY <1>0, <1>2, <1>5, <1>6, <1>7, <1>8, <2>1
  <2>2. CASE i + 1 = n  BY <1>0, <1>2, <1>5, <1>6, <1>7, <1>8, <2>2
  <2> QED  BY <2>1, <2>2
<1>b. t = l \/ (t = 4 /\ l = 0)
  BY <1>4a, <1>4b
<1>11. b2 >= a2 + g
  <2>1. b >= a + j  BY <1>10, <1>a
  <2> QED  BY <1>a, <1>b, <2>1
<1>12. NoneNull(i + 1) => b2 = a2 + x2
  <2> SUFFICES ASSUME NoneNull(i + 1) PROVE b2 = a2 + x2
    OBVIOUS
  <2>1. b = a + x /\ t = l  BY <1>4b, <1>9, <1>10
  <2> QED  BY <1>a, <2>1
<1>13. ~ NoneNull(i + 1) => b2 >= a2 + g + 4
  <2> SUFFICES ASSUME ~ NoneNull(i + 1) PROVE b2 >= a2 + g + 4
    OBVIOUS
  <2>1. CASE row[i + 1] = NoText
    <3>1. t = 4 /\ l = 0 /\ b >= a + j  BY <1>4a, <1>10, <1>a, <2>1
    <3> QED  BY <1>a, <3>1
  <2>2. CASE row[i + 1] # NoText
    <3>1. t = l /\ b >= a + j + 4  BY <1>4b, <1>9, <1>10, <1>a, <2>2
    <3> QED  BY <1>a, <3>1
  <2> QED  BY <2>1, <2>2
<1> QED  BY <1>2, <1>5, <1>6, <1>7, <1>8, <1>11, <1>12, <1>13 DEF LengthOf

(* A row overruns the buffer only if it is too long ... *)
LEMMA OverrunsTooLong ==
    ASSUME BufferInv, OverrunBuffer
    PROVE  TooLong
<1>1. PICK n \in Nat \ {0} : n = Len(row) /\ Columns = 1 .. n
  BY RowFacts DEF BufferInv, TypeOK
<1>2. PICK c \in Nat : c = i /\ c < n /\ pc = "join"
  BY <1>1 DEF BufferInv, TypeOK, OverrunBuffer
<1>3. PICK s \in Nat : s = Len(splitter)
  BY DEF BufferInv, TypeOK
<1> SUFFICES ASSUME ~ TooLong PROVE FALSE
  OBVIOUS
<1>4. NoneNull(c + 1) /\ (n - 1) * s <= n
  <2>1. (n - 1) * s \in Nat  BY <1>1, <1>3, TimesOrder
  <2> QED  BY <1>1, <1>2, <1>3, <2>1 DEF TooLong, NoneNull
<1>5. Len(Joined) = Counted(c + 1) + Gaps(c + 1) * s /\ Len(Joined) \in Nat
  BY <1>1, <1>2, <1>3, <1>4, JoinedLength, JoinedFacts DEF LengthOf, BufferInv
<1>6. Gaps(c + 1) \in Nat /\ Gaps(c + 1) <= n - 1
  BY <1>1, <1>2 DEF Gaps
<1>7. Gaps(c + 1) * s \in Nat /\ Gaps(c + 1) * s <= (n - 1) * s
  BY <1>1, <1>3, <1>6, TimesOrder
<1>8. PICK u \in Nat, v \in Nat : u = Counted(c + 1) /\ u <= v /\ bufflen = v + n + 1
  <2>1. Counted(c + 1) \in Nat /\ Counted(c + 1) <= Counted(n)
    <3>1. TypeOK /\ SizesInv /\ row \in Rows  BY DEF BufferInv, TypeOK
    <3>2. Length(row[c + 1]) \in Nat  BY <1>1, <1>2, <3>1, TextFacts
    <3> QED  BY <1>1, <1>2, <3>1, <3>2, CountedFacts
  <2>2. Counted(n) = bufflen - (n + 1) /\ bufflen \in Nat
    BY <1>1, <1>2 DEF BufferInv, SizesInv, Counted, TypeOK
  <2>3. Counted(n) \in Nat  BY <2>1, <2>2
  <2> QED  BY <2>1, <2>2, <2>3
<1>9. PICK x \in Nat, y \in Nat : x = Gaps(c + 1) * s /\ y = (n - 1) * s /\ x <= y /\ y <= n
  BY <1>4, <1>7
<1>10. Len(Joined) + 1 <= bufflen
  BY <1>5, <1>8, <1>9
<1> QED  BY <1>10 DEF OverrunBuffer, FitsBuffer

(* ... and a row that is joined is not. *)
LEMMA FitsNotTooLong ==
    ASSUME BufferInv, pc = "join", i = Len(row)
    PROVE  ~ TooLong
<1>1. PICK n \in Nat \ {0} : n = Len(row) /\ Columns = 1 .. n
  BY RowFacts DEF BufferInv, TypeOK
<1>2. PICK s \in Nat : s = Len(splitter)
  BY DEF BufferInv, TypeOK
<1>3. LengthOf(buffer, n) /\ Len(buffer) + 1 <= bufflen /\ Len(buffer) \in Nat
  BY <1>1 DEF BufferInv, JoinInv, FitsBuffer, TypeOK
<1>4. Gaps(n) = n - 1 /\ Counted(n) = bufflen - (n + 1) /\ bufflen \in Nat
  <2>1. bufflen = sizes[Len(row)] /\ bufflen \in Nat
    BY DEF BufferInv, SizesInv, TypeOK
  <2> QED  BY <1>1, <2>1 DEF Gaps, Counted
<1>5. NoneNull(n)
  <2> SUFFICES ASSUME ~ NoneNull(n) PROVE FALSE
    OBVIOUS
  <2>1. Len(buffer) >= (bufflen - (n + 1)) + (n - 1) + 4
    BY <1>3, <1>4 DEF LengthOf
  <2> QED  BY <1>3, <1>4, <2>1
<1>6. PICK x \in Nat : x = (n - 1) * s
  BY TimesOrder
<1>7. Len(buffer) = (bufflen - (n + 1)) + x
  BY <1>2, <1>3, <1>4, <1>5, <1>6 DEF LengthOf
<1>8. x <= n
  BY <1>3, <1>4, <1>7
<1> QED  BY <1>1, <1>2, <1>5, <1>6, <1>8 DEF TooLong, NoneNull

LEMMA NextBuffer ==
    ASSUME BufferInv, [Next]_vars
    PROVE  BufferInv'
<1> USE DEF BufferInv
<1>0. /\ TypeOK' /\ TypeOK /\ SizesInv /\ JoinInv
      /\ i \in Nat /\ bufflen \in Nat /\ sizes \in Seq(Nat)
      /\ Len(row) \in Nat \ {0} /\ Len(buffer) \in Nat
      /\ row \in Rows /\ Columns = 1 .. Len(row)
  BY NextText, RowFacts DEF TypeOK
<1>a. ASSUME UNCHANGED <<row, splitter>> PROVE TooLong' <=> TooLong
  BY <1>a DEF TooLong, Columns
<1>1. CASE FetchRow
  <2>1. Len(splitter') > 0
    <3>1. Len(GetString(arg)) \in Nat \ {0}  BY GetStringFacts DEF TypeOK
    <3> QED  BY <1>1, <3>1 DEF FetchRow
  <2> QED  BY <1>0, <1>1, <2>1 DEF FetchRow, SizesInv, JoinInv, BufferFits
<1>2. CASE AddLength
  <2>1. PICK l \in Nat : l = Length(row[i + 1])
    <3>1. i + 1 \in Columns  BY <1>0, <1>2 DEF AddLength
    <3> QED  BY <1>0, <3>1, TextFacts
  <2>2. /\ pc = "size" /\ pc' = "size" /\ i < Len(row) /\ i' = i + 1 /\ row' = row /\ buffer' = buffer
        /\ bufflen' = bufflen + l /\ sizes' = Append(sizes, bufflen + l)
    BY <1>2, <2>1 DEF AddLength
  <2>3. Len(sizes) = i /\ Len(sizes') = i + 1 /\ sizes'[i + 1] = bufflen + l
        /\ \A k \in 1 .. i : sizes'[k] = sizes[k]
    BY <1>0, <2>1, <2>2 DEF SizesInv
  <2>4. ASSUME NEW k \in 1 .. i + 1
        PROVE  /\ sizes'[k] = (IF k = 1 THEN Len(row) + 1 ELSE sizes'[k - 1]) + Length(row[k])
               /\ \A j \in 1 .. k : Len(row) + 1 <= sizes'[j] /\ sizes'[j] <= sizes'[k]
    <3>1. CASE k = i + 1
      <4>1. bufflen = IF i = 0 THEN Len(row) + 1 ELSE sizes[i]
        BY <1>0, <2>2 DEF SizesInv
      <4>2. \A j \in 1 .. i : Len(row) + 1 <= sizes[j] /\ sizes[j] <= sizes[i]
        BY <1>0, <2>3 DEF SizesInv
      <4>3. \A j \in 1 .. i : sizes[j] \in Nat
        BY <1>0, <2>3
      <4>4. Len(row) + 1 <= bufflen
        BY <1>0, <4>1, <4>2
      <4>5. ASSUME NEW j \in 1 .. k PROVE Len(row) + 1 <= sizes'[j] /\ sizes'[j] <= sizes'[k]
        <5>1. CASE j = k  BY <1>0, <2>1, <2>3, <3>1, <4>4, <5>1
        <5>2. CASE j # k  BY <1>0, <2>1, <2>3, <3>1, <4>1, <4>2, <4>3, <5>2
        <5> QED  BY <5>1, <5>2
      <4>6. sizes'[k] = (IF k = 1 THEN Len(row) + 1 ELSE sizes'[k - 1]) + Length(row[k])
        BY <1>0, <2>1, <2>3, <3>1, <4>1
      <4> QED  BY <4>5, <4>6
    <3>2. CASE k # i + 1
      BY <1>0, <2>2, <2>3, <3>2 DEF SizesInv
    <3> QED  BY <3>1, <3>2
  <2>5. SizesInv'
    BY <1>0, <2>2, <2>3, <2>4 DEF SizesInv
  <2> QED  BY <1>0, <1>2, <2>2, <2>5 DEF AddLength, JoinInv, BufferFits
<1>3. CASE Allocate
  <2>1. /\ pc = "size" /\ pc' = "join" /\ i = Len(row) /\ i' = 0 /\ buffer = <<>>
        /\ UNCHANGED <<row, splitter, bufflen, buffer, sizes>>
    BY <1>3 DEF Allocate, SizesInv
  <2>2. SizesInv'  BY <1>0, <2>1 DEF SizesInv
  <2>3. Len(buffer) = 0 /\ FitsBuffer(buffer)'
    <3>1. bufflen >= Len(row) + 1
      <4>1. Len(sizes) = i /\ bufflen = sizes[i] /\ i \in 1 .. Len(sizes)
        BY <1>0, <2>1 DEF SizesInv
      <4> QED  BY <1>0, <4>1 DEF SizesInv
    <3> QED  BY <1>0, <2>1, <3>1 DEF FitsBuffer
  <2>4. LengthOf(buffer, i)'
    <3>1. Counted(0)' = 0 /\ Gaps(0)' = 0 /\ NoneNull(0)'
      BY <1>0, <2>1 DEF Counted, Gaps, NoneNull
    <3>2. 0 * Len(splitter)' = 0  BY <2>1 DEF TypeOK
    <3> QED  BY <2>1, <2>3, <3>1, <3>2 DEF LengthOf
  <2> QED  BY <1>0, <2>1, <2>2, <2>3, <2>4 DEF JoinInv, BufferFits
<1>4. CASE AppendColumn
  <2>1. /\ pc = "join" /\ pc' = "join" /\ i' = i + 1 /\ i + 1 <= Len(row) /\ buffer' = Joined
        /\ FitsBuffer(Joined) /\ UNCHANGED <<row, splitter, bufflen, sizes>>
    BY <1>0, <1>4, JoinedFacts DEF AppendColumn
  <2>2. SizesInv'  BY <1>0, <2>1 DEF SizesInv
  <2>3. LengthOf(buffer, i)'
    <3>1. LengthOf(Joined, i + 1)  BY <1>4, JoinedLength DEF AppendColumn
    <3>2. LengthOf(buffer, i)' <=> LengthOf(Joined, i + 1)
      BY <2>1 DEF LengthOf, NoneNull, Counted, Gaps
    <3> QED  BY <3>1, <3>2
  <2> QED  BY <1>0, <2>1, <2>2, <2>3 DEF JoinInv, BufferFits, FitsBuffer
<1>10. CASE OverrunBuffer
  <2>1. TooLong'  BY <1>a, <1>10, OverrunsTooLong DEF OverrunBuffer
  <2> QED  BY <1>0, <1>10, <2>1 DEF OverrunBuffer, SizesInv, JoinInv, BufferFits
<1>5. CASE SetString
  <2>1. ~ TooLong'  BY <1>a, <1>5, FitsNotTooLong DEF SetString
  <2> QED  BY <1>0, <1>5, <2>1 DEF SetString, SizesInv, JoinInv, BufferFits
<1>6. CASE SplitNext
  <2>1. pc = "split" /\ pc' = pc /\ UNCHANGED <<row, splitter, bufflen, buffer, sizes>>  BY <1>6 DEF SplitNext
  <2> QED  BY <1>0, <1>a, <2>1 DEF SizesInv, JoinInv, BufferFits
<1>7. CASE SplitEnds
  BY <1>0, <1>a, <1>7 DEF SplitEnds, SizesInv, JoinInv, BufferFits
<1>8. CASE RealEscapeString
  <2>1. PICK m \in Nat \ {0} : m = Len(GetString(arg))
    BY <1>0, GetStringFacts DEF TypeOK
  <2>2. PICK n \in m .. 2 * m : buffer' = [k \in 1 .. n |-> Delimiter]
    BY <1>8, <2>1 DEF RealEscapeString
  <2>3. Len(buffer') = n /\ bufflen' = 3 * m
    BY <1>8, <2>1, <2>2 DEF RealEscapeString
  <2>4. Len(buffer') + 1 <= bufflen'
    BY <2>1, <2>2, <2>3
  <2> QED  BY <1>0, <1>8, <2>4 DEF RealEscapeString, SizesInv, JoinInv, BufferFits, FitsBuffer
<1>9. CASE UNCHANGED vars
  <2>1. UNCHANGED <<pc, row, splitter, bufflen, buffer, i, sizes>>  BY <1>9 DEF vars
  <2>2. SizesInv'  BY <1>0, <2>1 DEF SizesInv
  <2>3. pc = "join" => (FitsBuffer(buffer)' /\ LengthOf(buffer, i)')
    BY <1>0, <2>1 DEF JoinInv, FitsBuffer, LengthOf, NoneNull, Counted, Gaps
  <2> QED  BY <1>0, <1>a, <2>1, <2>2, <2>3 DEF JoinInv, BufferFits, FitsBuffer
<1> QED  BY <1>1, <1>2, <1>3, <1>4, <1>5, <1>6, <1>7, <1>8, <1>9, <1>10 DEF Next

(* fetch_row overruns its buffer exactly for the rows that are too long, for *)
(* rows and splitters of any length, and real_escape_string never does.    *)
THEOREM BuffersFit == Spec => []BufferFits
<1>1. BufferInv => BufferFits
  BY DEF BufferInv, JoinInv
<1> QED  BY <1>1, InitBuffer, NextBuffer, PTL DEF Spec

-----------------------------------------------------------------------------
(* What is joined is what comes back.                                      *)

(* Characters of buffer up to the end of column k. *)
End(k) == starts[k] + Len(Text(k))

Delimited == splitter = <<Delimiter>>

(* Columns that split() can give back. *)
Clean == \A k \in Columns : /\ Len(Text(k)) < MaxPiece
                            /\ \A p \in 1 .. Len(Text(k)) : Text(k)[p] # Delimiter

(* Where column k is, and what follows it. *)
Placed(k) ==
    /\ k = 1 => starts[k] = 0
    /\ k > 1 => starts[k] = End(k - 1) + 1
    /\ End(k) <= Len(buffer)
    /\ \A p \in 1 .. Len(Text(k)) : buffer[starts[k] + p] = Text(k)[p]
    /\ k < Len(row) => End(k) < Len(buffer) /\ buffer[End(k) + 1] = Delimiter

LayoutInv ==
    /\ pc \in {"call", "size"} => i >= 0 /\ starts = <<>> /\ buffer = <<>> /\ strdest = <<>> /\ li = 0
    /\ pc = "join" => Len(starts) = i /\ i <= Len(row) /\ strdest = <<>> /\ li = 0
    /\ pc \in {"split", "done"} => Len(starts) = Len(row)
    /\ Delimited /\ pc # "escaped" =>
         /\ \A k \in 1 .. Len(starts) : Placed(k)
         /\ Len(starts) = 0 => buffer = <<>>
         /\ Len(starts) > 0 => Len(buffer) = End(Len(starts)) + (IF Len(starts) < Len(row) THEN 1 ELSE 0)

(* split() has given back the first columns, and reads the next one.       *)
PiecesInv ==
    Delimited /\ Clean /\ pc \in {"split", "done"} =>
        /\ Len(strdest) <= Len(row)
        /\ \A k \in 1 .. Len(strdest) : strdest[k] = Text(k)
        /\ Len(strdest) < Len(row) =>
             /\ pc = "split"
             /\ li = starts[Len(strdest) + 1] /\ li <= i /\ i <= End(Len(strdest) + 1)
        /\ Len(strdest) = Len(row) => i = Len(buffer) + 1

TripInv == TypeOK /\ LayoutInv /\ PiecesInv

LEMMA ConcatFacts ==
    ASSUME NEW S, NEW a \in Seq(S), NEW b \in Seq(S), NEW c \in Seq(S)
    PROVE  /\ a \o b \o c \in Seq(S) /\ Len(a \o b \o c) = Len(a) + Len(b) + Len(c)
           /\ \A x \in 1 .. Len(a) : (a \o b \o c)[x] = a[x]
           /\ \A x \in 1 .. Len(b) : (a \o b \o c)[Len(a) + x] = b[x]
           /\ \A x \in 1 .. Len(c) : (a \o b \o c)[Len(a) + Len(b) + x] = c[x]
<1>0. a \o b \in Seq(S)  OBVIOUS
<1>1. PICK ab \in Seq(S) : ab = a \o b  BY <1>0
<1>2. Len(ab) = Len(a) + Len(b)  BY <1>1
<1>3. \A x \in 1 .. Len(a) : ab[x] = a[x]  BY <1>1
<1>4. \A x \in 1 .. Len(b) : ab[Len(a) + x] = b[x]  BY <1>1
<1>5. ab \o c \in Seq(S) /\ Len(ab \o c) = Len(ab) + Len(c)  OBVIOUS
<1>6. \A x \in 1 .. Len(ab) : (ab \o c)[x] = ab[x]  OBVIOUS
<1>7. \A x \in 1 .. Len(c) : (ab \o c)[Len(ab) + x] = c[x]  OBVIOUS
<1>8. ASSUME NEW x \in 1 .. Len(a) PROVE (ab \o c)[x] = a[x]
  <2>1. x \in 1 .. Len(ab)  BY <1>2
  <2> QED  BY <1>3, <1>6, <2>1
<1>9. ASSUME NEW x \in 1 .. Len(b) PROVE (ab \o c)[Len(a) + x] = b[x]
  <2>1. Len(a) + x \in 1 .. Len(ab)  BY <1>2
  <2> QED  BY <1>4, <1>6, <2>1
<1> QED  BY <1>1, <1>2, <1>5, <1>7, <1>8, <1>9

LEMMA SubSeqIs ==
    ASSUME NEW S, NEW s \in Seq(S), NEW t \in Seq(S), NEW a \in Nat,
           a + Len(t) <= Len(s),
           \A p \in 1 .. Len(t) : s[a + p] = t[p]
    PROVE  SubSeq(s, a + 1, a + Len(t)) = t
<1>1. PICK u \in Seq(S) : u = SubSeq(s, a + 1, a + Len(t))  OBVIOUS
<1>2. Len(u) = Len(t)  BY <1>1
<1>3. ASSUME NEW p \in 1 .. Len(t) PROVE u[p] = t[p]
  BY <1>1
<1>4. u = [p \in 1 .. Len(u) |-> u[p]] /\ t = [p \in 1 .. Len(t) |-> t[p]]  OBVIOUS
<1> QED  BY <1>1, <1>2, <1>3, <1>4

LEMMA InitTrip == Init => TripInv
BY InitText DEF Init, TripInv, LayoutInv, PiecesInv

(* One more column is joined: it is placed, and the others stay placed.    *)
LEMMA AppendPlaces ==
    ASSUME TypeOK, LayoutInv, AppendColumn, Delimited
    PROVE  /\ \A k \in 1 .. Len(starts') : Placed(k)'
           /\ Len(starts') > 0
           /\ Len(buffer') = End(Len(starts))' + (IF Len(starts') < Len(row') THEN 1 ELSE 0)
<1>1. PICK c \in Nat : c = i
  BY DEF TypeOK
<1>2. PICK n \in Nat \ {0} : n = Len(row)
  BY RowFacts DEF TypeOK
<1>3. /\ pc = "join" /\ Len(starts) = c /\ c < n
      /\ row' = row /\ starts' = Append(starts, Len(buffer))
      /\ Columns = 1 .. n /\ starts \in Seq(Nat) /\ row \in Rows
  BY <1>1, <1>2, RowFacts DEF AppendColumn, LayoutInv, TypeOK
<1>4. PICK L \in Nat : L = Len(buffer)
  BY DEF TypeOK
<1>5. Len(starts') = c + 1 /\ starts'[c + 1] = L /\ \A k \in 1 .. c : starts'[k] = starts[k] /\ starts[k] \in Nat
  BY <1>3, <1>4
<1>6. \A k : Text(k)' = Text(k)
  BY <1>3 DEF Text
<1>7. PICK text \in Seq(Char) : text = Text(c + 1)
  BY <1>3, TextFacts
<1>8. PICK end \in Seq(Char) : end = IF c + 1 # n THEN <<Delimiter>> ELSE <<>>
  <2>1. <<Delimiter>> \in Seq(Char)  BY TextAssumption
  <2>2. <<>> \in Seq(Char)  OBVIOUS
  <2>3. CASE c + 1 # n  BY <2>1, <2>3
  <2>4. CASE c + 1 = n  BY <2>2, <2>4
  <2> QED  BY <2>3, <2>4
<1>9. PICK b \in Seq(Char) : b = buffer
  BY DEF TypeOK
<1>10. buffer' = b \o text \o end
  BY <1>1, <1>2, <1>7, <1>8, <1>9 DEF AppendColumn, Joined, Text, Delimited
<1>11. Len(text) \in Nat /\ Len(end) = (IF c + 1 # n THEN 1 ELSE 0)
  BY <1>8
<1>12. /\ Len(buffer') = L + Len(text) + (IF c + 1 # n THEN 1 ELSE 0)
       /\ \A x \in 1 .. L : buffer'[x] = buffer[x]
       /\ \A x \in 1 .. Len(text) : buffer'[L + x] = text[x]
       /\ \A x \in 1 .. Len(end) : buffer'[L + Len(text) + x] = end[x]
  <2> DEFINE bb == b \o text \o end
  <2>1. /\ Len(bb) = Len(b) + Len(text) + Len(end)
        /\ \A x \in 1 .. Len(b) : bb[x] = b[x]
        /\ \A x \in 1 .. Len(text) : bb[Len(b) + x] = text[x]
        /\ \A x \in 1 .. Len(end) : bb[Len(b) + Len(text) + x] = end[x]
    <3>1. b \in Seq(Char) /\ text \in Seq(Char) /\ end \in Seq(Char)  OBVIOUS
    <3>2. bb = (b \o text) \o end  OBVIOUS
    <3> HIDE DEF bb
    <3> QED  BY <3>1, <3>2, ConcatFacts, SMTT(30)
  <2>2. bb = buffer'  BY <1>10
  <2> HIDE DEF bb
  <2> QED  BY <1>4, <1>9, <1>11, <2>1, <2>2
<1>13. \A k \in 1 .. c : Placed(k)
  BY <1>3 DEF LayoutInv
<1>14. c = 0 => L = 0
  BY <1>3, <1>4 DEF LayoutInv
<1>15. c > 0 => L = End(c) + 1
  BY <1>2, <1>3, <1>4 DEF LayoutInv
<1>16. End(c + 1)' = L + Len(text)
  BY <1>5, <1>6, <1>7 DEF End
<1>17. ASSUME NEW k \in 1 .. c PROVE End(k)' = End(k) /\ End(k) \in Nat /\ Len(Text(k)) \in Nat
  <2>1. Len(Text(k)) \in Nat  BY <1>3, TextFacts
  <2> QED  BY <1>5, <1>6, <2>1 DEF End
<1>18. ASSUME NEW k \in 1 .. c PROVE Placed(k)'
  <2>1. starts'[k] = starts[k] /\ starts[k] \in Nat /\ Placed(k)
    BY <1>5, <1>13
  <2>2. PICK l \in Nat : l = Len(Text(k))  BY <1>17
  <2>3. End(k) = starts[k] + l /\ End(k) <= L  BY <1>4, <2>1, <2>2 DEF End, Placed
  <2>4. k = 1 => starts'[k] = 0  BY <2>1 DEF Placed
  <2>5. k > 1 => starts'[k] = End(k - 1)' + 1
    <3>1. k > 1 => k - 1 \in 1 .. c  OBVIOUS
    <3> QED  BY <1>17, <2>1, <3>1 DEF Placed
  <2>6. End(k)' <= Len(buffer')
    BY <1>11, <1>12, <1>17, <2>3
  <2>7. ASSUME NEW p \in 1 .. l PROVE buffer'[starts'[k] + p] = Text(k)[p]
    <3>1. starts[k] + p \in 1 .. L  BY <2>1, <2>3
    <3>2. buffer[starts[k] + p] = Text(k)[p]  BY <2>1, <2>2 DEF Placed
    <3> QED  BY <1>12, <2>1, <3>1, <3>2
  <2>8. k < n => End(k)' < Len(buffer') /\ buffer'[End(k)' + 1] = Delimiter
    <3>1. k < n /\ End(k) < L /\ buffer[End(k) + 1] = Delimiter
      BY <1>2, <1>3, <1>4, <2>1 DEF Placed
    <3>2. End(k) + 1 \in 1 .. L  BY <1>17, <3>1
    <3> QED  BY <1>11, <1>12, <1>17, <3>1, <3>2
  <2> QED  BY <1>2, <1>3, <1>6, <2>2, <2>4, <2>5, <2>6, <2>7, <2>8 DEF Placed
<1>19. Placed(c + 1)'
  <2>1. c + 1 = 1 => starts'[c + 1] = 0  BY <1>5, <1>14
  <2>2. c + 1 > 1 => starts'[c + 1] = End((c + 1) - 1)' + 1
    <3>1. c + 1 > 1 => c \in 1 .. c /\ (c + 1) - 1 = c  OBVIOUS
    <3> QED  BY <1>5, <1>15, <1>17, <3>1
  <2>3. End(c + 1)' <= Len(buffer')  BY <1>11, <1>12, <1>16
  <2>4. \A p \in 1 .. Len(text) : buffer'[starts'[c + 1] + p] = text[p]  BY <1>5, <1>12
  <2>5. c + 1 < n => End(c + 1)' < Len(buffer') /\ buffer'[End(c + 1)' + 1] = Delimiter
    <3> SUFFICES ASSUME c + 1 < n PROVE End(c + 1)' < Len(buffer') /\ buffer'[End(c + 1)' + 1] = Delimiter
      OBVIOUS
    <3>1. Len(end) = 1 /\ end[1] = Delimiter  BY <1>8
    <3>2. buffer'[L + Len(text) + 1] = Delimiter  BY <1>12, <3>1
    <3> QED  BY <1>11, <1>12, <1>16, <3>2
  <2> QED  BY <1>2, <1>3, <1>6, <1>7, <2>1, <2>2, <2>3, <2>4, <2>5 DEF Placed
<1>20. \A k \in 1 .. Len(starts') : Placed(k)'
  <2> SUFFICES ASSUME NEW k \in 1 .. c + 1 PROVE Placed(k)'
    BY <1>5
  <2>1. CASE k = c + 1  BY <1>19, <2>1
  <2>2. CASE k # c + 1  BY <1>18, <2>2
  <2> QED  BY <2>1, <2>2
<1>21. Len(buffer') = End(c + 1)' + (IF c + 1 < n THEN 1 ELSE 0)
  BY <1>3, <1>12, <1>16
<1> QED  BY <1>2, <1>3, <1>5, <1>20, <1>21

LEMMA NextLayout ==
    ASSUME TypeOK, LayoutInv, [Next]_vars
    PROVE  LayoutInv'
<1>0. Len(row) \in Nat \ {0} /\ i \in Nat /\ starts \in Seq(Nat)
  BY RowFacts DEF TypeOK
<1>1. ASSUME UNCHANGED <<row, splitter, buffer, starts>>
      PROVE  /\ Delimited' <=> Delimited
             /\ \A k : Placed(k)' <=> Placed(k)
             /\ \A k : End(k)' = End(k)
  BY <1>1 DEF Delimited, Placed, End, Text
<1>2. CASE FetchRow
  BY <1>0, <1>2 DEF FetchRow, LayoutInv
<1>3. CASE AddLength
  BY <1>0, <1>1, <1>3 DEF AddLength, LayoutInv
<1>4. CASE Allocate
  BY <1>0, <1>1, <1>4 DEF Allocate, LayoutInv
<1>5. CASE AppendColumn
  <2>1. /\ pc = "join" /\ pc' = pc /\ i < Len(row) /\ i' = i + 1 /\ starts' = Append(starts, Len(buffer))
        /\ UNCHANGED <<row, splitter, li, strdest>>
    BY <1>5 DEF AppendColumn
  <2>2. Len(buffer) \in Nat  BY DEF TypeOK
  <2>3. Len(starts') = i + 1 /\ i + 1 <= Len(row)
    BY <1>0, <2>1, <2>2 DEF LayoutInv
  <2>4. Delimited' <=> Delimited  BY <2>1 DEF Delimited
  <2> QED  BY <1>0, <1>5, <2>1, <2>3, <2>4, AppendPlaces DEF LayoutInv
<1>6. CASE SetString
  BY <1>0, <1>1, <1>6 DEF SetString, LayoutInv
<1>7. CASE SplitNext
  BY <1>0, <1>1, <1>7 DEF SplitNext, LayoutInv
<1>8. CASE SplitEnds
  BY <1>0, <1>1, <1>8 DEF SplitEnds, LayoutInv
<1>9. CASE RealEscapeString
  BY <1>9 DEF RealEscapeString, LayoutInv
<1>10. CASE UNCHANGED vars
  <2>1. UNCHANGED <<pc, row, splitter, buffer, i, starts, li, strdest>>  BY <1>10 DEF vars
  <2> QED  BY <1>1, <2>1 DEF LayoutInv
<1>11. CASE OverrunBuffer
  BY <1>0, <1>1, <1>11 DEF OverrunBuffer, LayoutInv
<1> QED  BY <1>2, <1>3, <1>4, <1>5, <1>6, <1>7, <1>8, <1>9, <1>10, <1>11 DEF Next

(* Everything is joined: the last column ends the string. *)
LEMMA LastEnds ==
    ASSUME TypeOK, LayoutInv, Delimited, pc = "split"
    PROVE  Len(buffer) = End(Len(row))
<1>1. PICK n \in Nat \ {0} : n = Len(row) /\ Columns = 1 .. n
  BY RowFacts DEF TypeOK
<1>2. Len(starts) = n  BY <1>1 DEF LayoutInv
<1>3. starts[n] \in Nat /\ Len(Text(n)) \in Nat
  BY <1>1, <1>2, TextFacts DEF TypeOK
<1>4. End(n) \in Nat  BY <1>3 DEF End
<1>5. Len(buffer) = End(n) + 0  BY <1>1, <1>2 DEF LayoutInv
<1> QED  BY <1>1, <1>4, <1>5

(* The loop of split() reads the text of the next column, and stops at its *)
(* end, where the delimiter or the end of the string is.                   *)
LEMMA SplitReads ==
    ASSUME TypeOK, LayoutInv, PiecesInv, SplitNext, Delimited, Clean
    PROVE  /\ Len(strdest) < Len(row) /\ li = starts[Len(strdest) + 1]
           /\ AtCut => i = End(Len(strdest) + 1) /\ Strmid(buffer, li, i) = Text(Len(strdest) + 1)
           /\ ~ AtCut => i < End(Len(strdest) + 1)
<1>1. PICK m \in Nat : m = Len(strdest)
  BY DEF TypeOK
<1>2. PICK n \in Nat \ {0} : n = Len(row) /\ Columns = 1 .. n
  BY RowFacts DEF TypeOK
<1>3. PICK L \in Nat : L = Len(buffer)
  BY DEF TypeOK
<1>4. PICK j \in Nat : j = i /\ j <= L /\ pc = "split"
  BY <1>3 DEF TypeOK, SplitNext
<1>5. m < n
  BY <1>1, <1>2, <1>3, <1>4 DEF PiecesInv
<1>6. m + 1 \in Columns /\ Len(starts) = n
  BY <1>2, <1>4, <1>5 DEF LayoutInv
<1>7. PICK text \in Seq(Char) : text = Text(m + 1)
  BY <1>6, TextFacts DEF TypeOK
<1>8. Len(text) < MaxPiece /\ \A p \in 1 .. Len(text) : text[p] # Delimiter
  BY <1>6, <1>7 DEF Clean
<1>9. PICK a \in Nat : a = starts[m + 1]
  BY <1>2, <1>5, <1>6 DEF TypeOK
<1>10. PICK l \in Nat : l = Len(text) /\ End(m + 1) = a + l
  BY <1>7, <1>9 DEF End
<1>11. Placed(m + 1) /\ Len(buffer) = End(n)
  BY <1>2, <1>4, <1>5, <1>6, LastEnds DEF LayoutInv
<1>12. li = a /\ a <= j /\ j <= a + l
  BY <1>1, <1>2, <1>4, <1>5, <1>9, <1>10 DEF PiecesInv
<1>13. a + l <= L /\ \A p \in 1 .. l : buffer[a + p] = text[p]
  BY <1>3, <1>7, <1>9, <1>10, <1>11 DEF Placed
<1>14. AtCut <=> j = L \/ (j < L /\ buffer[j + 1] = Delimiter)
  BY <1>3, <1>4 DEF AtCut
<1>15. ASSUME j = a + l PROVE AtCut
  <2>1. CASE m + 1 < n
    BY <1>2, <1>3, <1>10, <1>11, <1>14, <1>15, <2>1 DEF Placed
  <2>2. CASE m + 1 = n
    BY <1>3, <1>10, <1>11, <1>14, <1>15, <2>2
  <2> QED  BY <1>5, <2>1, <2>2
<1>16. ASSUME j # a + l PROVE ~ AtCut
  <2>1. j < a + l /\ j + 1 - a \in 1 .. l /\ a + (j + 1 - a) = j + 1
    BY <1>12, <1>16
  <2>2. buffer[j + 1] = text[j + 1 - a]
    BY <1>13, <2>1
  <2>3. buffer[j + 1] # Delimiter /\ j # L
    BY <1>8, <1>10, <1>13, <2>1, <2>2
  <2> QED  BY <1>14, <2>3
<1>17. SubSeq(buffer, a + 1, a + l) = text
  <2>1. PICK b \in Seq(Char) : b = buffer  BY DEF TypeOK
  <2>2. a + Len(text) <= Len(b) /\ \A p \in 1 .. Len(text) : b[a + p] = text[p]
    BY <1>3, <1>10, <1>13, <2>1
  <2>3. SubSeq(b, a + 1, a + Len(text)) = text
    BY <2>2, SubSeqIs
  <2> QED  BY <1>10, <2>1, <2>3
<1>18. ASSUME j = a + l PROVE Strmid(buffer, li, i) = text
  <2>1. j - a < MaxPiece  BY <1>8, <1>10, <1>18, TextAssumption
  <2> QED  BY <1>4, <1>12, <1>17, <1>18, <2>1 DEF Strmid
<1> QED
  BY <1>1, <1>2, <1>4, <1>5, <1>7, <1>9, <1>10, <1>12, <1>15, <1>16, <1>18

LEMMA NextPieces ==
    ASSUME TypeOK, LayoutInv, PiecesInv, [Next]_vars
    PROVE  PiecesInv'
<1>1. PICK m \in Nat : m = Len(strdest)
  BY DEF TypeOK
<1>2. PICK n \in Nat \ {0} : n = Len(row) /\ Columns = 1 .. n
  BY RowFacts DEF TypeOK
<1>3. PICK L \in Nat : L = Len(buffer)
  BY DEF TypeOK
<1>4. ASSUME UNCHANGED <<row, splitter, buffer, starts>>
      PROVE  /\ Delimited' <=> Delimited
             /\ Clean' <=> Clean
             /\ \A k : Text(k)' = Text(k)
             /\ \A k : End(k)' = End(k)
  BY <1>4 DEF Delimited, Clean, Columns, End, Text
<1>5. CASE pc' \notin {"split", "done"}
  BY <1>5 DEF PiecesInv
<1>6. CASE SetString
  <2>1. /\ pc = "join" /\ pc' = "split" /\ i' = 0 /\ i = n
        /\ UNCHANGED <<row, splitter, buffer, starts, li, strdest>>
    BY <1>2, <1>6 DEF SetString
  <2>2. strdest = <<>> /\ li = 0 /\ Len(starts) = n
    BY <2>1 DEF LayoutInv
  <2>3. ASSUME Delimited PROVE starts[1] = 0 /\ End(1) \in Nat
    <3>1. Placed(1)  BY <1>2, <2>1, <2>2, <2>3 DEF LayoutInv
    <3>2. Len(Text(1)) \in Nat  BY <1>2, TextFacts DEF TypeOK
    <3>3. starts[1] = 0  BY <3>1 DEF Placed
    <3> QED  BY <3>2, <3>3 DEF End
  <2> QED  BY <1>2, <1>4, <2>1, <2>2, <2>3 DEF PiecesInv
<1>7. CASE SplitNext
  <2>1. /\ pc = "split" /\ pc' = "split" /\ i' = i + 1 /\ i \in Nat
        /\ UNCHANGED <<row, splitter, buffer, starts>>
    BY <1>7 DEF SplitNext, TypeOK
  <2> SUFFICES ASSUME Delimited, Clean
               PROVE  PiecesInv'
    BY <1>4, <2>1 DEF PiecesInv
  <2>2. /\ m < n /\ li = starts[m + 1]
        /\ AtCut => i = End(m + 1) /\ Strmid(buffer, li, i) = Text(m + 1)
        /\ ~ AtCut => i < End(m + 1)
    BY <1>1, <1>2, <1>7, SplitReads
  <2>3. \A k \in 1 .. m : strdest[k] = Text(k)
    BY <1>1, <2>1 DEF PiecesInv
  <2>4. li <= i /\ li \in Nat
    BY <1>1, <1>2, <2>1, <2>2 DEF PiecesInv, TypeOK
  <2>5. ASSUME NEW k \in 1 .. n PROVE Placed(k) /\ starts[k] \in Nat /\ Len(Text(k)) \in Nat /\ End(k) \in Nat
    <3>1. Len(starts) = n /\ Placed(k)  BY <1>2, <2>1 DEF LayoutInv
    <3>2. starts[k] \in Nat  BY <3>1 DEF TypeOK
    <3>3. Len(Text(k)) \in Nat  BY <1>2, TextFacts DEF TypeOK
    <3> QED  BY <3>1, <3>2, <3>3 DEF End
  <2>6. CASE AtCut
    <3>1. PICK text \in Seq(Char) : text = Text(m + 1)
      BY <1>2, <2>2, TextFacts DEF TypeOK
    <3>2. strdest' = Append(strdest, text) /\ li' = i + 1 /\ i = End(m + 1)
      BY <1>7, <2>2, <2>6, <3>1 DEF SplitNext
    <3>3. Len(strdest') = m + 1 /\ strdest'[m + 1] = text /\ \A k \in 1 .. m : strdest'[k] = strdest[k]
      BY <1>1, <3>2 DEF TypeOK
    <3>4. \A k \in 1 .. m + 1 : strdest'[k] = Text(k)
      BY <2>3, <3>1, <3>3
    <3>5. m + 1 < n => starts[m + 2] = i + 1 /\ i + 1 <= End(m + 2)
      <4> SUFFICES ASSUME m + 1 < n PROVE starts[m + 2] = i + 1 /\ i + 1 <= End(m + 2)
        OBVIOUS
      <4>1. m + 2 \in 1 .. n /\ m + 2 > 1 /\ (m + 2) - 1 = m + 1  OBVIOUS
      <4>2. starts[m + 2] = i + 1  BY <2>5, <3>2, <4>1 DEF Placed
      <4>3. Len(Text(m + 2)) \in Nat  BY <2>5, <4>1
      <4> QED  BY <2>1, <4>2, <4>3 DEF End
    <3>6. m + 1 = n => i + 1 = Len(buffer) + 1
      <4>1. Len(buffer) = End(n)  BY <1>2, <2>1, LastEnds
      <4> QED  BY <3>2, <4>1
    <3> QED  BY <1>2, <1>4, <2>1, <2>2, <3>2, <3>3, <3>4, <3>5, <3>6 DEF PiecesInv
  <2>7. CASE ~ AtCut
    <3>1. UNCHANGED <<li, strdest>>  BY <1>7, <2>7 DEF SplitNext
    <3>2. i + 1 <= End(m + 1)
      BY <2>1, <2>2, <2>5, <2>7
    <3> QED  BY <1>1, <1>2, <1>4, <2>1, <2>2, <2>3, <2>4, <3>1, <3>2 DEF PiecesInv
  <2> QED  BY <2>6, <2>7
<1>8. CASE SplitEnds
  <2>1. /\ pc = "split" /\ pc' = "done" /\ i > L /\ i \in Nat
        /\ UNCHANGED <<row, splitter, buffer, starts, li, strdest, i>>
    BY <1>3, <1>8 DEF SplitEnds, TypeOK
  <2>2. ASSUME Delimited, Clean PROVE m = n
    <3> SUFFICES ASSUME m < n PROVE FALSE
      BY <1>1, <1>2, <2>1, <2>2 DEF PiecesInv
    <3>1. i <= End(m + 1)
      BY <1>1, <1>2, <2>1, <2>2 DEF PiecesInv
    <3>2. Len(starts) = n /\ Placed(m + 1)  BY <1>2, <2>1, <2>2 DEF LayoutInv
    <3>3. starts[m + 1] \in Nat  BY <3>2 DEF TypeOK
    <3>4. Len(Text(m + 1)) \in Nat  BY <1>2, TextFacts DEF TypeOK
    <3>5. End(m + 1) \in Nat /\ End(m + 1) <= L  BY <1>3, <3>2, <3>3, <3>4 DEF End, Placed
    <3> QED  BY <2>1, <3>1, <3>5
  <2> QED  BY <1>1, <1>2, <1>3, <1>4, <2>1, <2>2 DEF PiecesInv
<1>9. CASE UNCHANGED vars
  <2>1. UNCHANGED <<pc, row, splitter, buffer, i, starts, li, strdest>>  BY <1>9 DEF vars
  <2> QED  BY <1>4, <2>1 DEF PiecesInv
<1> QED
  BY <1>5, <1>6, <1>7, <1>8, <1>9 DEF Next, FetchRow, AddLength, Allocate, AppendColumn, OverrunBuffer, RealEscapeString

LEMMA TripInvRound == TripInv /\ BufferInv => RoundTrip
<1> SUFFICES ASSUME TripInv, BufferInv, pc = "done", Delimited, Clean
             PROVE  strdest = row
  BY DEF RoundTrip, Delimited, Clean
<1>1. PICK n \in Nat \ {0} : n = Len(row) /\ Columns = 1 .. n /\ row = [k \in 1 .. n |-> row[k]]
  <2>1. PICK m \in 1 .. MaxColumns : row \in [1 .. m -> Strings \cup {NoText}]
    BY DEF TripInv, TypeOK, Rows
  <2>2. m \in Nat \ {0}  BY <2>1, TextAssumption
  <2>3. Len(row) = m  BY <2>1, <2>2
  <2> QED  BY <2>1, <2>2, <2>3 DEF Columns
<1>2. Len(strdest) = n /\ strdest \in Seq(Seq(Char)) /\ \A k \in 1 .. n : strdest[k] = Text(k)
  BY <1>1 DEF TripInv, PiecesInv, TypeOK
<1>3. \A k \in 1 .. n : Text(k) = row[k]
  BY <1>1 DEF BufferInv, JoinInv, BufferFits, TooLong, Text, ColumnText
<1>4. strdest = [k \in 1 .. n |-> strdest[k]]
  BY <1>2
<1> QED  BY <1>1, <1>2, <1>3, <1>4

(* split() gives back the row that fetch_row joined, if its text fits.      *)
THEOREM RoundTrips == Spec => []RoundTrip
<1>1. TripInv /\ [Next]_vars => TripInv'
  BY NextText, NextLayout, NextPieces DEF TripInv
<1> QED  BY <1>1, InitTrip, InitBuffer, NextBuffer, TripInvRound, PTL DEF Spec

-----------------------------------------------------------------------------
(* What split() makes of any text.                                         *)

Followed(text, piece) == text \o Append(piece, Delimiter)

(* f[k]: the first k pieces of s, each with the delimiter behind it.       *)
Joins(f, s) == f = [k \in 0 .. Len(s) |-> IF k = 0 THEN <<>> ELSE Followed(f[k - 1], s[k])]

(* The text that is behind the loop, when buffer is followed by a delimiter. *)
Read == IF strdest = <<>> THEN <<>> ELSE Append(SubSeq(buffer, 1, li - 1), Delimiter)

(* The next piece begins at the start or behind a delimiter, and no          *)
(* delimiter is in what the loop has seen of it.                           *)
CutInv ==
    pc \in {"split", "done"} =>
        /\ li <= i /\ i <= Len(buffer) + 1
        /\ i = Len(buffer) + 1 => li = i
        /\ strdest = <<>> <=> li = 0
        /\ li > 0 /\ li <= Len(buffer) => buffer[li] = Delimiter
        /\ \A p \in li + 1 .. i : p <= Len(buffer) => buffer[p] # Delimiter
        /\ pc = "done" => i = Len(buffer) + 1

NoDelimiter ==
    pc \in {"split", "done"} =>
        \A k \in 1 .. Len(strdest) : \A p \in 1 .. Len(strdest[k]) : strdest[k][p] # Delimiter

(* Some piece is as long as a piece can be. *)
Full == \E k \in 1 .. Len(strdest) : Len(strdest[k]) = MaxPiece - 1

(* The pieces can be joined, in whatever way: they are what was read.      *)
Rejoined ==
    /\ \E f : Joins(f, strdest)
    /\ \A f : Joins(f, strdest) => f[Len(strdest)] = Read

SplitInv ==
    /\ TypeOK /\ LayoutInv
    /\ CutInv /\ NoDelimiter
    /\ pc \in {"split", "done"} => Full \/ Rejoined

(* No piece is joined to the empty string. *)
LEMMA JoinsNone ==
    /\ \E f : Joins(f, <<>>)
    /\ \A f : Joins(f, <<>>) => f[0] = <<>>
<1>1. Len(<<>>) = 0  OBVIOUS
<1>2. ASSUME NEW f, Joins(f, <<>>) PROVE f[0] = <<>>
  BY <1>1, <1>2 DEF Joins
<1>3. Joins([k \in 0 .. 0 |-> <<>>], <<>>)
  BY <1>1 DEF Joins
<1> QED  BY <1>2, <1>3

(* One more piece: what joined the others still does, and the piece and a   *)
(* delimiter are added at the end.                                         *)
LEMMA JoinsMore ==
    ASSUME NEW s \in Seq(Seq(Char)), NEW e \in Seq(Char)
    PROVE  /\ (\E f : Joins(f, s)) => \E g : Joins(g, Append(s, e))
           /\ \A g : Joins(g, Append(s, e)) =>
                 \E f : Joins(f, s) /\ g[Len(s) + 1] = Followed(f[Len(s)], e)
<1>1. PICK n \in Nat : n = Len(s)
  OBVIOUS
<1>2. PICK t : t = Append(s, e)
  OBVIOUS
<1>3. Len(t) = n + 1 /\ t[n + 1] = e /\ \A k \in 1 .. n : t[k] = s[k]
  <2> DEFINE Texts == Seq(Char)
  <2>1. s \in Seq(Texts) /\ e \in Texts
    OBVIOUS
  <2> HIDE DEF Texts
  <2> QED  BY <1>1, <1>2, <2>1
<1>4. ASSUME NEW f, Joins(f, s) PROVE \E g : Joins(g, t)
  <2> DEFINE g == [k \in 0 .. n + 1 |-> IF k <= n THEN f[k] ELSE Followed(f[n], e)]
  <2>1. \A k \in 0 .. n : f[k] = IF k = 0 THEN <<>> ELSE Followed(f[k - 1], s[k])
    BY <1>1, <1>4 DEF Joins
  <2>2. ASSUME NEW k \in 0 .. n + 1
        PROVE  g[k] = IF k = 0 THEN <<>> ELSE Followed(g[k - 1], t[k])
    <3>1. CASE k = 0  BY <1>1, <2>1, <3>1
    <3>2. CASE k > 0 /\ k <= n
      <4>1. g[k] = f[k] /\ g[k - 1] = f[k - 1] /\ t[k] = s[k]  BY <1>3, <3>2
      <4>2. f[k] = Followed(f[k - 1], s[k])  BY <2>1, <3>2
      <4> HIDE DEF g
      <4> QED  BY <3>2, <4>1, <4>2
    <3>3. CASE k = n + 1
      <4>1. g[k] = Followed(f[n], e) /\ g[k - 1] = f[n] /\ t[k] = e  BY <1>3, <3>3
      <4> HIDE DEF g
      <4> QED  BY <3>3, <4>1
    <3> QED  BY <3>1, <3>2, <3>3
  <2>3. g = [k \in 0 .. n + 1 |-> g[k]]
    OBVIOUS
  <2> HIDE DEF g
  <2>4. g = [k \in 0 .. n + 1 |-> IF k = 0 THEN <<>> ELSE Followed(g[k - 1], t[k])]
    BY <2>2, <2>3
  <2> QED  BY <1>3, <2>4 DEF Joins
<1>5. ASSUME NEW g, Joins(g, t)
      PROVE  \E f : Joins(f, s) /\ g[n + 1] = Followed(f[n], e)
  <2> DEFINE f == [k \in 0 .. n |-> g[k]]
  <2>1. \A k \in 0 .. n + 1 : g[k] = IF k = 0 THEN <<>> ELSE Followed(g[k - 1], t[k])
    BY <1>3, <1>5 DEF Joins
  <2>2. ASSUME NEW k \in 0 .. n
        PROVE  f[k] = IF k = 0 THEN <<>> ELSE Followed(f[k - 1], s[k])
    <3>1. CASE k = 0  BY <2>1, <3>1
    <3>2. CASE k > 0
      <4>1. f[k] = g[k] /\ f[k - 1] = g[k - 1] /\ t[k] = s[k]  BY <1>3, <3>2
      <4>2. g[k] = Followed(g[k - 1], t[k])
        <5>1. k \in 0 .. n + 1 /\ k # 0  BY <3>2
        <5> QED  BY <2>1, <5>1
      <4> HIDE DEF f
      <4> QED  BY <3>2, <4>1, <4>2
    <3> QED  BY <3>1, <3>2
  <2>3. f[n] = g[n] /\ f = [k \in 0 .. n |-> f[k]]
    OBVIOUS
  <2> HIDE DEF f
  <2>4. f = [k \in 0 .. n |-> IF k = 0 THEN <<>> ELSE Followed(f[k - 1], s[k])]
    BY <2>2, <2>3
  <2>5. n + 1 \in 0 .. n + 1 /\ n + 1 # 0 /\ (n + 1) - 1 = n
    OBVIOUS
  <2>6. g[n + 1] = Followed(g[n], t[n + 1])
    BY <2>1, <2>5
  <2> QED  BY <1>1, <1>3, <2>3, <2>4, <2>6 DEF Joins
<1> QED  BY <1>1, <1>2, <1>4, <1>5

LEMMA AppendFacts ==
    ASSUME NEW S, NEW s \in Seq(S), NEW e \in S
    PROVE  /\ Append(s, e) \in Seq(S) /\ Len(Append(s, e)) = Len(s) + 1
           /\ Append(s, e)[Len(s) + 1] = e
           /\ \A p \in 1 .. Len(s) : Append(s, e)[p] = s[p]
OBVIOUS

LEMMA JoinFacts ==
    ASSUME NEW S, NEW s \in Seq(S), NEW t \in Seq(S)
    PROVE  /\ s \o t \in Seq(S) /\ Len(s \o t) = Len(s) + Len(t)
           /\ \A p \in 1 .. Len(s) : (s \o t)[p] = s[p]
           /\ \A p \in 1 .. Len(t) : (s \o t)[Len(s) + p] = t[p]
OBVIOUS

LEMMA TextEqual ==
    ASSUME NEW S, NEW s \in Seq(S), NEW t \in Seq(S), Len(s) = Len(t),
           \A p \in 1 .. Len(s) : s[p] = t[p]
    PROVE  s = t
<1>1. s = [p \in 1 .. Len(s) |-> s[p]] /\ t = [p \in 1 .. Len(t) |-> t[p]]
  OBVIOUS
<1> QED  BY <1>1

(* At a cut, the text up to there and a delimiter is the text before the     *)
(* piece, the piece, and a delimiter.                                      *)
LEMMA CutRead ==
    ASSUME NEW S, NEW D \in S, NEW b \in Seq(S), NEW l \in Nat, NEW j \in Nat, l <= j, j <= Len(b),
           l > 0 => b[l] = D
    PROVE  (IF l = 0 THEN <<>> ELSE Append(SubSeq(b, 1, l - 1), D)) \o Append(SubSeq(b, l + 1, j), D)
             = Append(SubSeq(b, 1, j), D)
<1> DEFINE before == IF l = 0 THEN <<>> ELSE Append(SubSeq(b, 1, l - 1), D)
           piece == SubSeq(b, l + 1, j)
           text == SubSeq(b, 1, j)
           last == Append(piece, D)
           x == before \o last
           y == Append(text, D)
<1>1. piece \in Seq(S) /\ Len(piece) = j - l /\ \A p \in 1 .. j - l : piece[p] = b[l + p]
  OBVIOUS
<1>2. text \in Seq(S) /\ Len(text) = j /\ \A p \in 1 .. j : text[p] = b[p]
  OBVIOUS
<1>3. before \in Seq(S) /\ Len(before) = l /\ \A p \in 1 .. l : before[p] = b[p]
  <2>1. CASE l = 0
    <3>1. before = <<>> /\ <<>> \in Seq(S) /\ Len(<<>>) = 0  BY <2>1
    <3> HIDE DEF before
    <3> QED  BY <2>1, <3>1
  <2>2. CASE l > 0
    <3> DEFINE v == SubSeq(b, 1, l - 1)
    <3>1. v \in Seq(S) /\ Len(v) = l - 1 /\ \A p \in 1 .. l - 1 : v[p] = b[p]  BY <2>2
    <3>2. before = Append(v, D)  BY <2>2
    <3> HIDE DEF v, before
    <3>3. /\ Append(v, D) \in Seq(S) /\ Len(Append(v, D)) = Len(v) + 1
          /\ Append(v, D)[Len(v) + 1] = D
          /\ \A p \in 1 .. Len(v) : Append(v, D)[p] = v[p]
      BY <3>1, AppendFacts
    <3>4. Len(before) = l  BY <2>2, <3>1, <3>2, <3>3
    <3>5. before[l] = D  BY <3>1, <3>2, <3>3
    <3>6. \A p \in 1 .. l - 1 : before[p] = b[p]  BY <3>1, <3>2, <3>3
    <3>7. ASSUME NEW p \in 1 .. l PROVE before[p] = b[p]
      BY <2>2, <3>5, <3>6
    <3> QED  BY <3>2, <3>3, <3>4, <3>7
  <2> QED  BY <2>1, <2>2
<1> HIDE DEF before, piece, text
<1>4. /\ last \in Seq(S) /\ Len(last) = (j - l) + 1 /\ last[(j - l) + 1] = D
      /\ \A p \in 1 .. j - l : last[p] = b[l + p]
  <2>1. /\ last \in Seq(S) /\ Len(last) = Len(piece) + 1 /\ last[Len(piece) + 1] = D
        /\ \A p \in 1 .. Len(piece) : last[p] = piece[p]
    BY <1>1, AppendFacts
  <2> HIDE DEF last
  <2> QED  BY <1>1, <2>1
<1>5. y \in Seq(S) /\ Len(y) = j + 1 /\ y[j + 1] = D /\ \A p \in 1 .. j : y[p] = b[p]
  <2>1. /\ y \in Seq(S) /\ Len(y) = Len(text) + 1 /\ y[Len(text) + 1] = D
        /\ \A p \in 1 .. Len(text) : y[p] = text[p]
    BY <1>2, AppendFacts
  <2> HIDE DEF y
  <2> QED  BY <1>2, <2>1
<1> HIDE DEF last, y
<1>6. /\ x \in Seq(S) /\ Len(x) = l + ((j - l) + 1)
      /\ \A p \in 1 .. l : x[p] = b[p]
      /\ \A p \in 1 .. (j - l) + 1 : x[l + p] = last[p]
  <2>1. /\ x \in Seq(S) /\ Len(x) = Len(before) + Len(last)
        /\ \A p \in 1 .. Len(before) : x[p] = before[p]
        /\ \A p \in 1 .. Len(last) : x[Len(before) + p] = last[p]
    <3>1. before \in Seq(S) /\ last \in Seq(S)  BY <1>3, <1>4
    <3>2. x = before \o last  OBVIOUS
    <3> HIDE DEF x
    <3> QED  BY <3>1, <3>2, JoinFacts
  <2> HIDE DEF x
  <2> QED  BY <1>3, <1>4, <2>1
<1> HIDE DEF x
<1>7. ASSUME NEW p \in 1 .. j + 1 PROVE x[p] = y[p]
  <2>1. CASE p <= l
    <3>1. p \in 1 .. l /\ p \in 1 .. j  BY <2>1
    <3> QED  BY <1>5, <1>6, <3>1
  <2>2. CASE p > l /\ p <= j
    <3>1. p - l \in 1 .. j - l /\ p - l \in 1 .. (j - l) + 1 /\ l + (p - l) = p  BY <2>2
    <3>2. x[p] = last[p - l] /\ last[p - l] = b[p]  BY <1>4, <1>6, <3>1
    <3> QED  BY <1>5, <2>2, <3>2
  <2>3. CASE p = j + 1
    <3>1. (j - l) + 1 \in 1 .. (j - l) + 1 /\ l + ((j - l) + 1) = p  BY <2>3
    <3> QED  BY <1>4, <1>5, <1>6, <2>3, <3>1
  <2> QED  BY <2>1, <2>2, <2>3
<1>8. x = y
  <2>1. Len(x) = j + 1 /\ Len(y) = j + 1  BY <1>5, <1>6
  <2> QED  BY <1>5, <1>6, <1>7, <2>1, TextEqual
<1> QED  BY <1>8 DEF x, y, before, last, piece, text

LEMMA InitSplit == Init => SplitInv
BY InitText, InitTrip DEF Init, TripInv, SplitInv, CutInv, NoDelimiter

(* At a cut, the piece is all the text since the last one, or a full piece. *)
LEMMA CutPiece ==
    ASSUME TypeOK, CutInv, pc = "split", i <= Len(buffer)
    PROVE  /\ Strmid(buffer, li, i) \in Seq(Char)
           /\ \A p \in 1 .. Len(Strmid(buffer, li, i)) : Strmid(buffer, li, i)[p] # Delimiter
           /\ \/ Len(Strmid(buffer, li, i)) = MaxPiece - 1
              \/ Strmid(buffer, li, i) = SubSeq(buffer, li + 1, i)
<1>0. PICK b \in Seq(Char), l \in Nat, j \in Nat : b = buffer /\ l = li /\ j = i
  BY DEF TypeOK
<1>1. l <= j /\ j <= Len(b) /\ \A p \in l + 1 .. j : b[p] # Delimiter
  BY <1>0 DEF CutInv
<1>2. MaxPiece \in Nat \ {0}
  BY TextAssumption
<1>3. PICK end \in Nat : /\ end = IF j - l < MaxPiece THEN j ELSE l + MaxPiece - 1
                         /\ end >= l /\ end <= j
  BY <1>1, <1>2
<1>4. Strmid(buffer, li, i) = SubSeq(b, l + 1, end)
  BY <1>0, <1>3 DEF Strmid
<1> DEFINE piece == SubSeq(b, l + 1, end)
<1>5. piece \in Seq(Char) /\ Len(piece) = end - l /\ \A p \in 1 .. end - l : piece[p] = b[l + p]
  <2> DEFINE Chars == Char
  <2>1. b \in Seq(Chars)  OBVIOUS
  <2> HIDE DEF Chars
  <2>2. piece \in Seq(Chars) /\ Len(piece) = end - l /\ \A p \in 1 .. end - l : piece[p] = b[l + p]
    BY <1>1, <1>3, <2>1
  <2> QED  BY <2>2 DEF Chars
<1> HIDE DEF piece
<1>6. ASSUME NEW p \in 1 .. end - l PROVE piece[p] # Delimiter
  <2>1. l + p \in l + 1 .. j  BY <1>3
  <2> QED  BY <1>1, <1>5, <2>1
<1>7. CASE j - l < MaxPiece
  <2>1. piece = SubSeq(buffer, li + 1, i)  BY <1>0, <1>3, <1>7 DEF piece
  <2> QED  BY <1>4, <1>5, <1>6, <2>1 DEF piece
<1>8. CASE ~ (j - l < MaxPiece)
  <2>1. Len(piece) = MaxPiece - 1  BY <1>2, <1>3, <1>5, <1>8
  <2> QED  BY <1>4, <1>5, <1>6, <2>1 DEF piece
<1> QED  BY <1>7, <1>8

LEMMA NextCut ==
    ASSUME TypeOK, LayoutInv, CutInv, [Next]_vars
    PROVE  CutInv'
<1>0. li \in Nat /\ i \in Nat /\ Len(buffer) \in Nat /\ strdest \in Seq(Seq(Char))
  BY DEF TypeOK
<1>1. CASE pc' \notin {"split", "done"}
  BY <1>1 DEF CutInv
<1>2. CASE SetString
  <2>1. /\ pc = "join" /\ pc' = "split" /\ i' = 0 /\ li = 0 /\ strdest = <<>>
        /\ UNCHANGED <<buffer, li, strdest>>
    BY <1>2 DEF SetString, LayoutInv
  <2>2. li' <= i' /\ i' <= Len(buffer) + 1 /\ i' # Len(buffer) + 1 /\ li' + 1 .. i' = {}
    BY <1>0, <2>1
  <2> QED  BY <2>1, <2>2 DEF CutInv
<1>3. CASE SplitNext /\ AtCut
  <2>1. /\ pc = "split" /\ pc' = "split" /\ i <= Len(buffer) /\ i' = i + 1 /\ li' = i + 1
        /\ buffer' = buffer /\ strdest' = Append(strdest, Strmid(buffer, li, i))
    BY <1>3 DEF SplitNext
  <2>2. strdest' # <<>>
    <3> DEFINE piece == Strmid(buffer, li, i)
    <3> HIDE DEF piece
    <3>1. strdest' = Append(strdest, piece)  BY <2>1 DEF piece
    <3>2. Len(Append(strdest, piece)) = Len(strdest) + 1 /\ Len(strdest) \in Nat  BY <1>0
    <3> QED  BY <3>1, <3>2
  <2>3. i + 1 <= Len(buffer) => buffer[i + 1] = Delimiter
    BY <1>0, <1>3, <2>1 DEF AtCut
  <2>4. li' # 0 /\ li' <= i' /\ i' <= Len(buffer) + 1 /\ li' + 1 .. i' = {}
    BY <1>0, <2>1
  <2> QED  BY <2>1, <2>2, <2>3, <2>4 DEF CutInv
<1>4. CASE SplitNext /\ ~ AtCut
  <2>1. /\ pc = "split" /\ pc' = "split" /\ i <= Len(buffer) /\ i' = i + 1
        /\ UNCHANGED <<buffer, li, strdest>>
    BY <1>4 DEF SplitNext
  <2>2. i < Len(buffer) /\ buffer[i + 1] # Delimiter
    BY <1>0, <1>4, <2>1 DEF AtCut
  <2>3. \A p \in li + 1 .. i : p <= Len(buffer) => buffer[p] # Delimiter
    BY <2>1 DEF CutInv
  <2>4. \A p \in li + 1 .. i + 1 : p <= Len(buffer) => buffer[p] # Delimiter
    BY <1>0, <2>2, <2>3
  <2>5. li <= i + 1 /\ i + 1 <= Len(buffer) + 1 /\ i + 1 # Len(buffer) + 1
    BY <1>0, <2>1, <2>2 DEF CutInv
  <2> QED  BY <2>1, <2>4, <2>5 DEF CutInv
<1>5. CASE SplitEnds
  <2>1. /\ pc = "split" /\ i > Len(buffer) /\ UNCHANGED <<buffer, i, li, strdest>>
    BY <1>5 DEF SplitEnds
  <2>2. i = Len(buffer) + 1  BY <1>0, <2>1 DEF CutInv
  <2> QED  BY <2>1, <2>2 DEF CutInv
<1>6. CASE UNCHANGED vars
  BY <1>6 DEF vars, CutInv
<1> QED
  BY <1>1, <1>2, <1>3, <1>4, <1>5, <1>6 DEF Next, FetchRow, AddLength, Allocate, AppendColumn,
     OverrunBuffer, RealEscapeString, SplitNext

(* The pieces and what they are joined to, when a piece is added.          *)
LEMMA PieceAdded ==
    ASSUME TypeOK, CutInv, NoDelimiter, Full \/ Rejoined, SplitNext, AtCut
    PROVE  NoDelimiter' /\ (Full \/ Rejoined)'
<1> DEFINE Texts == Seq(Char)  piece == Strmid(buffer, li, i)
<1>1. /\ pc = "split" /\ pc' = "split" /\ i <= Len(buffer) /\ li' = i + 1 /\ buffer' = buffer
      /\ strdest' = Append(strdest, piece)
  BY DEF SplitNext
<1>2. /\ piece \in Texts
      /\ \A p \in 1 .. Len(piece) : piece[p] # Delimiter
      /\ Len(piece) = MaxPiece - 1 \/ piece = SubSeq(buffer, li + 1, i)
  BY <1>1, CutPiece
<1>3. PICK n \in Nat : n = Len(strdest)
  BY DEF TypeOK
<1>4. Len(strdest') = n + 1 /\ strdest'[n + 1] = piece /\ \A k \in 1 .. n : strdest'[k] = strdest[k]
  <2>1. strdest \in Seq(Texts)  BY DEF TypeOK
  <2> HIDE DEF Texts, piece
  <2>2. /\ Len(Append(strdest, piece)) = Len(strdest) + 1
        /\ Append(strdest, piece)[Len(strdest) + 1] = piece
        /\ \A p \in 1 .. Len(strdest) : Append(strdest, piece)[p] = strdest[p]
    BY <1>2, <2>1, AppendFacts
  <2> QED  BY <1>1, <1>3, <2>2
<1> HIDE DEF piece
<1>5. NoDelimiter'
  <2>1. ASSUME NEW k \in 1 .. n + 1, NEW p \in 1 .. Len(strdest'[k]) PROVE strdest'[k][p] # Delimiter
    <3>1. CASE k = n + 1
      <4>1. strdest'[k] = piece  BY <1>4, <3>1
      <4> QED  BY <1>2, <4>1
    <3>2. CASE k # n + 1
      <4>1. k \in 1 .. n /\ strdest'[k] = strdest[k]  BY <1>4, <3>2
      <4> QED  BY <1>1, <1>3, <4>1 DEF NoDelimiter
    <3> QED  BY <3>1, <3>2
  <2> QED  BY <1>4, <2>1 DEF NoDelimiter
<1>6. CASE Full
  <2>1. PICK k \in 1 .. n : Len(strdest[k]) = MaxPiece - 1  BY <1>3, <1>6 DEF Full
  <2>2. k \in 1 .. n + 1 /\ strdest'[k] = strdest[k]  BY <1>4
  <2>3. Full'  BY <1>4, <2>1, <2>2 DEF Full
  <2> QED  BY <1>5, <2>3
<1>7. CASE Len(piece) = MaxPiece - 1
  <2>1. n + 1 \in 1 .. n + 1  OBVIOUS
  <2>2. Full'  BY <1>4, <1>7, <2>1 DEF Full
  <2> QED  BY <1>5, <2>2
<1>8. CASE Rejoined /\ piece = SubSeq(buffer, li + 1, i)
  <2>1. strdest \in Seq(Seq(Char)) /\ buffer \in Seq(Char) /\ li \in Nat /\ i \in Nat
    BY DEF TypeOK
  <2>2. strdest' = Append(strdest, piece)
    BY <1>1
  <2>3. \E f : Joins(f, strdest')
    BY <1>2, <1>8, <2>1, <2>2, JoinsMore DEF Rejoined
  <2>4. Read' = Append(SubSeq(buffer, 1, i), Delimiter)
    <3>1. strdest' # <<>>
      <4>1. Len(strdest') # 0  BY <1>4
      <4> QED  BY <4>1
    <3>2. li' - 1 = i  BY <1>1, <2>1
    <3> QED  BY <1>1, <3>1, <3>2 DEF Read
  <2>5. Followed(Read, piece) = Append(SubSeq(buffer, 1, i), Delimiter)
    <3>1. /\ li <= i /\ i <= Len(buffer) /\ (strdest = <<>> <=> li = 0)
          /\ li > 0 => buffer[li] = Delimiter
      BY <1>1, <2>1 DEF CutInv
    <3>2. Read = IF li = 0 THEN <<>> ELSE Append(SubSeq(buffer, 1, li - 1), Delimiter)
      BY <3>1 DEF Read
    <3>3. Delimiter \in Char  BY TextAssumption
    <3> QED  BY <1>8, <2>1, <3>1, <3>2, <3>3, CutRead DEF Followed
  <2>6. ASSUME NEW g, Joins(g, strdest') PROVE g[Len(strdest')] = Read'
    <3>1. PICK f : Joins(f, strdest) /\ g[Len(strdest) + 1] = Followed(f[Len(strdest)], piece)
      BY <1>2, <2>1, <2>2, <2>6, JoinsMore
    <3>2. f[Len(strdest)] = Read  BY <1>8, <3>1 DEF Rejoined
    <3> QED  BY <1>3, <1>4, <2>4, <2>5, <3>1, <3>2
  <2>7. Rejoined'  BY <2>3, <2>6 DEF Rejoined
  <2> QED  BY <1>5, <2>7
<1> QED  BY <1>2, <1>6, <1>7, <1>8

LEMMA NextSplit ==
    ASSUME SplitInv, [Next]_vars
    PROVE  SplitInv'
<1> USE DEF SplitInv
<1>1. TypeOK' /\ LayoutInv' /\ CutInv'
  BY NextText, NextLayout, NextCut
<1>2. ASSUME UNCHANGED <<buffer, li, strdest>>, pc \in {"split", "done"}
      PROVE  NoDelimiter' /\ (Full \/ Rejoined)'
  BY <1>2 DEF NoDelimiter, Full, Rejoined, Read
<1>3. CASE pc' \notin {"split", "done"}
  BY <1>1, <1>3 DEF NoDelimiter
<1>4. CASE SetString
  <2>1. strdest' = <<>>
    BY <1>4 DEF SetString, LayoutInv
  <2>2. NoDelimiter'
    <3>1. Len(strdest') = 0  BY <2>1
    <3> QED  BY <3>1 DEF NoDelimiter
  <2>3. Rejoined'
    <3>1. Len(strdest') = 0 /\ Read' = <<>>  BY <2>1 DEF Read
    <3> QED  BY <2>1, <3>1, JoinsNone DEF Rejoined
  <2> QED  BY <1>1, <2>2, <2>3
<1>5. CASE SplitNext /\ AtCut
  BY <1>1, <1>5, PieceAdded DEF SplitNext
<1>6. CASE SplitNext /\ ~ AtCut
  BY <1>1, <1>2, <1>6 DEF SplitNext
<1>7. CASE SplitEnds
  BY <1>1, <1>2, <1>7 DEF SplitEnds
<1>8. CASE UNCHANGED vars
  <2>1. UNCHANGED <<pc, buffer, li, strdest>>  BY <1>8 DEF vars
  <2> QED  BY <1>1, <1>2, <1>3, <2>1
<1> QED
  BY <1>3, <1>4, <1>5, <1>6, <1>7, <1>8 DEF Next, FetchRow, AddLength, Allocate, AppendColumn,
     OverrunBuffer, RealEscapeString, SplitNext

LEMMA SplitInvLossless == SplitInv => SplitLossless
<1> SUFFICES ASSUME SplitInv, pc \in {"split", "done"} PROVE SplitLossless
  BY DEF SplitLossless
<1>1. \A k \in 1 .. Len(strdest) : \A p \in 1 .. Len(strdest[k]) : strdest[k][p] # Delimiter
  BY DEF SplitInv, NoDelimiter
<1>2. CASE Full
  BY <1>1, <1>2 DEF SplitLossless, Full
<1>3. CASE Rejoined
  <2> DEFINE joined == CHOOSE f : f = [k \in 0 .. Len(strdest) |->
                           IF k = 0 THEN <<>> ELSE f[k - 1] \o Append(strdest[k], Delimiter)]
  <2>1. Joins(joined, strdest)
    <3>1. PICK f : Joins(f, strdest)  BY <1>3 DEF Rejoined
    <3> QED  BY <3>1 DEF Joins, Followed
  <2> HIDE DEF joined
  <2>2. joined[Len(strdest)] = Read  BY <1>3, <2>1 DEF Rejoined
  <2>3. pc = "done" => li = Len(buffer) + 1  BY DEF SplitInv, CutInv
  <2>4. IF strdest = <<>> THEN li = 0
        ELSE joined[Len(strdest)] = Append(SubSeq(buffer, 1, li - 1), Delimiter)
    BY <2>2 DEF Read, SplitInv, CutInv
  <2> QED  BY <1>1, <2>3, <2>4 DEF SplitLossless, joined
<1> QED  BY <1>2, <1>3 DEF SplitInv

(* Whatever the text is, split() loses and invents nothing but what exceeds *)
(* a piece, and misses no cut.                                             *)
THEOREM NothingLost == Spec => []SplitLossless
BY InitSplit, NextSplit, SplitInvLossless, PTL DEF Spec
=============================================================================
