------------------------------ MODULE RowText ------------------------------
(***************************************************************************)
(* Strings between the scripts and the plugin.  mysql_fetch_row writes the *)
(* columns of a row into one string (MySQL::fetch_row of MySQL/Mysql.cpp), *)
(* and the scripts' include file takes it apart again with split()         *)
(* (mysql.inc); mysql_real_escape_string (MySQL::real_escape_string) and   *)
(* every native that takes a string read it with GetString (MySQL/Main.cpp).*)
(*                                                                         *)
(* One call is followed: a row is fetched into dest[] and split, or a      *)
(* string is escaped.  A string is a sequence of characters without its    *)
(* terminating zero; a buffer is its size and what was written to it.  A    *)
(* write past its size is undefined and ends the behaviour.                *)
(***************************************************************************)
EXTENDS Integers, Sequences

CONSTANTS Char,         \* characters of the columns
          Delimiter,    \* split's delimiter
          NoText,       \* a column that is NULL in the database
          MaxPiece,     \* cells of a string that split() writes: 128 in the code
          MaxColumns,   \* bound of the model: columns of a row
          MaxLength     \* bound of the model: characters of a column or of an argument

NullText == <<"N", "U", "L", "L">>

ASSUME TextAssumption ==
    /\ Delimiter \in Char /\ {"N", "U", "L"} \subseteq Char
    /\ MaxPiece \in Nat \ {0} /\ MaxColumns \in Nat /\ MaxLength \in Nat
    /\ NoText \notin Seq(Char)

Strings == UNION {[1 .. n -> Char] : n \in 0 .. MaxLength}
Rows == UNION {[1 .. n -> Strings \cup {NoText}] : n \in 1 .. MaxColumns}

VARIABLES
    pc,         \* "call", "size", "join", "split", "done", "escaped", "overrun"
    row,        \* the row that mysql_fetch_row of the client library returns
    arg,        \* the script's string argument: splitter[], or string[]
    splitter,   \* what GetString made of it
    bufflen,    \* size of the buffer that was allocated
    buffer,     \* what was written to it
    i,          \* the loops' index; in split() the index of a character
    sizes,      \* [k] bufflen when k columns are counted; ghost
    starts,     \* [k] characters before column k in buffer; ghost
    li,         \* split's index of the first character of the piece
    strdest     \* the pieces, aNum of them

vars == <<pc, row, arg, splitter, bufflen, buffer, i, sizes, starts, li, strdest>>

TypeOK ==
    /\ pc \in {"call", "size", "join", "split", "done", "escaped", "overrun"}
    /\ row \in Rows
    /\ arg \in Seq(Char) /\ splitter \in Seq(Char)
    /\ bufflen \in Nat
    /\ buffer \in Seq(Char)
    /\ i \in Nat /\ li \in Nat
    /\ sizes \in Seq(Nat) /\ starts \in Seq(Nat)
    /\ strdest \in Seq(Seq(Char))

Init ==
    /\ pc = "call"
    /\ row \in Rows /\ arg \in Strings
    /\ splitter = <<>> /\ bufflen = 0 /\ buffer = <<>> /\ i = 0
    /\ sizes = <<>> /\ starts = <<>> /\ li = 0 /\ strdest = <<>>

-----------------------------------------------------------------------------
(* The empty string is read as "NULL". *)
GetString(s) == IF s = <<>> THEN NullText ELSE s

(* mysql_fetch_lengths says 0 for a NULL column.                            *)
Length(column) == IF column = NoText THEN 0 ELSE Len(column)

ColumnText(column) == IF column = NoText THEN NullText ELSE column

(* Defect: no room is left for the separators. *)
FetchRowTight ==
    /\ pc = "call"
    /\ splitter' = GetString(arg)
    /\ bufflen' = 1
    /\ pc' = "size"
    /\ UNCHANGED <<row, arg, buffer, i, sizes, starts, li, strdest>>

(* mysql_fetch_row: the splitter is read, the row fetched, and numfields + 1 *)
(* characters are reserved for the separators and the zero.                *)
FetchRow ==
    /\ pc = "call"
    /\ splitter' = GetString(arg)
    /\ bufflen' = Len(row) + 1
    /\ pc' = "size"
    /\ UNCHANGED <<row, arg, buffer, i, sizes, starts, li, strdest>>

(* An iteration of the first loop of fetch_row. *)
AddLength ==
    /\ pc = "size" /\ i < Len(row)
    /\ bufflen' = bufflen + Length(row[i + 1])
    /\ sizes' = Append(sizes, bufflen')
    /\ i' = i + 1
    /\ UNCHANGED <<pc, row, arg, splitter, buffer, starts, li, strdest>>

(* The buffer is allocated and cleared. *)
Allocate ==
    /\ pc = "size" /\ i = Len(row)
    /\ pc' = "join" /\ i' = 0
    /\ UNCHANGED <<row, arg, splitter, bufflen, buffer, sizes, starts, li, strdest>>

(* What the buffer holds after an iteration of the second loop: strcat of   *)
(* the column, and of the splitter unless the column is the last one.      *)
Joined == buffer \o ColumnText(row[i + 1]) \o (IF i + 1 # Len(row) THEN splitter ELSE <<>>)

(* The text and its terminating zero. *)
FitsBuffer(text) == Len(text) + 1 <= bufflen

(* Defect: every column is followed by the splitter. *)
AppendColumnAlways ==
    /\ pc = "join" /\ i < Len(row) /\ FitsBuffer(Joined)
    /\ buffer' = buffer \o ColumnText(row[i + 1]) \o splitter
    /\ starts' = Append(starts, Len(buffer))
    /\ i' = i + 1
    /\ UNCHANGED <<pc, row, arg, splitter, bufflen, sizes, li, strdest>>

(* An iteration of the second loop of fetch_row. *)
AppendColumn ==
    /\ pc = "join" /\ i < Len(row) /\ FitsBuffer(Joined)
    /\ buffer' = Joined
    /\ starts' = Append(starts, Len(buffer))
    /\ i' = i + 1
    /\ UNCHANGED <<pc, row, arg, splitter, bufflen, sizes, li, strdest>>

(* One of its strcats writes past the buffer: a NULL column was counted as   *)
(* no characters, and a splitter as one.                                   *)
OverrunBuffer ==
    /\ pc = "join" /\ i < Len(row) /\ ~FitsBuffer(Joined)
    /\ pc' = "overrun"
    /\ UNCHANGED <<row, arg, splitter, bufflen, buffer, i, sizes, starts, li, strdest>>

(* The string is copied to dest[], and the script calls split(dest, ...).   *)
SetString ==
    /\ pc = "join" /\ i = Len(row)
    /\ pc' = "split" /\ i' = 0
    /\ UNCHANGED <<row, arg, splitter, bufflen, buffer, sizes, starts, li, strdest>>

-----------------------------------------------------------------------------
(* split( ): strsrc is buffer, srclen its length; indices count from 0.     *)

(* strsrc[i] is the delimiter, or i is at the end. *)
AtCut == i = Len(buffer) \/ (i < Len(buffer) /\ buffer[i + 1] = Delimiter)

(* strmid writes no more than the cells it is told, the last one a zero.    *)
Strmid(s, first, end) ==
    SubSeq(s, first + 1, IF end - first < MaxPiece THEN end ELSE first + MaxPiece - 1)

(* Defect: the next piece begins before the delimiter. *)
SplitNextBack ==
    /\ pc = "split" /\ i <= Len(buffer)
    /\ i' = i + 1
    /\ \/ /\ AtCut
          /\ strdest' = Append(strdest, Strmid(buffer, li, i))
          /\ li' = i - 1
       \/ /\ ~AtCut
          /\ UNCHANGED <<li, strdest>>
    /\ UNCHANGED <<pc, row, arg, splitter, bufflen, buffer, sizes, starts>>

(* Defect: the next piece begins with the delimiter. *)
SplitNextKeepsDelimiter ==
    /\ pc = "split" /\ i <= Len(buffer)
    /\ i' = i + 1
    /\ \/ /\ AtCut
          /\ strdest' = Append(strdest, Strmid(buffer, li, i))
          /\ li' = i
       \/ /\ ~AtCut
          /\ UNCHANGED <<li, strdest>>
    /\ UNCHANGED <<pc, row, arg, splitter, bufflen, buffer, sizes, starts>>

(* An iteration of the while loop. *)
SplitNext ==
    /\ pc = "split" /\ i <= Len(buffer)
    /\ i' = i + 1
    /\ \/ /\ AtCut
          /\ strdest' = Append(strdest, Strmid(buffer, li, i))
          /\ li' = i + 1
       \/ /\ ~AtCut
          /\ UNCHANGED <<li, strdest>>
    /\ UNCHANGED <<pc, row, arg, splitter, bufflen, buffer, sizes, starts>>

(* The condition of the loop is false. *)
SplitEnds ==
    /\ pc = "split" /\ i > Len(buffer)
    /\ pc' = "done"
    /\ UNCHANGED <<row, arg, splitter, bufflen, buffer, i, sizes, starts, li, strdest>>

-----------------------------------------------------------------------------
(* mysql_real_escape_string: 3 bytes are allocated for each character, and  *)
(* the client library writes one or two for each (which ones is left out).  *)
RealEscapeString ==
    /\ pc = "call"
    /\ pc' = "escaped"
    /\ splitter' = GetString(arg)
    /\ bufflen' = 3 * Len(GetString(arg))
    /\ \E n \in Len(GetString(arg)) .. 2 * Len(GetString(arg)) : buffer' = [k \in 1 .. n |-> Delimiter]
    /\ UNCHANGED <<row, arg, i, sizes, starts, li, strdest>>

-----------------------------------------------------------------------------
Next ==
    \/ FetchRow \/ AddLength \/ Allocate \/ AppendColumn \/ OverrunBuffer \/ SetString
    \/ SplitNext \/ SplitEnds
    \/ RealEscapeString

Spec == Init /\ [][Next]_vars

-----------------------------------------------------------------------------
Columns == 1 .. Len(row)
Text(k) == ColumnText(row[k])

(* Some column is NULL, or the separators are longer than the numfields     *)
(* characters reserved for them (the zero has one of its own).             *)
TooLong ==
    \/ \E k \in Columns : row[k] = NoText
    \/ (Len(row) - 1) * Len(splitter) > Len(row)

(* fetch_row (Mysql.cpp:315-329) overruns its buffer for every row with a    *)
(* NULL column, and otherwise only if the separators are too long: one      *)
(* character is never too long, two are from three columns on.  The buffer *)
(* of real_escape_string is large enough, because GetString never returns  *)
(* an empty string (Mysql.cpp:359, Main.cpp:139-145).                      *)
BufferFits ==
    /\ pc = "overrun" => TooLong
    /\ pc \in {"split", "done"} => ~TooLong
    /\ pc = "escaped" => FitsBuffer(buffer)

(* If the text of a row fits its buffer (so that "done" is reached), the     *)
(* splitter is the delimiter, no column contains it, and every column is   *)
(* shorter than what a piece may hold, split() gives back the row: empty    *)
(* columns stay in their places, and none is NULL.                         *)
RoundTrip ==
    pc = "done" /\ splitter = <<Delimiter>>
    /\ (\A k \in Columns : Len(Text(k)) < MaxPiece /\ \A p \in 1 .. Len(Text(k)) : Text(k)[p] # Delimiter)
    => strdest = row

(* Whatever the text is, split() loses and invents nothing but what exceeds *)
(* a piece: with the delimiter put back between the pieces, they are the   *)
(* text as far as it was read.  And it misses no cut: no piece holds the   *)
(* delimiter (mysql.inc:159-174).                                          *)
SplitLossless ==
    LET joined[k \in 0 .. Len(strdest)] ==
            IF k = 0 THEN <<>> ELSE joined[k - 1] \o Append(strdest[k], Delimiter)
    IN  pc \in {"split", "done"} =>
          /\ \A k \in 1 .. Len(strdest) : \A p \in 1 .. Len(strdest[k]) : strdest[k][p] # Delimiter
          /\ \/ \E k \in 1 .. Len(strdest) : Len(strdest[k]) = MaxPiece - 1
             \/ /\ pc = "done" => li = Len(buffer) + 1
                /\ IF strdest = <<>> THEN li = 0
                   ELSE joined[Len(strdest)] = Append(SubSeq(buffer, 1, li - 1), Delimiter)
=============================================================================
