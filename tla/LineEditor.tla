------------------------------ MODULE LineEditor ------------------------------
(***************************************************************************)
(* What the terminal of MOKernel promises a user: a line that is typed,    *)
(* erased and submitted, and the last HistoryMax submitted lines, oldest   *)
(* first, through which the user moves.  Lines and history are plain       *)
(* sequences here; Terminal keeps them in NUL-terminated byte arrays.      *)
(***************************************************************************)
EXTENDS Naturals, Sequences, SequencesExt

CONSTANTS
    Chars,       \* what can be typed; " " separates words
    LineMax,     \* longest line
    HistoryMax   \* number of lines remembered

VARIABLES
    line,   \* the line being edited
    past,   \* submitted lines, oldest first
    pos     \* lines of the past that lie before the one last recalled

vars == <<line, past, pos>>

Init == line = <<>> /\ past = <<>> /\ pos = 0

Type(c) ==
    /\ Len(line) < LineMax
    /\ line' = Append(line, c)
    /\ UNCHANGED <<past, pos>>

Erase ==
    /\ line # <<>>
    /\ line' = Front(line)
    /\ UNCHANGED <<past, pos>>

\* Erasing a word cuts the line before its last word, blanks after it included.
IsWordCut(l, k) ==
    \E m \in k .. Len(l) :
      /\ \A i \in k + 1 .. m : l[i] # " "
      /\ \A i \in m + 1 .. Len(l) : l[i] = " "
      /\ k = 0 \/ (l[k] = " " /\ m > k)

EraseWord ==
    /\ line # <<>>
    /\ \E k \in 0 .. Len(line) : IsWordCut(line, k) /\ line' = SubSeq(line, 1, k)
    /\ UNCHANGED <<past, pos>>

\* The last HistoryMax elements of s.
Recent(s) == IF Len(s) <= HistoryMax THEN s
             ELSE SubSeq(s, Len(s) - HistoryMax + 1, Len(s))

\* Submitting an empty line is allowed and not remembered.
Submit ==
    /\ past' = IF line = <<>> THEN past ELSE Recent(Append(past, line))
    /\ pos' = Len(past')
    /\ line' = <<>>

Older ==
    /\ pos > 0
    /\ pos' = pos - 1
    /\ line' = past[pos]
    /\ UNCHANGED past

\* One step beyond the newest line of the past is an empty line.
Newer ==
    /\ pos < Len(past)
    /\ pos' = pos + 1
    /\ line' = IF pos + 1 < Len(past) THEN past[pos + 2] ELSE <<>>
    /\ UNCHANGED past

Next == \/ \E c \in Chars : Type(c)
        \/ Erase \/ EraseWord \/ Submit \/ Older \/ Newer

Spec == Init /\ [][Next]_vars
===============================================================================
