------------------------------ MODULE LineInput ------------------------------
(* What the console promises to readers: a line that can be edited until it is
   ended, and a queue of the characters of ended lines.                      *)
EXTENDS Naturals, Sequences

CONSTANTS Size,      \* characters in the queue and the line together
          Ends       \* characters that end a line

VARIABLES ready, line

Init == ready = <<>> /\ line = <<>>

(* A character is dropped when there is no room; the last one that fits ends the
   line as the end of a line does.                                          *)
Type(c) ==
  /\ Len(ready) + Len(line) < Size
  /\ IF c \in Ends \/ Len(ready) + Len(line) + 1 = Size
     THEN ready' = ready \o Append(line, c) /\ line' = <<>>
     ELSE line' = Append(line, c) /\ UNCHANGED ready

Erase == /\ line # <<>>
         /\ line' = SubSeq(line, 1, Len(line) - 1)
         /\ UNCHANGED ready

KillLine == line' = <<>> /\ UNCHANGED ready

(* A read takes characters from the front and no more than to the end of the
   first line; a control-D goes alone.                                      *)
Read(eof) ==
  \E k \in 1..Len(ready) :
    /\ \A i \in 1..(k - 1) : ready[i] \notin Ends
    /\ k > 1 => ready[k] # eof
    /\ ready' = SubSeq(ready, k + 1, Len(ready))
    /\ UNCHANGED line

Next(Chars, eof) == (\E c \in Chars : Type(c)) \/ Erase \/ KillLine \/ Read(eof)
=============================================================================
