------------------------------- MODULE Files -------------------------------
(***************************************************************************)
(* What the file system on the disk promises: a file is a sequence of      *)
(* bytes; a write through a handle changes the bytes at the handle's       *)
(* position, leaves a hole between the old end and that position, and      *)
(* changes no other file.                                                  *)
(***************************************************************************)
EXTENDS Integers, Sequences

CONSTANTS
  File,      \* file numbers
  Handle,    \* open connections to the server
  Buf,       \* what is written at a time
  Hole,      \* the bytes a hole may show
  None       \* the file of a handle that has none

VARIABLES
  content,   \* the bytes of each file
  open,      \* the file of each handle, or None
  pos        \* the position of each handle

fVars == <<content, open, pos>>

FInit ==
  /\ content = [f \in File |-> <<>>]
  /\ open = [h \in Handle |-> None]
  /\ pos = [h \in Handle |-> 0]

\* Opening, creating, seeking, reading and closing change no contents.
Move ==
  /\ \E h \in Handle, f \in File \cup {None} :
       /\ open' = [open EXCEPT ![h] = f]
       /\ \A g \in Handle \ {h} : pos'[g] = pos[g]
  /\ UNCHANGED content

\* new is old with buf written at position at.
Overwritten(new, old, at, buf) ==
  LET end == at + Len(buf) IN
  /\ Len(new) = IF end > Len(old) THEN end ELSE Len(old)
  /\ \A i \in 1 .. Len(new) :
       CASE i > at /\ i <= end -> new[i] = buf[i - at]
         [] i <= Len(old) /\ (i <= at \/ i > end) -> new[i] = old[i]
         [] OTHER -> new[i] \in Hole

Write(h, buf) ==
  /\ open[h] # None
  /\ Overwritten(content'[open[h]], content[open[h]], pos[h], buf)
  /\ \A f \in File \ {open[h]} : content'[f] = content[f]
  /\ pos' = [pos EXCEPT ![h] = @ + Len(buf)]
  /\ UNCHANGED open

FNext == Move \/ \E h \in Handle, buf \in Buf : Write(h, buf)

FSpec == FInit /\ [][FNext]_fVars
=============================================================================
