------------------------------ MODULE Console ------------------------------
(***************************************************************************)
(* The console server, bin/console/main.c: keyboard bytes become lines,    *)
(* lines answer the reads of the foreground process, and what is typed or  *)
(* written goes to the screen.                                             *)
(*                                                                         *)
(* A character is the number of the key stroke that made it, so that a     *)
(* lost, repeated or misplaced one is noticed; which glyph the maps choose *)
(* is left out.  In the same way the content of a cell of the screen is    *)
(* the number of the cell in the order of output.                          *)
(***************************************************************************)
EXTENDS Integers, Sequences, FiniteSets, SequencesExt

CONSTANTS
  R, C,        \* rows and columns of the screen
  VBuf,        \* cells of buffer (VBUF_SIZE / 2)
  LineMax,     \* bytes of a line buffer
  Ring,        \* entries of readable_lines and of pending_read
  Proc,        \* the client processes
  First,       \* the one in the foreground at the start
  Lens,        \* lengths of reads
  Key,         \* keys of the keyboard
  Stale,       \* how many characters a new line buffer may hold behind the line
  MaxTyped,    \* bound: characters typed
  MaxCells,    \* bound: cells of output
  Blank,       \* a cell without output (empty, or from before the server)
  OldChar, NoProc

ASSUME ConsoleAssumption ==
  /\ {R, C, VBuf, LineMax, Ring, MaxTyped, MaxCells} \subseteq Nat \ {0}
  /\ R > 1 /\ R * C < VBuf /\ LineMax > 1 /\ Cardinality(Proc) < Ring
  /\ IsFiniteSet(Proc) /\ First \in Proc /\ Lens \subseteq Nat /\ Stale \subseteq Nat /\ OldChar \notin Nat
  /\ Key \subseteq {"char", "tab", "enter", "keypad_enter", "esc", "back", "fn", "pause", "caps",
                     "lctrl", "rctrl", "lshift", "rshift"}

VARIABLES
  pc,                    \* where the main loop is: "kbd", "serve", "request"
  kstate, state2,        \* state of the scan code machine, modifiers down
  line,                  \* line_buffer[0 .. lbend-1]
  readable_lines, rlh, rlt, rl_off,
  pending_read, ph, pt,  \* waiting reads: process and length
  control_pid,
  scr,                   \* the screen
  wire, held,            \* keyboard: bytes of the current key to come, keys down
  typed, got,            \* characters typed so far; characters answers have held
  waiting                \* processes whose read is not answered, first come first

input == <<kstate, state2, line, typed>>
ring == <<readable_lines, rlh, rlt, rl_off>>
pend == <<pending_read, ph, pt, waiting>>
keyboard == <<wire, held>>
consoleVars == <<pc, input, ring, pend, control_pid, scr, keyboard, got>>

-----------------------------------------------------------------------------
(* The screen.  vram has the cell behind its end too; top is one more than *)
(* the last cell that has been written.                                    *)

\* One cell into the buffer and onto the screen.
PutCell(s) ==
  [s EXCEPT !.buffer[s.offset] = s.total, !.offset = (@ + 1) % VBuf,
            !.vram[s.voff] = s.total, !.voff = @ + 1,
            !.top = IF s.voff < @ THEN @ ELSE s.voff + 1,
            !.pos_y = @ + 1, !.total = @ + 1]

\* Mutant: the start is not wrapped.
BlitStartZero(s, n) == IF s.offset - n < 0 THEN 0 ELSE s.offset - n

\* The first of the last n cells of the ring.
BlitStart(s, n) == IF s.offset - n < 0 THEN s.offset - n + VBuf ELSE s.offset - n

\* The loop that blanks the rest does not stop at the end of the screen but one cell
\* behind it.
Blit(s) ==
  LET n == s.pos_y + (s.pos_x - 1) * C
  IN  [s EXCEPT !.voff = n, !.top = R * C + 1,
                !.vram = [k \in 0 .. R * C |->
                   IF k < n THEN s.buffer[(BlitStart(s, n) + k) % VBuf] ELSE Blank]]

\* n cells.
PutCells(s, n) ==
  LET put[i \in 0 .. n] == IF i = 0 THEN s ELSE PutCell(put[i - 1]) IN put[n]

LineFeed(s) ==
  LET full == PutCells(s, C - s.pos_y)
  IN  IF s.pos_x + 1 >= R THEN Blit([full EXCEPT !.pos_x = R - 1, !.pos_y = 0])
      ELSE [full EXCEPT !.pos_x = @ + 1, !.pos_y = 0]

\* vga_puts of one character that is not a line feed.
PutChar(s) ==
  LET t == PutCell(s) IN IF t.pos_y >= C THEN LineFeed(t) ELSE t

-----------------------------------------------------------------------------
(* The keyboard: what it sends, and the scan code machine                  *)

E0 == <<"e0", FALSE>>
E1 == <<"e1", FALSE>>

\* The bytes of a key; right control and the arrows have a prefix, pause sends
\* everything when it is pressed.
Bytes(k, up) ==
  CASE k = "rctrl" -> <<E0, <<"ctrl", up>>>>
    [] k = "lctrl" -> <<<<"ctrl", up>>>>
    [] k = "keypad_enter" -> <<E0, <<"enter", up>>>>
    [] k = "pause" -> IF up THEN <<>>
                      ELSE <<E1, <<"ctrl", FALSE>>, <<"num", FALSE>>,
                             E1, <<"ctrl", TRUE>>, <<"num", TRUE>>>>
    [] OTHER -> <<<<k, up>>>>

Modifiers == {"lctrl", "rctrl", "lshift", "rshift"}

\* The next byte b the keyboard sends: the rest of a key, or the start of one
\* that goes down or up.
Sends(b) ==
  \/ /\ wire # <<>> /\ b = Head(wire)
     /\ wire' = Tail(wire) /\ UNCHANGED held
  \/ /\ wire = <<>>
     /\ \E k \in Key, up \in BOOLEAN :
          /\ k \in Modifiers => up = (k \in held)
          /\ Bytes(k, up) # <<>>
          /\ b = Head(Bytes(k, up)) /\ wire' = Tail(Bytes(k, up))
          /\ held' = IF up THEN held \ {k}
                     ELSE IF k \in Modifiers THEN held \cup {k} ELSE held

Flag(f, up) == IF up THEN state2 \ {f} ELSE state2 \cup {f}

\* Mutant: the release of the right control key is taken for the left one's.
ExtendedLeft(b) == IF b[1] = "ctrl" THEN Flag("lctrl", b[2]) ELSE state2

\* A byte after 0xe0.
Extended(b) == IF b[1] = "ctrl" THEN Flag("rctrl", b[2]) ELSE state2

\* A byte that is a prefix, or follows one.
PrefixByte(b) ==
  /\ pc = "kbd" /\ Sends(b)
  /\ \/ /\ kstate = "IDLE" /\ b \in {E0, E1}
        /\ kstate' = IF b = E0 THEN "E0_WAIT" ELSE "E1_WAIT1"
        /\ UNCHANGED state2
     \/ kstate = "E1_WAIT1" /\ kstate' = "E1_WAIT2" /\ UNCHANGED state2
     \/ kstate = "E1_WAIT2" /\ kstate' = "IDLE" /\ UNCHANGED state2
     \/ kstate = "E0_WAIT" /\ kstate' = "IDLE" /\ state2' = Extended(b)
  /\ UNCHANGED <<pc, line, typed, ring, pend, control_pid, scr, got>>

\* lctrl, lshift, rshift, caps.
ModifierByte(b) ==
  /\ pc = "kbd" /\ Sends(b) /\ kstate = "IDLE"
  /\ b[1] \in {"ctrl", "lshift", "rshift", "caps"}
  /\ state2' = CASE b[1] = "ctrl" -> Flag("lctrl", b[2])
                 [] b[1] = "caps" /\ b[2] -> state2
                 [] b[1] = "caps" /\ ~b[2] -> Flag("caps", "caps" \in state2)
                 [] OTHER -> Flag(b[1], b[2])
  /\ UNCHANGED <<pc, kstate, line, typed, ring, pend, control_pid, scr, got>>

\* do_key.
CharByte(b) ==
  /\ pc = "kbd" /\ Sends(b) /\ kstate = "IDLE" /\ b[1] = "char"
  /\ IF b[2] \/ state2 \cap {"lctrl", "rctrl"} # {} \/ Len(line) >= LineMax - 1
     THEN UNCHANGED <<line, typed, scr>>
     ELSE /\ typed < MaxTyped /\ scr.total + C < MaxCells
          /\ line' = Append(line, typed + 1)
          /\ typed' = typed + 1
          /\ scr' = PutChar(scr)
  /\ UNCHANGED <<pc, kstate, state2, ring, pend, control_pid, got>>

\* Tab is put into the line and not shown.
TabByte(b) ==
  /\ pc = "kbd" /\ Sends(b) /\ kstate = "IDLE" /\ b[1] = "tab"
  /\ IF b[2] \/ Len(line) >= LineMax THEN UNCHANGED <<line, typed>>
     ELSE typed < MaxTyped /\ line' = Append(line, typed + 1) /\ typed' = typed + 1
  /\ UNCHANGED <<pc, kstate, state2, ring, pend, control_pid, scr, got>>

\* Mutant: the last entry is used too.
RingFullNever == FALSE
RingFull == (rlt + 1) % Ring = rlh

\* Enter.  No NUL is put behind the line: the string goes on with what the new
\* buffer held before.
EnterByte(b) ==
  /\ pc = "kbd" /\ Sends(b) /\ kstate = "IDLE" /\ b[1] = "enter"
  /\ IF b[2] \/ RingFull
     THEN UNCHANGED <<line, typed, readable_lines, rlt, scr>>
     ELSE /\ typed < MaxTyped /\ scr.total + C < MaxCells
          /\ \E tail \in {[i \in 1 .. n |-> OldChar] : n \in Stale} :
               IF Len(line) < LineMax
               THEN /\ readable_lines' = [readable_lines EXCEPT ![rlt] =
                                            Append(line, typed + 1) \o tail]
                    /\ typed' = typed + 1
               ELSE /\ readable_lines' = [readable_lines EXCEPT ![rlt] = line \o tail]
                    /\ UNCHANGED typed
          /\ rlt' = (rlt + 1) % Ring
          /\ line' = <<>>
          /\ scr' = LineFeed(scr)
  /\ UNCHANGED <<pc, kstate, state2, rlh, rl_off, pend, control_pid, got>>

\* Escape, backspace, function keys: nothing.
OtherByte(b) ==
  /\ pc = "kbd" /\ Sends(b) /\ kstate = "IDLE" /\ b[1] \in {"esc", "back", "fn"}
  /\ UNCHANGED <<pc, input, ring, pend, control_pid, scr, got>>

\* The keyboard's status says that there is no more byte.
KbdDone ==
  /\ pc = "kbd" /\ pc' = "serve"
  /\ UNCHANGED <<input, ring, pend, control_pid, scr, keyboard, got>>

-----------------------------------------------------------------------------
(* Reads                                                                   *)

\* What was typed, of a part of a line: the junk is behind it.
Text(s) == SubSeq(s, 1, Cardinality({i \in DOMAIN s : s[i] # OldChar}))

\* rl_off after len of the n characters left were sent.
OffAfter(len, n) == IF len >= n THEN 0 ELSE rl_off + len

\* send_result of at most len characters.  (After a partial read the rest of the
\* line is freed by a pointer into its block: what free() then does to the heap is
\* not modelled.)
SendResult(len) ==
  LET whole == readable_lines[rlh]
      src   == SubSeq(whole, rl_off + 1, Len(whole))
      n     == Len(src)
  IN  /\ rlh' = IF len >= n THEN (rlh + 1) % Ring ELSE rlh
      /\ rl_off' = OffAfter(len, n)
      /\ got' = got \o Text(SubSeq(src, 1, IF len >= n THEN n ELSE len))
      /\ UNCHANGED <<readable_lines, rlt>>

\* Mutant: a line answers the read that came last.
ServeLast ==
  LET last == (pt + Ring - 1) % Ring IN
  /\ pc = "serve" /\ rlt # rlh /\ pt # ph
  /\ pt' = last
  /\ SendResult(pending_read[last].len)
  /\ waiting' = RemoveFirst(waiting, pending_read[last].proc)
  /\ UNCHANGED <<pc, input, pending_read, ph, control_pid, scr, keyboard>>

\* The loop that answers waiting reads.
Serve ==
  /\ pc = "serve" /\ rlt # rlh /\ pt # ph
  /\ ph' = (ph + 1) % Ring
  /\ SendResult(pending_read[ph].len)
  /\ waiting' = RemoveFirst(waiting, pending_read[ph].proc)
  /\ UNCHANGED <<pc, input, pending_read, pt, control_pid, scr, keyboard>>

ServeDone ==
  /\ pc = "serve" /\ ~(rlt # rlh /\ pt # ph) /\ pc' = "request"
  /\ UNCHANGED <<input, ring, pend, control_pid, scr, keyboard, got>>

\* Mutant: the index is not wrapped.
AfterPtUnwrapped == IF pt + 1 < Ring THEN pt + 1 ELSE pt
AfterPt == (pt + 1) % Ring

LineReady == rlt # rlh

\* IO_READ by p, which sleeps in read() until it is answered (libc/rw.c).
ReadRequest(p, len) ==
  /\ pc = "request" /\ ~Contains(waiting, p)
  /\ pc' = "kbd"
  /\ \/ p # control_pid /\ UNCHANGED <<ring, pend, got>>     \* EIO
     \/ /\ p = control_pid /\ ~LineReady
        /\ pending_read' = [pending_read EXCEPT ![pt] = [proc |-> p, len |-> len]]
        /\ pt' = AfterPt
        /\ waiting' = Append(waiting, p)
        /\ UNCHANGED <<ring, got, ph>>
     \/ /\ p = control_pid /\ LineReady
        /\ SendResult(len) /\ UNCHANGED pend
  /\ UNCHANGED <<input, control_pid, scr, keyboard>>

\* IO_WRITE of a character or a line feed.
WriteRequest(p) ==
  /\ pc = "request" /\ ~Contains(waiting, p) /\ scr.total + C < MaxCells
  /\ pc' = "kbd"
  /\ scr' \in {PutChar(scr), LineFeed(scr)}
  /\ UNCHANGED <<input, ring, pend, control_pid, keyboard, got>>

\* A request of type 3: p comes to the foreground.  It is not answered.
SwitchRequest(p) ==
  /\ pc = "request" /\ ~Contains(waiting, p) /\ scr.total + 2 * C < MaxCells
  /\ pc' = "kbd"
  /\ control_pid' = p
  /\ scr' = LineFeed(PutChar(scr))
  /\ UNCHANGED <<input, ring, pend, keyboard, got>>

\* wait_on has reported the keyboard only.
NoRequest ==
  /\ pc = "request" /\ pc' = "kbd"
  /\ UNCHANGED <<input, ring, pend, control_pid, scr, keyboard, got>>

-----------------------------------------------------------------------------
ConsoleInit ==
  /\ pc = "kbd" /\ kstate = "IDLE" /\ state2 = {}
  /\ line = <<>> /\ typed = 0 /\ got = <<>>
  /\ readable_lines = [i \in 0 .. Ring - 1 |-> <<>>]
  /\ rlh = 0 /\ rlt = 0 /\ rl_off = 0
  /\ pending_read = [i \in 0 .. Ring - 1 |-> [proc |-> NoProc, len |-> 0]]
  /\ ph = 0 /\ pt = 0 /\ waiting = <<>>
  /\ control_pid = First
  /\ scr = [pos_x |-> 0, pos_y |-> 0, offset |-> 0, voff |-> 0, total |-> 0, top |-> 0,
            buffer |-> [k \in 0 .. VBuf - 1 |-> Blank],
            vram |-> [k \in 0 .. R * C |-> Blank]]
  /\ wire = <<>> /\ held = {}

Byte == {E0, E1} \cup
  {"ctrl", "lshift", "rshift", "caps", "char", "tab", "enter", "num", "esc", "back", "fn"}
    \X BOOLEAN

ConsoleNext ==
  \/ \E b \in Byte :
       \/ PrefixByte(b) \/ ModifierByte(b) \/ CharByte(b)
       \/ TabByte(b) \/ EnterByte(b) \/ OtherByte(b)
  \/ KbdDone \/ Serve \/ ServeDone \/ NoRequest
  \/ \E p \in Proc :
       \/ \E len \in Lens : ReadRequest(p, len)
       \/ WriteRequest(p)
       \/ SwitchRequest(p)

ConsoleSpec == ConsoleInit /\ [][ConsoleNext]_consoleVars

-----------------------------------------------------------------------------
(* Properties                                                              *)

\* The entries of a ring from head to tail, tail excluded.
InRing(f, head, tail) == [i \in 1 .. (tail - head) % Ring |-> f[(head + i - 1) % Ring]]

\* What was typed is read: no character is lost, repeated or out of order,
\* over partial reads, full lines and a full ring (main.c:246-256, 337-355).
TextExact ==
  LET left == InRing(readable_lines, rlh, rlt)
      unread == [i \in DOMAIN left |->
                   IF i = 1 THEN SubSeq(left[1], rl_off + 1, Len(left[1])) ELSE left[i]]
  IN  got \o FlattenSeq([i \in DOMAIN unread |-> Text(unread[i])]) \o line
        = [i \in 1 .. typed |-> i]

\* pending_read holds the reads that are not answered, each once and in the
\* order they came (main.c:419, 432-434).
PendingExact ==
  waiting = LET ps == InRing(pending_read, ph, pt) IN [i \in DOMAIN ps |-> ps[i].proc]

\* Lines and reads: both rings hold exactly what is waiting.
LinesExact == TextExact /\ PendingExact

\* Between two keys the flags of state2 are the modifiers that are down: the
\* bytes of prefixed keys are never taken for others (main.c:274-325).
ModifiersHeld ==
  wire = <<>> => kstate = "IDLE" /\ state2 \ {"caps"} = held

\* The screen shows the end of the output up to voff, and no output behind it,
\* however often it has scrolled.  No output is written behind its end, although a
\* line is filled before the screen is scrolled; the one cell behind the end that is
\* written at all gets a blank, from blit (main.c:112-146, 160).
ScreenTail ==
  /\ scr.voff < R * C /\ scr.top <= R * C + 1
  /\ \A k \in 0 .. R * C :
       scr.vram[k] = IF k < scr.voff THEN scr.total - scr.voff + k ELSE Blank

\* The server never goes back to sleep with a line in store and a read that
\* waits for one (main.c:416-421, 431) ...
NobodyWaits == pc = "request" /\ pc' = "kbd" => rlh' = rlt' \/ ph' = pt'

\* ... and answers the reads that wait first come, first served.
ServedInOrder ==
  \A p \in Proc : Contains(waiting, p) /\ ~Contains(waiting', p) => p = Head(waiting)

\* Both, for every step.
ReadsServed == [][NobodyWaits /\ ServedInOrder]_consoleVars
=============================================================================
